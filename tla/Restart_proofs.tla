---------------------------- MODULE Restart_proofs ----------------------------
(***************************************************************************)
(* What holds of Restart for every number of conversations, handlers and   *)
(* slots, every budget, and every number of deaths and starts.             *)
(***************************************************************************)
EXTENDS Restart, Queues_proofs, FiniteSetTheorems

\* The copy a thread makes is of a conversation the order knows, its list of
\* files is empty but while it deletes, and its file is open while it writes.
CopyOf(t) ==
    /\ sv[t].pc \in {"claim", "save", "hold"} => sv[t].conv \in Range(used)
    /\ sv[t].pc # "drop" => sv[t].spent = {}
    /\ sv[t].fd # "none" => sv[t].pc \in {"write", "rename"}

\* A handler's conversation is in the order, and it makes a copy only while it
\* ensures, or clears one it has forgotten.
TurnOf(h) ==
    /\ serve[h].pc # "idle" => serve[h].conv \in Range(used)
    /\ serve[h].pc \notin {"ensure", "forgot"} => sv[h].pc = "idle"

\* What a record says a conversation has, the order knows.
UsedCovers ==
    \A c \in Convs : rec[c].slot # NoSlot \/ rec[c].copy # "none" => c \in Range(used)

\* While nothing is served only the main thread has anything to do.
OnlyMain ==
    /\ jobs = <<>>
    /\ \A h \in Handlers : serve[h].pc = "idle"
    /\ \A t \in Threads \ {Main} : sv[t] = Resting
    /\ sv[Main].pc \notin {"claim", "save", "hold"}

Control ==
    /\ TypeOK
    /\ Running => UsedCovers /\ \A h \in Handlers : TurnOf(h)
    /\ \A t \in Threads : CopyOf(t)
    /\ ~Serving => OnlyMain

\* Who took its rows alone is alone, and the spare holds what it wrote.
AloneWrites ==
    \A t \in Writing : sv[t].alone =>
        /\ Writing = {t}
        /\ sv[t].pc = "write" => sv[t].fd = "spare" /\ spare = Blank
        /\ sv[t].pc = "rename" => spare = Text("rows", sv[t].rows)

\* The map a lone save put in place is whole and forced down, and no thread has it open.
CleanMap ==
    clean => /\ pins.is \in {"gone", "rows"} /\ pins.synced
             /\ \A t \in Writing : sv[t].fd # "pins"

\* Somebody has yet to take the rows.
Coming == \E t \in Threads : sv[t].pc \in {"drop", "map"}

\* What a lone save took is every copy recorded, but those of a save to come.
AloneCovers ==
    \A t \in Writing : sv[t].alone => Coming \/ Parked(rec) \subseteq Range(sv[t].rows)

\* RecordedIsVouched, by what there is to come.
Covered ==
    \A c \in Parked(rec) \ Range(Vouched) :
        Coming \/ \E t \in Writing : c \in Range(sv[t].rows)

Mapping == AloneWrites /\ CleanMap /\ AloneCovers /\ (Running /\ clean => Covered)

\* While the router starts, the files are those of the records and those the
\* main thread has still to delete.
Adopting ==
    main.pc \in {"adopting", "adopted"} =>
        /\ \A c \in Convs : file[c] # "none" <=> (rec[c].copy # "none" \/ c \in sv[Main].spent)
        /\ \A c \in sv[Main].spent : rec[c].copy = "none"
        /\ Cardinality(Parked(rec)) <= ParkBudget
        /\ main.pc = "adopted" => sv[Main].pc = "idle"

IInv == Control /\ Mapping /\ Adopting

-------------------------------------------------------------------------------
\* What the helpers return.

\* The library has two names for what a sequence holds.
LEMMA SameRange == \A s : ToSet(s) = Range(s)
  BY DEF ToSet, Range

\* A thread at rest, a record of nothing and a handler that waits are of their types.
LEMMA RestTyped ==
  /\ Resting \in Copies /\ Nothing \in Records
  /\ Resting.pc = "idle" /\ Resting.conv = NoConv /\ Resting.slot = NoSlot
  /\ Resting.spent = {} /\ Resting.rows = <<>> /\ Resting.fd = "none"
  /\ Gone \in Sentences /\ Blank \in Sentences
<1>1. <<>> \in Seq(Convs)
  OBVIOUS
<1> QED
  BY <1>1 DEF Resting, Copies, Nothing, Records, Gone, Blank, Sentences

\* Rows make a map.
LEMMA TextTyped ==
  ASSUME NEW rows \in Seq(Convs)
  PROVE  /\ Text("rows", rows) \in Sentences
         /\ Text("rows", rows).is = "rows" /\ Text("rows", rows).rows = rows
         /\ Text("rows", rows).synced
         /\ Text("garbled", <<>>) \in Sentences
<1>1. <<>> \in Seq(Convs)
  OBVIOUS
<1> QED
  BY <1>1 DEF Text, Sentences

\* What is written at the start of a file is a map, whole or not, and over an
\* empty file it is whole.
LEMMA OverlayTyped ==
  ASSUME NEW rows \in Seq(Convs), NEW old \in Sentences
  PROVE  /\ Overlay(rows, old) \subseteq Sentences
         /\ Overlay(rows, Blank) = {Text("rows", rows)}
  BY TextTyped DEF Overlay, Blank

\* What the map vouches for are conversations.
LEMMA VouchedTyped ==
  ASSUME pins \in Sentences
  PROVE  Vouched \in Seq(Convs)
<1>1. <<>> \in Seq(Convs)
  OBVIOUS
<1> QED
  BY <1>1 DEF Vouched, Sentences

\* The order loses nobody when one comes last.
LEMMA LatestTyped ==
  ASSUME used \in Seq(Convs), NEW c \in Convs
  PROVE  Latest(c) \in Seq(Convs) /\ Range(Latest(c)) = Range(used) \cup {c}
<1> DEFINE w == Without(used, {c})
<1>1. w \in Seq(Convs) /\ Range(w) = Range(used) \ {c}
  BY WithoutRange
<1>2. Latest(c) = Append(w, c)
  BY DEF Latest
<1> HIDE DEF w
<1>3. Range(Append(w, c)) = Range(w) \cup {c}
  BY <1>1, AppendRange
<1> QED
  BY <1>1, <1>2, <1>3

\* What is doomed has a copy, and is not the one to keep.
LEMMA DoomedTyped ==
  ASSUME used \in Seq(Convs), NEW R, NEW keep
  PROVE  Doomed(R, keep) \subseteq Parked(R) \ {keep}
<1> DEFINE held == Pick(used, Parked(R) \ {keep})
<1>1. held \in Seq(Convs) /\ Range(held) = Range(used) \cap (Parked(R) \ {keep})
  BY PickRange
<1>2. \A i \in 1..Len(held) : held[i] \in Range(held)
  BY <1>1, MemberOf
<1>3. Doomed(R, keep) \subseteq {held[i] : i \in 1..Len(held)}
  BY DEF Doomed
<1> HIDE DEF held
<1> QED
  BY <1>1, <1>2, <1>3

\* What is trimmed has no copy, and the rest of its record stays.
LEMMA TrimmedTyped ==
  ASSUME NEW R \in [Convs -> Records], NEW gone
  PROVE  /\ Trimmed(R, gone) \in [Convs -> Records]
         /\ Parked(Trimmed(R, gone)) = Parked(R) \ gone
         /\ \A c \in Convs : /\ Trimmed(R, gone)[c].slot = R[c].slot
                             /\ Trimmed(R, gone)[c].copy = IF c \in gone THEN "none" ELSE R[c].copy
<1>1. ASSUME NEW c \in Convs
      PROVE  /\ Trimmed(R, gone)[c] \in Records
             /\ Trimmed(R, gone)[c].slot = R[c].slot
             /\ Trimmed(R, gone)[c].copy = IF c \in gone THEN "none" ELSE R[c].copy
  <2>1. R[c] \in Records
    OBVIOUS
  <2> QED
    BY <2>1 DEF Trimmed, Records
<1>2. Trimmed(R, gone) \in [Convs -> Records]
  <2>1. Trimmed(R, gone) = [c \in Convs |-> Trimmed(R, gone)[c]]
    BY DEF Trimmed
  <2> QED
    BY <1>1, <2>1
<1>3. Parked(Trimmed(R, gone)) = Parked(R) \ gone
  BY <1>1 DEF Parked
<1> QED
  BY <1>1, <1>2, <1>3

\* The least recently used of those at risk is one of them.
LEMMA PickedTyped ==
  ASSUME used \in Seq(Convs), NEW S, S # {}, S \subseteq Range(used)
  PROVE  Pick(used, S)[1] \in S
<1> DEFINE p == Pick(used, S)
<1>1. p \in Seq(Convs) /\ Range(p) = S
  <2>1. Range(used) \cap S = S
    OBVIOUS
  <2> QED
    BY <2>1, PickRange
<1>2. Range(p) = {p[i] : i \in 1..Len(p)} /\ Pick(used, S) = p
  BY <1>1, MemberOf
<1> HIDE DEF p
<1>3. 1 \in 1..Len(p)
  BY <1>1, <1>2
<1> QED
  BY <1>1, <1>2, <1>3

\* A copy that a thread begins: it reads a slot.
LEMMA CopyTyped ==
  ASSUME TypeOK, NEW t \in Threads, NEW c \in Convs, rec[c].slot # NoSlot,
         NEW pc \in {"claim", "save"}, Copy(t, c, pc)
  PROVE  /\ sv' \in [Threads -> Copies]
         /\ \A u \in Threads \ {t} : sv'[u] = sv[u]
         /\ sv'[t].pc = pc /\ sv'[t].conv = c /\ sv'[t].slot # NoSlot
         /\ sv'[t].spent = {} /\ sv'[t].fd = "none"
<1> DEFINE r == [Resting EXCEPT !.pc = pc, !.conv = c, !.slot = rec[c].slot,
                                !.mine = TRUE, !.fresh = TRUE]
<1>1. rec[c] \in Records /\ sv \in [Threads -> Copies]
  BY DEF TypeOK
<1>2. /\ r \in Copies /\ r.pc = pc /\ r.conv = c /\ r.slot = rec[c].slot
      /\ r.spent = {} /\ r.fd = "none"
  BY <1>1, RestTyped DEF Copies, Resting, Records
<1>3. sv' = [sv EXCEPT ![t] = r]
  BY DEF Copy
<1> HIDE DEF r
<1> QED
  BY <1>1, <1>2, <1>3

\* A thread that begins to delete.
LEMMA ClearTyped ==
  ASSUME TypeOK, NEW t \in Threads, NEW spent \in SUBSET Convs, Clear(t, spent)
  PROVE  /\ sv' \in [Threads -> Copies]
         /\ \A u \in Threads \ {t} : sv'[u] = sv[u]
         /\ sv'[t].pc = "drop" /\ sv'[t].spent = spent /\ sv'[t].fd = "none"
<1> DEFINE r == [Resting EXCEPT !.pc = "drop", !.spent = spent]
<1>1. sv \in [Threads -> Copies]
  BY DEF TypeOK
<1>2. r \in Copies /\ r.pc = "drop" /\ r.spent = spent /\ r.fd = "none"
  BY RestTyped DEF Copies, Resting
<1>3. sv' = [sv EXCEPT ![t] = r]
  BY DEF Clear
<1> HIDE DEF r
<1> QED
  BY <1>1, <1>2, <1>3

-------------------------------------------------------------------------------
\* What is kept by a step that moves one thread.

Moved(t) ==
    /\ sv' \in [Threads -> Copies]
    /\ \A u \in Threads \ {t} : sv'[u] = sv[u]

\* The other threads are where they were, whatever became of the map they write.
Aside(t) ==
    /\ sv' \in [Threads -> Copies]
    /\ \A u \in Threads \ {t} :
         /\ sv'[u].pc = sv[u].pc /\ sv'[u].conv = sv[u].conv
         /\ sv'[u].spent = sv[u].spent
         /\ sv'[u].fd # "none" => sv[u].fd # "none"
         /\ sv[u] = Resting => sv'[u] = Resting

LEMMA MovedAside == \A t \in Threads : Moved(t) => Aside(t)
  BY DEF Moved, Aside

\* A thread at work in a router that serves nothing is the main one.
LEMMA AtWork ==
  ASSUME Control, NEW t \in Threads, sv[t].pc # "idle"
  PROVE  /\ ~Serving => t = Main
         /\ t \in Handlers /\ Running => serve[t].pc \in {"ensure", "forgot"}
  BY RestTyped DEF Control, OnlyMain, TurnOf

\* The threads of the handlers are none of the other two.
LEMMA ThreadsApart == Main \in Threads /\ Worker \in Threads /\ Main \notin Handlers
                      /\ Worker \notin Handlers /\ Handlers \subseteq Threads
                      /\ Main # Worker
  BY Parameters DEF Threads

\* A step of the copy that t is making.
LEMMA ControlStep ==
  ASSUME Control, Running, NEW t \in Threads, sv[t].pc # "idle", Aside(t),
         sv'[t].pc \in {"claim", "save", "hold"} =>
             sv[t].pc \in {"claim", "save"} /\ sv'[t].conv = sv[t].conv,
         sv'[t].pc # "drop" => sv'[t].spent = {},
         sv'[t].fd # "none" => sv'[t].pc \in {"write", "rename"},
         \A c \in Convs : rec'[c].slot # NoSlot \/ rec'[c].copy # "none" => c \in Range(used),
         TypeOK', UNCHANGED <<used, jobs, serve, main>>
  PROVE  Control'
<1>1. UsedCovers' /\ Running' /\ (Serving' <=> Serving)
  BY DEF UsedCovers, Running, Serving
<1>2. \A u \in Threads : CopyOf(u)'
  <2>1. CopyOf(t)'
    <3>1. CopyOf(t)
      BY DEF Control
    <3> QED
      BY <3>1 DEF CopyOf
  <2>2. ASSUME NEW u \in Threads \ {t} PROVE CopyOf(u)'
    BY <2>2 DEF Control, CopyOf, Aside
  <2> QED
    BY <2>1, <2>2
<1>3. \A h \in Handlers : TurnOf(h)'
  <2>1. \A h \in Handlers : TurnOf(h)
    BY DEF Control
  <2>2. ASSUME t \in Handlers PROVE TurnOf(t)'
    BY <2>1, <2>2, AtWork DEF TurnOf
  <2>3. ASSUME NEW h \in Handlers, h # t PROVE TurnOf(h)'
    BY <2>1, <2>3, ThreadsApart DEF TurnOf, Aside
  <2> QED
    BY <2>2, <2>3
<1>4. ~Serving' => OnlyMain'
  <2>1. SUFFICES ASSUME ~Serving PROVE OnlyMain'
    BY <1>1
  <2>2. t = Main /\ OnlyMain
    BY <2>1, AtWork DEF Control
  <2>3. sv'[Main].pc \notin {"claim", "save", "hold"}
    BY <2>2, Zenon DEF OnlyMain
  <2> QED
    BY <2>2, <2>3 DEF OnlyMain, Aside
<1> QED
  BY <1>1, <1>2, <1>3, <1>4 DEF Control

\* The thread is as far with the map as it was, and what it had yet to take it
\* has yet to take.
Steady(u) ==
    /\ u \in Writing <=> sv'[u].pc \in {"open", "write", "rename"}
    /\ u \in Writing => /\ sv'[u].pc = sv[u].pc /\ sv'[u].fd = sv[u].fd
                        /\ sv'[u].rows = sv[u].rows /\ sv'[u].alone = sv[u].alone
    /\ sv[u].pc \in {"drop", "map"} => sv'[u].pc \in {"drop", "map"}

\* A step that touches neither the map nor who writes it.
LEMMA MappingKept ==
  ASSUME Mapping, UNCHANGED <<pins, spare, clean>>, Running' => Running,
         \A u \in Threads : Steady(u),
         Coming' \/ Parked(rec') \subseteq Parked(rec)
  PROVE  Mapping'
<1>1. Writing' = Writing /\ Writing \subseteq Threads
  BY DEF Writing, Steady
<1>2. Coming => Coming'
  BY DEF Coming, Steady
<1>3. \A u \in Writing : /\ sv'[u].pc = sv[u].pc /\ sv'[u].fd = sv[u].fd
                         /\ sv'[u].rows = sv[u].rows /\ sv'[u].alone = sv[u].alone
  BY <1>1 DEF Steady
<1>4. AloneWrites'
  BY <1>1, <1>3 DEF Mapping, AloneWrites
<1>5. CleanMap'
  BY <1>1, <1>3 DEF Mapping, CleanMap
<1>6. AloneCovers'
  <2>1. SUFFICES ASSUME NEW u \in Writing, sv[u].alone, ~Coming'
                 PROVE  Parked(rec') \subseteq Range(sv[u].rows)
    BY <1>1, <1>3 DEF AloneCovers
  <2> QED
    BY <1>2, <2>1 DEF Mapping, AloneCovers
<1>7. Running' /\ clean' => Covered'
  <2>1. SUFFICES ASSUME Running, clean, ~Coming',
                        NEW c \in Parked(rec') \ Range(Vouched)
                 PROVE  \E u \in Writing : c \in Range(sv[u].rows)
    BY <1>1, <1>3 DEF Covered, Vouched
  <2> QED
    BY <1>2, <2>1 DEF Mapping, Covered
<1> QED
  BY <1>4, <1>5, <1>6, <1>7 DEF Mapping

\* Nobody stops, or begins, to write by a step of a thread that does neither.
LEMMA SteadyMoved ==
  ASSUME NEW t \in Threads, Moved(t), t \notin Writing,
         sv'[t].pc \notin {"open", "write", "rename"},
         sv[t].pc \in {"drop", "map"} => sv'[t].pc \in {"drop", "map"}
  PROVE  \A u \in Threads : Steady(u)
<1>1. Steady(t)
  BY DEF Steady
<1>2. ASSUME NEW u \in Threads, u # t PROVE Steady(u)
  BY <1>2 DEF Steady, Moved, Writing
<1> QED
  BY <1>1, <1>2

\* A step of a start that deletes nothing.
LEMMA AdoptingKept ==
  ASSUME TypeOK, Adopting, main.pc = "adopting", UNCHANGED <<main, file>>,
         sv'[Main].spent = sv[Main].spent,
         \A c \in Convs : rec'[c].copy = rec[c].copy
  PROVE  Adopting'
<1>1. Parked(rec') = Parked(rec)
  BY DEF Parked
<1>2. main' = main /\ file' = file /\ main'.pc # "adopted"
  OBVIOUS
<1>3. \A c \in Convs : file'[c] # "none" <=> (rec'[c].copy # "none" \/ c \in sv'[Main].spent)
  BY <1>2 DEF Adopting
<1>4. \A c \in sv'[Main].spent : rec'[c].copy = "none"
  <2>1. sv[Main].spent \subseteq Convs
    BY ThreadsApart DEF TypeOK, Copies
  <2> QED
    BY <2>1 DEF Adopting
<1> QED
  BY <1>1, <1>2, <1>3, <1>4 DEF Adopting

-------------------------------------------------------------------------------
\* The start.

LEMMA InitIInv == Init => IInv
<1> SUFFICES ASSUME Init PROVE IInv
  OBVIOUS
<1>1. /\ \A t \in Threads : sv[t] = Resting
      /\ \A c \in Convs : rec[c] = Nothing /\ file[c] = "none"
      /\ \A h \in Handlers : serve[h] = Waiting
      /\ main.pc = "adopting" /\ jobs = <<>> /\ used = <<>>
  BY DEF Init
<1>2. TypeOK
  <2>1. Waiting \in [pc : {"idle", "ensure", "taken", "forgot", "replied"},
                     conv : Convs \cup {NoConv}, tried : SUBSET Convs]
    BY DEF Waiting
  <2>2. jobs \in Seq([conv : Convs, slot : Slots]) /\ used \in Seq(Convs)
    BY <1>1
  <2> QED
    BY <1>1, <2>1, <2>2, RestTyped DEF Init, TypeOK
<1>3. Nothing.slot = NoSlot /\ Nothing.copy = "none" /\ Waiting.pc = "idle"
  BY DEF Nothing, Waiting
<1>4. Control
  <2>1. UsedCovers /\ OnlyMain
    BY <1>1, <1>3, RestTyped, ThreadsApart DEF UsedCovers, OnlyMain
  <2>2. \A t \in Threads : CopyOf(t)
    BY <1>1, RestTyped DEF CopyOf
  <2>3. \A h \in Handlers : TurnOf(h)
    BY <1>1, <1>3, RestTyped, ThreadsApart DEF TurnOf
  <2> QED
    BY <1>2, <2>1, <2>2, <2>3 DEF Control
<1>5. Parked(rec) = {} /\ Writing = {}
  BY <1>1, <1>3, RestTyped DEF Parked, Writing
<1>6. Mapping
  <2>1. pins.is = "gone" /\ pins.synced
    BY DEF Init, Gone
  <2> QED
    BY <1>5, <2>1 DEF Mapping, AloneWrites, CleanMap, AloneCovers, Covered
<1>7. Adopting
  <2>1. Cardinality(Parked(rec)) = 0 /\ sv[Main].spent = {}
    BY <1>1, <1>5, FS_EmptySet, ThreadsApart, RestTyped
  <2> QED
    BY <1>1, <1>3, <2>1, Parameters DEF Adopting
<1> QED
  BY <1>4, <1>6, <1>7 DEF IInv

-------------------------------------------------------------------------------
\* The steps of a copy.

\* Once requests are served nothing is left of the start.
LEMMA AdoptingServed ==
  ASSUME Serving, UNCHANGED main
  PROVE  Adopting'
  BY DEF Adopting, Serving

\* Nothing is saved before requests are served.
LEMMA SavesServed ==
  ASSUME Control, NEW t \in Threads, sv[t].pc \in {"claim", "save", "hold"}
  PROVE  Serving
<1>1. ~Serving => t = Main /\ OnlyMain
  BY AtWork DEF Control
<1> QED
  BY <1>1 DEF OnlyMain

Jobs == [conv : Convs, slot : Slots]

\* Control says of what a step finds: records, threads and handlers of their types.
LEMMA Found ==
  ASSUME Control
  PROVE  /\ rec \in [Convs -> Records] /\ used \in Seq(Convs)
         /\ jobs \in Seq(Jobs)
         /\ sv \in [Threads -> Copies]
         /\ file \in [Convs -> {"none", "older", "latest"}]
         /\ pins \in Sentences /\ spare \in Sentences
         /\ clean \in BOOLEAN /\ quiet \in SUBSET Convs
         /\ \A t \in Threads : sv[t].pc \in {"claim", "save"} => sv[t].slot # NoSlot
         /\ Running => \A c \in Convs : rec[c].slot # NoSlot \/ rec[c].copy # "none" => c \in Range(used)
         /\ \A t \in Threads : CopyOf(t)
  BY DEF Control, TypeOK, UsedCovers, Jobs

LEMMA ClaimIInv ==
  ASSUME IInv, Running, NEW t \in Threads, Claim(t)
  PROVE  IInv'
<1> DEFINE r == [sv[t] EXCEPT !.pc = "save", !.mine = TRUE]
<1>1. /\ sv[t].pc = "claim" /\ sv[t].spent = {} /\ sv[t].fd = "none" /\ sv[t] \in Copies
      /\ Control
  BY Found DEF Claim, IInv, CopyOf
<1>2. /\ UNCHANGED <<rec, used, jobs, serve, main, file, pins, spare, clean, quiet>>
      /\ sv' = [sv EXCEPT ![t] = r]
  BY DEF Claim, disk
<1>3. /\ r \in Copies /\ r.pc = "save" /\ r.conv = sv[t].conv /\ r.slot = sv[t].slot
      /\ r.spent = {} /\ r.fd = "none"
  BY <1>1 DEF Copies
<1> HIDE DEF r
<1>4. Moved(t) /\ sv'[t] = r
  BY <1>1, <1>2, <1>3, Found DEF Moved
<1>5. TypeOK'
  <2>1. \A u \in Threads : sv'[u].pc \in {"claim", "save"} => sv'[u].slot # NoSlot
    BY <1>1, <1>3, <1>4, Found DEF Moved
  <2> QED
    BY <1>1, <1>2, <1>4, <2>1 DEF Moved, Control, TypeOK
<1>6. Control'
  BY <1>1, <1>2, <1>3, <1>4, <1>5, ControlStep, MovedAside, Found
<1>7. Mapping'
  <2>1. \A u \in Threads : Steady(u)
    BY <1>1, <1>3, <1>4, SteadyMoved DEF Writing
  <2>2. (Running' => Running) /\ Parked(rec') \subseteq Parked(rec)
    BY <1>2
  <2> QED
    BY <1>2, <2>1, <2>2, MappingKept DEF IInv
<1>8. Adopting'
  BY <1>1, <1>2, SavesServed, AdoptingServed
<1> QED
  BY <1>6, <1>7, <1>8 DEF IInv

LEMMA SaveIInv ==
  ASSUME IInv, Running, NEW t \in Threads, Save(t)
  PROVE  IInv'
<1>1. /\ sv[t].pc = "save" /\ sv[t].spent = {} /\ sv[t].fd = "none" /\ sv[t] \in Copies
      /\ Control
  BY Found DEF Save, IInv, CopyOf
<1>2. /\ Moved(t) /\ sv'[t].pc = "hold" /\ sv'[t].conv = sv[t].conv
      /\ sv'[t].spent = {} /\ sv'[t].fd = "none"
  <2>1. CASE sv' = [sv EXCEPT ![t].pc = "hold", ![t].ok = TRUE]
    <3> DEFINE r == [sv[t] EXCEPT !.pc = "hold", !.ok = TRUE]
    <3>1. /\ r \in Copies /\ r.pc = "hold" /\ r.conv = sv[t].conv
          /\ r.spent = {} /\ r.fd = "none"
      BY <1>1 DEF Copies
    <3>2. sv' = [sv EXCEPT ![t] = r]
      BY <2>1
    <3> HIDE DEF r
    <3> QED
      BY <1>1, <3>1, <3>2, Found DEF Moved
  <2>2. CASE sv' = [sv EXCEPT ![t].pc = "hold"]
    <3> DEFINE r == [sv[t] EXCEPT !.pc = "hold"]
    <3>1. /\ r \in Copies /\ r.pc = "hold" /\ r.conv = sv[t].conv
          /\ r.spent = {} /\ r.fd = "none"
      BY <1>1 DEF Copies
    <3>2. sv' = [sv EXCEPT ![t] = r]
      BY <2>2
    <3> HIDE DEF r
    <3> QED
      BY <1>1, <3>1, <3>2, Found DEF Moved
  <2> QED
    BY <2>1, <2>2 DEF Save
<1>3. TypeOK'
  <2>1. file' \in [Convs -> {"none", "older", "latest"}]
    <3>1. Age(t) \in {"older", "latest"}
      BY DEF Age
    <3>2. file' = [file EXCEPT ![sv[t].conv] = Age(t)] \/ file' = file
      BY DEF Save
    <3> QED
      BY <1>1, <3>1, <3>2, Found
  <2>2. \A u \in Threads : sv'[u].pc \in {"claim", "save"} => sv'[u].slot # NoSlot
    BY <1>1, <1>2, Found DEF Moved
  <2> QED
    BY <1>1, <1>2, <2>1, <2>2 DEF Save, Moved, Control, TypeOK
<1>4. UNCHANGED <<rec, used, jobs, serve, main, pins, spare, clean>>
  BY DEF Save
<1>5. Control'
  BY <1>1, <1>2, <1>3, <1>4, ControlStep, MovedAside, Found
<1>6. Mapping'
  <2>1. \A u \in Threads : Steady(u)
    BY <1>1, <1>2, SteadyMoved DEF Writing
  <2>2. Running' => Running
    OBVIOUS
  <2> QED
    BY <1>4, <2>1, <2>2, MappingKept DEF IInv
<1>7. Adopting'
  BY <1>1, <1>4, SavesServed, AdoptingServed
<1> QED
  BY <1>5, <1>6, <1>7 DEF IInv

LEMMA HoldIInv ==
  ASSUME IInv, Running, NEW t \in Threads, Hold(t)
  PROVE  IInv'
<1> DEFINE c == sv[t].conv
           R == IF sv[t].ok THEN [rec EXCEPT ![c].copy = Filed(t)] ELSE rec
           doomed == Doomed(R, c)
           pc == CASE doomed # {} -> "drop" [] doomed = {} /\ sv[t].ok -> "map" [] OTHER -> "end"
           r == [sv[t] EXCEPT !.spent = doomed, !.ok = FALSE, !.mine = FALSE, !.fresh = FALSE,
                             !.pc = pc]
<1>1. /\ sv[t].pc = "hold" /\ sv[t].fd = "none" /\ sv[t] \in Copies /\ c \in Range(used)
      /\ c \in Convs /\ Control
  <2>1. sv[t].pc = "hold"
    BY DEF Hold
  <2>2. Control /\ sv[t].fd = "none" /\ sv[t] \in Copies /\ c \in Range(used)
    BY <2>1, Found DEF IInv, CopyOf
  <2> QED
    BY <2>1, <2>2, Found, MemberOf
<1>2. /\ rec' = Trimmed(R, doomed)
      /\ sv' = [sv EXCEPT ![t].spent = doomed, ![t].ok = FALSE, ![t].mine = FALSE,
                          ![t].fresh = FALSE, ![t].pc = pc]
      /\ quiet' = (IF sv[t].ok /\ file[c] = Filed(t) THEN quiet ELSE quiet \ {c}) \ doomed
      /\ UNCHANGED <<used, jobs, serve, main, file, pins, spare, clean>>
  BY DEF Hold, disk
<1>3. /\ R \in [Convs -> Records]
      /\ \A d \in Convs : /\ R[d].slot = rec[d].slot
                          /\ R[d].copy # "none" => rec[d].copy # "none" \/ d = c
      /\ ~sv[t].ok => R = rec
  <2>1. Filed(t) \in {"older", "latest"}
    BY DEF Filed
  <2>2. rec[c] \in Records /\ [rec[c] EXCEPT !.copy = Filed(t)] \in Records
    BY <1>1, <2>1, Found DEF Records
  <2>3. [rec[c] EXCEPT !.copy = Filed(t)].slot = rec[c].slot
    BY <2>2 DEF Records
  <2> QED
    BY <1>1, <2>2, <2>3, Found
<1> HIDE DEF R
<1>4. doomed \subseteq Convs
  BY <1>1, DoomedTyped, Found DEF Parked
<1>5. /\ rec' \in [Convs -> Records]
      /\ Parked(rec') = Parked(R) \ doomed
      /\ \A d \in Convs : /\ rec'[d].slot = rec[d].slot
                          /\ rec'[d].copy # "none" => rec[d].copy # "none" \/ d = c
  BY <1>2, <1>3, TrimmedTyped
<1> HIDE DEF doomed
<1>6. /\ pc \in {"drop", "map", "end"} /\ (pc # "drop" => doomed = {})
      /\ pc = "end" => doomed = {} /\ ~sv[t].ok
  OBVIOUS
<1> HIDE DEF pc
<1>7. r \in Copies /\ r.pc = pc /\ r.spent = doomed /\ r.fd = "none"
  BY <1>1, <1>4, <1>6 DEF Copies
<1>8. sv' = [sv EXCEPT ![t] = r]
  BY <1>2, Zenon
<1> HIDE DEF r
<1>9. Moved(t) /\ sv'[t].pc = pc /\ sv'[t].spent = doomed /\ sv'[t].fd = "none"
  BY <1>1, <1>7, <1>8, Found DEF Moved
<1>10. TypeOK'
  <2>1. \A u \in Threads : sv'[u].pc \in {"claim", "save"} => sv'[u].slot # NoSlot
    BY <1>1, <1>6, <1>9, Found DEF Moved
  <2>2. quiet' \in SUBSET Convs
    BY <1>1, <1>2, Found
  <2> QED
    BY <1>1, <1>2, <1>5, <1>9, <2>1, <2>2 DEF Moved, Control, TypeOK
<1>11. Control'
  BY <1>1, <1>2, <1>5, <1>6, <1>9, <1>10, ControlStep, MovedAside, Found
<1>12. Mapping'
  <2>1. \A u \in Threads : Steady(u)
    BY <1>1, <1>6, <1>9, SteadyMoved DEF Writing
  <2>2. Coming' \/ Parked(rec') \subseteq Parked(rec)
    <3>1. CASE pc \in {"drop", "map"}
      BY <1>9, <3>1 DEF Coming
    <3>2. CASE pc = "end"
      BY <1>3, <1>5, <1>6, <3>2
    <3> QED
      BY <1>6, <3>1, <3>2
  <2>3. Running' => Running
    OBVIOUS
  <2> QED
    BY <1>2, <2>1, <2>2, <2>3, MappingKept DEF IInv
<1>13. Adopting'
  BY <1>1, <1>2, SavesServed, AdoptingServed
<1> QED
  BY <1>11, <1>12, <1>13 DEF IInv

\* A step of the copy that t is making, which leaves the files and the list of
\* files to delete as they were.
LEMMA AdoptingStep ==
  ASSUME Control, Running, Adopting, NEW t \in Threads, sv[t].pc # "idle", Aside(t),
         sv'[t].spent = sv[t].spent, UNCHANGED <<main, file>>,
         \A c \in Convs : rec'[c].copy = rec[c].copy
  PROVE  Adopting'
<1>1. CASE Serving
  BY <1>1, AdoptingServed
<1>2. CASE ~Serving
  <2>1. t = Main /\ main.pc \in {"adopting", "adopted"}
    BY <1>2, AtWork DEF Running, Serving, Control, TypeOK
  <2>2. main.pc = "adopting"
    BY <2>1 DEF Adopting
  <2> QED
    BY <2>1, <2>2, AdoptingKept DEF Control
<1> QED
  BY <1>1, <1>2

LEMMA DropIInv ==
  ASSUME IInv, Running, NEW t \in Threads, Drop(t)
  PROVE  IInv'
<1>1. PICK c \in sv[t].spent :
        /\ file' = [file EXCEPT ![c] = "none"]
        /\ sv' = [sv EXCEPT ![t].spent = @ \ {c},
                            ![t].pc = IF sv[t].spent = {c} THEN "map" ELSE "drop"]
  BY DEF Drop
<1> DEFINE pc == IF sv[t].spent = {c} THEN "map" ELSE "drop"
           r == [sv[t] EXCEPT !.spent = sv[t].spent \ {c}, !.pc = pc]
<1>2. /\ sv[t].pc = "drop" /\ sv[t].fd = "none" /\ sv[t] \in Copies
      /\ Control /\ c \in Convs
  <2>1. sv[t].pc = "drop"
    BY DEF Drop
  <2>2. Control /\ sv[t].fd = "none" /\ sv[t] \in Copies
    BY <2>1, Found DEF IInv, CopyOf
  <2> QED
    BY <2>1, <2>2 DEF Copies
<1>3. UNCHANGED <<rec, used, jobs, serve, main, pins, spare, clean, quiet>>
  BY DEF Drop
<1>4. pc \in {"drop", "map"} /\ (pc = "map" => sv[t].spent \ {c} = {})
  OBVIOUS
<1>5. sv' = [sv EXCEPT ![t] = r]
  BY <1>1, Zenon
<1> HIDE DEF pc
<1>6. r \in Copies /\ r.pc = pc /\ r.spent = sv[t].spent \ {c} /\ r.fd = "none"
  BY <1>2, <1>4 DEF Copies
<1> HIDE DEF r
<1>7. Moved(t) /\ sv'[t].pc = pc /\ sv'[t].spent = sv[t].spent \ {c} /\ sv'[t].fd = "none"
  BY <1>2, <1>5, <1>6, Found DEF Moved
<1>8. TypeOK'
  <2>1. \A u \in Threads : sv'[u].pc \in {"claim", "save"} => sv'[u].slot # NoSlot
    BY <1>2, <1>4, <1>7, Found DEF Moved
  <2>2. file' \in [Convs -> {"none", "older", "latest"}]
    BY <1>1, <1>2, Found
  <2> QED
    BY <1>2, <1>3, <1>7, <2>1, <2>2 DEF Moved, Control, TypeOK
<1>9. Control'
  BY <1>2, <1>3, <1>4, <1>7, <1>8, ControlStep, MovedAside, Found
<1>10. Mapping'
  <2>1. \A u \in Threads : Steady(u)
    BY <1>2, <1>4, <1>7, SteadyMoved DEF Writing
  <2>2. Running' => Running
    OBVIOUS
  <2> QED
    BY <1>3, <2>1, <2>2, MappingKept DEF IInv
<1>11. Adopting'
  <2>1. CASE Serving
    BY <1>3, <2>1, AdoptingServed
  <2>2. CASE ~Serving
    <3>1. t = Main /\ main.pc = "adopting" /\ Adopting
      BY <1>2, <2>2, AtWork DEF Running, Serving, Control, TypeOK, Adopting, IInv
    <3>2. \A d \in Convs : file'[d] # "none" <=> (rec[d].copy # "none" \/ d \in sv'[Main].spent)
      BY <1>1, <1>2, <1>7, <3>1, Found DEF Adopting
    <3>3. \A d \in sv'[Main].spent : rec[d].copy = "none"
      BY <1>7, <3>1 DEF Adopting
    <3> QED
      BY <1>3, <3>1, <3>2, <3>3 DEF Adopting
  <2> QED
    BY <2>1, <2>2
<1> QED
  BY <1>9, <1>10, <1>11 DEF IInv

LEMMA EndIInv ==
  ASSUME IInv, Running, NEW t \in Threads, End(t)
  PROVE  IInv'
<1>1. /\ sv[t].pc = "end" /\ sv[t].spent = {} /\ sv[t].fd = "none" /\ sv[t] \in Copies
      /\ Control
  BY Found DEF End, IInv, CopyOf
<1>2. Moved(t) /\ sv'[t] = Resting
  BY <1>1, RestTyped, Found DEF End, Moved
<1>3. UNCHANGED <<used, jobs, serve, main, file, pins, spare, clean, quiet>>
  BY DEF End, disk
<1>4. /\ rec' \in [Convs -> Records]
      /\ \A c \in Convs : rec'[c].slot = rec[c].slot /\ rec'[c].copy = rec[c].copy
  <2>1. CASE rec' = rec
    BY <1>1, <2>1, Found
  <2>2. CASE rec' = [rec EXCEPT ![sv[t].conv].parking = FALSE]
    <3>1. ASSUME NEW c \in Convs
          PROVE  rec'[c] \in Records /\ rec'[c].slot = rec[c].slot /\ rec'[c].copy = rec[c].copy
      <4>1. rec[c] \in Records /\ rec'[c] = IF c = sv[t].conv THEN [rec[c] EXCEPT !.parking = FALSE] ELSE rec[c]
        BY <1>1, <2>2, Found
      <4> QED
        BY <4>1 DEF Records
    <3>2. rec' = [c \in Convs |-> rec'[c]]
      BY <1>1, <2>2, Found
    <3> QED
      BY <3>1, <3>2
  <2> QED
    BY <2>1, <2>2 DEF End
<1>5. TypeOK'
  <2>1. \A u \in Threads : sv'[u].pc \in {"claim", "save"} => sv'[u].slot # NoSlot
    BY <1>1, <1>2, RestTyped, Found DEF Moved
  <2> QED
    BY <1>1, <1>2, <1>3, <1>4, <2>1 DEF Moved, Control, TypeOK
<1>6. Control'
  BY <1>1, <1>2, <1>3, <1>4, <1>5, RestTyped, ControlStep, MovedAside, Found
<1>7. Mapping'
  <2>1. \A u \in Threads : Steady(u)
    BY <1>1, <1>2, RestTyped, SteadyMoved DEF Writing
  <2>2. (Running' => Running) /\ Parked(rec') \subseteq Parked(rec)
    BY <1>4 DEF Parked
  <2> QED
    BY <1>3, <2>1, <2>2, MappingKept DEF IInv
<1>8. Adopting'
  BY <1>1, <1>2, <1>3, <1>4, RestTyped, MovedAside, AdoptingStep DEF IInv
<1> QED
  BY <1>6, <1>7, <1>8 DEF IInv

LEMMA TakeRowsIInv ==
  ASSUME IInv, Running, NEW t \in Threads, TakeRows(t)
  PROVE  IInv'
<1> DEFINE rows == Pick(used, Parked(rec))
           r == [sv[t] EXCEPT !.pc = "open", !.alone = (Writing = {}), !.rows = rows]
<1>1. /\ sv[t].pc = "map" /\ sv[t].spent = {} /\ sv[t].fd = "none" /\ sv[t] \in Copies
      /\ Control /\ t \notin Writing /\ Writing \subseteq Threads
  BY Found DEF TakeRows, IInv, CopyOf, Writing
<1>2. /\ UNCHANGED <<rec, used, jobs, serve, main, file, pins, spare, clean, quiet>>
      /\ sv' = [u \in Threads |->
                 CASE u = t -> r
                   [] u # t /\ u \in Writing -> [sv[u] EXCEPT !.alone = FALSE]
                   [] OTHER -> sv[u]]
  BY DEF TakeRows, disk
<1>3. rows \in Seq(Convs) /\ Range(rows) = Parked(rec)
  <2>1. rows \in Seq(Convs) /\ Range(rows) = Range(used) \cap Parked(rec)
    BY <1>1, PickRange, Found
  <2>2. Parked(rec) \subseteq Range(used)
    BY <1>1, Found DEF Parked
  <2> QED
    BY <2>1, <2>2
<1> HIDE DEF rows
<1>4. /\ r \in Copies /\ r.pc = "open" /\ r.spent = {} /\ r.fd = "none"
      /\ r.alone = (Writing = {}) /\ r.rows = rows
  BY <1>1, <1>3 DEF Copies
<1> HIDE DEF r
<1>5. sv'[t] = r
  BY <1>2
<1>6. ASSUME NEW u \in Threads, u # t
      PROVE  /\ sv'[u] \in Copies
             /\ sv'[u].pc = sv[u].pc /\ sv'[u].conv = sv[u].conv /\ sv'[u].slot = sv[u].slot
             /\ sv'[u].spent = sv[u].spent /\ sv'[u].fd = sv[u].fd /\ sv'[u].rows = sv[u].rows
             /\ u \in Writing => ~sv'[u].alone
             /\ u \notin Writing => sv'[u] = sv[u]
  <2>1. sv[u] \in Copies
    BY <1>1, Found
  <2>2. sv'[u] = IF u \in Writing THEN [sv[u] EXCEPT !.alone = FALSE] ELSE sv[u]
    BY <1>2, <1>6
  <2> QED
    BY <2>1, <2>2 DEF Copies
<1>7. Aside(t)
  <2>1. sv' \in [Threads -> Copies]
    BY <1>2, <1>4, <1>5, <1>6
  <2>2. \A u \in Writing : sv[u] # Resting
    BY RestTyped DEF Writing
  <2> QED
    BY <1>6, <2>1, <2>2 DEF Aside
<1>8. TypeOK'
  <2>1. \A u \in Threads : sv'[u].pc \in {"claim", "save"} => sv'[u].slot # NoSlot
    BY <1>1, <1>4, <1>5, <1>6, Found
  <2> QED
    BY <1>1, <1>2, <1>7, <2>1 DEF Aside, Control, TypeOK
<1>9. Control'
  BY <1>1, <1>2, <1>4, <1>5, <1>7, <1>8, ControlStep, Found
<1>10. Writing' = Writing \cup {t}
  BY <1>4, <1>5, <1>6 DEF Writing
<1>11. Mapping'
  <2>1. AloneWrites'
    <3>1. ASSUME NEW u \in Writing PROVE ~sv'[u].alone
      BY <1>1, <1>6, <3>1
    <3>2. sv'[t].pc = "open" /\ (sv'[t].alone => Writing' = {t})
      BY <1>4, <1>5, <1>10
    <3> QED
      BY <1>10, <3>1, <3>2 DEF AloneWrites
  <2>2. CleanMap'
    BY <1>1, <1>2, <1>4, <1>5, <1>6, <1>10 DEF CleanMap, IInv, Mapping
  <2>3. AloneCovers'
    BY <1>1, <1>2, <1>3, <1>4, <1>5, <1>6, <1>10 DEF AloneCovers
  <2>4. Covered'
    BY <1>2, <1>3, <1>4, <1>5, <1>10 DEF Covered
  <2> QED
    BY <2>1, <2>2, <2>3, <2>4 DEF Mapping
<1>12. Adopting'
  BY <1>1, <1>2, <1>4, <1>5, <1>7, AdoptingStep DEF IInv
<1> QED
  BY <1>9, <1>11, <1>12 DEF IInv

\* Where a thread that writes finds the map.
LEMMA Writes ==
  ASSUME IInv, NEW t \in Writing
  PROVE  /\ t \in Threads /\ sv[t] \in Copies /\ sv[t].pc # "idle" /\ sv[t].spent = {}
         /\ Control /\ Mapping /\ Adopting
         /\ \A u \in Writing : sv[u].alone => u = t
         /\ sv[t].alone => Writing = {t}
         /\ sv[t].fd # "none" => sv[t].pc \in {"write", "rename"}
  BY Found DEF IInv, Mapping, AloneWrites, Writing, CopyOf

LEMMA OpenIInv ==
  ASSUME IInv, Running, NEW t \in Threads, Open(t)
  PROVE  IInv'
<1> DEFINE r == [sv[t] EXCEPT !.pc = "write", !.fd = "spare"]
<1>1. sv[t].pc = "open" /\ t \in Writing
  BY DEF Open, Writing
<1>2. /\ sv[t] \in Copies /\ sv[t].pc # "idle" /\ sv[t].spent = {} /\ Control /\ Mapping
      /\ Adopting
      /\ \A u \in Writing : sv[u].alone => u = t
      /\ sv[t].alone => Writing = {t}
  BY <1>1, Writes
<1>3. /\ UNCHANGED <<rec, used, jobs, serve, main, file, pins, clean, quiet>>
      /\ sv' = [sv EXCEPT ![t] = r] /\ spare' = Blank
  BY DEF Open
<1>4. /\ r \in Copies /\ r.pc = "write" /\ r.fd = "spare" /\ r.spent = {}
      /\ r.rows = sv[t].rows /\ r.alone = sv[t].alone
  BY <1>2 DEF Copies
<1> HIDE DEF r
<1>5. Moved(t) /\ sv'[t] = r
  BY <1>2, <1>3, <1>4, Found DEF Moved
<1>6. TypeOK'
  <2>1. \A u \in Threads : sv'[u].pc \in {"claim", "save"} => sv'[u].slot # NoSlot
    BY <1>2, <1>4, <1>5, Found DEF Moved
  <2> QED
    BY <1>2, <1>3, <1>5, <2>1, RestTyped DEF Moved, Control, TypeOK
<1>7. Control'
  BY <1>2, <1>3, <1>4, <1>5, <1>6, ControlStep, MovedAside, Found
<1>8. Writing' = Writing
  BY <1>1, <1>4, <1>5 DEF Writing, Moved
<1>9. Mapping'
  <2>1. \A u \in Writing \ {t} : sv'[u] = sv[u]
    BY <1>5 DEF Writing, Moved
  <2>2. AloneWrites'
    BY <1>2, <1>3, <1>4, <1>5, <1>8, <2>1 DEF AloneWrites
  <2>3. CleanMap'
    BY <1>2, <1>3, <1>4, <1>5, <1>8, <2>1 DEF CleanMap, Mapping
  <2>4. Coming => Coming'
    BY <1>1, <1>5 DEF Coming, Moved
  <2>5. AloneCovers'
    BY <1>2, <1>3, <1>4, <1>5, <1>8, <2>1, <2>4 DEF AloneCovers, Mapping
  <2>6. clean' => Covered'
    <3>1. SUFFICES ASSUME clean, ~Coming', NEW c \in Parked(rec) \ Range(Vouched)
                   PROVE  \E u \in Writing : c \in Range(sv'[u].rows)
      BY <1>3, <1>8 DEF Covered, Vouched
    <3>2. PICK u \in Writing : c \in Range(sv[u].rows)
      BY <1>2, <2>4, <3>1 DEF Mapping, Covered
    <3> QED
      BY <1>4, <1>5, <2>1, <3>2
  <2> QED
    BY <2>2, <2>3, <2>5, <2>6 DEF Mapping
<1>10. Adopting'
  BY <1>2, <1>3, <1>4, <1>5, MovedAside, AdoptingStep
<1> QED
  BY <1>7, <1>9, <1>10 DEF IInv

\* A thread is done with the map; what the others have open may have moved.
LEMMA ClosedTyped ==
  ASSUME Control, NEW t \in Writing, NEW name \in {"gone", "pins"}, sv' = Closed(t, name)
  PROVE  /\ Aside(t)
         /\ sv'[t].pc = "end" /\ sv'[t].spent = {} /\ sv'[t].fd = "none"
         /\ Writing' = Writing \ {t}
         /\ \A u \in Threads \ {t} : sv'[u].pc = sv[u].pc /\ sv'[u].slot = sv[u].slot
         /\ \A u \in Writing' : sv'[u].rows = sv[u].rows /\ sv'[u].alone = sv[u].alone
<1> DEFINE r == [Resting EXCEPT !.pc = "end", !.conv = sv[t].conv, !.slot = sv[t].slot]
<1>1. t \in Threads /\ sv[t] \in Copies
  BY Found DEF Writing
<1>2. r \in Copies /\ r.pc = "end" /\ r.spent = {} /\ r.fd = "none"
  BY <1>1, RestTyped DEF Copies, Resting
<1>3. sv'[t] = r /\ DOMAIN sv' = Threads /\ sv' = [u \in Threads |-> sv'[u]]
  BY <1>1 DEF Closed
<1> HIDE DEF r
<1>4. ASSUME NEW u \in Threads, u # t
      PROVE  /\ sv'[u] \in Copies
             /\ sv'[u].pc = sv[u].pc /\ sv'[u].conv = sv[u].conv /\ sv'[u].slot = sv[u].slot
             /\ sv'[u].spent = sv[u].spent /\ sv'[u].rows = sv[u].rows
             /\ sv'[u].alone = sv[u].alone
             /\ sv'[u].fd # "none" => sv[u].fd # "none"
             /\ sv[u].fd = "none" => sv'[u] = sv[u]
  <2>1. sv[u] \in Copies
    BY Found
  <2>2. \/ sv[u].fd # "none" /\ sv'[u] = [sv[u] EXCEPT !.fd = name]
        \/ sv[u].fd # "none" /\ sv'[u] = [sv[u] EXCEPT !.fd = "gone"]
        \/ sv'[u] = sv[u]
    <3>1. sv'[u] = CASE sv[u].fd = "spare" -> [sv[u] EXCEPT !.fd = name]
                     [] sv[u].fd = "pins" /\ name = "pins" -> [sv[u] EXCEPT !.fd = "gone"]
                     [] OTHER -> sv[u]
      BY <1>4 DEF Closed
    <3> QED
      BY <3>1
  <2> QED
    BY <2>1, <2>2 DEF Copies
<1>5. Aside(t)
  <2>1. sv' \in [Threads -> Copies]
    BY <1>2, <1>3, <1>4
  <2> QED
    BY <1>4, <2>1, RestTyped DEF Aside
<1>6. Writing' = Writing \ {t}
  BY <1>2, <1>3, <1>4 DEF Writing
<1> QED
  BY <1>2, <1>3, <1>4, <1>5, <1>6 DEF Writing

\* What types the state once a thread is done with the map.
LEMMA ClosedControl ==
  ASSUME Control, Running, NEW t \in Writing, NEW name \in {"gone", "pins"},
         sv' = Closed(t, name), pins' \in Sentences, spare' \in Sentences,
         clean' \in BOOLEAN, UNCHANGED <<rec, used, jobs, serve, main, file, quiet>>
  PROVE  Control'
<1>1. /\ Aside(t)
      /\ sv'[t].pc = "end" /\ sv'[t].spent = {} /\ sv'[t].fd = "none"
      /\ \A u \in Threads \ {t} : sv'[u].pc = sv[u].pc /\ sv'[u].slot = sv[u].slot
  BY ClosedTyped
<1>2. t \in Threads /\ sv[t].pc # "idle"
  BY DEF Writing
<1>3. TypeOK'
  <2>1. \A u \in Threads : sv'[u].pc \in {"claim", "save"} => sv'[u].slot # NoSlot
    BY <1>1, <1>2, Found
  <2> QED
    BY <1>1, <2>1 DEF Aside, Control, TypeOK
<1> QED
  BY <1>1, <1>2, <1>3, ControlStep, Found

\* A thread among several has no part in the invariants of a lone one.
LEMMA NotAlone ==
  ASSUME IInv, NEW t \in Writing, NEW name \in {"gone", "pins"}, sv' = Closed(t, name)
  PROVE  AloneWrites' /\ AloneCovers'
<1>1. /\ Writing' = Writing \ {t}
      /\ \A u \in Writing' : sv'[u].alone = sv[u].alone
  BY ClosedTyped, Writes
<1>2. \A u \in Writing' : ~sv'[u].alone
  BY <1>1, Writes
<1> QED
  BY <1>2 DEF AloneWrites, AloneCovers

LEMMA GiveUpIInv ==
  ASSUME IInv, Running, NEW t \in Writing, GiveUp(t),
         UNCHANGED <<rec, used, jobs, serve, main, file, quiet>>
  PROVE  IInv'
<1>1. sv' = Closed(t, "gone") /\ spare' = Gone /\ clean' = FALSE /\ pins' = pins
  BY DEF GiveUp
<1>2. Control /\ Adopting /\ t \in Threads /\ sv[t].pc # "idle" /\ sv[t].spent = {}
  BY Writes
<1>3. Control'
  BY <1>1, <1>2, ClosedControl, RestTyped, Found
<1>4. Mapping'
  BY <1>1, NotAlone DEF Mapping, CleanMap
<1>5. Adopting'
  BY <1>1, <1>2, ClosedTyped, AdoptingStep
<1> QED
  BY <1>3, <1>4, <1>5 DEF IInv

LEMMA RenameIInv ==
  ASSUME IInv, Running, NEW t \in Threads, Rename(t)
  PROVE  IInv'
<1>1. /\ sv[t].pc = "rename" /\ t \in Writing
      /\ UNCHANGED <<rec, used, jobs, serve, main, file, quiet>>
  BY DEF Rename, Writing
<1>2. CASE GiveUp(t)
  BY <1>1, <1>2, GiveUpIInv
<1>3. CASE ~GiveUp(t)
  <2>1. pins' = spare /\ spare' = Gone /\ sv' = Closed(t, "pins") /\ clean' = sv[t].alone
    BY <1>3 DEF Rename
  <2>2. /\ Control /\ Mapping /\ Adopting /\ sv[t].pc # "idle" /\ sv[t].spent = {}
        /\ sv[t] \in Copies
        /\ sv[t].alone => Writing = {t}
    BY <1>1, Writes
  <2>3. sv[t].rows \in Seq(Convs) /\ sv[t].alone \in BOOLEAN
    BY <2>2 DEF Copies
  <2>4. Control'
    BY <1>1, <2>1, <2>2, <2>3, ClosedControl, RestTyped, Found
  <2>5. /\ Writing' = Writing \ {t} /\ Aside(t) /\ sv'[t].spent = {}
        /\ \A u \in Threads \ {t} : sv'[u].pc = sv[u].pc
    BY <1>1, <2>1, <2>2, ClosedTyped
  <2>6. sv[t].alone => spare = Text("rows", sv[t].rows) /\ Writing' = {}
    BY <1>1, <2>2, <2>5 DEF Mapping, AloneWrites
  <2>7. CleanMap'
    BY <2>1, <2>3, <2>6, TextTyped DEF CleanMap
  <2>8. clean' => Covered'
    <3>1. SUFFICES ASSUME sv[t].alone PROVE Covered'
      BY <2>1
    <3>2. Vouched' = sv[t].rows
      BY <2>1, <2>3, <2>6, <3>1, TextTyped DEF Vouched
    <3>3. Coming => Coming'
      BY <1>1, <2>5 DEF Coming
    <3>4. Coming \/ Parked(rec) \subseteq Range(sv[t].rows)
      BY <1>1, <2>2, <3>1 DEF Mapping, AloneCovers
    <3> QED
      BY <1>1, <3>2, <3>3, <3>4 DEF Covered
  <2>9. Adopting'
    BY <1>1, <2>2, <2>5, AdoptingStep
  <2>10. AloneWrites' /\ AloneCovers'
    BY <1>1, <2>1, NotAlone
  <2> QED
    BY <2>4, <2>7, <2>8, <2>9, <2>10 DEF IInv, Mapping
<1> QED
  BY <1>2, <1>3

LEMMA WriteIInv ==
  ASSUME IInv, Running, NEW t \in Threads, Write(t)
  PROVE  IInv'
<1>1. /\ sv[t].pc = "write" /\ t \in Writing
      /\ UNCHANGED <<rec, used, jobs, serve, main, file, quiet>>
  BY DEF Write, Writing
<1>2. CASE GiveUp(t)
  BY <1>1, <1>2, GiveUpIInv
<1>3. CASE ~GiveUp(t)
  <2> DEFINE r == [sv[t] EXCEPT !.pc = "rename"]
  <2>1. /\ sv' = [sv EXCEPT ![t] = r] /\ clean' = clean
        /\ IF sv[t].fd = "spare" THEN spare' \in Overlay(sv[t].rows, spare) ELSE spare' = spare
        /\ IF sv[t].fd = "pins" THEN pins' \in Overlay(sv[t].rows, pins) ELSE pins' = pins
    BY <1>3 DEF Write
  <2>2. /\ Control /\ Mapping /\ Adopting /\ sv[t].pc # "idle" /\ sv[t].spent = {}
        /\ sv[t] \in Copies
        /\ \A u \in Writing : sv[u].alone => u = t
        /\ sv[t].alone => Writing = {t}
    BY <1>1, Writes
  <2>3. sv[t].rows \in Seq(Convs) /\ pins \in Sentences /\ spare \in Sentences
    BY <2>2, Found DEF Copies
  <2>4. /\ r \in Copies /\ r.pc = "rename" /\ r.fd = sv[t].fd /\ r.spent = {}
        /\ r.rows = sv[t].rows /\ r.alone = sv[t].alone
    BY <2>2 DEF Copies
  <2> HIDE DEF r
  <2>5. Moved(t) /\ sv'[t] = r
    BY <2>1, <2>2, <2>4, Found DEF Moved
  <2>6. TypeOK'
    <3>1. \A u \in Threads : sv'[u].pc \in {"claim", "save"} => sv'[u].slot # NoSlot
      BY <2>2, <2>4, <2>5, Found DEF Moved
    <3>2. pins' \in Sentences /\ spare' \in Sentences
      BY <2>1, <2>3, OverlayTyped
    <3> QED
      BY <1>1, <2>1, <2>2, <2>5, <3>1, <3>2 DEF Moved, Control, TypeOK
  <2>7. Control'
    <3>1. sv'[t].fd # "none" => sv'[t].pc \in {"write", "rename"}
      BY <2>4, <2>5
    <3> QED
      BY <1>1, <2>2, <2>4, <2>5, <2>6, <3>1, ControlStep, MovedAside, Found
  <2>8. /\ Writing' = Writing
        /\ \A u \in Writing \ {t} : sv'[u] = sv[u]
        /\ Coming => Coming'
    BY <1>1, <2>4, <2>5 DEF Writing, Coming, Moved
  <2>9. AloneWrites'
    <3>1. SUFFICES ASSUME sv[t].alone PROVE Writing = {t} /\ spare' = Text("rows", sv[t].rows)
      BY <2>2, <2>4, <2>5, <2>8 DEF AloneWrites
    <3>2. sv[t].fd = "spare" /\ spare = Blank
      BY <1>1, <2>2, <3>1 DEF Mapping, AloneWrites
    <3> QED
      BY <2>1, <2>2, <2>3, <3>1, <3>2, OverlayTyped
  <2>10. clean => pins' = pins
    BY <1>1, <2>1, <2>2 DEF Mapping, CleanMap
  <2>11. CleanMap'
    BY <1>1, <2>1, <2>2, <2>4, <2>5, <2>8, <2>10 DEF CleanMap, Mapping
  <2>12. AloneCovers'
    BY <1>1, <2>2, <2>4, <2>5, <2>8 DEF AloneCovers, Mapping
  <2>13. clean' => Covered'
    <3>1. SUFFICES ASSUME clean, ~Coming', NEW c \in Parked(rec) \ Range(Vouched)
                   PROVE  \E u \in Writing : c \in Range(sv'[u].rows)
      BY <1>1, <2>1, <2>8, <2>10 DEF Covered, Vouched
    <3>2. PICK u \in Writing : c \in Range(sv[u].rows)
      BY <2>2, <2>8, <3>1 DEF Mapping, Covered
    <3> QED
      BY <2>4, <2>5, <2>8, <3>2
  <2>14. Adopting'
    BY <1>1, <2>2, <2>4, <2>5, MovedAside, AdoptingStep
  <2> QED
    BY <2>7, <2>9, <2>11, <2>12, <2>13, <2>14 DEF IInv, Mapping
<1> QED
  BY <1>2, <1>3

-------------------------------------------------------------------------------
\* The turns.

Turns == [pc : {"idle", "ensure", "taken", "forgot", "replied"},
          conv : Convs \cup {NoConv}, tried : SUBSET Convs]

\* What a step while requests are served has to keep.
LEMMA ServedIInv ==
  ASSUME IInv, Serving, Serving', TypeOK', UsedCovers', \A h \in Handlers : TurnOf(h)',
         \A t \in Threads : CopyOf(t)', UNCHANGED <<pins, spare, clean>>,
         \A t \in Threads : Steady(t), Coming' \/ Parked(rec') \subseteq Parked(rec)
  PROVE  IInv'
<1>1. Control'
  BY DEF Control
<1>2. Mapping'
  <2>1. Running' => Running
    BY DEF Running, Serving
  <2> QED
    BY <2>1, MappingKept DEF IInv
<1>3. Adopting'
  BY DEF Adopting, Serving
<1> QED
  BY <1>1, <1>2, <1>3 DEF IInv

\* What a step finds while requests are served.
LEMMA Serves ==
  ASSUME IInv, Serving
  PROVE  /\ Running /\ Control
         /\ serve \in [Handlers -> Turns] /\ \A h \in Handlers : serve[h] \in Turns
         /\ \A h \in Handlers : TurnOf(h)
         /\ \A h \in Handlers : serve[h].pc # "idle" =>
                serve[h].conv \in Range(used) /\ serve[h].conv \in Convs
         /\ main \in [pc : {"adopting", "adopted", "serving", "draining", "parking",
                       "mapping", "stopped", "down"}, tried : SUBSET Convs]
<1>1. Running /\ Control
  BY DEF IInv, Running, Serving
<1>2. \A h \in Handlers : TurnOf(h)
  BY <1>1 DEF Control
<1>3. used \in Seq(Convs)
  BY <1>1, Found
<1> QED
  BY <1>1, <1>2, <1>3, MemberOf DEF Control, TypeOK, Turns, TurnOf

\* Threads keep their copies while the order loses nobody.
LEMMA CopiesKept ==
  ASSUME Control, NEW t \in Threads, Moved(t), CopyOf(t)', Range(used) \subseteq Range(used')
  PROVE  \A u \in Threads : CopyOf(u)'
<1>1. ASSUME NEW u \in Threads, u # t PROVE CopyOf(u)'
  BY <1>1, Found DEF CopyOf, Moved
<1> QED
  BY <1>1

LEMMA PlaceIInv ==
  ASSUME IInv, NEW h \in Handlers, NEW c \in Convs, Place(h, c)
  PROVE  IInv'
<1>1. PICK s \in PickSlot(c) :
        rec' = [rec EXCEPT ![c].inflight = TRUE, ![c].using = s,
                           ![c].copy = IF @ = "latest" THEN "older" ELSE @]
  BY DEF Place
<1>2. /\ Serving /\ serve[h].pc = "idle"
      /\ used' = Latest(c)
      /\ serve' = [serve EXCEPT ![h] = [pc |-> "ensure", conv |-> c, tried |-> {}]]
      /\ sv' = [t \in Threads |->
                   IF sv[t].conv = c THEN [sv[t] EXCEPT !.mine = FALSE, !.fresh = FALSE]
                                     ELSE sv[t]]
      /\ file' = [file EXCEPT ![c] = IF @ = "latest" THEN "older" ELSE @]
      /\ quiet' = quiet \ {c}
      /\ UNCHANGED <<jobs, main, pins, spare, clean>>
  BY DEF Place
<1>3. /\ Control /\ serve \in [Handlers -> Turns] /\ Running
      /\ \A g \in Handlers : TurnOf(g)
  BY <1>2, Serves
<1>4. /\ used' \in Seq(Convs) /\ Range(used') = Range(used) \cup {c}
  BY <1>2, <1>3, LatestTyped, Found
<1>5. s \in Slots
  BY <1>3, Found DEF PickSlot, Records
<1>6. /\ rec' \in [Convs -> Records]
      /\ \A d \in Convs : /\ rec'[d].slot = rec[d].slot
                          /\ rec'[d].copy # "none" => rec[d].copy # "none"
  <2> DEFINE r == [rec[c] EXCEPT !.inflight = TRUE, !.using = s,
                                 !.copy = IF rec[c].copy = "latest" THEN "older" ELSE rec[c].copy]
  <2>1. rec[c] \in Records
    BY <1>3, Found
  <2>2. r \in Records /\ r.slot = rec[c].slot /\ (r.copy # "none" => rec[c].copy # "none")
    BY <1>5, <2>1 DEF Records
  <2>3. rec' = [rec EXCEPT ![c] = r]
    BY <1>1, Zenon
  <2> HIDE DEF r
  <2> QED
    BY <1>3, <2>2, <2>3, Found
<1>7. ASSUME NEW t \in Threads
      PROVE  /\ sv'[t] \in Copies
             /\ sv'[t].pc = sv[t].pc /\ sv'[t].conv = sv[t].conv /\ sv'[t].slot = sv[t].slot
             /\ sv'[t].spent = sv[t].spent /\ sv'[t].fd = sv[t].fd
             /\ sv'[t].rows = sv[t].rows /\ sv'[t].alone = sv[t].alone
  <2>1. sv[t] \in Copies
    BY <1>3, Found
  <2>2. sv'[t] = [sv[t] EXCEPT !.mine = FALSE, !.fresh = FALSE] \/ sv'[t] = sv[t]
    BY <1>2
  <2> QED
    BY <2>1, <2>2 DEF Copies
<1>8. TypeOK'
  <2>1. sv' \in [Threads -> Copies]
    BY <1>2, <1>7
  <2>2. serve' \in [Handlers -> Turns]
    BY <1>2, <1>3 DEF Turns
  <2>3. file' \in [Convs -> {"none", "older", "latest"}]
    BY <1>2, <1>3, Found
  <2>4. \A t \in Threads : sv'[t].pc \in {"claim", "save"} => sv'[t].slot # NoSlot
    BY <1>3, <1>7, Found
  <2>5. quiet' \in SUBSET Convs
    BY <1>2, <1>3, Found
  <2> QED
    BY <1>2, <1>3, <1>4, <1>6, <2>1, <2>2, <2>3, <2>4, <2>5 DEF Control, TypeOK, Turns
<1>9. UsedCovers'
  BY <1>3, <1>4, <1>6, Found DEF UsedCovers
<1>10. \A g \in Handlers : TurnOf(g)'
  <2>1. TurnOf(h)'
    BY <1>2, <1>3, <1>4 DEF TurnOf
  <2>2. ASSUME NEW g \in Handlers, g # h PROVE TurnOf(g)'
    BY <1>2, <1>3, <1>4, <1>7, <2>2, ThreadsApart DEF TurnOf
  <2> QED
    BY <2>1, <2>2
<1>11. \A t \in Threads : CopyOf(t)'
  BY <1>3, <1>4, <1>7, Found DEF CopyOf
<1>12. \A t \in Threads : Steady(t)
  BY <1>7 DEF Steady, Writing
<1>13. Parked(rec') \subseteq Parked(rec) /\ Serving'
  BY <1>2, <1>6 DEF Parked, Serving
<1> QED
  BY <1>2, <1>8, <1>9, <1>10, <1>11, <1>12, <1>13, ServedIInv

LEMMA EnsureIInv ==
  ASSUME IInv, NEW h \in Handlers, Ensure(h)
  PROVE  IInv'
<1> DEFINE left == AtRisk(serve[h].tried \cup {serve[h].conv})
           c == Pick(used, left)[1]
<1>1. /\ Serving /\ serve[h].pc = "ensure" /\ sv[h].pc = "idle" /\ left # {}
      /\ Copy(h, c, "claim")
      /\ rec' = [rec EXCEPT ![c].parking = TRUE]
      /\ serve' = [serve EXCEPT ![h].tried = @ \cup {c}]
      /\ UNCHANGED <<used, jobs, main, file, pins, spare, clean, quiet>>
  BY DEF Ensure, disk
<1>2. /\ Control /\ serve \in [Handlers -> Turns] /\ Running
      /\ \A g \in Handlers : TurnOf(g)
      /\ h \in Threads
  BY <1>1, Serves, ThreadsApart
<1>3. c \in Convs /\ rec[c].slot # NoSlot /\ c \in Range(used)
  <2>1. \A d \in left : d \in Convs /\ rec[d].slot # NoSlot
    BY DEF AtRisk
  <2>2. left \subseteq Range(used)
    BY <1>2, <2>1, Found
  <2>3. c \in left
    BY <1>1, <1>2, <2>2, PickedTyped, Found
  <2> QED
    BY <2>1, <2>2, <2>3
<1> HIDE DEF c, left
<1>4. /\ Moved(h) /\ sv'[h].pc = "claim" /\ sv'[h].conv = c /\ sv'[h].slot # NoSlot
      /\ sv'[h].spent = {} /\ sv'[h].fd = "none"
  BY <1>1, <1>2, <1>3, CopyTyped DEF Control, Moved
<1>5. /\ rec' \in [Convs -> Records]
      /\ \A d \in Convs : rec'[d].slot = rec[d].slot /\ rec'[d].copy = rec[d].copy
  <2> DEFINE r == [rec[c] EXCEPT !.parking = TRUE]
  <2>1. r \in Records /\ r.slot = rec[c].slot /\ r.copy = rec[c].copy
    BY <1>2, <1>3, Found DEF Records
  <2>2. rec' = [rec EXCEPT ![c] = r]
    BY <1>1
  <2> HIDE DEF r
  <2> QED
    BY <1>2, <1>3, <2>1, <2>2, Found
<1>6. /\ serve' \in [Handlers -> Turns] /\ serve'[h].pc = "ensure"
      /\ serve'[h].conv = serve[h].conv
      /\ \A g \in Handlers \ {h} : serve'[g] = serve[g]
  <2> DEFINE r == [serve[h] EXCEPT !.tried = serve[h].tried \cup {c}]
  <2>1. r \in Turns /\ r.pc = "ensure" /\ r.conv = serve[h].conv
    BY <1>1, <1>2, <1>3 DEF Turns
  <2>2. serve' = [serve EXCEPT ![h] = r]
    BY <1>1
  <2> HIDE DEF r
  <2> QED
    BY <1>2, <2>1, <2>2
<1>7. TypeOK'
  <2>1. \A t \in Threads : sv'[t].pc \in {"claim", "save"} => sv'[t].slot # NoSlot
    BY <1>2, <1>4, Found DEF Moved
  <2> QED
    BY <1>1, <1>2, <1>4, <1>5, <1>6, <2>1 DEF Control, TypeOK, Turns, Moved
<1>8. UsedCovers'
  BY <1>1, <1>2, <1>5, Found DEF UsedCovers
<1>9. \A g \in Handlers : TurnOf(g)'
  <2>1. TurnOf(h)'
    BY <1>1, <1>2, <1>6 DEF TurnOf
  <2>2. ASSUME NEW g \in Handlers, g # h PROVE TurnOf(g)'
    BY <1>1, <1>2, <1>4, <1>6, <2>2, ThreadsApart DEF TurnOf, Moved
  <2> QED
    BY <2>1, <2>2
<1>10. \A t \in Threads : CopyOf(t)'
  <2>1. CopyOf(h)'
    BY <1>1, <1>3, <1>4 DEF CopyOf
  <2> QED
    BY <1>1, <1>2, <1>4, <2>1, CopiesKept
<1>11. \A t \in Threads : Steady(t)
  BY <1>1, <1>2, <1>4, SteadyMoved DEF Writing
<1>12. Parked(rec') \subseteq Parked(rec) /\ Serving'
  BY <1>1, <1>5 DEF Parked, Serving
<1> QED
  BY <1>1, <1>7, <1>8, <1>9, <1>10, <1>11, <1>12, ServedIInv

\* Handlers keep their turns in a step that moves one of them and no copy.
LEMMA TurnsMoved ==
  ASSUME IInv, Serving, NEW h \in Handlers, UNCHANGED used,
         \A g \in Handlers \ {h} : serve'[g] = serve[g] /\ sv'[g].pc = sv[g].pc,
         TurnOf(h)'
  PROVE  \A g \in Handlers : TurnOf(g)'
<1>1. ASSUME NEW g \in Handlers, g # h PROVE TurnOf(g)'
  BY <1>1, Serves DEF TurnOf
<1> QED
  BY <1>1

\* No thread goes on with its copy.
LEMMA NoneMoved ==
  ASSUME Control, UNCHANGED used,
         \A t \in Threads : /\ sv'[t].pc = sv[t].pc /\ sv'[t].conv = sv[t].conv
                            /\ sv'[t].spent = sv[t].spent /\ sv'[t].fd = sv[t].fd
                            /\ sv'[t].rows = sv[t].rows /\ sv'[t].alone = sv[t].alone
  PROVE  /\ \A t \in Threads : CopyOf(t)'
         /\ \A t \in Threads : Steady(t)
  BY Found DEF CopyOf, Steady, Writing

LEMMA TakeIInv ==
  ASSUME IInv, NEW h \in Handlers, Take(h)
  PROVE  IInv'
<1> DEFINE c == serve[h].conv
           s == rec[c].using
<1>1. /\ Serving /\ serve[h].pc = "ensure" /\ sv[h].pc = "idle"
      /\ rec' = [d \in Convs |->
                      CASE d = c -> [rec[c] EXCEPT !.slot = s]
                        [] d # c /\ rec[d].slot = s -> [rec[d] EXCEPT !.slot = NoSlot]
                        [] OTHER -> rec[d]]
      /\ serve' = [serve EXCEPT ![h].pc = "taken", ![h].tried = {}]
      /\ sv' = [t \in Threads |->
                   IF sv[t].slot = s THEN [sv[t] EXCEPT !.fresh = FALSE] ELSE sv[t]]
      /\ UNCHANGED <<used, jobs, main, file, pins, spare, clean, quiet>>
  BY DEF Take, disk
<1>2. /\ Control /\ serve \in [Handlers -> Turns] /\ Running
      /\ \A g \in Handlers : TurnOf(g)
      /\ c \in Range(used) /\ c \in Convs
  BY <1>1, Serves
<1>3. s \in Slots \cup {NoSlot}
  BY <1>2, Found DEF Records
<1> HIDE DEF s
<1>4. ASSUME NEW d \in Convs
      PROVE  /\ rec'[d] \in Records
             /\ rec'[d].slot # NoSlot => rec[d].slot # NoSlot \/ d = c
             /\ rec'[d].copy = rec[d].copy
  <2>1. rec[d] \in Records
    BY <1>2, Found
  <2>2. \/ d = c /\ rec'[d] = [rec[d] EXCEPT !.slot = s]
        \/ rec'[d] = [rec[d] EXCEPT !.slot = NoSlot]
        \/ rec'[d] = rec[d]
    <3> HIDE DEF c
    <3> QED
      BY <1>1
  <2> QED
    BY <1>3, <2>1, <2>2 DEF Records
<1>5. rec' \in [Convs -> Records]
  BY <1>1, <1>4
<1>6. /\ serve' \in [Handlers -> Turns] /\ serve'[h].pc = "taken" /\ serve'[h].conv = c
      /\ \A g \in Handlers \ {h} : serve'[g] = serve[g]
  <2> DEFINE r == [serve[h] EXCEPT !.pc = "taken", !.tried = {}]
  <2>1. r \in Turns /\ r.pc = "taken" /\ r.conv = c
    BY <1>2 DEF Turns
  <2>2. serve' = [serve EXCEPT ![h] = r]
    BY <1>1
  <2> HIDE DEF r
  <2> QED
    BY <1>2, <2>1, <2>2
<1>7. ASSUME NEW t \in Threads
       PROVE  /\ sv'[t] \in Copies
              /\ sv'[t].pc = sv[t].pc /\ sv'[t].conv = sv[t].conv /\ sv'[t].slot = sv[t].slot
              /\ sv'[t].spent = sv[t].spent /\ sv'[t].fd = sv[t].fd
              /\ sv'[t].rows = sv[t].rows /\ sv'[t].alone = sv[t].alone
  <2>1. sv[t] \in Copies
    BY <1>2, Found
  <2>2. sv'[t] = [sv[t] EXCEPT !.fresh = FALSE] \/ sv'[t] = sv[t]
    BY <1>1
  <2> QED
    BY <2>1, <2>2 DEF Copies
<1>8. TypeOK'
  <2>1. sv' \in [Threads -> Copies]
    BY <1>1, <1>7
  <2>2. \A t \in Threads : sv'[t].pc \in {"claim", "save"} => sv'[t].slot # NoSlot
    BY <1>2, <1>7, Found
  <2> QED
    BY <1>1, <1>2, <1>5, <1>6, <2>1, <2>2 DEF Control, TypeOK, Turns
<1>9. UsedCovers'
  BY <1>1, <1>2, <1>4, Found DEF UsedCovers
<1>10. \A g \in Handlers : TurnOf(g)'
  <2>1. TurnOf(h)'
    BY <1>1, <1>2, <1>6, <1>7, ThreadsApart DEF TurnOf
  <2>2. \A g \in Handlers : sv'[g].pc = sv[g].pc
    BY <1>7, ThreadsApart
  <2> QED
    BY <1>1, <1>6, <2>1, <2>2, TurnsMoved
<1>11. /\ \A t \in Threads : CopyOf(t)'
       /\ \A t \in Threads : Steady(t)
  BY <1>1, <1>2, <1>7, NoneMoved
<1>12. Parked(rec') \subseteq Parked(rec) /\ Serving'
  BY <1>1, <1>4 DEF Parked, Serving
<1> QED
  BY <1>1, <1>8, <1>9, <1>10, <1>11, <1>12, ServedIInv

LEMMA ForgetIInv ==
  ASSUME IInv, NEW h \in Handlers, Forget(h)
  PROVE  IInv'
<1> DEFINE c == serve[h].conv
<1>1. /\ Serving /\ serve[h].pc = "taken"
      /\ rec' = [rec EXCEPT ![c].copy = "none"]
      /\ Clear(h, {c})
      /\ serve' = [serve EXCEPT ![h].pc = "forgot"]
      /\ UNCHANGED <<used, jobs, main, file, pins, spare, clean, quiet>>
  BY DEF Forget, disk
<1>2. /\ Control /\ serve \in [Handlers -> Turns] /\ Running
      /\ \A g \in Handlers : TurnOf(g)
      /\ c \in Range(used) /\ c \in Convs
      /\ h \in Threads /\ sv[h].pc = "idle"
  BY <1>1, Serves, ThreadsApart DEF TurnOf
<1>3. Moved(h) /\ sv'[h].pc = "drop" /\ sv'[h].fd = "none"
  BY <1>1, <1>2, ClearTyped DEF Control, Moved
<1>4. /\ rec' \in [Convs -> Records]
      /\ \A d \in Convs : rec'[d].slot = rec[d].slot /\ (rec'[d].copy # "none" => rec[d].copy # "none")
  <2> DEFINE r == [rec[c] EXCEPT !.copy = "none"]
  <2>1. r \in Records /\ r.slot = rec[c].slot /\ r.copy = "none"
    BY <1>2, Found DEF Records
  <2>2. rec' = [rec EXCEPT ![c] = r]
    BY <1>1
  <2> HIDE DEF r
  <2> QED
    BY <1>2, <2>1, <2>2, Found
<1>5. /\ serve' \in [Handlers -> Turns] /\ serve'[h].pc = "forgot" /\ serve'[h].conv = c
      /\ \A g \in Handlers \ {h} : serve'[g] = serve[g]
  <2> DEFINE r == [serve[h] EXCEPT !.pc = "forgot"]
  <2>1. r \in Turns /\ r.pc = "forgot" /\ r.conv = c
    BY <1>2 DEF Turns
  <2>2. serve' = [serve EXCEPT ![h] = r]
    BY <1>1
  <2> HIDE DEF r
  <2> QED
    BY <1>2, <2>1, <2>2
<1>6. TypeOK'
  <2>1. \A t \in Threads : sv'[t].pc \in {"claim", "save"} => sv'[t].slot # NoSlot
    BY <1>2, <1>3, Found DEF Moved
  <2> QED
    BY <1>1, <1>2, <1>3, <1>4, <1>5, <2>1 DEF Control, TypeOK, Turns, Moved
<1>7. UsedCovers'
  BY <1>1, <1>2, <1>4, Found DEF UsedCovers
<1>8. \A g \in Handlers : TurnOf(g)'
  <2>1. TurnOf(h)'
    BY <1>1, <1>2, <1>5 DEF TurnOf
  <2>2. \A g \in Handlers \ {h} : sv'[g] = sv[g]
    BY <1>3, ThreadsApart DEF Moved
  <2> QED
    BY <1>1, <1>5, <2>1, <2>2, TurnsMoved
<1>9. \A t \in Threads : CopyOf(t)'
  <2>1. CopyOf(h)'
    BY <1>3 DEF CopyOf
  <2> QED
    BY <1>1, <1>2, <1>3, <2>1, CopiesKept
<1>10. \A t \in Threads : Steady(t)
  BY <1>2, <1>3, SteadyMoved DEF Writing
<1>11. Coming' /\ Serving'
  BY <1>1, <1>2, <1>3 DEF Coming, Serving
<1> QED
  BY <1>1, <1>6, <1>7, <1>8, <1>9, <1>10, <1>11, ServedIInv

LEMMA ReleaseIInv ==
  ASSUME IInv, NEW h \in Handlers, Release(h)
  PROVE  IInv'
<1> DEFINE c == serve[h].conv
<1>1. /\ Serving /\ serve[h].pc \in {"taken", "forgot"} /\ sv[h].pc = "idle"
      /\ rec' = [rec EXCEPT ![c].inflight = FALSE, ![c].using = NoSlot]
      /\ used' = Latest(c)
      /\ serve' = [serve EXCEPT ![h].pc = "replied"]
      /\ UNCHANGED <<jobs, sv, main, file, pins, spare, clean, quiet>>
  BY DEF Release, disk
<1>2. /\ Control /\ serve \in [Handlers -> Turns] /\ Running
      /\ \A g \in Handlers : TurnOf(g)
      /\ c \in Range(used) /\ c \in Convs
  BY <1>1, Serves
<1>3. used' \in Seq(Convs) /\ Range(used') = Range(used) \cup {c}
  BY <1>1, <1>2, LatestTyped, Found
<1>4. /\ rec' \in [Convs -> Records]
      /\ \A d \in Convs : rec'[d].slot = rec[d].slot /\ rec'[d].copy = rec[d].copy
  <2> DEFINE r == [rec[c] EXCEPT !.inflight = FALSE, !.using = NoSlot]
  <2>1. rec[c] \in Records
    BY <1>2, Found
  <2>2. r \in Records /\ r.slot = rec[c].slot /\ r.copy = rec[c].copy
    <3> HIDE DEF c
    <3> QED
      BY <2>1 DEF Records
  <2>3. rec' = [rec EXCEPT ![c] = r]
    BY <1>1, Zenon
  <2> HIDE DEF r
  <2> QED
    BY <1>2, <2>2, <2>3, Found
<1>5. /\ serve' \in [Handlers -> Turns] /\ serve'[h].pc = "replied" /\ serve'[h].conv = c
      /\ \A g \in Handlers \ {h} : serve'[g] = serve[g]
  <2> DEFINE r == [serve[h] EXCEPT !.pc = "replied"]
  <2>1. r \in Turns /\ r.pc = "replied" /\ r.conv = c
    BY <1>2 DEF Turns
  <2>2. serve' = [serve EXCEPT ![h] = r]
    BY <1>1
  <2> HIDE DEF r
  <2> QED
    BY <1>2, <2>1, <2>2
<1>6. TypeOK'
  BY <1>1, <1>2, <1>3, <1>4, <1>5 DEF Control, TypeOK, Turns
<1>7. UsedCovers'
  BY <1>2, <1>3, <1>4, Found DEF UsedCovers
<1>8. \A g \in Handlers : TurnOf(g)'
  <2>1. TurnOf(h)'
    BY <1>1, <1>2, <1>3, <1>5 DEF TurnOf
  <2>2. ASSUME NEW g \in Handlers, g # h PROVE TurnOf(g)'
    BY <1>1, <1>2, <1>3, <1>5, <2>2 DEF TurnOf
  <2> QED
    BY <2>1, <2>2
<1>9. \A t \in Threads : CopyOf(t)'
  BY <1>1, <1>2, <1>3, Found DEF CopyOf
<1>10. \A t \in Threads : Steady(t)
  BY <1>1 DEF Steady, Writing
<1>11. Parked(rec') \subseteq Parked(rec) /\ Serving'
  BY <1>1, <1>4 DEF Parked, Serving
<1> QED
  BY <1>1, <1>6, <1>7, <1>8, <1>9, <1>10, <1>11, ServedIInv

\* A record that only begins, or ends, to be parked.
LEMMA ParkingTyped ==
  ASSUME Control, NEW c \in Convs, NEW b \in BOOLEAN,
         rec' = [rec EXCEPT ![c].parking = b] \/ rec' = rec
  PROVE  /\ rec' \in [Convs -> Records]
         /\ \A d \in Convs : rec'[d].slot = rec[d].slot /\ rec'[d].copy = rec[d].copy
         /\ Parked(rec') \subseteq Parked(rec)
         /\ Running => \A d \in Convs : rec'[d].slot # NoSlot \/ rec'[d].copy # "none" => d \in Range(used)
<1> DEFINE r == [rec[c] EXCEPT !.parking = b]
<1>1. r \in Records /\ r.slot = rec[c].slot /\ r.copy = rec[c].copy
  BY Found DEF Records
<1>2. rec' = [rec EXCEPT ![c] = r] \/ rec' = rec
  OBVIOUS
<1> HIDE DEF r
<1>3. /\ rec' \in [Convs -> Records]
      /\ \A d \in Convs : rec'[d].slot = rec[d].slot /\ rec'[d].copy = rec[d].copy
  BY <1>1, <1>2, Found
<1> QED
  BY <1>3, Found DEF Parked

LEMMA FinishIInv ==
  ASSUME IInv, NEW h \in Handlers, Finish(h)
  PROVE  IInv'
<1> DEFINE c == serve[h].conv
           queue == rec[c].slot # NoSlot /\ ~rec[c].parking
           j == [conv |-> c, slot |-> rec[c].slot]
<1>1. /\ Serving /\ serve[h].pc = "replied"
      /\ rec' = IF queue THEN [rec EXCEPT ![c].parking = TRUE] ELSE rec
      /\ jobs' = IF queue THEN Append(jobs, j) ELSE jobs
      /\ serve' = [serve EXCEPT ![h] = Waiting]
      /\ UNCHANGED <<used, sv, main, file, pins, spare, clean, quiet>>
  BY DEF Finish, disk
<1>2. /\ Control /\ serve \in [Handlers -> Turns] /\ Running
      /\ TurnOf(h)
      /\ c \in Range(used) /\ c \in Convs
  BY <1>1, Serves
<1>3. /\ rec' \in [Convs -> Records]
      /\ Parked(rec') \subseteq Parked(rec)
      /\ \A d \in Convs : rec'[d].slot # NoSlot \/ rec'[d].copy # "none" => d \in Range(used)
  <2>1. rec' = [rec EXCEPT ![c].parking = TRUE] \/ rec' = rec
    BY <1>1
  <2> QED
    BY <1>2, <2>1, ParkingTyped
<1>4. jobs' \in Seq(Jobs)
  <2>1. rec[c] \in Records
    BY <1>2, Found
  <2>2. queue => j \in Jobs
    BY <1>2, <2>1 DEF Records, Jobs
  <2> HIDE DEF j, queue
  <2> QED
    BY <1>1, <1>2, <2>2, Found
<1>5. /\ serve' \in [Handlers -> Turns] /\ serve'[h].pc = "idle"
      /\ \A g \in Handlers \ {h} : serve'[g] = serve[g]
  <2>1. Waiting \in Turns /\ Waiting.pc = "idle"
    BY DEF Turns, Waiting
  <2> QED
    BY <1>1, <1>2, <2>1
<1>6. TypeOK'
  BY <1>1, <1>2, <1>3, <1>4, <1>5 DEF Control, TypeOK, Turns, Jobs
<1>7. UsedCovers'
  BY <1>1, <1>3 DEF UsedCovers
<1>8. \A g \in Handlers : TurnOf(g)'
  <2>1. TurnOf(h)'
    BY <1>1, <1>2, <1>5 DEF TurnOf
  <2> QED
    BY <1>1, <1>5, <2>1, TurnsMoved
<1>9. /\ \A t \in Threads : CopyOf(t)'
      /\ \A t \in Threads : Steady(t)
      /\ Serving'
  BY <1>1, <1>2, NoneMoved DEF Serving
<1> QED
  BY <1>1, <1>3, <1>6, <1>7, <1>8, <1>9, ServedIInv

LEMMA TakeJobIInv ==
  ASSUME IInv, TakeJob
  PROVE  IInv'
<1> DEFINE j == Head(jobs)
<1>1. /\ Serving /\ jobs # <<>> /\ sv[Worker].pc = "idle" /\ jobs' = Tail(jobs)
      /\ UNCHANGED <<used, serve, main, file, pins, spare, clean, quiet>>
      /\ \/ rec[j.conv].slot = j.slot /\ Copy(Worker, j.conv, "save") /\ rec' = rec
         \/ sv' = sv /\ rec' = [rec EXCEPT ![j.conv].parking = FALSE]
  BY DEF TakeJob, disk
<1>2. Control /\ Running /\ \A g \in Handlers : TurnOf(g)
  BY <1>1, Serves
<1>3. /\ j \in Jobs
      /\ jobs' \in Seq(Jobs)
  BY <1>1, <1>2, Found
<1>4. j.conv \in Convs /\ j.slot # NoSlot
  BY <1>3, Parameters DEF Jobs
<1> HIDE DEF j
<1>5. /\ rec' \in [Convs -> Records]
      /\ Parked(rec') \subseteq Parked(rec)
      /\ \A d \in Convs : rec'[d].slot # NoSlot \/ rec'[d].copy # "none" => d \in Range(used)
  <2>1. rec' = [rec EXCEPT ![j.conv].parking = FALSE] \/ rec' = rec
    BY <1>1
  <2> QED
    BY <1>2, <1>4, <2>1, ParkingTyped
<1>6. /\ Moved(Worker) /\ CopyOf(Worker)' /\ sv'[Worker].pc \in {"idle", "save"}
      /\ sv'[Worker].pc = "save" => sv'[Worker].slot # NoSlot
  <2>1. CASE sv' = sv
    BY <1>1, <1>2, <2>1, ThreadsApart, Found DEF Moved, CopyOf
  <2>2. CASE rec[j.conv].slot = j.slot /\ Copy(Worker, j.conv, "save")
    <3>1. rec[j.conv].slot # NoSlot /\ j.conv \in Range(used)
      BY <1>2, <1>4, <2>2, Found
    <3>2. /\ Moved(Worker) /\ sv'[Worker].pc = "save" /\ sv'[Worker].conv = j.conv
          /\ sv'[Worker].slot # NoSlot /\ sv'[Worker].spent = {} /\ sv'[Worker].fd = "none"
      BY <1>2, <1>4, <2>2, <3>1, ThreadsApart, CopyTyped DEF Control, Moved
    <3> QED
      BY <1>1, <3>1, <3>2 DEF CopyOf
  <2> QED
    BY <1>1, <2>1, <2>2
<1>7. TypeOK'
  <2>1. \A t \in Threads : sv'[t].pc \in {"claim", "save"} => sv'[t].slot # NoSlot
    BY <1>2, <1>6, Found DEF Moved
  <2> QED
    BY <1>1, <1>2, <1>3, <1>5, <1>6, <2>1 DEF Control, TypeOK, Moved, Jobs
<1>8. UsedCovers'
  BY <1>1, <1>5 DEF UsedCovers
<1>9. \A g \in Handlers : TurnOf(g)'
  BY <1>1, <1>2, <1>6, ThreadsApart DEF TurnOf, Moved
<1>10. \A t \in Threads : CopyOf(t)'
  BY <1>1, <1>2, <1>6, ThreadsApart, CopiesKept
<1>11. \A t \in Threads : Steady(t)
  BY <1>1, <1>6, ThreadsApart, SteadyMoved DEF Writing
<1>12. Serving'
  BY <1>1 DEF Serving
<1> QED
  BY <1>1, <1>5, <1>7, <1>8, <1>9, <1>10, <1>11, <1>12, ServedIInv

-------------------------------------------------------------------------------
\* The stop.

Mains == [pc : {"adopting", "adopted", "serving", "draining", "parking",
                "mapping", "stopped", "down"}, tried : SUBSET Convs]

\* A step of the main thread that makes no copy.
LEMMA StopIInv ==
  ASSUME IInv, Serving, Serving', UNCHANGED <<rec, used, jobs, serve, sv, file, pins, spare, clean>>,
         main' \in Mains, quiet' \in SUBSET Convs
  PROVE  IInv'
<1>1. Control /\ Running /\ \A h \in Handlers : TurnOf(h)
  BY Serves
<1>2. TypeOK'
  BY <1>1 DEF Control, TypeOK, Mains
<1>3. UsedCovers' /\ \A h \in Handlers : TurnOf(h)'
  BY <1>1, Found DEF UsedCovers, TurnOf
<1>4. /\ \A t \in Threads : CopyOf(t)'
      /\ \A t \in Threads : Steady(t)
  BY <1>1, NoneMoved
<1>5. Parked(rec') \subseteq Parked(rec)
  OBVIOUS
<1> QED
  BY <1>2, <1>3, <1>4, <1>5, ServedIInv

LEMMA SignalIInv ==
  ASSUME IInv, Signal
  PROVE  IInv'
<1>1. main \in Mains /\ main.pc = "serving" /\ main' = [main EXCEPT !.pc = "draining"]
  BY DEF Signal, To, IInv, Control, TypeOK, Mains
<1>2. main' \in Mains /\ Serving /\ Serving'
  BY <1>1 DEF Mains, Serving
<1> QED
  BY <1>2, StopIInv DEF Signal, disk

LEMMA DrainedIInv ==
  ASSUME IInv, Drained
  PROVE  IInv'
<1>1. main \in Mains /\ main.pc = "draining" /\ main' = [main EXCEPT !.pc = "parking"]
  BY DEF Drained, To, IInv, Control, TypeOK, Mains
<1>2. main' \in Mains /\ Serving /\ Serving'
  BY <1>1 DEF Mains, Serving
<1>3. quiet' \in SUBSET Convs
  BY Found DEF Drained, IInv
<1> QED
  BY <1>2, <1>3, StopIInv DEF Drained, disk

\* A step of the main thread that begins a copy, or the map.
LEMMA StopCopyIInv ==
  ASSUME IInv, Serving, Serving', sv[Main].pc = "idle", Moved(Main), CopyOf(Main)',
         \/ sv'[Main].pc = "claim" /\ sv'[Main].slot # NoSlot
         \/ sv'[Main].pc = "map",
         rec' \in [Convs -> Records], Parked(rec') \subseteq Parked(rec),
         \A d \in Convs : rec'[d].slot # NoSlot \/ rec'[d].copy # "none" => d \in Range(used),
         UNCHANGED <<used, jobs, serve, file, pins, spare, clean>>,
         main' \in Mains, quiet' \in SUBSET Convs
  PROVE  IInv'
<1>1. Control /\ Running /\ \A h \in Handlers : TurnOf(h)
  BY Serves
<1>2. TypeOK'
  <2>1. \A t \in Threads : sv'[t].pc \in {"claim", "save"} => sv'[t].slot # NoSlot
    BY <1>1, Found DEF Moved
  <2> QED
    BY <1>1, <2>1 DEF Control, TypeOK, Mains, Moved
<1>3. UsedCovers' /\ \A h \in Handlers : TurnOf(h)'
  BY <1>1, ThreadsApart DEF UsedCovers, TurnOf, Moved
<1>4. \A t \in Threads : CopyOf(t)'
  BY <1>1, ThreadsApart, CopiesKept
<1>5. \A t \in Threads : Steady(t)
  BY ThreadsApart, SteadyMoved DEF Writing
<1> QED
  BY <1>2, <1>3, <1>4, <1>5, ServedIInv

LEMMA ParkNextIInv ==
  ASSUME IInv, ParkNext
  PROVE  IInv'
<1>1. PICK c \in AtRisk(main.tried) :
         /\ Copy(Main, c, "claim")
         /\ rec' = [rec EXCEPT ![c].parking = TRUE]
         /\ main' = [main EXCEPT !.tried = @ \cup {c}]
  BY DEF ParkNext
<1>2. /\ main \in Mains /\ main.pc = "parking" /\ sv[Main].pc = "idle" /\ Control
      /\ UNCHANGED <<used, jobs, serve, file, pins, spare, clean, quiet>>
  BY DEF ParkNext, disk, IInv, Control, TypeOK, Mains
<1>3. c \in Convs /\ rec[c].slot # NoSlot
  BY DEF AtRisk
<1>4. main' \in Mains /\ Serving /\ Serving' /\ Running
  BY <1>1, <1>2, <1>3 DEF Mains, Serving, Running
<1>5. c \in Range(used)
  BY <1>2, <1>3, <1>4, Found
<1>6. /\ Moved(Main) /\ sv'[Main].pc = "claim" /\ sv'[Main].conv = c /\ sv'[Main].slot # NoSlot
      /\ sv'[Main].spent = {} /\ sv'[Main].fd = "none"
  BY <1>1, <1>2, <1>3, ThreadsApart, CopyTyped DEF Control, Moved
<1>7. CopyOf(Main)'
  BY <1>2, <1>5, <1>6 DEF CopyOf
<1>8. /\ rec' \in [Convs -> Records]
      /\ Parked(rec') \subseteq Parked(rec)
      /\ \A d \in Convs : rec'[d].slot # NoSlot \/ rec'[d].copy # "none" => d \in Range(used)
  BY <1>1, <1>2, <1>3, <1>4, ParkingTyped
<1>9. quiet' \in SUBSET Convs
  BY <1>2, Found
<1> QED
  BY <1>2, <1>4, <1>6, <1>7, <1>8, <1>9, StopCopyIInv

LEMMA ParkedAllIInv ==
  ASSUME IInv, ParkedAll
  PROVE  IInv'
<1> DEFINE r == [Resting EXCEPT !.pc = "map"]
<1>1. /\ main \in Mains /\ main.pc = "parking" /\ sv[Main].pc = "idle" /\ Control
      /\ main' = [pc |-> "mapping", tried |-> {}]
      /\ sv' = [sv EXCEPT ![Main] = r]
      /\ UNCHANGED <<rec, used, jobs, serve, file, pins, spare, clean>>
  BY DEF ParkedAll, disk, IInv, Control, TypeOK, Mains
<1>2. main' \in Mains /\ Serving /\ Serving' /\ Running
  BY <1>1 DEF Mains, Serving, Running
<1>3. r \in Copies /\ r.pc = "map" /\ r.spent = {} /\ r.fd = "none"
  BY RestTyped DEF Copies, Resting
<1> HIDE DEF r
<1>4. Moved(Main) /\ sv'[Main].pc = "map" /\ CopyOf(Main)'
  BY <1>1, <1>3, ThreadsApart, Found DEF Moved, CopyOf
<1>5. quiet' \in SUBSET Convs
  BY <1>1, Found DEF ParkedAll
<1>6. \A d \in Convs : rec'[d].slot # NoSlot \/ rec'[d].copy # "none" => d \in Range(used)
  BY <1>1, <1>2, Found
<1>7. rec' \in [Convs -> Records] /\ Parked(rec') \subseteq Parked(rec)
  BY <1>1, Found
<1> QED
  BY <1>1, <1>2, <1>4, <1>5, <1>6, <1>7, StopCopyIInv

\* The process is gone, and with it all that no file holds.
LEMMA DownIInv ==
  ASSUME IInv, Forgotten, ~Running', main' \in Mains, rec' \in [Convs -> Records],
         file' \in [Convs -> {"none", "older", "latest"}],
         UNCHANGED <<pins, spare, clean>>, quiet' \in SUBSET Convs
  PROVE  IInv'
<1>1. Control /\ Mapping
  BY DEF IInv
<1>2. /\ used' = <<>> /\ jobs' = <<>> /\ serve' = [h \in Handlers |-> Waiting]
      /\ sv' = [t \in Threads |-> Resting]
  BY DEF Forgotten
<1>3. Waiting \in Turns /\ Waiting.pc = "idle"
  BY DEF Turns, Waiting
<1>4. TypeOK'
  <2>1. used' \in Seq(Convs) /\ jobs' \in Seq(Jobs)
    BY <1>2
  <2>2. sv' \in [Threads -> Copies] /\ \A t \in Threads : sv'[t].pc = "idle"
    BY <1>2, RestTyped
  <2>3. serve' \in [Handlers -> Turns]
    BY <1>2, <1>3
  <2> QED
    BY <1>1, <2>1, <2>2, <2>3, Found DEF TypeOK, Mains, Turns, Jobs
<1>5. Control'
  <2>1. \A t \in Threads : CopyOf(t)'
    BY <1>2, RestTyped DEF CopyOf
  <2>2. OnlyMain'
    BY <1>2, <1>3, RestTyped, ThreadsApart DEF OnlyMain
  <2> QED
    BY <1>4, <2>1, <2>2 DEF Control
<1>6. Writing' = {}
  BY <1>2, RestTyped DEF Writing
<1>7. Mapping'
  BY <1>1, <1>6 DEF Mapping, AloneWrites, CleanMap, AloneCovers
<1>8. Adopting'
  BY DEF Adopting, Running, Mains
<1> QED
  BY <1>5, <1>7, <1>8 DEF IInv

LEMMA ExitIInv ==
  ASSUME IInv, Exit
  PROVE  IInv'
<1>1. /\ main' = [pc |-> "stopped", tried |-> {}] /\ Forgotten
      /\ UNCHANGED <<rec, file, pins, spare, clean, quiet>> /\ Control
  BY DEF Exit, disk, IInv
<1>2. main' \in Mains /\ ~Running'
  BY <1>1 DEF Mains, Running
<1> QED
  BY <1>1, <1>2, Found, DownIInv

LEMMA DieIInv ==
  ASSUME IInv, Die
  PROVE  IInv'
<1>1. PICK done \in SUBSET {t \in Threads : sv[t].pc = "save"} :
         file' = [c \in Convs |-> IF \E t \in done : sv[t].conv = c THEN "older" ELSE file[c]]
  BY DEF Die
<1>2. /\ main' = [pc |-> "down", tried |-> {}]
      /\ rec' = [c \in Convs |-> Nothing]
      /\ quiet' = {} /\ Forgotten /\ UNCHANGED <<pins, spare, clean>> /\ Control
  BY DEF Die, IInv
<1>3. main' \in Mains /\ ~Running'
  BY <1>2 DEF Mains, Running
<1>4. file' \in [Convs -> {"none", "older", "latest"}]
  BY <1>1, <1>2, Found
<1> QED
  BY <1>2, <1>3, <1>4, RestTyped, DownIInv

\* An earlier map is whole and forced down.
LEMMA EarlierTyped ==
  ASSUME NEW p \in Earlier
  PROVE  p \in Sentences /\ p.is \in {"gone", "rows"} /\ p.synced
<1>1. CASE p = Gone
  BY <1>1, RestTyped DEF Gone
<1>2. ASSUME NEW n \in 0..Cardinality(Convs), NEW rows \in Injection(1..n, Convs),
             p = Text("rows", rows)
      PROVE  p \in Sentences /\ p.is \in {"gone", "rows"} /\ p.synced
  <2>1. n \in Nat /\ rows \in [1..n -> Convs]
    BY DEF Injection
  <2>2. rows \in Seq(Convs)
    BY <2>1
  <2> QED
    BY <1>2, <2>2, TextTyped
<1>3. p = Gone \/ \E n \in 0..Cardinality(Convs) : \E rows \in Injection(1..n, Convs) :
                      p = Text("rows", rows)
  BY DEF Earlier
<1> QED
  BY <1>1, <1>2, <1>3

LEMMA LosePowerIInv ==
  ASSUME IInv, LosePower
  PROVE  IInv'
<1>1. /\ ~Running
      /\ file' \in [Convs -> {"none", "older"}]
      /\ main' = [pc |-> "down", tried |-> {}]
      /\ rec' = [c \in Convs |-> Nothing]
      /\ quiet' = {}
      /\ UNCHANGED <<used, jobs, serve, sv, spare>>
      /\ \/ /\ pins' = (IF pins.synced THEN pins ELSE Blank) \/ pins' \in Earlier
            /\ clean' = clean
         \/ pins' = Text("garbled", <<>>) /\ clean' = FALSE
  BY DEF LosePower
<1>2. Control /\ Mapping /\ ~Serving
  BY <1>1 DEF IInv, Control, TypeOK, Running, Serving
<1>3. main' \in Mains /\ ~Running' /\ ~Serving' /\ main'.pc = "down"
  BY <1>1 DEF Mains, Running, Serving
<1>4. /\ pins' \in Sentences /\ clean' \in BOOLEAN
      /\ clean' => /\ clean /\ pins'.is \in {"gone", "rows"} /\ pins'.synced
  <2>1. CASE pins' = (IF pins.synced THEN pins ELSE Blank) /\ clean' = clean
    BY <1>2, <2>1, RestTyped, Found DEF Mapping, CleanMap
  <2>2. CASE pins' \in Earlier /\ clean' = clean
    BY <1>2, <2>2, EarlierTyped, Found
  <2>3. CASE pins' = Text("garbled", <<>>) /\ clean' = FALSE
    <3>1. <<>> \in Seq(Convs)
      OBVIOUS
    <3> QED
      BY <2>3, <3>1, TextTyped
  <2> QED
    BY <1>1, <2>1, <2>2, <2>3
<1>5. TypeOK'
  <2>1. file' \in [Convs -> {"none", "older", "latest"}]
    BY <1>1
  <2>2. rec' \in [Convs -> Records]
    BY <1>1, RestTyped
  <2> QED
    BY <1>1, <1>2, <1>3, <1>4, <2>1, <2>2 DEF Control, TypeOK, Mains
<1>6. Control'
  <2>1. \A t \in Threads : CopyOf(t)'
    BY <1>1, <1>2 DEF Control, CopyOf
  <2>2. OnlyMain'
    BY <1>1, <1>2 DEF Control, OnlyMain
  <2> QED
    BY <1>3, <1>5, <2>1, <2>2 DEF Control
<1>7. Mapping'
  <2>1. Writing' = Writing
    BY <1>1 DEF Writing
  <2>2. Parked(rec') = {}
    BY <1>1 DEF Parked, Nothing
  <2> QED
    BY <1>1, <1>2, <1>3, <1>4, <2>1, <2>2 DEF Mapping, AloneWrites, CleanMap, AloneCovers
<1>8. Adopting'
  BY <1>3 DEF Adopting
<1> QED
  BY <1>6, <1>7, <1>8 DEF IInv

-------------------------------------------------------------------------------
\* The start after a stop or a death.

\* The rows a budget has room for are no more than the budget.
LEMMA RoomFor ==
  ASSUME NEW kept \in Seq(Convs), NEW P \in SUBSET Range(kept),
         P \cap {kept[i] : i \in 1..(Len(kept) - ParkBudget)} = {}
  PROVE  Cardinality(P) <= ParkBudget
<1>1. PICK n \in Nat : n = Len(kept)
  OBVIOUS
<1>2. ParkBudget \in Nat /\ ParkBudget > 0
  BY Parameters
<1> DEFINE S == (IF n > ParkBudget THEN n - ParkBudget + 1 ELSE 1)..n
           T == {kept[i] : i \in S}
           f == [i \in S |-> kept[i]]
<1>3. IsFiniteSet(S) /\ Cardinality(S) <= ParkBudget
  <2> DEFINE lo == IF n > ParkBudget THEN n - ParkBudget + 1 ELSE 1
  <2>1. lo \in Int /\ n \in Int
    BY <1>1, <1>2
  <2>2. (IF lo > n THEN 0 ELSE n - lo + 1) <= ParkBudget
    BY <1>1, <1>2
  <2> HIDE DEF lo
  <2>3. IsFiniteSet(lo..n) /\ Cardinality(lo..n) = IF lo > n THEN 0 ELSE n - lo + 1
    BY <2>1, FS_Interval
  <2> QED
    BY <2>2, <2>3 DEF lo
<1>4. f \in Surjection(S, T)
  <2> HIDE DEF S
  <2> QED
    BY DEF Surjection
<1>5. P \subseteq T
  <2>1. SUFFICES ASSUME NEW c \in P PROVE c \in T
    OBVIOUS
  <2>2. PICK i \in 1..n : kept[i] = c
    BY <1>1, MemberOf
  <2>3. i \notin 1..(n - ParkBudget)
    BY <1>1, <2>2
  <2>4. i \in S
    BY <1>1, <1>2, <2>3
  <2> HIDE DEF S
  <2> QED
    BY <2>2, <2>4
<1> HIDE DEF S, T, f
<1>6. IsFiniteSet(T) /\ Cardinality(T) <= Cardinality(S)
  BY <1>3, <1>4, FS_Surjection
<1>7. IsFiniteSet(P) /\ Cardinality(P) <= Cardinality(T)
  BY <1>5, <1>6, FS_Subset
<1>8. Cardinality(P) \in Nat /\ Cardinality(T) \in Nat /\ Cardinality(S) \in Nat
  BY <1>3, <1>6, <1>7, FS_CardinalityType
<1> QED
  BY <1>2, <1>3, <1>6, <1>7, <1>8

LEMMA AdoptIInv ==
  ASSUME IInv, Adopt
  PROVE  IInv'
<1> DEFINE kept == Pick(Vouched, {c \in Convs : file[c] # "none"})
           R == [c \in Convs |-> IF \E i \in 1..Len(kept) : kept[i] = c
                                 THEN [Nothing EXCEPT !.copy = "older"] ELSE Nothing]
           over == {kept[i] : i \in 1..(Len(kept) - ParkBudget)}
           spent == {c \in Convs : file[c] # "none" /\ R[c].copy = "none"} \cup over
           r == IF spent = {} THEN Resting ELSE [Resting EXCEPT !.pc = "drop", !.spent = spent]
<1>1. /\ ~Running
      /\ rec' = Trimmed(R, over) /\ used' = kept
      /\ sv' = [[t \in Threads |-> Resting] EXCEPT ![Main] = r]
      /\ main' = [pc |-> "adopting", tried |-> {}] /\ quiet' = {}
      /\ UNCHANGED <<jobs, serve, file, pins, spare, clean>>
  BY DEF Adopt, disk
<1>2. Control /\ Mapping /\ OnlyMain
  <2>1. ~Serving
    BY <1>1 DEF Running, Serving, IInv, Control, TypeOK
  <2> QED
    BY <2>1 DEF IInv, Control
<1>3. /\ kept \in Seq(Convs)
      /\ \A c \in Convs : c \in Range(kept) <=> c \in Range(Vouched) /\ file[c] # "none"
      /\ Range(kept) = {kept[i] : i \in 1..Len(kept)} /\ Range(kept) \subseteq Convs
  <2>1. Vouched \in Seq(Convs)
    BY <1>2, VouchedTyped, Found
  <2>2. /\ kept \in Seq(Convs)
        /\ Range(kept) = Range(Vouched) \cap {c \in Convs : file[c] # "none"}
    BY <2>1, PickRange
  <2>3. Range(kept) = {kept[i] : i \in 1..Len(kept)} /\ Range(kept) \subseteq Convs
    BY <2>2, MemberOf
  <2> HIDE DEF kept
  <2> QED
    BY <2>2, <2>3
<1> HIDE DEF kept
<1>4. over \subseteq Range(kept)
  <2>1. Len(kept) \in Nat
    BY <1>3
  <2>2. \A i \in 1..(Len(kept) - ParkBudget) : i \in 1..Len(kept)
    BY <2>1, Parameters
  <2> QED
    BY <1>3, <2>2
<1>5. /\ R \in [Convs -> Records]
      /\ \A c \in Convs : R[c].slot = NoSlot /\ (R[c].copy # "none" <=> c \in Range(kept))
  <2> DEFINE one == [Nothing EXCEPT !.copy = "older"]
  <2>1. one \in Records /\ one.slot = NoSlot /\ one.copy = "older"
    BY RestTyped DEF Records, Nothing
  <2>2. Nothing.slot = NoSlot /\ Nothing.copy = "none"
    BY DEF Nothing
  <2>3. \A c \in Convs : R[c] = IF c \in Range(kept) THEN one ELSE Nothing
    BY <1>3
  <2> HIDE DEF one
  <2>4. \A c \in Convs : R[c] \in Records
    BY <2>1, <2>3, RestTyped
  <2> QED
    BY <2>1, <2>2, <2>3, <2>4
<1> HIDE DEF R
<1>6. /\ rec' \in [Convs -> Records]
      /\ Parked(rec') = Range(kept) \ over
      /\ \A c \in Convs : rec'[c].slot = NoSlot
                          /\ (rec'[c].copy # "none" <=> c \in Range(kept) \ over)
  <2>1. /\ Trimmed(R, over) \in [Convs -> Records]
        /\ Parked(Trimmed(R, over)) = Parked(R) \ over
        /\ \A c \in Convs : /\ Trimmed(R, over)[c].slot = R[c].slot
                            /\ Trimmed(R, over)[c].copy = IF c \in over THEN "none" ELSE R[c].copy
    BY <1>5, TrimmedTyped
  <2>2. Parked(R) = Range(kept)
    BY <1>3, <1>5 DEF Parked
  <2> HIDE DEF over
  <2> QED
    BY <1>1, <1>5, <2>1, <2>2
<1>7. /\ spent \subseteq Convs
      /\ \A c \in Convs : c \in spent <=> file[c] # "none" /\ c \notin Range(kept) \ over
  BY <1>3, <1>4, <1>5
<1>8. Cardinality(Parked(rec')) <= ParkBudget
  <2>1. Parked(rec') \in SUBSET Range(kept) /\ Parked(rec') \cap over = {}
    BY <1>6
  <2> QED
    BY <1>3, <2>1, RoomFor
<1> HIDE DEF over, spent
<1>9. /\ r \in Copies /\ r.pc \in {"idle", "drop"} /\ r.spent = spent
      /\ r.pc = "idle" => spent = {}
      /\ r.fd = "none"
  BY <1>7, RestTyped DEF Resting, Copies
<1> HIDE DEF r
<1>10. /\ sv' \in [Threads -> Copies] /\ sv'[Main] = r
       /\ \A t \in Threads \ {Main} : sv'[t] = Resting
  BY <1>1, <1>9, RestTyped, ThreadsApart
<1>11. main' \in Mains /\ main'.pc = "adopting" /\ Running' /\ ~Serving'
  BY <1>1 DEF Mains, Running, Serving
<1>12. TypeOK'
  <2>1. \A t \in Threads : sv'[t].pc \in {"claim", "save"} => sv'[t].slot # NoSlot
    BY <1>9, <1>10, RestTyped
  <2> QED
    BY <1>1, <1>2, <1>3, <1>6, <1>10, <1>11, <2>1 DEF Control, TypeOK, Mains
<1>13. Control'
  <2>1. UsedCovers'
    BY <1>1, <1>6 DEF UsedCovers
  <2>2. \A h \in Handlers : TurnOf(h)'
    BY <1>1, <1>2, <1>10, RestTyped, ThreadsApart DEF TurnOf, OnlyMain
  <2>3. \A t \in Threads : CopyOf(t)'
    <3>1. CopyOf(Main)'
      BY <1>9, <1>10 DEF CopyOf
    <3>2. ASSUME NEW t \in Threads, t # Main PROVE CopyOf(t)'
      BY <1>10, <3>2, RestTyped DEF CopyOf
    <3> QED
      BY <3>1, <3>2
  <2>4. OnlyMain'
    BY <1>1, <1>2, <1>9, <1>10 DEF OnlyMain
  <2> QED
    BY <1>12, <2>1, <2>2, <2>3, <2>4 DEF Control
<1>14. Mapping'
  <2>1. Writing' = {}
    BY <1>9, <1>10, RestTyped DEF Writing
  <2>2. Covered'
    BY <1>1, <1>3, <1>6 DEF Covered, Vouched
  <2> QED
    BY <1>1, <1>2, <2>1, <2>2 DEF Mapping, AloneWrites, CleanMap, AloneCovers
<1>15. Adopting'
  <2>1. \A c \in Convs : file'[c] # "none" <=> (rec'[c].copy # "none" \/ c \in sv'[Main].spent)
    BY <1>1, <1>3, <1>6, <1>7, <1>9, <1>10
  <2>2. \A c \in sv'[Main].spent : rec'[c].copy = "none"
    BY <1>6, <1>7, <1>9, <1>10
  <2> QED
    BY <1>8, <1>11, <2>1, <2>2 DEF Adopting
<1> QED
  BY <1>13, <1>14, <1>15 DEF IInv

\* The start goes on, or is over, and nothing else has changed.
LEMMA StartIInv ==
  ASSUME IInv, Running, Running', UNCHANGED <<rec, used, jobs, serve, sv, file, pins, spare, clean, quiet>>,
         main' \in Mains, Adopting', ~Serving \/ Serving'
  PROVE  IInv'
<1>1. Control
  BY DEF IInv
<1>2. TypeOK'
  BY <1>1 DEF Control, TypeOK, Mains
<1>3. UsedCovers' /\ \A h \in Handlers : TurnOf(h)'
  BY <1>1, Found DEF UsedCovers, TurnOf, Control
<1>4. /\ \A t \in Threads : CopyOf(t)'
      /\ \A t \in Threads : Steady(t)
  BY <1>1, NoneMoved
<1>5. ~Serving' => OnlyMain'
  BY <1>1 DEF Control, OnlyMain
<1>6. Mapping'
  <2>1. Parked(rec') \subseteq Parked(rec)
    OBVIOUS
  <2> QED
    BY <1>4, <2>1, MappingKept DEF IInv
<1> QED
  BY <1>2, <1>3, <1>4, <1>5, <1>6 DEF Control, IInv

LEMMA AdoptedIInv ==
  ASSUME IInv, Adopted
  PROVE  IInv'
<1>1. /\ main \in Mains /\ main.pc = "adopting" /\ sv[Main].pc = "idle"
      /\ main' = [main EXCEPT !.pc = "adopted"]
      /\ UNCHANGED <<rec, used, jobs, serve, sv, file, pins, spare, clean, quiet>>
  BY DEF Adopted, To, disk, IInv, Control, TypeOK, Mains
<1>2. main' \in Mains /\ main'.pc = "adopted" /\ Running /\ Running' /\ ~Serving
  BY <1>1 DEF Mains, Running, Serving
<1>3. Adopting'
  BY <1>1, <1>2 DEF IInv, Adopting
<1> QED
  BY <1>1, <1>2, <1>3, StartIInv

LEMMA ServeIInv ==
  ASSUME IInv, Serve
  PROVE  IInv'
<1>1. /\ main \in Mains /\ main.pc = "adopted"
      /\ main' = [main EXCEPT !.pc = "serving"]
      /\ UNCHANGED <<rec, used, jobs, serve, sv, file, pins, spare, clean, quiet>>
  BY DEF Serve, To, disk, IInv, Control, TypeOK, Mains
<1>2. main' \in Mains /\ main'.pc = "serving" /\ Running /\ Running' /\ ~Serving
  BY <1>1 DEF Mains, Running, Serving
<1>3. Adopting'
  BY <1>2 DEF Adopting
<1> QED
  BY <1>1, <1>2, <1>3, StartIInv

-------------------------------------------------------------------------------
\* Every step keeps the invariant.
LEMMA NextIInv == IInv /\ [Next]_vars => IInv'
<1> SUFFICES ASSUME IInv, [Next]_vars PROVE IInv'
  OBVIOUS
<1>1. ASSUME NEW h \in Handlers, Turn(h) PROVE IInv'
  BY <1>1, PlaceIInv, EnsureIInv, TakeIInv, ForgetIInv, ReleaseIInv, FinishIInv DEF Turn
<1>2. ASSUME Running, NEW t \in Threads, CopyStep(t) PROVE IInv'
  BY <1>2, ClaimIInv, SaveIInv, HoldIInv, DropIInv, TakeRowsIInv, OpenIInv, WriteIInv, RenameIInv,
     EndIInv DEF CopyStep
<1>3. CASE MainStep
  BY <1>3, SignalIInv, DrainedIInv, ParkNextIInv, ParkedAllIInv, ExitIInv, AdoptIInv,
     AdoptedIInv, ServeIInv DEF MainStep
<1>4. CASE UNCHANGED vars
  <2>1. UNCHANGED <<rec, used, jobs, serve, sv, main, file, pins, spare, clean, quiet>>
    BY <1>4 DEF vars, memory, disk
  <2>2. Control'
    BY <2>1 DEF IInv, Control, TypeOK, UsedCovers, TurnOf, CopyOf, OnlyMain, Running, Serving
  <2>3. Mapping'
    BY <2>1 DEF IInv, Mapping, AloneWrites, CleanMap, AloneCovers, Covered, Coming, Writing,
       Parked, Vouched, Running
  <2>4. Adopting'
    BY <2>1 DEF IInv, Adopting, Parked
  <2> QED
    BY <2>2, <2>3, <2>4 DEF IInv
<1> QED
  BY <1>1, <1>2, <1>3, <1>4, TakeJobIInv, DieIInv, LosePowerIInv DEF Next

\* The inductive invariant holds throughout.
THEOREM Invariant == Spec => []IInv
  BY InitIInv, NextIInv, PTL DEF Spec

\* The records, the threads and the files are of their types, and a thread that
\* saves names the slot it reads, however often the router dies and starts.
THEOREM RestartTyped == Spec => []TypeOK
<1>1. IInv => TypeOK
  BY DEF IInv, Control
<1> QED
  BY <1>1, Invariant, PTL

\* The map that a lone save put in place can be read, whatever died since.
THEOREM LoneMapIsReadable == Spec => []MapReadable
<1>1. IInv => MapReadable
  BY DEF IInv, Mapping, CleanMap, MapReadable
<1> QED
  BY <1>1, Invariant, PTL

\* A copy that a record names is in the map, or somebody is on its way to put it there.
THEOREM CopiesAreVouched == Spec => []RecordedIsVouched
<1>1. IInv => RecordedIsVouched
  <2>1. SUFFICES ASSUME IInv, Running, clean, NEW c \in Parked(rec) \ ToSet(Vouched)
                 PROVE  \E t \in Threads : \/ sv[t].pc \in {"drop", "map"}
                                           \/ t \in Writing /\ c \in ToSet(sv[t].rows)
    BY DEF RecordedIsVouched
  <2>2. Coming \/ \E t \in Writing : c \in Range(sv[t].rows)
    BY <2>1, SameRange DEF IInv, Mapping, Covered
  <2> QED
    BY <2>2, SameRange DEF Coming, Writing
<1> QED
  BY <1>1, Invariant, PTL

\* A start ends with a file for every record and a record for every file, and no
\* more of them than the budget, whatever the runs before it left.
THEOREM NoStrayIsLeft == Spec => []AdoptLeavesNoStray
<1>1. IInv => AdoptLeavesNoStray
  <2>1. SUFFICES ASSUME IInv, main.pc = "adopted"
                 PROVE  /\ \A c \in Convs : file[c] # "none" <=> rec[c].copy # "none"
                        /\ Cardinality(Parked(rec)) <= ParkBudget
    BY DEF AdoptLeavesNoStray
  <2>2. sv[Main].spent = {}
    BY <2>1, ThreadsApart, Found DEF IInv, Adopting, CopyOf
  <2> QED
    BY <2>1, <2>2 DEF IInv, Adopting
<1> QED
  BY <1>1, Invariant, PTL

-------------------------------------------------------------------------------
\* What a stop keeps.  Who copies whom, what of the quiet conversations is where,
\* and which maps name them.

\* A copy is made or queued once, of a record that says so.
OneCopyEach ==
    /\ \A t \in Threads : sv[t].conv # NoConv => rec[sv[t].conv].parking
    /\ \A i \in 1..Len(jobs) : rec[jobs[i].conv].parking
    /\ \A t, u \in Threads : sv[t].conv # NoConv /\ sv[t].conv = sv[u].conv => t = u
    /\ \A t \in Threads, i \in 1..Len(jobs) : sv[t].conv # jobs[i].conv
    /\ \A i, j \in 1..Len(jobs) : jobs[i].conv = jobs[j].conv => i = j

\* A thread names a conversation and a slot, or neither.
Named(t) ==
    /\ sv[t].conv = NoConv <=> sv[t].slot = NoSlot
    /\ sv[t].pc \in {"claim", "save", "hold"} => sv[t].conv # NoConv
    /\ sv[t].pc = "idle" => sv[t].conv = NoConv

\* And what a record says is done, somebody does.
Marked(c) ==
    /\ rec[c].parking => \/ \E t \in Threads : sv[t].conv = c
                         \/ \E i \in 1..Len(jobs) : jobs[i].conv = c
    /\ rec[c].inflight => \E h \in Handlers : /\ serve[h].conv = c
                                              /\ serve[h].pc \in {"ensure", "taken", "forgot"}

\* A copy begun for an earlier turn is of a record that has no later one.
LateCopies ==
    \A t \in Threads : sv[t].pc \in {"claim", "save", "hold"} /\ ~sv[t].mine =>
                           rec[sv[t].conv].copy # "latest"

\* The main thread copies while it parks, and then only writes the map.
MainCopies ==
    /\ main.pc \in {"adopted", "serving", "draining", "stopped", "down"} => sv[Main].pc = "idle"
    /\ main.pc = "mapping" => sv[Main].pc \notin {"claim", "save", "hold", "drop"}
    /\ main.pc # "parking" => main.tried = {}

Owners ==
    /\ OneCopyEach /\ LateCopies /\ MainCopies
    /\ \A t \in Threads : Named(t)
    /\ Running => \A c \in Convs : Marked(c)

\* A save of c has ended and is to be recorded.
Filing(c) == \E t \in Threads : sv[t].pc = "hold" /\ sv[t].conv = c

\* Nobody serves a quiet conversation or deletes its file, which is there when
\* its record says so, or somebody has filled it and is to say so; once the
\* worker was waited for, its copy is not queued; once park_all is over no
\* handler copies it; and what park_all tried is copied, or being copied.
Still(c) ==
    /\ \A h \in Handlers : serve[h].conv # c
    /\ \A t \in Threads : c \notin sv[t].spent
    /\ rec[c].copy = "latest" => file[c] = "latest" \/ Filing(c)
    /\ main.pc \in {"parking", "mapping"} => c \notin Queued
    /\ main.pc = "mapping" => \A h \in Handlers : sv[h].conv # c
    /\ sv[Main].pc \in {"claim", "save", "hold"} /\ sv[Main].conv = c => sv[Main].mine
    /\ c \in main.tried => \/ rec[c].copy = "latest"
                           \/ sv[Main].pc \in {"claim", "save", "hold"} /\ sv[Main].conv = c

\* The quiet conversations that have a cache in a slot.
InSlots == {c \in quiet : rec[c].slot # NoSlot}

\* From park_all on these are copied, then every lone save takes them, and then
\* the map has them.
Kept ==
    /\ main.pc \in {"mapping", "stopped"} => \A c \in InSlots : rec[c].copy = "latest"
    /\ main.pc = "mapping" /\ sv[Main].pc # "map" =>
           \A t \in Writing : sv[t].alone => InSlots \subseteq Range(sv[t].rows)
    /\ clean /\ (main.pc = "stopped" \/ (main.pc = "mapping" /\ sv[Main].pc \in {"end", "idle"})) =>
           InSlots \subseteq Range(Vouched)

SInv == Owners /\ (\A c \in quiet : Still(c)) /\ Kept

-------------------------------------------------------------------------------
\* Steps of one thread's copy.

\* Thread t goes on with its copy, and the others are where they were.
Onward(t) ==
    /\ \A u \in Threads : sv'[u].conv = sv[u].conv /\ sv'[u].slot = sv[u].slot
    /\ \A u \in Threads \ {t} : /\ sv'[u].pc = sv[u].pc /\ sv'[u].mine = sv[u].mine
                                /\ sv'[u].spent = sv[u].spent
    /\ sv[t].pc # "idle" /\ sv'[t].pc # "idle"
    /\ sv'[t].pc \in {"claim", "save", "hold"} => /\ sv[t].pc \in {"claim", "save", "hold"}
                                                  /\ sv[t].mine => sv'[t].mine
    /\ sv'[t].pc \in {"claim", "save", "hold", "drop"} =>
           sv[t].pc \in {"claim", "save", "hold", "drop"}

\* A save to be recorded waits while another thread goes on.
LEMMA FilingOnward ==
  ASSUME NEW t \in Threads, Onward(t), sv[t].pc # "hold", NEW c, Filing(c)
  PROVE  Filing(c)'
<1>1. PICK u \in Threads : sv[u].pc = "hold" /\ sv[u].conv = c
  BY DEF Filing
<1>2. sv'[u].pc = "hold" /\ sv'[u].conv = c
  BY <1>1 DEF Onward
<1> QED
  BY <1>2 DEF Filing

\* No record begins or ends to be copied or served.
MarksKept ==
    \A c \in Convs : rec'[c].parking = rec[c].parking /\ rec'[c].inflight = rec[c].inflight

\* The conversations of threads and jobs.
LEMMA Conversations ==
  ASSUME Control
  PROVE  /\ \A t \in Threads : sv[t].conv \in Convs \cup {NoConv}
         /\ \A i \in 1..Len(jobs) : jobs[i] \in Jobs /\ jobs[i].conv \in Convs
         /\ \A h \in Handlers : serve[h].conv \in Convs \cup {NoConv}
         /\ NoConv \notin Convs
         /\ main \in Mains
<1>1. \A t \in Threads : sv[t] \in Copies
  BY Found
<1>2. jobs \in Seq(Jobs)
  BY Found
<1>3. \A i \in 1..Len(jobs) : jobs[i] \in Jobs
  BY <1>2
<1>4. \A h \in Handlers : serve[h] \in Turns
  BY DEF Control, TypeOK, Turns
<1> QED
  BY <1>1, <1>3, <1>4, Parameters DEF Copies, Jobs, Turns, Control, TypeOK, Mains

LEMMA OwnersOnward ==
  ASSUME Control, Owners, Running, NEW t \in Threads, Onward(t), MarksKept, LateCopies',
         UNCHANGED <<jobs, serve, main>>
  PROVE  Owners'
<1>1. OneCopyEach'
  <2>1. /\ \A u \in Threads : sv[u].conv # NoConv => rec'[sv[u].conv].parking
        /\ \A i \in 1..Len(jobs) : rec'[jobs[i].conv].parking
    BY Conversations DEF Owners, OneCopyEach, MarksKept
  <2> QED
    BY <2>1 DEF Owners, OneCopyEach, Onward
<1>2. MainCopies'
  BY ThreadsApart DEF Owners, MainCopies, Onward
<1>3. \A u \in Threads : Named(u)'
  BY DEF Owners, Named, Onward
<1>4. \A c \in Convs : Marked(c)'
  BY DEF Owners, Marked, Onward, MarksKept
<1> QED
  BY <1>1, <1>2, <1>3, <1>4 DEF Owners

\* The copies due to be late are late still, if no record is filed anew.
LEMMA LateOnward ==
  ASSUME Control, Owners, NEW t \in Threads, Onward(t),
         \A c \in Convs : rec'[c].copy = rec[c].copy
  PROVE  LateCopies'
<1>1. SUFFICES ASSUME NEW u \in Threads, sv'[u].pc \in {"claim", "save", "hold"}, ~sv'[u].mine
               PROVE  rec'[sv'[u].conv].copy # "latest"
  BY DEF LateCopies
<1>2. /\ sv[u].pc \in {"claim", "save", "hold"} /\ ~sv[u].mine /\ sv'[u].conv = sv[u].conv
  BY <1>1 DEF Onward
<1>3. sv[u].conv \in Convs
  BY <1>2, Conversations DEF Owners, Named
<1> QED
  BY <1>2, <1>3 DEF Owners, LateCopies

\* A quiet conversation stays still while t goes on, deletes no file of it and
\* keeps file and record in step.
LEMMA StillOnward ==
  ASSUME NEW c \in quiet, Still(c), NEW t \in Threads, Onward(t),
         UNCHANGED <<jobs, serve, main>>,
         c \notin sv'[t].spent, rec'[c].copy = "latest" => file'[c] = "latest" \/ Filing(c)',
         sv[Main].pc \in {"claim", "save", "hold"} /\ sv[Main].conv = c =>
             sv'[Main].pc \in {"claim", "save", "hold"} \/ rec'[c].copy = "latest",
         rec[c].copy = "latest" => rec'[c].copy = "latest" \/ c \notin main.tried
  PROVE  Still(c)'
<1>1. Queued' = Queued
  BY ThreadsApart DEF Queued, Onward
<1>2. \A u \in Threads : c \notin sv'[u].spent
  BY DEF Still, Onward
<1>3. sv'[Main].pc \in {"claim", "save", "hold"} /\ sv'[Main].conv = c => sv'[Main].mine
  BY ThreadsApart DEF Still, Onward
<1>4. c \in main.tried => \/ rec'[c].copy = "latest"
                          \/ sv'[Main].pc \in {"claim", "save", "hold"} /\ sv'[Main].conv = c
  BY ThreadsApart DEF Still, Onward
<1>5. main.pc = "mapping" => \A h \in Handlers : sv'[h].conv # c
  BY ThreadsApart DEF Still, Onward
<1>6. (rec[c].copy = "latest" => file[c] = "latest" \/ Filing(c))'
  OBVIOUS
<1>7. \A h \in Handlers : serve'[h].conv # c
  BY DEF Still
<1> QED
  BY <1>1, <1>2, <1>3, <1>4, <1>5, <1>6, <1>7 DEF Still

\* What is kept stays kept in a step of one thread that neither takes rows nor
\* puts a map in place.
LEMMA KeptStep ==
  ASSUME Kept, MainCopies, NEW t \in Threads, UNCHANGED main, clean' => clean /\ pins' = pins,
         InSlots' \subseteq InSlots,
         \A u \in Threads \ {t} : sv'[u].pc = sv[u].pc,
         \A u \in Threads : sv'[u].pc \in {"open", "write", "rename"} =>
             u \in Writing /\ sv'[u].alone = sv[u].alone /\ sv'[u].rows = sv[u].rows,
         main.pc \in {"mapping", "stopped"} =>
             \A c \in InSlots' : rec[c].copy = "latest" => rec'[c].copy = "latest",
         \/ sv[t].pc \in {"claim", "save", "hold", "drop"}
         \/ /\ sv[t].pc # "map"
            /\ clean' /\ sv'[t].pc \in {"end", "idle"} => sv[t].pc \in {"end", "idle"}
  PROVE  Kept'
<1>1. /\ main.pc = "mapping" /\ sv'[Main].pc # "map" => sv[Main].pc # "map"
      /\ main.pc = "mapping" /\ clean' /\ sv'[Main].pc \in {"end", "idle"} =>
             sv[Main].pc \in {"end", "idle"}
  BY ThreadsApart DEF MainCopies
<1>2. clean' => Vouched' = Vouched
  BY DEF Vouched
<1>3. \A u \in Writing' : u \in Writing /\ sv'[u].alone = sv[u].alone /\ sv'[u].rows = sv[u].rows
  BY DEF Writing
<1> QED
  BY <1>1, <1>2, <1>3 DEF Kept

\* And in any that leaves the stop before its map, or goes back to a start.
LEMMA KeptBefore ==
  ASSUME main'.pc \notin {"mapping", "stopped"}
  PROVE  Kept'
  BY DEF Kept

\* A step that keeps the records, the files and the map as they are for the
\* quiet conversations keeps all of it.
LEMMA CopyStepSInv ==
  ASSUME Control, SInv, Running, NEW t \in Threads, Onward(t), MarksKept, LateCopies',
         UNCHANGED <<jobs, serve, main>>, quiet' \subseteq quiet, Kept',
         \A c \in quiet' :
             /\ c \notin sv'[t].spent
             /\ rec'[c].copy = "latest" => file'[c] = "latest" \/ Filing(c)'
             /\ rec[c].copy = "latest" => rec'[c].copy = "latest" \/ c \notin main.tried
             /\ sv[Main].pc \in {"claim", "save", "hold"} /\ sv[Main].conv = c =>
                    sv'[Main].pc \in {"claim", "save", "hold"} \/ rec'[c].copy = "latest"
  PROVE  SInv'
<1>1. Owners'
  BY OwnersOnward DEF SInv
<1>2. ASSUME NEW c \in quiet' PROVE Still(c)'
  BY <1>2, StillOnward DEF SInv
<1> QED
  BY <1>1, <1>2 DEF SInv

LEMMA ClaimSInv ==
  ASSUME IInv, SInv, Running, NEW t \in Threads, Claim(t)
  PROVE  SInv'
<1> DEFINE r == [sv[t] EXCEPT !.pc = "save", !.mine = TRUE]
<1>1. /\ sv[t].pc = "claim" /\ sv[t] \in Copies /\ Control
      /\ UNCHANGED <<rec, used, jobs, serve, main, file, pins, spare, clean, quiet>>
      /\ sv' = [sv EXCEPT ![t] = r]
  BY Found DEF Claim, disk, IInv
<1>2. /\ r.pc = "save" /\ r.conv = sv[t].conv /\ r.slot = sv[t].slot /\ r.mine
      /\ r.spent = sv[t].spent
  BY <1>1 DEF Copies
<1> HIDE DEF r
<1>3. sv'[t] = r /\ \A u \in Threads \ {t} : sv'[u] = sv[u]
  BY <1>1, Found
<1>4. Onward(t) /\ MarksKept
  BY <1>1, <1>2, <1>3 DEF Onward, MarksKept
<1>5. LateCopies'
  BY <1>1, <1>4, LateOnward DEF SInv
<1>6. ASSUME NEW c \in quiet
      PROVE  /\ c \notin sv'[t].spent
             /\ rec[c].copy = "latest" => file[c] = "latest" \/ Filing(c)'
             /\ sv[Main].pc \in {"claim", "save", "hold"} =>
                    sv'[Main].pc \in {"claim", "save", "hold"}
  BY <1>1, <1>2, <1>3, <1>4, FilingOnward, ThreadsApart DEF SInv, Still
<1>7. Kept'
  <2>1. InSlots' \subseteq InSlots
    BY <1>1 DEF InSlots
  <2> QED
    BY <1>1, <1>2, <1>3, <2>1, KeptStep DEF SInv, Owners, Writing
<1> QED
  BY <1>1, <1>4, <1>5, <1>6, <1>7, CopyStepSInv

LEMMA SaveSInv ==
  ASSUME IInv, SInv, Running, NEW t \in Threads, Save(t)
  PROVE  SInv'
<1>1. /\ sv[t].pc = "save" /\ sv[t] \in Copies /\ Control
      /\ UNCHANGED <<rec, used, jobs, serve, main, pins, spare, clean, quiet>>
      /\ file' = file \/ file' = [file EXCEPT ![sv[t].conv] = Age(t)]
  BY Found DEF Save, IInv
<1>2. /\ sv'[t].pc = "hold" /\ sv'[t].conv = sv[t].conv /\ sv'[t].slot = sv[t].slot
      /\ sv'[t].mine = sv[t].mine /\ sv'[t].spent = sv[t].spent
      /\ \A u \in Threads \ {t} : sv'[u] = sv[u]
  <2>1. CASE sv' = [sv EXCEPT ![t].pc = "hold", ![t].ok = TRUE]
    <3> DEFINE r == [sv[t] EXCEPT !.pc = "hold", !.ok = TRUE]
    <3>1. r.pc = "hold" /\ r.conv = sv[t].conv /\ r.slot = sv[t].slot /\ r.mine = sv[t].mine
          /\ r.spent = sv[t].spent
      BY <1>1 DEF Copies
    <3>2. sv' = [sv EXCEPT ![t] = r]
      BY <2>1
    <3> HIDE DEF r
    <3> QED
      BY <1>1, <3>1, <3>2, Found
  <2>2. CASE sv' = [sv EXCEPT ![t].pc = "hold"]
    <3> DEFINE r == [sv[t] EXCEPT !.pc = "hold"]
    <3>1. r.pc = "hold" /\ r.conv = sv[t].conv /\ r.slot = sv[t].slot /\ r.mine = sv[t].mine
          /\ r.spent = sv[t].spent
      BY <1>1 DEF Copies
    <3>2. sv' = [sv EXCEPT ![t] = r]
      BY <2>2
    <3> HIDE DEF r
    <3> QED
      BY <1>1, <3>1, <3>2, Found
  <2> QED
    BY <2>1, <2>2 DEF Save
<1>3. Onward(t) /\ MarksKept
  BY <1>1, <1>2 DEF Onward, MarksKept
<1>4. LateCopies'
  BY <1>1, <1>3, LateOnward DEF SInv
<1>5. ASSUME NEW c \in quiet
      PROVE  /\ c \notin sv'[t].spent
             /\ rec[c].copy = "latest" => file'[c] = "latest" \/ Filing(c)'
             /\ sv[Main].pc \in {"claim", "save", "hold"} =>
                    sv'[Main].pc \in {"claim", "save", "hold"}
  <2>1. /\ c \notin sv'[t].spent /\ c \in Convs
        /\ rec[c].copy = "latest" => file[c] = "latest" \/ Filing(c)
    BY <1>1, <1>2, Found DEF SInv, Still
  <2>2. sv[t].conv = c => Filing(c)'
    BY <1>2 DEF Filing
  <2>3. sv[t].conv # c => file'[c] = file[c]
    BY <1>1, <2>1, Found
  <2>4. Filing(c) => Filing(c)'
    BY <1>1, <1>3, FilingOnward
  <2> QED
    BY <1>1, <1>2, <2>1, <2>2, <2>3, <2>4, ThreadsApart
<1>6. Kept'
  <2>1. InSlots' \subseteq InSlots
    BY <1>1 DEF InSlots
  <2> QED
    BY <1>1, <1>2, <2>1, KeptStep DEF SInv, Owners, Writing
<1> QED
  BY <1>1, <1>3, <1>4, <1>5, <1>6, CopyStepSInv

\* Trimming takes copies from records and nothing else.
LEMMA TrimmedKeeps ==
  ASSUME NEW R \in [Convs -> Records], NEW gone, NEW c \in Convs
  PROVE  /\ Trimmed(R, gone)[c].parking = R[c].parking
         /\ Trimmed(R, gone)[c].inflight = R[c].inflight
<1>1. R[c] \in Records
  OBVIOUS
<1> QED
  BY <1>1 DEF Trimmed, Records

\* The hold that records a copy: what it does to threads, records and quiet.
LEMMA HoldDoes ==
  ASSUME IInv, NEW t \in Threads, Hold(t)
  PROVE  /\ Onward(t) /\ MarksKept /\ sv[t].pc = "hold" /\ sv'[t].pc \notin {"claim", "save", "hold"}
         /\ \A u \in Threads \ {t} : sv'[u] = sv[u]
         /\ sv'[t].pc \notin {"open", "write", "rename"}
         /\ UNCHANGED <<used, jobs, serve, main, file, pins, spare, clean>>
         /\ quiet' \subseteq quiet /\ sv'[t].spent \cap quiet' = {}
         /\ \A c \in Convs : rec'[c].slot = rec[c].slot
         /\ \A c \in Convs : rec'[c].copy \in {"none", IF c = sv[t].conv /\ sv[t].ok
                                                       THEN Filed(t) ELSE rec[c].copy}
         /\ \A c \in quiet' : rec'[c].copy = IF c = sv[t].conv /\ sv[t].ok
                                             THEN Filed(t) ELSE rec[c].copy
         /\ sv[t].conv \in quiet' => sv[t].ok /\ file[sv[t].conv] = Filed(t)
<1> DEFINE c == sv[t].conv
           R == IF sv[t].ok THEN [rec EXCEPT ![c].copy = Filed(t)] ELSE rec
           doomed == Doomed(R, c)
           pc == CASE doomed # {} -> "drop" [] doomed = {} /\ sv[t].ok -> "map" [] OTHER -> "end"
           r == [sv[t] EXCEPT !.spent = doomed, !.ok = FALSE, !.mine = FALSE,
                              !.fresh = FALSE, !.pc = pc]
<1>1. sv[t].pc = "hold" /\ sv[t] \in Copies /\ c \in Convs /\ Control
  <2>1. sv[t].pc = "hold" /\ Control /\ sv[t] \in Copies /\ c \in Range(used)
    BY Found DEF Hold, IInv, CopyOf
  <2> QED
    BY <2>1, Found, MemberOf
<1>2. /\ rec' = Trimmed(R, doomed)
      /\ sv' = [sv EXCEPT ![t].spent = doomed, ![t].ok = FALSE, ![t].mine = FALSE,
                          ![t].fresh = FALSE, ![t].pc = pc]
      /\ quiet' = (IF sv[t].ok /\ file[c] = Filed(t) THEN quiet ELSE quiet \ {c}) \ doomed
      /\ UNCHANGED <<used, jobs, serve, main, file, pins, spare, clean>>
  BY DEF Hold, disk
<1>3. /\ R \in [Convs -> Records]
      /\ \A d \in Convs : /\ R[d].slot = rec[d].slot
                          /\ R[d].parking = rec[d].parking /\ R[d].inflight = rec[d].inflight
                          /\ R[d].copy = IF d = c /\ sv[t].ok THEN Filed(t) ELSE rec[d].copy
  <2>1. Filed(t) \in {"older", "latest"}
    BY DEF Filed
  <2>2. rec[c] \in Records
    BY <1>1, Found
  <2> DEFINE q == [rec[c] EXCEPT !.copy = Filed(t)]
  <2>3. /\ q \in Records /\ q.slot = rec[c].slot /\ q.parking = rec[c].parking
        /\ q.inflight = rec[c].inflight /\ q.copy = Filed(t)
    BY <2>1, <2>2 DEF Records
  <2>4. R = IF sv[t].ok THEN [rec EXCEPT ![c] = q] ELSE rec
    OBVIOUS
  <2> HIDE DEF q, R, c
  <2> QED
    BY <1>1, <2>2, <2>3, <2>4, Found
<1> HIDE DEF R, doomed
<1>4. /\ \A d \in Convs : /\ rec'[d].slot = R[d].slot
                          /\ rec'[d].copy = IF d \in doomed THEN "none" ELSE R[d].copy
                          /\ rec'[d].parking = R[d].parking /\ rec'[d].inflight = R[d].inflight
  BY <1>2, <1>3, TrimmedTyped, TrimmedKeeps
<1>5. pc \in {"drop", "map", "end"}
  OBVIOUS
<1> HIDE DEF pc
<1>6. /\ r.pc = pc /\ r.spent = doomed /\ r.conv = sv[t].conv /\ r.slot = sv[t].slot
      /\ sv' = [sv EXCEPT ![t] = r]
  <2>1. sv' = [sv EXCEPT ![t] = r]
    BY <1>2, Zenon
  <2> QED
    BY <1>1, <2>1 DEF Copies
<1> HIDE DEF r
<1>7. sv'[t] = r /\ \A u \in Threads \ {t} : sv'[u] = sv[u]
  BY <1>1, <1>6, Found
<1>8. Onward(t)
  BY <1>1, <1>5, <1>6, <1>7 DEF Onward
<1>9. MarksKept
  BY <1>3, <1>4 DEF MarksKept
<1>10. quiet' \subseteq quiet \ doomed /\ (c \in quiet' => sv[t].ok /\ file[c] = Filed(t))
  BY <1>2
<1>11. quiet' \subseteq Convs
  BY <1>1, <1>10, Found
<1> HIDE DEF c
<1>12. /\ \A d \in Convs : rec'[d].slot = rec[d].slot
       /\ \A d \in Convs : rec'[d].copy \in {"none", IF d = c /\ sv[t].ok THEN Filed(t) ELSE rec[d].copy}
       /\ \A d \in quiet' : rec'[d].copy = IF d = c /\ sv[t].ok THEN Filed(t) ELSE rec[d].copy
  BY <1>3, <1>4, <1>10, <1>11
<1>13. quiet' \subseteq quiet /\ sv'[t].spent \cap quiet' = {}
  BY <1>6, <1>7, <1>10
<1>14. sv'[t].pc \notin {"claim", "save", "hold", "open", "write", "rename"}
  BY <1>5, <1>6, <1>7
<1> QED
  BY <1>1, <1>2, <1>7, <1>8, <1>9, <1>10, <1>12, <1>13, <1>14 DEF c

LEMMA HoldSInv ==
  ASSUME IInv, SInv, Running, NEW t \in Threads, Hold(t)
  PROVE  SInv'
<1> DEFINE d == sv[t].conv
<1>1. /\ Onward(t) /\ MarksKept /\ sv[t].pc = "hold" /\ sv'[t].pc \notin {"claim", "save", "hold"}
      /\ \A u \in Threads \ {t} : sv'[u] = sv[u]
      /\ sv'[t].pc \notin {"open", "write", "rename"}
      /\ UNCHANGED <<used, jobs, serve, main, file, pins, spare, clean>>
      /\ quiet' \subseteq quiet /\ sv'[t].spent \cap quiet' = {}
      /\ \A c \in Convs : rec'[c].slot = rec[c].slot
      /\ \A c \in Convs : rec'[c].copy \in {"none", IF c = d /\ sv[t].ok THEN Filed(t) ELSE rec[c].copy}
      /\ \A c \in quiet' : rec'[c].copy = IF c = d /\ sv[t].ok THEN Filed(t) ELSE rec[c].copy
      /\ d \in quiet' => sv[t].ok /\ file[d] = Filed(t)
  BY HoldDoes
<1>2. Control /\ quiet \subseteq Convs /\ d # NoConv
  BY <1>1, Found DEF IInv, SInv, Owners, Named
<1>3. LateCopies'
  <2>1. SUFFICES ASSUME NEW u \in Threads, sv'[u].pc \in {"claim", "save", "hold"}, ~sv'[u].mine
                 PROVE  rec'[sv'[u].conv].copy # "latest"
    BY DEF LateCopies
  <2>2. u # t /\ sv[u].pc \in {"claim", "save", "hold"} /\ ~sv[u].mine /\ sv'[u].conv = sv[u].conv
    BY <1>1, <2>1
  <2>3. sv[u].conv \in Convs /\ sv[u].conv # d
    BY <1>2, <2>2, Conversations DEF SInv, Owners, Named, OneCopyEach
  <2>4. rec[sv[u].conv].copy # "latest"
    BY <2>2 DEF SInv, Owners, LateCopies
  <2> QED
    BY <1>1, <2>2, <2>3, <2>4
<1>4. ASSUME NEW c \in quiet'
      PROVE  /\ rec'[c].copy = "latest" => file'[c] = "latest" \/ Filing(c)'
             /\ rec[c].copy = "latest" => rec'[c].copy = "latest"
             /\ sv[Main].pc \in {"claim", "save", "hold"} /\ sv[Main].conv = c =>
                    sv'[Main].pc \in {"claim", "save", "hold"} \/ rec'[c].copy = "latest"
  <2>1. c \in quiet /\ c \in Convs /\ Still(c)
    BY <1>1, <1>2 DEF SInv
  <2>2. CASE c = d
    <3>1. sv[t].ok /\ file[c] = Filed(t) /\ rec'[c].copy = Filed(t)
      BY <1>1, <2>2
    <3>2. rec[c].copy = "latest" => Filed(t) = "latest"
      BY <1>1, <2>2 DEF SInv, Owners, LateCopies, Filed
    <3>3. sv[Main].conv = c => t = Main
      BY <1>2, <2>2, ThreadsApart DEF SInv, Owners, OneCopyEach
    <3>4. t = Main => Filed(t) = "latest"
      BY <1>1, <2>1, <2>2 DEF Still, Filed
    <3> QED
      BY <1>1, <3>1, <3>2, <3>3, <3>4
  <2>3. CASE c # d
    <3>1. rec'[c].copy = rec[c].copy
      BY <1>1, <2>3
    <3>2. Filing(c) => Filing(c)'
      BY <1>1, <2>3 DEF Filing
    <3> QED
      BY <1>1, <2>1, <2>3, <3>1, <3>2, ThreadsApart DEF Still
  <2> QED
    BY <2>2, <2>3
<1>5. Kept'
  <2>1. InSlots' \subseteq InSlots /\ InSlots' \subseteq quiet'
    BY <1>1, <1>2 DEF InSlots
  <2> QED
    BY <1>1, <1>4, <2>1, KeptStep DEF SInv, Owners, Writing
<1> QED
  BY <1>1, <1>2, <1>3, <1>4, <1>5, CopyStepSInv

LEMMA DropSInv ==
  ASSUME IInv, SInv, Running, NEW t \in Threads, Drop(t)
  PROVE  SInv'
<1>1. PICK c \in sv[t].spent :
        /\ file' = [file EXCEPT ![c] = "none"]
        /\ sv' = [sv EXCEPT ![t].spent = @ \ {c},
                            ![t].pc = IF sv[t].spent = {c} THEN "map" ELSE "drop"]
  BY DEF Drop
<1> DEFINE pc == IF sv[t].spent = {c} THEN "map" ELSE "drop"
           r == [sv[t] EXCEPT !.spent = sv[t].spent \ {c}, !.pc = pc]
<1>2. /\ sv[t].pc = "drop" /\ sv[t] \in Copies /\ Control
      /\ UNCHANGED <<rec, used, jobs, serve, main, pins, spare, clean, quiet>>
  BY Found DEF Drop, IInv
<1>3. pc \in {"drop", "map"}
  OBVIOUS
<1>4. sv' = [sv EXCEPT ![t] = r]
  BY <1>1, Zenon
<1> HIDE DEF pc
<1>5. /\ r.pc = pc /\ r.spent \subseteq sv[t].spent /\ r.conv = sv[t].conv /\ r.slot = sv[t].slot
  BY <1>2 DEF Copies
<1> HIDE DEF r
<1>6. sv'[t] = r /\ \A u \in Threads \ {t} : sv'[u] = sv[u]
  BY <1>2, <1>4, Found
<1>7. Onward(t) /\ MarksKept
  BY <1>2, <1>3, <1>5, <1>6 DEF Onward, MarksKept
<1>8. LateCopies'
  BY <1>2, <1>7, LateOnward DEF SInv
<1>9. ASSUME NEW d \in quiet
      PROVE  /\ d \notin sv'[t].spent
             /\ rec[d].copy = "latest" => file'[d] = "latest" \/ Filing(d)'
             /\ sv[Main].pc \in {"claim", "save", "hold"} =>
                    sv'[Main].pc \in {"claim", "save", "hold"}
  <2>1. /\ d \notin sv[t].spent /\ d \in Convs
        /\ rec[d].copy = "latest" => file[d] = "latest" \/ Filing(d)
    BY <1>2, Found DEF SInv, Still
  <2>2. Filing(d) => Filing(d)'
    BY <1>2, <1>7, FilingOnward
  <2> QED
    BY <1>1, <1>2, <1>3, <1>5, <1>6, <2>1, <2>2, ThreadsApart, Found
<1>10. Kept'
  <2>1. InSlots' \subseteq InSlots
    BY <1>2 DEF InSlots
  <2> QED
    BY <1>2, <1>3, <1>5, <1>6, <2>1, KeptStep DEF SInv, Owners, Writing
<1> QED
  BY <1>2, <1>7, <1>8, <1>9, <1>10, CopyStepSInv

LEMMA TakeRowsSInv ==
  ASSUME IInv, SInv, Running, NEW t \in Threads, TakeRows(t)
  PROVE  SInv'
<1> DEFINE rows == Pick(used, Parked(rec))
           r == [sv[t] EXCEPT !.pc = "open", !.alone = (Writing = {}), !.rows = rows]
<1>1. /\ sv[t].pc = "map" /\ sv[t] \in Copies /\ Control
      /\ UNCHANGED <<rec, used, jobs, serve, main, file, pins, spare, clean, quiet>>
      /\ sv' = [u \in Threads |->
                 CASE u = t -> r
                   [] u # t /\ u \in Writing -> [sv[u] EXCEPT !.alone = FALSE]
                   [] OTHER -> sv[u]]
  BY Found DEF TakeRows, disk, IInv
<1>2. Range(rows) = Parked(rec)
  <2>1. Range(rows) = Range(used) \cap Parked(rec)
    BY <1>1, PickRange, Found
  <2>2. Parked(rec) \subseteq Range(used)
    BY <1>1, Found DEF Parked
  <2> QED
    BY <2>1, <2>2
<1> HIDE DEF rows
<1>3. /\ r.pc = "open" /\ r.rows = rows /\ r.conv = sv[t].conv /\ r.slot = sv[t].slot
      /\ r.spent = sv[t].spent
  BY <1>1 DEF Copies
<1> HIDE DEF r
<1>4. sv'[t] = r
  BY <1>1
<1>5. ASSUME NEW u \in Threads \ {t}
      PROVE  /\ sv'[u].conv = sv[u].conv /\ sv'[u].slot = sv[u].slot /\ sv'[u].pc = sv[u].pc
             /\ sv'[u].mine = sv[u].mine /\ sv'[u].spent = sv[u].spent
             /\ u \in Writing => ~sv'[u].alone
  <2>1. sv[u] \in Copies
    BY <1>1, Found
  <2>2. sv'[u] = IF u \in Writing THEN [sv[u] EXCEPT !.alone = FALSE] ELSE sv[u]
    BY <1>1
  <2> QED
    BY <2>1, <2>2 DEF Copies
<1>6. Onward(t) /\ MarksKept
  BY <1>1, <1>3, <1>4, <1>5 DEF Onward, MarksKept
<1>7. LateCopies'
  BY <1>1, <1>6, LateOnward DEF SInv
<1>8. ASSUME NEW c \in quiet
      PROVE  /\ c \notin sv'[t].spent
             /\ rec[c].copy = "latest" => file[c] = "latest" \/ Filing(c)'
             /\ sv[Main].pc \in {"claim", "save", "hold"} =>
                    sv'[Main].pc \in {"claim", "save", "hold"}
  BY <1>1, <1>3, <1>4, <1>5, <1>6, FilingOnward, ThreadsApart DEF SInv, Still
<1>9. Kept'
  <2>1. InSlots' = InSlots /\ Vouched' = Vouched /\ InSlots \subseteq Convs
    BY <1>1, Found DEF InSlots, Vouched
  <2>2. \A u \in Writing' : sv'[u].alone => u = t
    BY <1>5 DEF Writing
  <2>3. main.pc = "mapping" => InSlots \subseteq Range(sv'[t].rows)
    BY <1>2, <1>3, <1>4, <2>1 DEF SInv, Kept, Parked
  <2>4. sv'[Main].pc \in {"end", "idle"} => sv[Main].pc \in {"end", "idle"}
    BY <1>3, <1>4, <1>5, ThreadsApart
  <2> QED
    BY <1>1, <2>1, <2>2, <2>3, <2>4 DEF SInv, Kept
<1> QED
  BY <1>1, <1>6, <1>7, <1>8, <1>9, CopyStepSInv

\* A thread at the map's file, which leaves records, files and rows alone.
LEMMA WritingSInv ==
  ASSUME IInv, SInv, Running, NEW t \in Writing, Onward(t), sv'[t].spent = {},
         UNCHANGED <<rec, used, jobs, serve, main, file, quiet>>, Kept'
  PROVE  SInv'
<1>1. Control /\ t \in Threads /\ sv[t].pc \notin {"claim", "save", "hold"}
  BY Writes DEF Writing
<1>2. MarksKept
  BY DEF MarksKept
<1>3. LateCopies'
  BY <1>1, LateOnward DEF SInv
<1>4. ASSUME NEW c \in quiet
      PROVE  /\ rec[c].copy = "latest" => file[c] = "latest" \/ Filing(c)'
             /\ sv[Main].pc \in {"claim", "save", "hold"} =>
                    sv'[Main].pc \in {"claim", "save", "hold"}
  BY <1>1, FilingOnward, ThreadsApart DEF SInv, Still, Onward
<1> QED
  BY <1>1, <1>2, <1>3, <1>4, CopyStepSInv

LEMMA OpenSInv ==
  ASSUME IInv, SInv, Running, NEW t \in Threads, Open(t)
  PROVE  SInv'
<1> DEFINE r == [sv[t] EXCEPT !.pc = "write", !.fd = "spare"]
<1>1. /\ sv[t].pc = "open" /\ t \in Writing
      /\ UNCHANGED <<rec, used, jobs, serve, main, file, pins, clean, quiet>>
      /\ sv' = [sv EXCEPT ![t] = r]
  BY DEF Open, Writing
<1>2. sv[t] \in Copies /\ sv[t].spent = {} /\ Control
  BY <1>1, Writes
<1>3. /\ r.pc = "write" /\ r.conv = sv[t].conv /\ r.slot = sv[t].slot /\ r.mine = sv[t].mine
      /\ r.spent = {} /\ r.rows = sv[t].rows /\ r.alone = sv[t].alone
  BY <1>2 DEF Copies
<1> HIDE DEF r
<1>4. sv'[t] = r /\ \A u \in Threads \ {t} : sv'[u] = sv[u]
  BY <1>1, <1>2, Found
<1>5. Onward(t)
  BY <1>1, <1>3, <1>4 DEF Onward
<1>6. Kept'
  <2>1. InSlots' \subseteq InSlots
    BY <1>1 DEF InSlots
  <2> QED
    BY <1>1, <1>3, <1>4, <2>1, KeptStep DEF SInv, Owners, Writing
<1> QED
  BY <1>1, <1>3, <1>4, <1>5, <1>6, WritingSInv

\* A thread that is done with the map.
LEMMA ClosedOnward ==
  ASSUME IInv, NEW t \in Writing, NEW name \in {"gone", "pins"}, sv' = Closed(t, name)
  PROVE  /\ Onward(t) /\ sv'[t].pc = "end" /\ sv'[t].spent = {}
         /\ Writing' = Writing \ {t}
         /\ \A u \in Writing' : sv'[u].rows = sv[u].rows /\ sv'[u].alone = sv[u].alone
<1> DEFINE r == [Resting EXCEPT !.pc = "end", !.conv = sv[t].conv, !.slot = sv[t].slot]
<1>1. t \in Threads /\ sv[t] \in Copies /\ sv[t].pc # "idle" /\ Control
  BY Writes
<1>2. /\ sv'[t].pc = "end" /\ sv'[t].spent = {} /\ Writing' = Writing \ {t}
      /\ \A u \in Threads \ {t} : sv'[u].pc = sv[u].pc /\ sv'[u].slot = sv[u].slot
      /\ \A u \in Threads \ {t} : sv'[u].conv = sv[u].conv /\ sv'[u].spent = sv[u].spent
      /\ \A u \in Writing' : sv'[u].rows = sv[u].rows /\ sv'[u].alone = sv[u].alone
  BY <1>1, ClosedTyped DEF Aside
<1>3. sv'[t].conv = sv[t].conv /\ sv'[t].slot = sv[t].slot
  <2>1. r.conv = sv[t].conv /\ r.slot = sv[t].slot
    BY DEF Resting
  <2>2. sv'[t] = r
    BY <1>1 DEF Closed
  <2> QED
    BY <2>1, <2>2
<1>4. ASSUME NEW u \in Threads \ {t} PROVE sv'[u].mine = sv[u].mine
  <2>1. sv[u] \in Copies
    BY <1>1, Found
  <2>2. \/ sv'[u] = [sv[u] EXCEPT !.fd = name]
        \/ sv'[u] = [sv[u] EXCEPT !.fd = "gone"]
        \/ sv'[u] = sv[u]
    BY DEF Closed
  <2> QED
    BY <2>1, <2>2 DEF Copies
<1> QED
  BY <1>1, <1>2, <1>3, <1>4 DEF Onward

LEMMA GiveUpSInv ==
  ASSUME IInv, SInv, Running, NEW t \in Writing, GiveUp(t),
         UNCHANGED <<rec, used, jobs, serve, main, file, quiet>>
  PROVE  SInv'
<1>1. sv' = Closed(t, "gone") /\ ~clean'
  BY DEF GiveUp
<1>2. /\ Onward(t) /\ sv'[t].pc = "end" /\ sv'[t].spent = {} /\ Writing' = Writing \ {t}
      /\ \A u \in Writing' : sv'[u].rows = sv[u].rows /\ sv'[u].alone = sv[u].alone
  BY <1>1, ClosedOnward
<1>3. Kept'
  <2>1. InSlots' \subseteq InSlots
    BY DEF InSlots
  <2>2. \A u \in Threads : sv'[u].pc \in {"open", "write", "rename"} =>
             u \in Writing /\ sv'[u].alone = sv[u].alone /\ sv'[u].rows = sv[u].rows
    BY <1>2 DEF Writing
  <2>3. t \in Threads /\ sv[t].pc # "map" /\ \A u \in Threads \ {t} : sv'[u].pc = sv[u].pc
    BY <1>2 DEF Onward, Writing
  <2> QED
    BY <1>1, <2>1, <2>2, <2>3, KeptStep DEF SInv, Owners
<1> QED
  BY <1>2, <1>3, WritingSInv

LEMMA RenameSInv ==
  ASSUME IInv, SInv, Running, NEW t \in Threads, Rename(t)
  PROVE  SInv'
<1>1. /\ sv[t].pc = "rename" /\ t \in Writing
      /\ UNCHANGED <<rec, used, jobs, serve, main, file, quiet>>
  BY DEF Rename, Writing
<1>2. CASE GiveUp(t)
  BY <1>1, <1>2, GiveUpSInv
<1>3. CASE ~GiveUp(t)
  <2>1. pins' = spare /\ sv' = Closed(t, "pins") /\ clean' = sv[t].alone
    BY <1>3 DEF Rename
  <2>2. Control /\ Mapping /\ sv[t] \in Copies
    BY <1>1, Writes
  <2>3. /\ Onward(t) /\ sv'[t].pc = "end" /\ sv'[t].spent = {} /\ Writing' = Writing \ {t}
        /\ \A u \in Writing' : sv'[u].rows = sv[u].rows /\ sv'[u].alone = sv[u].alone
    BY <1>1, <2>1, ClosedOnward
  <2>4. sv[t].alone => Vouched' = sv[t].rows
    <3>1. sv[t].rows \in Seq(Convs)
      BY <2>2 DEF Copies
    <3>2. sv[t].alone => spare = Text("rows", sv[t].rows)
      BY <1>1, <2>2 DEF Mapping, AloneWrites
    <3> QED
      BY <2>1, <3>1, <3>2, TextTyped DEF Vouched
  <2>5. Kept'
    <3>1. InSlots' = InSlots /\ (sv'[Main].pc # "map" => sv[Main].pc # "map")
      BY <1>1, <2>3, ThreadsApart DEF InSlots, Onward
    <3>2. clean' /\ main.pc = "mapping" /\ sv'[Main].pc # "map" => InSlots \subseteq Range(Vouched')
      BY <1>1, <2>1, <2>4, <3>1 DEF SInv, Kept
    <3>3. main.pc # "stopped"
      BY DEF Running
    <3> QED
      BY <1>1, <2>3, <3>1, <3>2, <3>3 DEF SInv, Kept
  <2> QED
    BY <1>1, <2>3, <2>5, WritingSInv
<1> QED
  BY <1>2, <1>3

LEMMA WriteSInv ==
  ASSUME IInv, SInv, Running, NEW t \in Threads, Write(t)
  PROVE  SInv'
<1> DEFINE r == [sv[t] EXCEPT !.pc = "rename"]
<1>1. /\ sv[t].pc = "write" /\ t \in Writing
      /\ UNCHANGED <<rec, used, jobs, serve, main, file, quiet>>
  BY DEF Write, Writing
<1>2. sv[t] \in Copies /\ sv[t].spent = {} /\ Control /\ Mapping
  BY <1>1, Writes
<1>3. CASE GiveUp(t)
  BY <1>1, <1>3, GiveUpSInv
<1>4. CASE ~GiveUp(t)
  <2>1. /\ sv' = [sv EXCEPT ![t] = r] /\ clean' = clean
        /\ sv[t].fd # "pins" => pins' = pins
    BY <1>4 DEF Write
  <2>2. clean' => clean /\ pins' = pins
    BY <1>1, <1>2, <2>1 DEF Mapping, CleanMap
  <2>3. /\ r.pc = "rename" /\ r.conv = sv[t].conv /\ r.slot = sv[t].slot /\ r.mine = sv[t].mine
        /\ r.spent = {} /\ r.rows = sv[t].rows /\ r.alone = sv[t].alone
    BY <1>2 DEF Copies
  <2> HIDE DEF r
  <2>4. sv'[t] = r /\ \A u \in Threads \ {t} : sv'[u] = sv[u]
    BY <1>2, <2>1, Found
  <2>5. Onward(t)
    BY <1>1, <2>3, <2>4 DEF Onward
  <2>6. Kept'
    <3>1. InSlots' \subseteq InSlots
      BY <1>1 DEF InSlots
    <3> QED
      BY <1>1, <2>2, <2>3, <2>4, <3>1, KeptStep DEF SInv, Owners, Writing
  <2> QED
    BY <1>1, <2>3, <2>4, <2>5, <2>6, WritingSInv
<1> QED
  BY <1>3, <1>4

LEMMA EndSInv ==
  ASSUME IInv, SInv, Running, NEW t \in Threads, End(t)
  PROVE  SInv'
<1> DEFINE d == sv[t].conv
<1>1. /\ sv[t].pc = "end" /\ Control /\ sv'[t] = Resting
      /\ \A u \in Threads \ {t} : sv'[u] = sv[u]
      /\ UNCHANGED <<used, jobs, serve, main, file, pins, spare, clean, quiet>>
  BY Found DEF End, disk, IInv
<1>2. ASSUME NEW c \in Convs
      PROVE  /\ rec'[c].slot = rec[c].slot /\ rec'[c].copy = rec[c].copy
             /\ rec'[c].inflight = rec[c].inflight
             /\ c # d => rec'[c].parking = rec[c].parking
             /\ c = d => ~rec'[c].parking
  <2>1. rec[c] \in Records /\ rec \in [Convs -> Records]
    BY <1>1, Found
  <2>2. sv[t].slot # NoSlot <=> d # NoConv
    BY DEF SInv, Owners, Named
  <2>3. rec'[c] = IF c = d THEN [rec[c] EXCEPT !.parking = FALSE] ELSE rec[c]
    BY <2>1, <2>2, Parameters DEF End
  <2> QED
    BY <2>1, <2>3 DEF Records
<1>3. OneCopyEach'
  <2>1. \A u \in Threads : u # t /\ sv[u].conv # NoConv => rec'[sv[u].conv].parking
    BY <1>1, <1>2, Conversations DEF SInv, Owners, OneCopyEach
  <2>2. \A i \in 1..Len(jobs) : rec'[jobs[i].conv].parking
    BY <1>1, <1>2, Conversations DEF SInv, Owners, OneCopyEach
  <2>3. \A i \in 1..Len(jobs) : jobs[i].conv # NoConv
    BY <1>1, Conversations
  <2> QED
    BY <1>1, <2>1, <2>2, <2>3, RestTyped DEF SInv, Owners, OneCopyEach
<1>4. MainCopies' /\ \A u \in Threads : Named(u)'
  BY <1>1, RestTyped, ThreadsApart DEF SInv, Owners, MainCopies, Named
<1>5. LateCopies'
  <2>1. ASSUME NEW u \in Threads \ {t}, sv[u].pc \in {"claim", "save", "hold"}, ~sv[u].mine
        PROVE  rec'[sv[u].conv].copy # "latest"
    BY <1>1, <1>2, <2>1, Conversations DEF SInv, Owners, LateCopies, Named
  <2> QED
    BY <1>1, <2>1, RestTyped DEF LateCopies
<1>6. \A c \in Convs : Marked(c)'
  BY <1>1, <1>2 DEF SInv, Owners, Marked
<1>7. ASSUME NEW c \in quiet PROVE Still(c)'
  <2>1. c \in Convs /\ Still(c)
    BY <1>1, Found DEF SInv
  <2>2. c \notin Queued => c \notin Queued'
    BY <1>1, <2>1, RestTyped, ThreadsApart, Parameters DEF Queued
  <2>3. \A u \in Threads : c \notin sv'[u].spent
    BY <1>1, <2>1, RestTyped DEF Still
  <2>4. sv'[Main].pc \in {"claim", "save", "hold"} => sv'[Main] = sv[Main]
    BY <1>1, RestTyped, ThreadsApart
  <2>5. sv[Main].pc \in {"claim", "save", "hold"} => sv'[Main] = sv[Main]
    BY <1>1, ThreadsApart
  <2>6. Filing(c) => Filing(c)'
    BY <1>1 DEF Filing
  <2>7. c # NoConv /\ \A h \in Handlers : sv[h].conv # c => sv'[h].conv # c
    BY <1>1, <2>1, RestTyped, ThreadsApart, Parameters
  <2> QED
    BY <1>1, <1>2, <2>1, <2>2, <2>3, <2>4, <2>5, <2>6, <2>7 DEF Still
<1>8. Kept'
  <2>1. InSlots' \subseteq InSlots /\ InSlots \subseteq Convs
    BY <1>1, <1>2, Found DEF InSlots
  <2> QED
    BY <1>1, <1>2, <2>1, RestTyped, KeptStep DEF SInv, Owners, Writing
<1> QED
  BY <1>1, <1>3, <1>4, <1>5, <1>6, <1>7, <1>8 DEF SInv, Owners

-------------------------------------------------------------------------------
\* Steps of the turns.

\* A thread that was idle begins the copy of c.
LEMMA Begun ==
  ASSUME Control, Owners, NEW t \in Threads, NEW c \in Convs, sv[t].pc = "idle",
         rec[c].slot # NoSlot, NEW pc \in {"claim", "save"}, Copy(t, c, pc)
  PROVE  /\ \A u \in Threads \ {t} : sv'[u] = sv[u]
         /\ sv'[t].pc = pc /\ sv'[t].conv = c /\ sv'[t].slot # NoSlot
         /\ sv'[t].spent = {} /\ sv'[t].mine
         /\ sv[t].conv = NoConv /\ c # NoConv
         /\ \A u \in Threads : Named(u)'
<1> DEFINE r == [Resting EXCEPT !.pc = pc, !.conv = c, !.slot = rec[c].slot,
                                !.mine = TRUE, !.fresh = TRUE]
<1>1. /\ \A u \in Threads \ {t} : sv'[u] = sv[u]
      /\ sv'[t].pc = pc /\ sv'[t].conv = c /\ sv'[t].slot # NoSlot /\ sv'[t].spent = {}
  BY CopyTyped DEF Control
<1>2. sv'[t].mine
  <2>1. r.mine
    BY DEF Resting
  <2>2. sv'[t] = r
    BY Found DEF Copy
  <2> QED
    BY <2>1, <2>2
<1>3. sv[t].conv = NoConv /\ c # NoConv
  BY Parameters DEF Owners, Named
<1>4. \A u \in Threads : Named(u)'
  BY <1>1, <1>3 DEF Owners, Named
<1> QED
  BY <1>1, <1>2, <1>3, <1>4

\* One that was not being copied is copied once.
LEMMA BegunOnce ==
  ASSUME Control, Owners, NEW t \in Threads, NEW c \in Convs, sv[t].pc = "idle",
         rec[c].slot # NoSlot, ~rec[c].parking, NEW pc \in {"claim", "save"}, Copy(t, c, pc),
         UNCHANGED jobs,
         rec' = [rec EXCEPT ![c].parking = TRUE]
  PROVE  /\ OneCopyEach' /\ LateCopies'
         /\ \A d \in Convs : /\ rec'[d].copy = rec[d].copy /\ rec'[d].slot = rec[d].slot
                             /\ rec'[d].inflight = rec[d].inflight
         /\ \A d \in Convs : rec'[d].parking => \/ \E u \in Threads : sv'[u].conv = d
                                                \/ \E i \in 1..Len(jobs) : jobs[i].conv = d
                                                \/ rec[d].parking /\ d # c
         /\ \A u \in Threads : sv[u].conv # c
         /\ \A i \in 1..Len(jobs) : jobs[i].conv # c
<1>1. /\ \A u \in Threads \ {t} : sv'[u] = sv[u]
      /\ sv'[t].pc = pc /\ sv'[t].conv = c /\ sv'[t].mine
      /\ sv[t].conv = NoConv /\ c # NoConv
  BY Begun
<1>2. ASSUME NEW d \in Convs
      PROVE  /\ rec'[d].copy = rec[d].copy /\ rec'[d].slot = rec[d].slot
             /\ rec'[d].inflight = rec[d].inflight
             /\ d = c => rec'[d].parking
             /\ d # c => rec'[d].parking = rec[d].parking
  <2> DEFINE r == [rec[c] EXCEPT !.parking = TRUE]
  <2>1. rec[c] \in Records
    BY Found
  <2>2. /\ r.copy = rec[c].copy /\ r.slot = rec[c].slot /\ r.inflight = rec[c].inflight
        /\ r.parking
    BY <2>1 DEF Records
  <2>3. rec' = [rec EXCEPT ![c] = r]
    OBVIOUS
  <2> HIDE DEF r
  <2>4. rec'[c] = r /\ (d # c => rec'[d] = rec[d])
    BY <2>3, Found
  <2> QED
    BY <2>2, <2>4
<1>3. /\ \A u \in Threads : sv[u].conv # c
      /\ \A i \in 1..Len(jobs) : jobs[i].conv # c
  BY <1>1 DEF Owners, OneCopyEach
<1>4. OneCopyEach'
  <2>1. ASSUME NEW u \in Threads, sv'[u].conv # NoConv PROVE rec'[sv'[u].conv].parking
    <3>1. CASE u = t
      BY <1>1, <1>2, <3>1
    <3>2. CASE u # t
      <4>1. sv'[u] = sv[u] /\ sv[u].conv \in Convs /\ sv[u].conv # c
        BY <1>1, <1>3, <2>1, <3>2, Conversations
      <4> QED
        BY <1>2, <2>1, <4>1 DEF Owners, OneCopyEach
    <3> QED
      BY <3>1, <3>2
  <2>2. \A i \in 1..Len(jobs) : rec'[jobs[i].conv].parking
    BY <1>2, Conversations DEF Owners, OneCopyEach
  <2>3. \A u, v \in Threads : sv'[u].conv # NoConv /\ sv'[u].conv = sv'[v].conv => u = v
    BY <1>1, <1>3 DEF Owners, OneCopyEach
  <2>4. \A u \in Threads, i \in 1..Len(jobs) : sv'[u].conv # jobs[i].conv
    BY <1>1, <1>3 DEF Owners, OneCopyEach
  <2> QED
    BY <2>1, <2>2, <2>3, <2>4 DEF Owners, OneCopyEach
<1>5. LateCopies'
  <2>1. SUFFICES ASSUME NEW u \in Threads, sv'[u].pc \in {"claim", "save", "hold"}, ~sv'[u].mine
                 PROVE  rec'[sv'[u].conv].copy # "latest"
    BY DEF LateCopies
  <2>2. u # t /\ sv'[u] = sv[u]
    BY <1>1, <2>1
  <2>3. sv[u].conv \in Convs
    BY <2>1, <2>2, Conversations DEF Owners, Named
  <2> QED
    BY <1>2, <2>1, <2>2, <2>3 DEF Owners, LateCopies
<1> QED
  BY <1>1, <1>2, <1>3, <1>4, <1>5

\* What a quiet conversation is to a turn: not the one that is served.
LEMMA NotServed ==
  ASSUME IInv, SInv, Serving, NEW h \in Handlers, NEW c \in quiet
  PROVE  /\ c # serve[h].conv /\ c \in Convs /\ c # NoConv /\ Still(c)
         /\ Control /\ Running /\ main \in Mains
  BY Serves, Conversations, Found DEF SInv, Still, IInv, Serving, Running

LEMMA EnsureSInv ==
  ASSUME IInv, SInv, NEW h \in Handlers, Ensure(h)
  PROVE  SInv'
<1> DEFINE left == AtRisk(serve[h].tried \cup {serve[h].conv})
           c == Pick(used, left)[1]
<1>1. /\ Serving /\ serve[h].pc = "ensure" /\ sv[h].pc = "idle" /\ left # {}
      /\ Copy(h, c, "claim")
      /\ rec' = [rec EXCEPT ![c].parking = TRUE]
      /\ serve' = [serve EXCEPT ![h].tried = @ \cup {c}]
      /\ UNCHANGED <<used, jobs, main, file, pins, spare, clean, quiet>>
  BY DEF Ensure, disk
<1>2. /\ Control /\ serve \in [Handlers -> Turns] /\ Running /\ Running'
      /\ h \in Threads /\ h # Main /\ h # Worker
  BY <1>1, Serves, ThreadsApart DEF Running
<1>3. c \in Convs /\ rec[c].slot # NoSlot /\ ~rec[c].parking /\ rec[c].copy # "latest"
  <2>1. \A d \in left : /\ d \in Convs /\ rec[d].slot # NoSlot
                         /\ ~rec[d].parking /\ rec[d].copy # "latest"
    BY DEF AtRisk
  <2>2. left \subseteq Range(used)
    BY <1>2, <2>1, Found
  <2>3. c \in left
    BY <1>1, <1>2, <2>2, PickedTyped, Found
  <2> QED
    BY <2>1, <2>3
<1> HIDE DEF c, left
<1>4. /\ \A u \in Threads \ {h} : sv'[u] = sv[u]
      /\ sv'[h].pc = "claim" /\ sv'[h].conv = c /\ sv'[h].spent = {}
      /\ \A u \in Threads : Named(u)'
      /\ sv[h].conv = NoConv
  BY <1>1, <1>2, <1>3, Begun DEF SInv
<1>5. /\ OneCopyEach' /\ LateCopies'
      /\ \A d \in Convs : /\ rec'[d].copy = rec[d].copy /\ rec'[d].slot = rec[d].slot
                          /\ rec'[d].inflight = rec[d].inflight
      /\ \A d \in Convs : rec'[d].parking => \/ \E u \in Threads : sv'[u].conv = d
                                             \/ \E i \in 1..Len(jobs) : jobs[i].conv = d
                                             \/ rec[d].parking /\ d # c
  BY <1>1, <1>2, <1>3, BegunOnce DEF SInv
<1>6. \A g \in Handlers : serve'[g].conv = serve[g].conv /\ serve'[g].pc = serve[g].pc
  <2> DEFINE r == [serve[h] EXCEPT !.tried = serve[h].tried \cup {c}]
  <2>1. r.pc = serve[h].pc /\ r.conv = serve[h].conv
    BY <1>2 DEF Turns
  <2>2. serve' = [serve EXCEPT ![h] = r]
    BY <1>1
  <2> HIDE DEF r
  <2> QED
    BY <1>2, <2>1, <2>2
<1>7. Owners'
  <2>1. MainCopies'
    BY <1>1, <1>2, <1>4, ThreadsApart DEF SInv, Owners, MainCopies
  <2>2. ASSUME NEW d \in Convs PROVE Marked(d)'
    <3>1. Marked(d) /\ d # NoConv
      BY <1>2, Parameters DEF SInv, Owners
    <3>2. rec'[d].parking => \/ \E u \in Threads : sv'[u].conv = d
                             \/ \E i \in 1..Len(jobs) : jobs[i].conv = d
      BY <1>4, <1>5, <3>1 DEF Marked
    <3> QED
      BY <1>1, <1>5, <1>6, <3>1, <3>2 DEF Marked
  <2> QED
    BY <1>4, <1>5, <2>1, <2>2 DEF Owners
<1>8. ASSUME NEW d \in quiet PROVE Still(d)'
  <2>1. Queued' = Queued /\ sv'[Main] = sv[Main]
    BY <1>1, <1>2, <1>4, ThreadsApart DEF Queued
  <2>2. Still(d) /\ d \in Convs
    BY <1>1, NotServed
  <2>3. Filing(d) => Filing(d)'
    BY <1>1, <1>4 DEF Filing
  <2>4. main.pc = "mapping" => c # d
    BY <1>3 DEF SInv, Kept, InSlots
  <2>5. main.pc = "mapping" => \A g \in Handlers : sv'[g].conv # d
    BY <1>4, <2>2, <2>4, ThreadsApart DEF Still
  <2> QED
    BY <1>1, <1>4, <1>5, <1>6, <2>1, <2>2, <2>3, <2>5 DEF Still
<1>9. Kept'
  <2>1. InSlots' \subseteq InSlots /\ InSlots \subseteq Convs
    BY <1>1, <1>2, <1>5, Found DEF InSlots
  <2> QED
    BY <1>1, <1>2, <1>4, <1>5, <2>1, KeptStep DEF SInv, Owners, Writing
<1> QED
  BY <1>1, <1>7, <1>8, <1>9 DEF SInv

\* A turn's step that neither begins nor ends a copy.
LEMMA TurnSInv ==
  ASSUME IInv, SInv, Serving, NEW h \in Handlers, UNCHANGED <<jobs, main, pins, clean>>,
         \A u \in Threads : /\ sv'[u].conv = sv[u].conv /\ sv'[u].slot = sv[u].slot
                            /\ sv'[u].pc = sv[u].pc /\ sv'[u].spent = sv[u].spent
                            /\ sv'[u].rows = sv[u].rows /\ sv'[u].alone = sv[u].alone,
         \A u \in Threads : sv[u].conv \in quiet' => sv'[u].mine = sv[u].mine,
         \A c \in Convs : /\ rec'[c].parking = rec[c].parking
                          /\ rec'[c].inflight => \E g \in Handlers :
                                 serve'[g].conv = c /\ serve'[g].pc \in {"ensure", "taken", "forgot"},
         LateCopies', quiet' \subseteq quiet,
         \A c \in quiet' : /\ \A g \in Handlers : serve'[g].conv # c
                           /\ rec'[c].copy = rec[c].copy /\ file'[c] = file[c]
                           /\ rec'[c].slot # NoSlot => rec[c].slot # NoSlot
  PROVE  SInv'
<1>1. Control /\ Running
  BY Serves
<1>2. OneCopyEach'
  <2>1. /\ \A u \in Threads : sv[u].conv # NoConv => rec'[sv[u].conv].parking
        /\ \A i \in 1..Len(jobs) : rec'[jobs[i].conv].parking
    BY <1>1, Conversations DEF SInv, Owners, OneCopyEach
  <2> QED
    BY <2>1 DEF SInv, Owners, OneCopyEach
<1>3. MainCopies' /\ \A u \in Threads : Named(u)'
  BY ThreadsApart DEF SInv, Owners, MainCopies, Named
<1>4. \A c \in Convs : Marked(c)'
  BY <1>1 DEF SInv, Owners, Marked
<1>5. ASSUME NEW c \in quiet' PROVE Still(c)'
  <2>1. Queued' = Queued
    BY ThreadsApart DEF Queued
  <2>2. Still(c)
    BY <1>5 DEF SInv
  <2>3. Filing(c)' <=> Filing(c)
    BY DEF Filing
  <2>4. main.pc = "mapping" => \A g \in Handlers : sv'[g].conv # c
    BY <2>2, ThreadsApart DEF Still
  <2> QED
    BY <1>5, <2>1, <2>2, <2>3, <2>4, ThreadsApart DEF Still
<1>6. Kept'
  <2>1. InSlots' \subseteq InSlots /\ InSlots' \subseteq quiet'
    BY DEF InSlots
  <2>2. Vouched' = Vouched /\ Writing' = Writing
    BY DEF Vouched, Writing
  <2>3. \A u \in Writing : sv'[u].rows = sv[u].rows /\ sv'[u].alone = sv[u].alone
    BY DEF Writing
  <2> QED
    BY <2>1, <2>2, <2>3, ThreadsApart DEF SInv, Kept
<1> QED
  BY <1>2, <1>3, <1>4, <1>5, <1>6 DEF SInv, Owners

\* Who is served is served by the turn that holds it, if h serves one.
LEMMA ServedElsewhere ==
  ASSUME IInv, SInv, Serving, NEW h \in Handlers,
         \A g \in Handlers \ {h} : serve'[g] = serve[g],
         serve'[h].pc \in {"ensure", "taken", "forgot"} \/ serve[h].pc \notin {"ensure", "taken", "forgot"},
         serve'[h].conv = serve[h].conv \/ serve[h].pc \notin {"ensure", "taken", "forgot"},
         NEW d \in Convs, rec[d].inflight
  PROVE  \E g \in Handlers : serve'[g].conv = d /\ serve'[g].pc \in {"ensure", "taken", "forgot"}
<1>1. PICK g \in Handlers : serve[g].conv = d /\ serve[g].pc \in {"ensure", "taken", "forgot"}
  BY Serves DEF SInv, Owners, Marked
<1>2. serve'[g].conv = d /\ serve'[g].pc \in {"ensure", "taken", "forgot"}
  BY <1>1
<1> QED
  BY <1>2

LEMMA PlaceSInv ==
  ASSUME IInv, SInv, NEW h \in Handlers, NEW c \in Convs, Place(h, c)
  PROVE  SInv'
<1>1. PICK s \in PickSlot(c) :
        rec' = [rec EXCEPT ![c].inflight = TRUE, ![c].using = s,
                           ![c].copy = IF @ = "latest" THEN "older" ELSE @]
  BY DEF Place
<1>2. /\ Serving /\ serve[h].pc = "idle"
      /\ serve' = [serve EXCEPT ![h] = [pc |-> "ensure", conv |-> c, tried |-> {}]]
      /\ sv' = [t \in Threads |->
                   IF sv[t].conv = c THEN [sv[t] EXCEPT !.mine = FALSE, !.fresh = FALSE]
                                     ELSE sv[t]]
      /\ file' = [file EXCEPT ![c] = IF @ = "latest" THEN "older" ELSE @]
      /\ quiet' = quiet \ {c}
      /\ UNCHANGED <<jobs, main, pins, spare, clean>>
  BY DEF Place
<1>3. /\ Control /\ serve \in [Handlers -> Turns] /\ quiet \subseteq Convs
  BY <1>2, Serves, Found
<1>4. /\ \A d \in Convs : /\ rec'[d].slot = rec[d].slot /\ rec'[d].parking = rec[d].parking
                          /\ d # c => rec'[d] = rec[d]
      /\ rec'[c].copy # "latest"
  <2> DEFINE r == [rec[c] EXCEPT !.inflight = TRUE, !.using = s,
                                 !.copy = IF rec[c].copy = "latest" THEN "older" ELSE rec[c].copy]
  <2>1. rec[c] \in Records
    BY <1>3, Found
  <2>2. r.slot = rec[c].slot /\ r.parking = rec[c].parking /\ r.copy # "latest"
    BY <2>1 DEF Records
  <2>3. rec' = [rec EXCEPT ![c] = r]
    BY <1>1, Zenon
  <2> HIDE DEF r
  <2> QED
    BY <1>3, <2>2, <2>3, Found
<1>5. ASSUME NEW t \in Threads
      PROVE  /\ sv'[t].pc = sv[t].pc /\ sv'[t].conv = sv[t].conv /\ sv'[t].slot = sv[t].slot
             /\ sv'[t].spent = sv[t].spent
             /\ sv'[t].rows = sv[t].rows /\ sv'[t].alone = sv[t].alone
             /\ sv[t].conv # c => sv'[t].mine = sv[t].mine
  <2>1. sv[t] \in Copies
    BY <1>3, Found
  <2>2. \/ sv[t].conv = c /\ sv'[t] = [sv[t] EXCEPT !.mine = FALSE, !.fresh = FALSE]
        \/ sv[t].conv # c /\ sv'[t] = sv[t]
    BY <1>2
  <2> QED
    BY <2>1, <2>2 DEF Copies
<1>6. /\ serve'[h].conv = c /\ serve'[h].pc = "ensure"
      /\ \A g \in Handlers \ {h} : serve'[g] = serve[g]
  BY <1>2, <1>3
<1>7. ASSUME NEW d \in Convs, rec'[d].inflight
      PROVE  \E g \in Handlers :
                 serve'[g].conv = d /\ serve'[g].pc \in {"ensure", "taken", "forgot"}
  <2>1. CASE d = c
    BY <1>6, <2>1
  <2>2. CASE d # c
    BY <1>2, <1>4, <1>6, <1>7, <2>2, ServedElsewhere
  <2> QED
    BY <2>1, <2>2
<1>8. LateCopies'
  <2>1. SUFFICES ASSUME NEW u \in Threads, sv'[u].pc \in {"claim", "save", "hold"}, ~sv'[u].mine
                 PROVE  rec'[sv'[u].conv].copy # "latest"
    BY DEF LateCopies
  <2>2. sv[u].conv \in Convs /\ sv[u].pc \in {"claim", "save", "hold"} /\ sv'[u].conv = sv[u].conv
    BY <1>3, <1>5, <2>1, Conversations DEF SInv, Owners, Named
  <2> QED
    BY <1>4, <1>5, <2>1, <2>2 DEF SInv, Owners, LateCopies
<1>9. ASSUME NEW d \in quiet'
      PROVE  /\ \A g \in Handlers : serve'[g].conv # d
             /\ rec'[d].copy = rec[d].copy /\ file'[d] = file[d]
             /\ rec'[d].slot # NoSlot => rec[d].slot # NoSlot
  <2>1. d \in quiet /\ d # c /\ d \in Convs /\ Still(d)
    BY <1>2, <1>3 DEF SInv
  <2>2. \A g \in Handlers : serve'[g].conv # d
    BY <1>6, <2>1 DEF Still
  <2> QED
    BY <1>2, <1>3, <1>4, <2>1, <2>2, Found
<1>10. \A u \in Threads : sv[u].conv \in quiet' => sv'[u].mine = sv[u].mine
  BY <1>2, <1>5
<1>11. Serving /\ UNCHANGED <<jobs, main, pins, clean>> /\ quiet' \subseteq quiet
  BY <1>2
<1>12. \A d \in Convs : rec'[d].parking = rec[d].parking
  BY <1>4
<1> QED
  BY <1>5, <1>7, <1>8, <1>9, <1>10, <1>11, <1>12, TurnSInv

\* What is due to be late is, when no thread and no copy of a record changes.
LEMMA LateKept ==
  ASSUME Control, Owners,
         \A u \in Threads : /\ sv'[u].conv = sv[u].conv /\ sv'[u].pc = sv[u].pc
                            /\ sv'[u].mine = sv[u].mine,
         \A d \in Convs : rec'[d].copy = rec[d].copy
  PROVE  LateCopies'
<1>1. ASSUME NEW u \in Threads, sv[u].pc \in {"claim", "save", "hold"} PROVE sv[u].conv \in Convs
  BY <1>1, Conversations DEF Owners, Named
<1> QED
  BY <1>1 DEF Owners, LateCopies

LEMMA TakeSInv ==
  ASSUME IInv, SInv, NEW h \in Handlers, Take(h)
  PROVE  SInv'
<1> DEFINE c == serve[h].conv
           s == rec[c].using
<1>1. /\ Serving /\ serve[h].pc = "ensure"
      /\ rec' = [d \in Convs |->
                      CASE d = c -> [rec[c] EXCEPT !.slot = s]
                        [] d # c /\ rec[d].slot = s -> [rec[d] EXCEPT !.slot = NoSlot]
                        [] OTHER -> rec[d]]
      /\ serve' = [serve EXCEPT ![h].pc = "taken", ![h].tried = {}]
      /\ sv' = [t \in Threads |->
                   IF sv[t].slot = s THEN [sv[t] EXCEPT !.fresh = FALSE] ELSE sv[t]]
      /\ UNCHANGED <<used, jobs, main, file, pins, spare, clean, quiet>>
  BY DEF Take, disk
<1>2. Control /\ serve \in [Handlers -> Turns]
  BY <1>1, Serves
<1> HIDE DEF s
<1>3. ASSUME NEW d \in Convs
      PROVE  /\ rec'[d].slot # NoSlot => rec[d].slot # NoSlot \/ d = c
             /\ rec'[d].copy = rec[d].copy /\ rec'[d].parking = rec[d].parking
             /\ rec'[d].inflight = rec[d].inflight
  <2>1. rec[d] \in Records
    BY <1>2, Found
  <2>2. \/ d = c /\ rec'[d] = [rec[d] EXCEPT !.slot = s]
        \/ rec'[d] = [rec[d] EXCEPT !.slot = NoSlot]
        \/ rec'[d] = rec[d]
    <3> HIDE DEF c
    <3> QED
      BY <1>1
  <2> QED
    BY <2>1, <2>2 DEF Records
<1>4. /\ serve'[h].pc = "taken" /\ serve'[h].conv = c
      /\ \A g \in Handlers \ {h} : serve'[g] = serve[g]
  <2> DEFINE r == [serve[h] EXCEPT !.pc = "taken", !.tried = {}]
  <2>1. r.pc = "taken" /\ r.conv = c
    BY <1>2 DEF Turns
  <2>2. serve' = [serve EXCEPT ![h] = r]
    BY <1>1
  <2> HIDE DEF r
  <2> QED
    BY <1>2, <2>1, <2>2
<1>5. ASSUME NEW t \in Threads
      PROVE  /\ sv'[t].pc = sv[t].pc /\ sv'[t].conv = sv[t].conv /\ sv'[t].slot = sv[t].slot
             /\ sv'[t].spent = sv[t].spent /\ sv'[t].mine = sv[t].mine
             /\ sv'[t].rows = sv[t].rows /\ sv'[t].alone = sv[t].alone
  <2>1. sv[t] \in Copies
    BY <1>2, Found
  <2>2. sv'[t] = [sv[t] EXCEPT !.fresh = FALSE] \/ sv'[t] = sv[t]
    BY <1>1
  <2> QED
    BY <2>1, <2>2 DEF Copies
<1>6. LateCopies'
  BY <1>1, <1>2, <1>3, <1>5, LateKept DEF SInv
<1>7. ASSUME NEW d \in Convs, rec'[d].inflight
      PROVE  \E g \in Handlers :
                 serve'[g].conv = d /\ serve'[g].pc \in {"ensure", "taken", "forgot"}
  BY <1>1, <1>3, <1>4, <1>7, ServedElsewhere
<1>8. ASSUME NEW d \in quiet
      PROVE  /\ \A g \in Handlers : serve'[g].conv # d
             /\ rec'[d].copy = rec[d].copy
             /\ rec'[d].slot # NoSlot => rec[d].slot # NoSlot
  <2>1. d # c /\ d \in Convs /\ Still(d)
    BY <1>1, NotServed
  <2> QED
    BY <1>3, <1>4, <2>1 DEF Still
<1> QED
  BY <1>1, <1>3, <1>6, <1>7, <1>8, <1>5, TurnSInv

LEMMA ReleaseSInv ==
  ASSUME IInv, SInv, NEW h \in Handlers, Release(h)
  PROVE  SInv'
<1> DEFINE c == serve[h].conv
<1>1. /\ Serving /\ serve[h].pc \in {"taken", "forgot"}
      /\ rec' = [rec EXCEPT ![c].inflight = FALSE, ![c].using = NoSlot]
      /\ serve' = [serve EXCEPT ![h].pc = "replied"]
      /\ UNCHANGED <<jobs, sv, main, file, pins, spare, clean, quiet>>
  BY DEF Release, disk
<1>2. Control /\ serve \in [Handlers -> Turns] /\ c \in Convs
  BY <1>1, Serves
<1>3. /\ \A d \in Convs : /\ rec'[d].slot = rec[d].slot /\ rec'[d].copy = rec[d].copy
                          /\ rec'[d].parking = rec[d].parking
                          /\ d # c => rec'[d].inflight = rec[d].inflight
      /\ ~rec'[c].inflight
  <2> DEFINE r == [rec[c] EXCEPT !.inflight = FALSE, !.using = NoSlot]
  <2>1. rec[c] \in Records
    BY <1>2, Found
  <2>2. r.slot = rec[c].slot /\ r.copy = rec[c].copy /\ r.parking = rec[c].parking /\ ~r.inflight
    <3> HIDE DEF c
    <3> QED
      BY <2>1 DEF Records
  <2>3. rec' = [rec EXCEPT ![c] = r]
    BY <1>1, Zenon
  <2> HIDE DEF r
  <2> QED
    BY <1>2, <2>2, <2>3, Found
<1>4. /\ serve'[h].conv = c /\ \A g \in Handlers \ {h} : serve'[g] = serve[g]
  <2> DEFINE r == [serve[h] EXCEPT !.pc = "replied"]
  <2>1. r.conv = c
    BY <1>2 DEF Turns
  <2>2. serve' = [serve EXCEPT ![h] = r]
    BY <1>1
  <2> HIDE DEF r
  <2> QED
    BY <1>2, <2>1, <2>2
<1>5. LateCopies'
  BY <1>1, <1>2, <1>3, LateKept DEF SInv
<1>6. ASSUME NEW d \in Convs, rec'[d].inflight
      PROVE  \E g \in Handlers :
                 serve'[g].conv = d /\ serve'[g].pc \in {"ensure", "taken", "forgot"}
  <2>1. d # c /\ rec[d].inflight
    BY <1>3, <1>6
  <2>2. PICK g \in Handlers : serve[g].conv = d /\ serve[g].pc \in {"ensure", "taken", "forgot"}
    BY <1>1, <2>1, Serves DEF SInv, Owners, Marked
  <2> QED
    BY <1>4, <2>1, <2>2
<1>7. ASSUME NEW d \in quiet
      PROVE  /\ \A g \in Handlers : serve'[g].conv # d
             /\ rec'[d].copy = rec[d].copy
             /\ rec'[d].slot # NoSlot => rec[d].slot # NoSlot
  <2>1. d # c /\ d \in Convs /\ Still(d)
    BY <1>1, NotServed
  <2> QED
    BY <1>3, <1>4, <2>1 DEF Still
<1> QED
  BY <1>1, <1>3, <1>5, <1>6, <1>7, TurnSInv

\* The handler that forgets a copy names no conversation as its own.
LEMMA ForgetSInv ==
  ASSUME IInv, SInv, NEW h \in Handlers, Forget(h)
  PROVE  SInv'
<1> DEFINE c == serve[h].conv
<1>1. /\ Serving /\ serve[h].pc = "taken"
      /\ rec' = [rec EXCEPT ![c].copy = "none"]
      /\ Clear(h, {c})
      /\ serve' = [serve EXCEPT ![h].pc = "forgot"]
      /\ UNCHANGED <<used, jobs, main, file, pins, spare, clean, quiet>>
  BY DEF Forget, disk
<1>2. /\ Control /\ serve \in [Handlers -> Turns] /\ Running /\ Running'
      /\ c \in Convs /\ h \in Threads /\ h # Main /\ h # Worker /\ sv[h].pc = "idle"
  BY <1>1, Serves, ThreadsApart DEF TurnOf, Running
<1>3. /\ \A d \in Convs : /\ rec'[d].slot = rec[d].slot /\ rec'[d].parking = rec[d].parking
                          /\ rec'[d].inflight = rec[d].inflight
                          /\ d # c => rec'[d].copy = rec[d].copy
      /\ rec'[c].copy = "none"
  <2> DEFINE r == [rec[c] EXCEPT !.copy = "none"]
  <2>1. rec[c] \in Records
    BY <1>2, Found
  <2>2. /\ r.slot = rec[c].slot /\ r.parking = rec[c].parking
        /\ r.inflight = rec[c].inflight /\ r.copy = "none"
    <3> HIDE DEF c
    <3> QED
      BY <2>1 DEF Records
  <2>3. rec' = [rec EXCEPT ![c] = r]
    BY <1>1
  <2> HIDE DEF r
  <2> QED
    BY <1>2, <2>2, <2>3, Found
<1>4. /\ serve'[h].pc = "forgot" /\ serve'[h].conv = c
      /\ \A g \in Handlers \ {h} : serve'[g] = serve[g]
  <2> DEFINE r == [serve[h] EXCEPT !.pc = "forgot"]
  <2>1. r.pc = "forgot" /\ r.conv = c
    BY <1>2 DEF Turns
  <2>2. serve' = [serve EXCEPT ![h] = r]
    BY <1>1
  <2> HIDE DEF r
  <2> QED
    BY <1>2, <2>1, <2>2
<1>5. /\ \A u \in Threads \ {h} : sv'[u] = sv[u]
      /\ sv'[h].pc = "drop" /\ sv'[h].spent = {c}
      /\ sv'[h].conv = NoConv /\ sv'[h].slot = NoSlot /\ sv[h].conv = NoConv
  <2> DEFINE r == [Resting EXCEPT !.pc = "drop", !.spent = {c}]
  <2>1. r.conv = NoConv /\ r.slot = NoSlot /\ r.pc = "drop" /\ r.spent = {c}
    BY DEF Resting
  <2>2. sv' = [sv EXCEPT ![h] = r]
    BY <1>1 DEF Clear
  <2> HIDE DEF r
  <2>3. sv[h].conv = NoConv
    BY <1>2 DEF SInv, Owners, Named
  <2> QED
    BY <1>2, <2>1, <2>2, <2>3, Found
<1>6. OneCopyEach'
  <2>1. /\ \A u \in Threads : sv[u].conv # NoConv => rec'[sv[u].conv].parking
        /\ \A i \in 1..Len(jobs) : rec'[jobs[i].conv].parking
    BY <1>2, <1>3, Conversations DEF SInv, Owners, OneCopyEach
  <2>2. \A u \in Threads : sv'[u].conv = sv[u].conv
    BY <1>5
  <2> QED
    BY <1>1, <2>1, <2>2 DEF SInv, Owners, OneCopyEach
<1>7. LateCopies'
  <2>1. ASSUME NEW u \in Threads \ {h}, sv[u].pc \in {"claim", "save", "hold"}, ~sv[u].mine
        PROVE  rec'[sv[u].conv].copy # "latest"
    BY <1>2, <1>3, <2>1, Conversations DEF SInv, Owners, LateCopies, Named
  <2> QED
    BY <1>5, <2>1 DEF LateCopies
<1>8. MainCopies' /\ \A u \in Threads : Named(u)'
  BY <1>1, <1>2, <1>5, ThreadsApart DEF SInv, Owners, MainCopies, Named
<1>9. ASSUME NEW d \in Convs PROVE Marked(d)'
  <2>1. rec'[d].inflight => \E g \in Handlers :
                 serve'[g].conv = d /\ serve'[g].pc \in {"ensure", "taken", "forgot"}
    BY <1>1, <1>3, <1>4, ServedElsewhere
  <2>2. \A u \in Threads : sv'[u].conv = sv[u].conv
    BY <1>5
  <2>3. rec'[d].parking => \/ \E u \in Threads : sv'[u].conv = d
                           \/ \E i \in 1..Len(jobs) : jobs[i].conv = d
    BY <1>2, <1>3, <2>2 DEF SInv, Owners, Marked
  <2> QED
    BY <1>1, <2>1, <2>3 DEF Marked
<1>10. ASSUME NEW d \in quiet PROVE Still(d)'
  <2>1. Queued' = Queued /\ sv'[Main] = sv[Main]
    BY <1>1, <1>2, <1>5, ThreadsApart DEF Queued
  <2>2. Still(d) /\ d \in Convs /\ d # c
    BY <1>1, NotServed
  <2>3. \A u \in Threads : d \notin sv'[u].spent
    BY <1>5, <2>2 DEF Still
  <2>4. Filing(d) => Filing(d)'
    BY <1>2, <1>5 DEF Filing
  <2>5. main.pc = "mapping" => \A g \in Handlers : sv'[g].conv # d
    BY <1>1, <1>5, <2>2, NotServed, ThreadsApart DEF Still
  <2> QED
    BY <1>1, <1>3, <1>4, <2>1, <2>2, <2>3, <2>4, <2>5 DEF Still
<1>11. Kept'
  <2>1. InSlots' \subseteq InSlots /\ InSlots \subseteq Convs
    BY <1>1, <1>2, <1>3, Found DEF InSlots
  <2>2. \A d \in InSlots : d # c
    BY <1>1, NotServed DEF InSlots
  <2>3. \A d \in InSlots' : rec'[d].copy = rec[d].copy
    BY <1>3, <2>1, <2>2
  <2> QED
    BY <1>1, <1>2, <1>5, <2>1, <2>3, KeptStep DEF SInv, Owners, Writing
<1> QED
  BY <1>1, <1>2, <1>6, <1>7, <1>8, <1>9, <1>10, <1>11 DEF SInv, Owners

\* Where the members of a queue are once one more is in it, and once one is out.
LEMMA Appended ==
  ASSUME NEW T, NEW q \in Seq(T), NEW e \in T
  PROVE  /\ \A i \in 1..Len(q) : i \in 1..Len(Append(q, e)) /\ Append(q, e)[i] = q[i]
         /\ \E i \in 1..Len(Append(q, e)) : Append(q, e)[i] = e
         /\ \A i \in 1..Len(Append(q, e)) : \/ i \in 1..Len(q) /\ Append(q, e)[i] = q[i]
                                            \/ i = Len(q) + 1 /\ Append(q, e)[i] = e
<1>1. /\ Len(Append(q, e)) = Len(q) + 1 /\ Len(q) \in Nat
      /\ Append(q, e)[Len(q) + 1] = e /\ \A i \in 1..Len(q) : Append(q, e)[i] = q[i]
  OBVIOUS
<1>2. Len(q) + 1 \in 1..Len(Append(q, e))
  BY <1>1
<1> QED
  BY <1>1, <1>2

LEMMA Dequeued ==
  ASSUME NEW T, NEW q \in Seq(T), q # <<>>
  PROVE  /\ 1 \in 1..Len(q) /\ Head(q) = q[1]
         /\ \A i \in 1..Len(Tail(q)) : i + 1 \in 1..Len(q) /\ i + 1 # 1 /\ Tail(q)[i] = q[i + 1]
         /\ \A i \in 1..Len(q) : i # 1 => \E k \in 1..Len(Tail(q)) : Tail(q)[k] = q[i]
<1>1. /\ Len(q) \in Nat /\ Len(q) >= 1 /\ Len(Tail(q)) = Len(q) - 1 /\ Head(q) = q[1]
      /\ \A i \in 1..(Len(q) - 1) : Tail(q)[i] = q[i + 1]
  OBVIOUS
<1>2. ASSUME NEW i \in 1..Len(q), i # 1
      PROVE  \E k \in 1..Len(Tail(q)) : Tail(q)[k] = q[i]
  <2>1. i - 1 \in 1..Len(Tail(q)) /\ (i - 1) + 1 = i
    BY <1>1, <1>2
  <2>2. Tail(q)[i - 1] = q[i]
    BY <1>1, <2>1
  <2> QED
    BY <2>1, <2>2
<1> QED
  BY <1>1, <1>2

LEMMA FinishSInv ==
  ASSUME IInv, SInv, NEW h \in Handlers, Finish(h)
  PROVE  SInv'
<1> DEFINE c == serve[h].conv
           queue == rec[c].slot # NoSlot /\ ~rec[c].parking
           j == [conv |-> c, slot |-> rec[c].slot]
<1>1. /\ Serving /\ serve[h].pc = "replied"
      /\ rec' = IF queue THEN [rec EXCEPT ![c].parking = TRUE] ELSE rec
      /\ jobs' = IF queue THEN Append(jobs, j) ELSE jobs
      /\ serve' = [serve EXCEPT ![h] = Waiting]
      /\ UNCHANGED <<used, sv, main, file, pins, spare, clean, quiet>>
  BY DEF Finish, disk
<1>2. /\ Control /\ serve \in [Handlers -> Turns] /\ Running /\ Running'
      /\ c \in Convs /\ c # NoConv /\ h \in Threads /\ sv[h].pc = "idle" /\ TurnOf(h)
      /\ jobs \in Seq(Jobs)
  BY <1>1, Serves, ThreadsApart, Parameters, Found DEF TurnOf, Running
<1>3. ASSUME NEW d \in Convs
      PROVE  /\ rec'[d].slot = rec[d].slot /\ rec'[d].copy = rec[d].copy
             /\ rec'[d].inflight = rec[d].inflight
             /\ ~queue \/ d # c => rec'[d].parking = rec[d].parking
             /\ queue /\ d = c => rec'[d].parking
  <2> DEFINE r == [rec[c] EXCEPT !.parking = TRUE]
  <2>1. rec[c] \in Records
    BY <1>2, Found
  <2>2. /\ r.copy = rec[c].copy /\ r.slot = rec[c].slot /\ r.inflight = rec[c].inflight
        /\ r.parking
    <3> HIDE DEF c
    <3> QED
      BY <2>1 DEF Records
  <2>3. rec' = IF queue THEN [rec EXCEPT ![c] = r] ELSE rec
    BY <1>1
  <2> HIDE DEF r, queue
  <2>4. queue => rec'[c] = r /\ (d # c => rec'[d] = rec[d])
    BY <1>2, <2>3, Found
  <2>5. ~queue => rec' = rec
    BY <2>3
  <2> QED
    BY <2>2, <2>4, <2>5
<1>4. /\ serve'[h].conv = NoConv
      /\ \A g \in Handlers \ {h} : serve'[g] = serve[g]
  BY <1>1, <1>2 DEF Waiting
<1>5. queue => j \in Jobs /\ j.conv = c
  <2>1. rec[c] \in Records
    BY <1>2, Found
  <2> QED
    BY <1>2, <2>1 DEF Records, Jobs
<1> HIDE DEF j
<1>6. /\ \A i \in 1..Len(jobs) : i \in 1..Len(jobs') /\ jobs'[i].conv = jobs[i].conv
      /\ queue => \E i \in 1..Len(jobs') : jobs'[i].conv = c
      /\ \A i \in 1..Len(jobs') : \/ i \in 1..Len(jobs) /\ jobs'[i].conv = jobs[i].conv
                                  \/ queue /\ i = Len(jobs) + 1 /\ jobs'[i].conv = c
  <2>1. CASE queue
    <3>1. j \in Jobs /\ j.conv = c /\ jobs' = Append(jobs, j)
      BY <1>1, <1>5, <2>1
    <3> HIDE DEF c, queue
    <3>2. /\ \A i \in 1..Len(jobs) : i \in 1..Len(jobs') /\ jobs'[i] = jobs[i]
          /\ \E i \in 1..Len(jobs') : jobs'[i] = j
          /\ \A i \in 1..Len(jobs') : \/ i \in 1..Len(jobs) /\ jobs'[i] = jobs[i]
                                      \/ i = Len(jobs) + 1 /\ jobs'[i] = j
      BY <1>2, <3>1, Appended
    <3> QED
      BY <2>1, <3>1, <3>2
  <2>2. CASE ~queue
    BY <1>1, <2>2
  <2> QED
    BY <2>1, <2>2
<1>7. queue => /\ \A t \in Threads : sv[t].conv # c
               /\ \A i \in 1..Len(jobs) : jobs[i].conv # c
  BY <1>2 DEF SInv, Owners, OneCopyEach
<1> HIDE DEF queue
<1>8. OneCopyEach'
  <2>1. \A t \in Threads : sv[t].conv # NoConv => rec'[sv[t].conv].parking
    BY <1>2, <1>3, <1>7, Conversations DEF SInv, Owners, OneCopyEach
  <2>2. ASSUME NEW i \in 1..Len(jobs') PROVE rec'[jobs'[i].conv].parking
    <3>1. CASE i \in 1..Len(jobs) /\ jobs'[i].conv = jobs[i].conv
      BY <1>2, <1>3, <1>7, <3>1, Conversations DEF SInv, Owners, OneCopyEach
    <3> QED
      BY <1>2, <1>3, <1>6, <3>1
  <2>3. \A t \in Threads, i \in 1..Len(jobs') : sv[t].conv # jobs'[i].conv
    BY <1>6, <1>7 DEF SInv, Owners, OneCopyEach
  <2>4. \A i, k \in 1..Len(jobs') : jobs'[i].conv = jobs'[k].conv => i = k
    BY <1>6, <1>7 DEF SInv, Owners, OneCopyEach
  <2> QED
    BY <1>1, <2>1, <2>2, <2>3, <2>4 DEF SInv, Owners, OneCopyEach
<1>9. /\ LateCopies' /\ MainCopies' /\ \A u \in Threads : Named(u)'
  BY <1>1, <1>2, <1>3, LateKept DEF SInv, Owners, MainCopies, Named
<1>10. ASSUME NEW d \in Convs PROVE Marked(d)'
  <2>1. rec'[d].inflight => \E g \in Handlers :
                 serve'[g].conv = d /\ serve'[g].pc \in {"ensure", "taken", "forgot"}
    BY <1>1, <1>3, <1>4, ServedElsewhere
  <2>2. rec'[d].parking => \/ \E u \in Threads : sv[u].conv = d
                           \/ \E i \in 1..Len(jobs') : jobs'[i].conv = d
    BY <1>2, <1>3, <1>6 DEF SInv, Owners, Marked
  <2> QED
    BY <1>1, <2>1, <2>2 DEF Marked
<1>11. ASSUME NEW d \in quiet PROVE Still(d)'
  <2>1. Still(d) /\ d \in Convs /\ d # c /\ d # NoConv
    BY <1>1, NotServed
  <2>2. d \notin Queued => d \notin Queued'
    BY <1>1, <1>6, <2>1 DEF Queued
  <2>3. \A g \in Handlers : serve'[g].conv # d
    BY <1>4, <2>1 DEF Still
  <2>4. Filing(d)' <=> Filing(d)
    BY <1>1 DEF Filing
  <2> QED
    BY <1>1, <1>3, <2>1, <2>2, <2>3, <2>4 DEF Still
<1>12. Kept'
  <2>1. InSlots' \subseteq InSlots /\ InSlots \subseteq Convs
    BY <1>1, <1>2, <1>3, Found DEF InSlots
  <2> QED
    BY <1>1, <1>2, <1>3, <2>1, KeptStep DEF SInv, Owners, Writing
<1> QED
  BY <1>1, <1>2, <1>8, <1>9, <1>10, <1>11, <1>12 DEF SInv, Owners

LEMMA TakeJobSInv ==
  ASSUME IInv, SInv, TakeJob
  PROVE  SInv'
<1> DEFINE j == Head(jobs)
<1>1. /\ Serving /\ jobs # <<>> /\ sv[Worker].pc = "idle" /\ jobs' = Tail(jobs)
      /\ UNCHANGED <<used, serve, main, file, pins, spare, clean, quiet>>
      /\ \/ rec[j.conv].slot = j.slot /\ Copy(Worker, j.conv, "save") /\ rec' = rec
         \/ sv' = sv /\ rec' = [rec EXCEPT ![j.conv].parking = FALSE]
  BY DEF TakeJob, disk
<1>2. Control /\ Running /\ Running' /\ jobs \in Seq(Jobs)
  BY <1>1, Serves, Found DEF Running
<1>3. /\ j \in Jobs /\ 1 \in 1..Len(jobs) /\ j = jobs[1]
      /\ \A i \in 1..Len(jobs') : i + 1 \in 1..Len(jobs) /\ i + 1 # 1 /\ jobs'[i] = jobs[i + 1]
      /\ \A i \in 1..Len(jobs) : i # 1 => \E k \in 1..Len(jobs') : jobs'[k] = jobs[i]
  BY <1>1, <1>2, Dequeued
<1> HIDE DEF j
<1> DEFINE c == j.conv
<1>4. c \in Convs /\ j.slot # NoSlot /\ c # NoConv
  BY <1>3, Parameters DEF Jobs
<1>5. /\ rec[c].parking
      /\ \A t \in Threads : sv[t].conv # c
      /\ \A i \in 1..Len(jobs) : i # 1 => jobs[i].conv # c
      /\ \A i \in 1..Len(jobs') : jobs'[i].conv # c
  <2>1. \A i \in 1..Len(jobs) : i # 1 => jobs[i].conv # c
    BY <1>3 DEF SInv, Owners, OneCopyEach
  <2>2. rec[c].parking /\ \A t \in Threads : sv[t].conv # c
    BY <1>3 DEF SInv, Owners, OneCopyEach
  <2> HIDE DEF c
  <2>3. ASSUME NEW i \in 1..Len(jobs') PROVE jobs'[i].conv # c
    <3>1. /\ i + 1 \in 1..Len(jobs) /\ i + 1 # 1
          /\ jobs'[i] = jobs[i + 1]
      BY <1>3
    <3>2. jobs[i + 1].conv # c
      BY <2>1, <3>1
    <3> QED
      BY <3>1, <3>2
  <2> QED
    BY <2>1, <2>2, <2>3, Zenon
<1>6. ASSUME NEW d \in Convs
      PROVE  /\ rec'[d].slot = rec[d].slot /\ rec'[d].copy = rec[d].copy
             /\ rec'[d].inflight = rec[d].inflight
             /\ d # c \/ rec' = rec => rec'[d].parking = rec[d].parking
             /\ rec' # rec => ~rec'[c].parking
  <2> DEFINE r == [rec[c] EXCEPT !.parking = FALSE]
  <2>1. rec[c] \in Records
    BY <1>2, <1>4, Found
  <2>2. /\ r.copy = rec[c].copy /\ r.slot = rec[c].slot /\ r.inflight = rec[c].inflight
        /\ ~r.parking
    <3> HIDE DEF c
    <3> QED
      BY <2>1 DEF Records
  <2>3. rec' = rec \/ rec' = [rec EXCEPT ![c] = r]
    BY <1>1
  <2> HIDE DEF r, c
  <2>4. rec' # rec => rec'[c] = r /\ (d # c => rec'[d] = rec[d])
    BY <1>2, <1>4, <2>3, Found
  <2> QED
    BY <2>2, <2>4
<1>7. /\ \A u \in Threads \ {Worker} : sv'[u] = sv[u]
      /\ \A u \in Threads : Named(u)'
      /\ \/ /\ rec' = rec /\ sv'[Worker].pc = "save" /\ sv'[Worker].conv = c
            /\ sv'[Worker].spent = {} /\ sv'[Worker].mine /\ sv[Worker].conv = NoConv
         \/ sv' = sv /\ ~rec'[c].parking
  <2>1. CASE rec[c].slot = j.slot /\ Copy(Worker, c, "save") /\ rec' = rec
    <3>1. rec[c].slot # NoSlot /\ Worker \in Threads /\ Owners
      BY <1>4, <2>1, ThreadsApart DEF SInv
    <3> HIDE DEF c
    <3> QED
      BY <1>1, <1>2, <1>4, <2>1, <3>1, Begun
  <2>2. CASE sv' = sv /\ rec' = [rec EXCEPT ![c].parking = FALSE]
    <3>1. rec' # rec
      <4>1. rec'[c] = [rec[c] EXCEPT !.parking = FALSE]
        BY <1>2, <1>4, <2>2, Found
      <4>2. rec[c] \in Records
        BY <1>2, <1>4, Found
      <4>3. ~rec'[c].parking
        BY <4>1, <4>2 DEF Records
      <4> QED
        BY <1>5, <4>3
    <3> QED
      BY <1>4, <1>6, <2>2, <3>1 DEF SInv, Owners, Named
  <2> QED
    BY <1>1, <2>1, <2>2
<1>8. OneCopyEach'
  <2>1. ASSUME NEW u \in Threads, sv'[u].conv # NoConv PROVE rec'[sv'[u].conv].parking
    <3>1. CASE sv'[u].conv = sv[u].conv
      <4>1. sv[u].conv \in Convs /\ sv[u].conv # c /\ rec[sv[u].conv].parking
        BY <1>2, <1>5, <2>1, <3>1, Conversations DEF SInv, Owners, OneCopyEach
      <4> QED
        BY <1>6, <3>1, <4>1
    <3>2. CASE sv'[u].conv # sv[u].conv
      BY <1>5, <1>7, <3>2
    <3> QED
      BY <3>1, <3>2
  <2>2. ASSUME NEW i \in 1..Len(jobs') PROVE rec'[jobs'[i].conv].parking
    <3>1. jobs'[i].conv \in Convs /\ jobs'[i].conv # c /\ rec[jobs'[i].conv].parking
      BY <1>2, <1>3, <1>5, Conversations DEF SInv, Owners, OneCopyEach
    <3> QED
      BY <1>6, <3>1
  <2>3. \A u, v \in Threads : sv'[u].conv # NoConv /\ sv'[u].conv = sv'[v].conv => u = v
    BY <1>5, <1>7 DEF SInv, Owners, OneCopyEach
  <2>4. \A u \in Threads, i \in 1..Len(jobs') : sv'[u].conv # jobs'[i].conv
    <3>1. \A u \in Threads, i \in 1..Len(jobs') : sv[u].conv # jobs'[i].conv
      <4>1. \A i \in 1..Len(jobs') : \E k \in 1..Len(jobs) : jobs'[i].conv = jobs[k].conv
        BY <1>3
      <4> QED
        BY <4>1 DEF SInv, Owners, OneCopyEach
    <3> QED
      BY <1>5, <1>7, <3>1
  <2>5. ASSUME NEW i \in 1..Len(jobs'), NEW k \in 1..Len(jobs'), jobs'[i].conv = jobs'[k].conv
        PROVE  i = k
    <3>1. /\ i + 1 \in 1..Len(jobs) /\ k + 1 \in 1..Len(jobs)
          /\ jobs[i + 1].conv = jobs[k + 1].conv
      BY <1>3, <2>5
    <3>2. i + 1 = k + 1
      BY <3>1 DEF SInv, Owners, OneCopyEach
    <3> QED
      BY <3>2
  <2> QED
    BY <2>1, <2>2, <2>3, <2>4, <2>5 DEF OneCopyEach
<1>9. LateCopies'
  <2>1. SUFFICES ASSUME NEW u \in Threads, sv'[u].pc \in {"claim", "save", "hold"}, ~sv'[u].mine
                 PROVE  rec'[sv'[u].conv].copy # "latest"
    BY DEF LateCopies
  <2>2. sv'[u] = sv[u]
    BY <1>7, <2>1
  <2>3. sv[u].conv \in Convs
    BY <1>2, <2>1, <2>2, Conversations DEF SInv, Owners, Named
  <2> QED
    BY <1>6, <2>1, <2>2, <2>3 DEF SInv, Owners, LateCopies
<1>10. MainCopies' /\ sv'[Main] = sv[Main]
  BY <1>1, <1>7, ThreadsApart DEF SInv, Owners, MainCopies
<1>11. ASSUME NEW d \in Convs PROVE Marked(d)'
  <2>1. rec'[d].inflight => \E g \in Handlers :
                 serve[g].conv = d /\ serve[g].pc \in {"ensure", "taken", "forgot"}
    BY <1>2, <1>6 DEF SInv, Owners, Marked
  <2>2. ASSUME rec'[d].parking
        PROVE  \/ \E u \in Threads : sv'[u].conv = d
               \/ \E i \in 1..Len(jobs') : jobs'[i].conv = d
    <3>1. CASE d = c
      BY <1>7, <2>2, <3>1, ThreadsApart
    <3>2. CASE d # c
      <4>1. rec[d].parking
        BY <1>6, <2>2, <3>2
      <4>2. CASE \E u \in Threads : sv[u].conv = d
        <5>1. PICK u \in Threads : sv[u].conv = d
          BY <4>2
        <5>2. sv'[u].conv = d
          BY <1>7, <5>1, Parameters
        <5> QED
          BY <5>2
      <4>3. CASE \E i \in 1..Len(jobs) : jobs[i].conv = d
        BY <1>3, <3>2, <4>3
      <4> QED
        BY <1>2, <4>1, <4>2, <4>3 DEF SInv, Owners, Marked
    <3> QED
      BY <3>1, <3>2
  <2> QED
    BY <1>1, <2>1, <2>2 DEF Marked
<1>12. ASSUME NEW d \in quiet PROVE Still(d)'
  <2>1. Still(d) /\ d \in Convs /\ d # NoConv
    BY <1>2, Found, Parameters DEF SInv
  <2>2. d \notin Queued => d \notin Queued'
    <3>1. c \in Queued
      BY <1>3 DEF Queued
    <3>2. sv'[Worker].conv \in {sv[Worker].conv, c}
      BY <1>7
    <3>3. \A i \in 1..Len(jobs') : \E k \in 1..Len(jobs) : jobs'[i].conv = jobs[k].conv
      BY <1>3
    <3> HIDE DEF c
    <3> QED
      BY <2>1, <3>1, <3>2, <3>3 DEF Queued
  <2>3. \A u \in Threads : d \notin sv'[u].spent
    BY <1>7, <2>1 DEF Still
  <2>4. Filing(d) => Filing(d)'
    BY <1>1, <1>7 DEF Filing
  <2>5. \A g \in Handlers : sv'[g] = sv[g]
    BY <1>7, ThreadsApart
  <2> QED
    BY <1>1, <1>6, <1>10, <2>1, <2>2, <2>3, <2>4, <2>5 DEF Still
<1>13. Kept'
  <2>1. InSlots' \subseteq InSlots /\ InSlots \subseteq Convs
    BY <1>1, <1>2, <1>6, Found DEF InSlots
  <2>2. \A u \in Threads : sv'[u].pc \in {"open", "write", "rename"} => sv'[u] = sv[u]
    BY <1>7
  <2>3. sv'[Worker].pc \in {"end", "idle"} => sv[Worker].pc \in {"end", "idle"}
    BY <1>1
  <2> QED
    BY <1>1, <1>6, <1>7, <2>1, <2>2, <2>3, KeptStep, ThreadsApart DEF SInv, Owners, Writing
<1>14. quiet' = quiet /\ \A u \in Threads : Named(u)'
  BY <1>1, <1>7
<1> QED
  BY <1>2, <1>8, <1>9, <1>10, <1>11, <1>12, <1>13, <1>14 DEF SInv, Owners

-------------------------------------------------------------------------------
\* Steps of the main thread.

LEMMA OwnersStay ==
  ASSUME Owners, Running, MainCopies', UNCHANGED <<rec, jobs, serve, sv>>
  PROVE  Owners'
<1>1. OneCopyEach' /\ LateCopies' /\ (\A t \in Threads : Named(t)') /\ \A c \in Convs : Marked(c)'
  BY DEF Owners, OneCopyEach, LateCopies, Named, Marked
<1> QED
  BY <1>1 DEF Owners

LEMMA SignalSInv ==
  ASSUME IInv, SInv, Signal
  PROVE  SInv'
<1>1. /\ main \in Mains /\ main.pc = "serving" /\ main' = [main EXCEPT !.pc = "draining"]
      /\ UNCHANGED <<rec, jobs, serve, sv, file>>
      /\ quiet' = {c \in Convs : /\ \A h \in Handlers : serve[h].conv # c
                                 /\ \A t \in Threads : c \notin sv[t].spent
                                 /\ rec[c].copy = "latest" => file[c] = "latest"}
  BY DEF Signal, To, disk, IInv, Control, TypeOK, Mains
<1>2. main'.pc = "draining" /\ main'.tried = main.tried /\ Running
  BY <1>1 DEF Mains, Running
<1>3. sv[Main].pc = "idle" /\ main.tried = {}
  BY <1>1 DEF SInv, Owners, MainCopies
<1>4. Owners'
  <2>1. MainCopies'
    BY <1>1, <1>2, <1>3 DEF MainCopies
  <2> QED
    BY <1>1, <1>2, <2>1, OwnersStay DEF SInv
<1>5. ASSUME NEW c \in quiet' PROVE Still(c)'
  <2>1. /\ \A h \in Handlers : serve[h].conv # c
        /\ \A t \in Threads : c \notin sv[t].spent
        /\ rec[c].copy = "latest" => file[c] = "latest"
    BY <1>1
  <2> QED
    BY <1>1, <1>2, <1>3, <2>1 DEF Still
<1> QED
  BY <1>2, <1>4, <1>5, KeptBefore DEF SInv

LEMMA DrainedSInv ==
  ASSUME IInv, SInv, Drained
  PROVE  SInv'
<1>1. /\ main \in Mains /\ main.pc = "draining" /\ main' = [main EXCEPT !.pc = "parking"]
      /\ UNCHANGED <<rec, jobs, serve, sv, file>>
      /\ quiet' = quiet \ Queued
  BY DEF Drained, To, disk, IInv, Control, TypeOK, Mains
<1>2. main'.pc = "parking" /\ main'.tried = main.tried /\ Running
  BY <1>1 DEF Mains, Running
<1>3. sv[Main].pc = "idle" /\ main.tried = {}
  BY <1>1 DEF SInv, Owners, MainCopies
<1>4. Owners'
  <2>1. MainCopies'
    BY <1>1, <1>2, <1>3 DEF MainCopies
  <2> QED
    BY <1>1, <1>2, <2>1, OwnersStay DEF SInv
<1>5. ASSUME NEW c \in quiet' PROVE Still(c)'
  <2>1. Still(c) /\ c \notin Queued
    BY <1>1 DEF SInv
  <2>2. Queued' = Queued /\ (Filing(c)' <=> Filing(c))
    BY <1>1 DEF Queued, Filing
  <2> QED
    BY <1>1, <1>2, <1>3, <2>1, <2>2 DEF Still
<1> QED
  BY <1>2, <1>4, <1>5, KeptBefore DEF SInv

LEMMA ParkNextSInv ==
  ASSUME IInv, SInv, ParkNext
  PROVE  SInv'
<1>1. PICK c \in AtRisk(main.tried) :
         /\ Copy(Main, c, "claim")
         /\ rec' = [rec EXCEPT ![c].parking = TRUE]
         /\ main' = [main EXCEPT !.tried = @ \cup {c}]
  BY DEF ParkNext
<1>2. /\ main \in Mains /\ main.pc = "parking" /\ sv[Main].pc = "idle" /\ Control
      /\ UNCHANGED <<used, jobs, serve, file, pins, spare, clean, quiet>>
  BY DEF ParkNext, disk, IInv, Control, TypeOK, Mains
<1>3. c \in Convs /\ rec[c].slot # NoSlot /\ ~rec[c].parking
  BY DEF AtRisk
<1>4. main'.pc = "parking" /\ main'.tried = main.tried \cup {c} /\ Running
  BY <1>1, <1>2 DEF Mains, Running
<1>5. /\ \A u \in Threads \ {Main} : sv'[u] = sv[u]
      /\ sv'[Main].pc = "claim" /\ sv'[Main].conv = c /\ sv'[Main].mine /\ sv'[Main].spent = {}
      /\ \A u \in Threads : Named(u)'
      /\ sv[Main].conv = NoConv
  BY <1>1, <1>2, <1>3, Begun, ThreadsApart DEF SInv
<1>6. /\ OneCopyEach' /\ LateCopies'
      /\ \A d \in Convs : /\ rec'[d].copy = rec[d].copy /\ rec'[d].slot = rec[d].slot
                          /\ rec'[d].inflight = rec[d].inflight
      /\ \A d \in Convs : rec'[d].parking => \/ \E u \in Threads : sv'[u].conv = d
                                             \/ \E i \in 1..Len(jobs) : jobs[i].conv = d
                                             \/ rec[d].parking /\ d # c
  BY <1>1, <1>2, <1>3, BegunOnce, ThreadsApart DEF SInv
<1>7. ASSUME NEW d \in Convs PROVE Marked(d)'
  <2>1. Marked(d) /\ d # NoConv
    BY <1>4, Parameters DEF SInv, Owners
  <2>2. rec'[d].parking => \/ \E u \in Threads : sv'[u].conv = d
                           \/ \E i \in 1..Len(jobs) : jobs[i].conv = d
    BY <1>5, <1>6, <2>1 DEF Marked
  <2>3. rec'[d].inflight => \E h \in Handlers : /\ serve[h].conv = d
                                                /\ serve[h].pc \in {"ensure", "taken", "forgot"}
    BY <1>6, <2>1 DEF Marked
  <2> QED
    BY <1>2, <2>2, <2>3 DEF Marked
<1>8. MainCopies'
  BY <1>4 DEF MainCopies
<1>9. ASSUME NEW d \in quiet PROVE Still(d)'
  <2>1. Still(d) /\ d \in Convs
    BY <1>2, Found DEF SInv
  <2>2. Queued' = Queued
    BY <1>2, <1>5, ThreadsApart DEF Queued
  <2>3. \A u \in Threads : d \notin sv'[u].spent
    BY <1>5, <2>1 DEF Still
  <2>4. Filing(d) => Filing(d)'
    BY <1>2, <1>5 DEF Filing
  <2> QED
    BY <1>2, <1>4, <1>5, <1>6, <2>1, <2>2, <2>3, <2>4 DEF Still
<1>10. quiet' = quiet
  BY <1>2
<1> QED
  BY <1>4, <1>5, <1>6, <1>7, <1>8, <1>9, <1>10, KeptBefore DEF SInv, Owners

\* When park_all ends, a quiet conversation that has a cache in a slot is copied:
\* it is neither served nor being copied, and what was tried was not refused.
LEMMA ParkedAllSInv ==
  ASSUME IInv, SInv, ParkedAll
  PROVE  SInv'
<1> DEFINE r == [Resting EXCEPT !.pc = "map"]
<1>1. /\ main.pc = "parking" /\ sv[Main].pc = "idle" /\ Control /\ Running
      /\ main'.pc = "mapping" /\ main'.tried = {}
      /\ sv' = [sv EXCEPT ![Main] = r]
      /\ quiet' = quiet \ (AtRisk(main.tried) \cup {sv[h].conv : h \in Handlers})
      /\ UNCHANGED <<rec, used, jobs, serve, file, pins, spare, clean>>
  BY DEF ParkedAll, disk, IInv, Running
<1>2. sv[Main].conv = NoConv /\ sv[Main].slot = NoSlot
  BY <1>1, ThreadsApart DEF SInv, Owners, Named
<1>3. r.pc = "map" /\ r.conv = NoConv /\ r.slot = NoSlot /\ r.spent = {}
  BY DEF Resting
<1> HIDE DEF r
<1>4. /\ \A u \in Threads \ {Main} : sv'[u] = sv[u]
      /\ sv'[Main].pc = "map" /\ sv'[Main].conv = NoConv /\ sv'[Main].slot = NoSlot
      /\ sv'[Main].spent = {}
  BY <1>1, <1>3, ThreadsApart, Found
<1>5. \A u \in Threads : sv'[u].conv = sv[u].conv
  BY <1>2, <1>4
<1>6. Owners'
  <2>1. OneCopyEach'
    BY <1>1, <1>5 DEF SInv, Owners, OneCopyEach
  <2>2. LateCopies' /\ \A u \in Threads : Named(u)'
    BY <1>1, <1>4 DEF SInv, Owners, LateCopies, Named
  <2>3. MainCopies'
    BY <1>1, <1>4 DEF MainCopies
  <2>4. \A c \in Convs : Marked(c)'
    BY <1>1, <1>5 DEF SInv, Owners, Marked
  <2> QED
    BY <2>1, <2>2, <2>3, <2>4 DEF Owners
<1>7. ASSUME NEW c \in quiet' PROVE Still(c)'
  <2>1. Still(c)
    BY <1>1 DEF SInv
  <2>2. Queued' = Queued
    BY <1>1, <1>5, ThreadsApart DEF Queued
  <2>3. \A u \in Threads : c \notin sv'[u].spent
    BY <1>4, <2>1 DEF Still
  <2>4. Filing(c) => Filing(c)'
    BY <1>1, <1>4 DEF Filing
  <2>5. \A h \in Handlers : sv'[h].conv # c
    BY <1>1, <1>5, ThreadsApart
  <2> QED
    BY <1>1, <1>4, <2>1, <2>2, <2>3, <2>4, <2>5 DEF Still
<1>8. ASSUME NEW c \in quiet', rec[c].slot # NoSlot PROVE rec[c].copy = "latest"
  <2>1. Still(c) /\ c \in Convs /\ c # NoConv /\ c \notin AtRisk(main.tried)
        /\ \A h \in Handlers : sv[h].conv # c
    BY <1>1, Found, Parameters DEF SInv
  <2>2. c \in main.tried => rec[c].copy = "latest"
    BY <1>1, <2>1 DEF Still
  <2>3. Marked(c)
    BY <1>1, <2>1 DEF SInv, Owners
  <2>4. ~rec[c].inflight
    BY <2>1, <2>3 DEF Still, Marked
  <2>5. ~rec[c].parking
    <3>1. c \notin Queued
      BY <1>1, <2>1 DEF Still
    <3>2. sv[Worker].conv # c /\ \A i \in 1..Len(jobs) : jobs[i].conv # c
      BY <2>1, <3>1 DEF Queued
    <3>3. \A t \in Threads : sv[t].conv # c
      BY <1>2, <2>1, <3>2 DEF Threads
    <3> QED
      BY <2>3, <3>2, <3>3 DEF Marked
  <2> QED
    BY <1>8, <2>1, <2>2, <2>4, <2>5 DEF AtRisk
<1>9. Kept'
  <2>1. \A c \in InSlots' : rec'[c].copy = "latest"
    BY <1>1, <1>8 DEF InSlots
  <2> QED
    BY <1>1, <1>4, <2>1 DEF Kept
<1> QED
  BY <1>6, <1>7, <1>9 DEF SInv

\* Nothing is being copied once the process is gone.
LEMMA OwnersGone ==
  ASSUME Forgotten, main'.pc \in {"stopped", "down"}, main'.tried = {}
  PROVE  /\ Owners'
         /\ \A t \in Threads : sv'[t] = Resting
         /\ \A h \in Handlers : serve'[h].conv = NoConv
<1>1. /\ jobs' = <<>> /\ Len(jobs') = 0
      /\ \A t \in Threads : sv'[t] = Resting
      /\ \A h \in Handlers : serve'[h].conv = NoConv
  BY DEF Forgotten, Waiting
<1>2. OneCopyEach'
  BY <1>1, RestTyped DEF OneCopyEach
<1>3. LateCopies' /\ \A t \in Threads : Named(t)'
  BY <1>1, RestTyped DEF LateCopies, Named
<1>4. MainCopies' /\ ~Running'
  BY <1>1, RestTyped, ThreadsApart DEF MainCopies, Running
<1> QED
  BY <1>1, <1>2, <1>3, <1>4 DEF Owners

LEMMA ExitSInv ==
  ASSUME IInv, SInv, Exit
  PROVE  SInv'
<1>1. /\ main.pc = "mapping" /\ sv[Main].pc = "idle"
      /\ main'.pc = "stopped" /\ main'.tried = {} /\ Forgotten /\ Control
      /\ UNCHANGED <<rec, file, pins, spare, clean, quiet>>
  BY DEF Exit, disk, IInv
<1>2. /\ Owners'
      /\ \A t \in Threads : sv'[t] = Resting
      /\ \A h \in Handlers : serve'[h].conv = NoConv
  BY <1>1, OwnersGone
<1>3. ASSUME NEW c \in quiet PROVE Still(c)'
  <2>1. c \in Convs /\ c # NoConv /\ Still(c)
    BY <1>1, Found, Parameters DEF SInv
  <2>2. ~Filing(c)
    <3>1. SUFFICES ASSUME NEW t \in Threads, sv[t].pc = "hold", sv[t].conv = c PROVE FALSE
      BY DEF Filing
    <3>2. t # Main /\ t \notin Handlers
      BY <1>1, <2>1, <3>1 DEF Still
    <3>3. sv[Worker].conv # c
      BY <1>1, <2>1 DEF Still, Queued
    <3> QED
      BY <3>1, <3>2, <3>3 DEF Threads
  <2>3. Queued' = {} /\ sv'[Main] = Resting
    BY <1>1, <1>2, RestTyped, ThreadsApart DEF Queued, Forgotten
  <2> QED
    BY <1>1, <1>2, <2>1, <2>2, <2>3, RestTyped DEF Still
<1>4. Kept'
  <2>1. InSlots' = InSlots /\ Vouched' = Vouched
    BY <1>1 DEF InSlots, Vouched
  <2> QED
    BY <1>1, <2>1 DEF SInv, Kept
<1> QED
  BY <1>1, <1>2, <1>3, <1>4 DEF SInv

LEMMA DieSInv ==
  ASSUME Die
  PROVE  SInv'
<1>1. main'.pc = "down" /\ main'.tried = {} /\ Forgotten /\ quiet' = {}
  BY DEF Die
<1> QED
  BY <1>1, OwnersGone, KeptBefore DEF SInv

LEMMA LosePowerSInv ==
  ASSUME IInv, SInv, LosePower
  PROVE  SInv'
<1>1. /\ ~Running /\ main'.pc = "down" /\ main'.tried = {} /\ quiet' = {}
      /\ UNCHANGED <<jobs, serve, sv>>
  BY DEF LosePower
<1>2. OnlyMain /\ main \in Mains
  BY <1>1 DEF IInv, Control, TypeOK, Mains, Running, Serving
<1>3. sv[Main].pc = "idle"
  BY <1>1, <1>2 DEF SInv, Owners, MainCopies, Running
<1>4. /\ \A t \in Threads : sv[t].conv = NoConv /\ sv[t].pc = "idle" /\ Named(t)
      /\ jobs = <<>> /\ Len(jobs) = 0
  BY <1>2, <1>3, RestTyped DEF OnlyMain, SInv, Owners, Named
<1>5. OneCopyEach' /\ LateCopies' /\ \A t \in Threads : Named(t)'
  BY <1>1, <1>4 DEF OneCopyEach, LateCopies, Named
<1>6. MainCopies' /\ ~Running'
  BY <1>1, <1>4, ThreadsApart DEF MainCopies, Running
<1> QED
  BY <1>1, <1>5, <1>6, KeptBefore DEF SInv, Owners

LEMMA AdoptSInv ==
  ASSUME IInv, Adopt
  PROVE  SInv'
<1> DEFINE kept == Pick(Vouched, {c \in Convs : file[c] # "none"})
           R == [c \in Convs |-> IF \E i \in 1..Len(kept) : kept[i] = c
                                 THEN [Nothing EXCEPT !.copy = "older"] ELSE Nothing]
           over == {kept[i] : i \in 1..(Len(kept) - ParkBudget)}
           spent == {c \in Convs : file[c] # "none" /\ R[c].copy = "none"} \cup over
           one == [Nothing EXCEPT !.copy = "older"]
           r == IF spent = {} THEN Resting ELSE [Resting EXCEPT !.pc = "drop", !.spent = spent]
<1>1. /\ ~Running
      /\ rec' = Trimmed(R, over)
      /\ sv' = [[t \in Threads |-> Resting] EXCEPT ![Main] = r]
      /\ main'.pc = "adopting" /\ main'.tried = {} /\ quiet' = {}
      /\ UNCHANGED <<jobs, serve>>
  BY DEF Adopt
<1>2. Control /\ OnlyMain
  <2>1. ~Serving
    BY <1>1 DEF Running, Serving, IInv, Control, TypeOK
  <2> QED
    BY <2>1 DEF IInv, Control
<1>3. r.conv = NoConv /\ r.slot = NoSlot /\ r.pc \in {"idle", "drop"}
  BY DEF Resting
<1>4. \A c \in Convs : R[c] = one \/ R[c] = Nothing
  OBVIOUS
<1> HIDE DEF kept, R, over, r
<1>5. \A t \in Threads : sv'[t].conv = NoConv /\ sv'[t].slot = NoSlot /\ sv'[t].pc \in {"idle", "drop"}
  BY <1>1, <1>3, RestTyped
<1>6. ASSUME NEW c \in Convs PROVE ~rec'[c].parking /\ ~rec'[c].inflight
  <2>1. one \in Records /\ ~one.parking /\ ~one.inflight
    BY RestTyped DEF Records, Nothing
  <2>2. Nothing \in Records /\ ~Nothing.parking /\ ~Nothing.inflight
    BY RestTyped DEF Nothing
  <2> HIDE DEF one
  <2>3. R[c] \in Records /\ ~R[c].parking /\ ~R[c].inflight
    BY <1>4, <2>1, <2>2
  <2>4. rec'[c] = IF c \in over THEN [R[c] EXCEPT !.copy = "none"] ELSE R[c]
    BY <1>1 DEF Trimmed
  <2> QED
    BY <2>3, <2>4 DEF Records
<1>7. jobs' = <<>> /\ Len(jobs') = 0
  BY <1>1, <1>2 DEF OnlyMain
<1>8. OneCopyEach' /\ LateCopies' /\ \A t \in Threads : Named(t)'
  BY <1>5, <1>7 DEF OneCopyEach, LateCopies, Named
<1>9. MainCopies' /\ \A c \in Convs : Marked(c)'
  BY <1>1, <1>6 DEF MainCopies, Marked
<1> QED
  BY <1>1, <1>8, <1>9, KeptBefore DEF SInv, Owners

\* A step of the start that only says how far it is.
LEMMA StartSInv ==
  ASSUME SInv, Running, main'.pc \in {"adopted", "serving"}, main'.tried = {},
         sv[Main].pc = "idle", UNCHANGED <<rec, jobs, serve, sv, file, quiet>>
  PROVE  SInv'
<1>1. Owners'
  <2>1. MainCopies'
    BY DEF MainCopies
  <2> QED
    BY <2>1, OwnersStay DEF SInv
<1>2. ASSUME NEW c \in quiet PROVE Still(c)'
  BY DEF SInv, Still, Filing
<1> QED
  BY <1>1, <1>2, KeptBefore DEF SInv

LEMMA AdoptedSInv ==
  ASSUME IInv, SInv, Adopted
  PROVE  SInv'
<1>1. /\ main \in Mains /\ main.pc = "adopting" /\ sv[Main].pc = "idle"
      /\ main' = [main EXCEPT !.pc = "adopted"]
      /\ UNCHANGED <<rec, jobs, serve, sv, file, quiet>>
  BY DEF Adopted, To, disk, IInv, Control, TypeOK, Mains
<1>2. main'.pc = "adopted" /\ main'.tried = main.tried /\ Running
  BY <1>1 DEF Mains, Running
<1>3. main.tried = {}
  BY <1>1 DEF SInv, Owners, MainCopies
<1> QED
  BY <1>1, <1>2, <1>3, StartSInv

LEMMA ServeSInv ==
  ASSUME IInv, SInv, Serve
  PROVE  SInv'
<1>1. /\ main \in Mains /\ main.pc = "adopted"
      /\ main' = [main EXCEPT !.pc = "serving"]
      /\ UNCHANGED <<rec, jobs, serve, sv, file, quiet>>
  BY DEF Serve, To, disk, IInv, Control, TypeOK, Mains
<1>2. main'.pc = "serving" /\ main'.tried = main.tried /\ Running
  BY <1>1 DEF Mains, Running
<1>3. main.tried = {} /\ sv[Main].pc = "idle"
  BY <1>1 DEF SInv, Owners, MainCopies
<1> QED
  BY <1>1, <1>2, <1>3, StartSInv

LEMMA InitSInv == Init => SInv
<1> SUFFICES ASSUME Init PROVE SInv
  OBVIOUS
<1>1. /\ \A t \in Threads : sv[t] = Resting
      /\ \A c \in Convs : ~rec[c].parking /\ ~rec[c].inflight
      /\ main.pc = "adopting" /\ main.tried = {} /\ jobs = <<>> /\ Len(jobs) = 0 /\ quiet = {}
  BY DEF Init, Nothing
<1>2. OneCopyEach /\ LateCopies /\ \A t \in Threads : Named(t)
  BY <1>1, RestTyped DEF OneCopyEach, LateCopies, Named
<1>3. MainCopies /\ (\A c \in Convs : Marked(c)) /\ Kept
  BY <1>1 DEF MainCopies, Marked, Kept
<1> QED
  BY <1>1, <1>2, <1>3 DEF SInv, Owners

\* Every step keeps what the stop needs.
LEMMA NextSInv == IInv /\ SInv /\ [Next]_vars => SInv'
<1> SUFFICES ASSUME IInv, SInv, [Next]_vars PROVE SInv'
  OBVIOUS
<1>1. ASSUME NEW h \in Handlers, Turn(h) PROVE SInv'
  BY <1>1, PlaceSInv, EnsureSInv, TakeSInv, ForgetSInv, ReleaseSInv, FinishSInv DEF Turn
<1>2. ASSUME Running, NEW t \in Threads, CopyStep(t) PROVE SInv'
  BY <1>2, ClaimSInv, SaveSInv, HoldSInv, DropSInv, TakeRowsSInv, OpenSInv, WriteSInv, RenameSInv,
     EndSInv DEF CopyStep
<1>3. CASE MainStep
  BY <1>3, SignalSInv, DrainedSInv, ParkNextSInv, ParkedAllSInv, ExitSInv, AdoptSInv,
     AdoptedSInv, ServeSInv DEF MainStep
<1>4. CASE UNCHANGED vars
  <2>1. UNCHANGED <<rec, jobs, serve, sv, main, file, pins, clean, quiet>>
    BY <1>4 DEF vars, memory, disk
  <2>2. Owners'
    BY <2>1 DEF SInv, Owners, OneCopyEach, LateCopies, MainCopies, Named, Marked, Running
  <2>3. \A c \in quiet' : Still(c)'
    BY <2>1 DEF SInv, Still, Queued, Filing
  <2>4. Kept'
    BY <2>1 DEF SInv, Kept, InSlots, Writing, Vouched
  <2> QED
    BY <2>2, <2>3, <2>4 DEF SInv
<1> QED
  BY <1>1, <1>2, <1>3, <1>4, TakeJobSInv, DieSInv, LosePowerSInv DEF Next

\* After an orderly stop whose last map went in place alone, what no turn, no
\* refusal and no sweep touched since the signal is in a file as its last turn
\* left it, and the map names it: for every number of caches, however the
\* threads that copy, sweep and write the map met.
THEOREM StopKeepsQuiet == Spec => []StopKeeps
<1>1. Init => IInv /\ SInv
  BY InitIInv, InitSInv
<1>2. (IInv /\ SInv) /\ [Next]_vars => (IInv /\ SInv)'
  BY NextIInv, NextSInv
<1>3. IInv /\ SInv => StopKeeps
  <2>1. SUFFICES ASSUME IInv, SInv, main.pc = "stopped", clean,
                        NEW c \in quiet, rec[c].slot # NoSlot
                 PROVE  file[c] = "latest" /\ c \in ToSet(Vouched)
    BY DEF StopKeeps
  <2>2. c \in InSlots
    BY <2>1 DEF InSlots
  <2>3. rec[c].copy = "latest" /\ c \in Range(Vouched)
    BY <2>1, <2>2 DEF SInv, Kept
  <2>4. ~Filing(c)
    <3>1. OnlyMain
      BY <2>1 DEF IInv, Control, Serving
    <3> QED
      BY <3>1, RestTyped DEF OnlyMain, Filing
  <2> QED
    BY <2>1, <2>3, <2>4, SameRange DEF SInv, Still
<1> QED
  BY <1>1, <1>2, <1>3, PTL DEF Spec
===============================================================================
