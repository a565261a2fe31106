----------------------------- MODULE Pool_proofs -----------------------------
(***************************************************************************)
(* What holds of Pool for every number of turns, conversations, backends   *)
(* and slots.                                                              *)
(***************************************************************************)
EXTENDS Pool, FiniteSetTheorems, TLAPS

\* The states of a turn that was given a slot.
Inside == TurnPcs \ {"new", "claim", "acquire", "done"}

\* A turn that was given a slot has it on a backend; one that clears or lands
\* has one of the generator too.
TurnsPlaced ==
    \A t \in Turns :
        /\ at[t].pc \in Inside => at[t].be \in Backends /\ at[t].slot \in AllSlots
        /\ at[t].pc \in {"clear", "landing"} => at[t].dst \in Backends /\ at[t].free \in AllSlots
        /\ at[t].pc \in Inside \ {"partial", "later"} => at[t].serving \in Backends

\* A save reads a slot of a backend.
SavesPlaced ==
    \A a \in Actors :
        ~NotSaving(a) => /\ sub[a].conv \in Convs
                         /\ sub[a].be \in Backends
                         /\ sub[a].slot \in AllSlots

\* A drain is of one backend.
DrainPlaced == op.pc # "idle" => op.be \in Backends

IInv == TypeOK /\ TurnsPlaced /\ SavesPlaced /\ DrainPlaced

-------------------------------------------------------------------------------
\* What the helpers return.

\* The thread of an ended turn is a thread.
LEMMA OverTyped == Over \in Threads
  BY DEF Over, IdleTurn, Threads, TurnPcs

\* Every place a thread can be at, one by one: TurnPcs stays unexpanded where
\* these are cited.
LEMMA PcTyped ==
  /\ "claim" \in TurnPcs /\ "acquire" \in TurnPcs /\ "park" \in TurnPcs
  /\ "stale" \in TurnPcs /\ "recall" \in TurnPcs /\ "restoring" \in TurnPcs
  /\ "stale_file" \in TurnPcs /\ "refused_file" \in TurnPcs
  /\ "warm" \in TurnPcs /\ "reading" \in TurnPcs /\ "handoff" \in TurnPcs
  /\ "genwait" \in TurnPcs /\ "clear" \in TurnPcs /\ "landing" \in TurnPcs
  /\ "relay" \in TurnPcs /\ "release" \in TurnPcs /\ "partial" \in TurnPcs
  /\ "later" \in TurnPcs /\ "done" \in TurnPcs
  BY DEF TurnPcs

\* A thread inside no save.
LEMMA NoSaveTyped == NoSave \in Saves
  BY DEF NoSave, Saves

\* What _save_park is called with.
LEMMA SaveOfTyped ==
  ASSUME NEW c \in Convs, NEW b \in Backends, NEW s \in AllSlots
  PROVE  /\ SaveOf(c, b, s) \in Saves
         /\ SaveOf(c, b, s).conv = c /\ SaveOf(c, b, s).be = b /\ SaveOf(c, b, s).slot = s
         /\ SaveOf(c, b, s).phase = "count"
  BY DEF SaveOf, NoSave, Saves

\* Touching a conversation keeps the order of all.
LEMMA TouchTyped ==
  ASSUME NEW f \in [Convs -> Nat], NEW c \in Convs
  PROVE  Touch(f, c) \in [Convs -> Nat]
  BY DEF Touch

\* `busy` goes up or down and stays a count.
LEMMA CountTyped ==
  ASSUME NEW B \in [Backends -> BackendStates], NEW b, NEW n \in Int
  PROVE  Count(B, b, n) \in [Backends -> BackendStates]
<1>1. CASE b \in Backends
  <2>1. B[b] \in BackendStates /\ B[b].busy + n \in Int
    BY <1>1 DEF BackendStates
  <2>2. [B[b] EXCEPT !.busy = B[b].busy + n] \in BackendStates
    BY <2>1 DEF BackendStates
  <2>3. Count(B, b, n) = [B EXCEPT ![b] = [B[b] EXCEPT !.busy = B[b].busy + n]]
    BY <1>1 DEF Count
  <2> QED
    BY <2>2, <2>3
<1>2. CASE b \notin Backends
  BY <1>2 DEF Count
<1> QED
  BY <1>1, <1>2

\* _end_claims leaves records.
LEMMA EndClaimsTyped ==
  ASSUME NEW P \in [Convs -> Pins \cup {NoPin}], NEW b, NEW s, NEW c
  PROVE  EndClaims(P, b, s, c) \in [Convs -> Pins \cup {NoPin}]
  BY DEF EndClaims, Pins

\* A budget sweep leaves records.
LEMMA TrimmedTyped ==
  ASSUME NEW P \in [Convs -> Pins \cup {NoPin}], NEW c
  PROVE  Trimmed(P, Doomed(P, c)) \in [Convs -> Pins \cup {NoPin}]
  BY DEF Trimmed, Doomed, Pins

\* The claim of a save on its slot.
LEMMA SavingTyped ==
  ASSUME NEW B \in [Backends -> BackendStates], NEW b \in Backends, NEW s, NEW x \in Int
  PROVE  [B EXCEPT ![b].saving[s] = x] \in [Backends -> BackendStates]
<1> DEFINE saving == [B[b].saving EXCEPT ![s] = x]
<1>1. saving \in [AllSlots -> Int]
  BY DEF BackendStates
<1> HIDE DEF saving
<1>2. [B[b] EXCEPT !.saving = saving] \in BackendStates
  BY <1>1 DEF BackendStates
<1>3. [B EXCEPT ![b].saving[s] = x] = [B EXCEPT ![b] = [B[b] EXCEPT !.saving = saving]]
  BY DEF saving
<1> QED
  BY <1>2, <1>3

\* _take leaves a record.
LEMMA TakenTyped ==
  ASSUME TypeOK, NEW t \in Turns, NEW b \in Backends, NEW s \in AllSlots, ConvOf[t] \in Convs
  PROVE  TakenPin(ConvOf[t], t, b, s) \in Pins
<1> DEFINE c == ConvOf[t]
<1>1. Size[t] \in Nat
  BY Parameters
<1>2. CASE HasPin(c)
  <2> DEFINE slot == IF pins[c].backend = b THEN pins[c].slot ELSE NoSlot
             count == pins[c].turns + 1
  <2>1. pins[c] \in Pins
    BY <1>2 DEF HasPin, TypeOK
  <2>2. slot \in AllSlots \cup {NoSlot} /\ count \in Nat
    BY <2>1 DEF Pins
  <2>3. TakenPin(c, t, b, s) =
          [pins[c] EXCEPT !.backend = b, !.slot = slot, !.using = s, !.tokens = Size[t],
                          !.inflight = TRUE, !.turns = count]
    BY <1>2 DEF TakenPin
  <2> HIDE DEF slot, count
  <2> QED
    BY <1>1, <2>1, <2>2, <2>3 DEF Pins
<1>3. CASE ~HasPin(c)
  BY <1>1, <1>3 DEF TakenPin, Pins
<1> QED
  BY <1>2, <1>3

\* What a read leaves in a slot.
LEMMA MyPromptTyped ==
  ASSUME TypeOK, NEW t \in Turns
  PROVE  MyPrompt(t) \in Contents
  BY Parameters DEF MyPrompt, Prompt, Prompts, Contents, HasPin, TypeOK, Pins

\* A slot handed to a carry, and given back.
LEMMA HandedTyped ==
  ASSUME NEW B \in [Backends -> BackendStates], NEW b, NEW s
  PROVE  /\ s \in AllSlots =>
              [B EXCEPT ![b].handed = @ \cup {s}] \in [Backends -> BackendStates]
         /\ [B EXCEPT ![b].handed = @ \ {s}] \in [Backends -> BackendStates]
  BY DEF BackendStates

\* One slot is overwritten.
LEMMA CacheTyped ==
  ASSUME NEW C \in [Backends -> [AllSlots -> Contents]], NEW b, NEW s, NEW x \in Contents
  PROVE  [C EXCEPT ![b][s] = x] \in [Backends -> [AllSlots -> Contents]]
<1>1. CASE b \in Backends
  <2>1. [C[b] EXCEPT ![s] = x] \in [AllSlots -> Contents]
    BY <1>1
  <2> QED
    BY <1>1, <2>1
<1>2. CASE b \notin Backends
  BY <1>2
<1> QED
  BY <1>1, <1>2

\* One copy of ensure_parked keeps the invariant, whichever of its two callers
\* asked.
LEMMA ParkOneTyped ==
  ASSUME IInv, NEW t \in Turns, NEW b \in Backends, ParkOne(t, b)
  PROVE  IInv'
<1>1. PICK c \in Convs : /\ HasPin(c) /\ pins[c].slot # NoSlot
                         /\ pins' = [pins EXCEPT ![c].parking = TRUE]
                         /\ sub' = [sub EXCEPT ![t] = SaveOf(c, b, pins[c].slot)]
                         /\ at' = [at EXCEPT ![t].tried = @ \cup {c}]
  BY DEF ParkOne, Oldest, OnlyInASlot
<1>2. pins[c] \in Pins /\ at[t] \in Threads
  BY <1>1 DEF IInv, TypeOK, HasPin
<1>3. [pins[c] EXCEPT !.parking = TRUE] \in Pins /\ pins[c].slot \in AllSlots
  BY <1>1, <1>2 DEF Pins
<1>4. [at[t] EXCEPT !.tried = @ \cup {c}] \in Threads
  BY <1>2 DEF Threads
<1>5. pins' \in [Convs -> Pins \cup {NoPin}]
  BY <1>1, <1>3 DEF IInv, TypeOK
<1>6. at' \in [Turns -> Threads]
  BY <1>1, <1>4 DEF IInv, TypeOK
<1>7. sub' \in [Actors -> Saves] /\ SavesPlaced'
  BY <1>1, <1>3, SaveOfTyped DEF IInv, TypeOK, Actors, SavesPlaced, NotSaving
<1>8. TurnsPlaced'
  BY <1>1, <1>2 DEF IInv, TypeOK, TurnsPlaced, Threads
<1> QED
  BY <1>5, <1>6, <1>7, <1>8 DEF IInv, TypeOK, DrainPlaced, ParkOne, world

\* A dead backend's slots are empty.
LEMMA DieTyped ==
  ASSUME TypeOK, NEW b \in Backends, Die(b)
  PROVE  /\ box' \in [Backends -> [on : BOOLEAN, crashes : Nat]]
         /\ cache' \in [Backends -> [AllSlots -> Contents]]
         /\ cut' \subseteq Actors
<1> DEFINE crashes == box[b].crashes + 1
<1>1. box[b] \in [on : BOOLEAN, crashes : Nat] /\ crashes \in Nat
  BY DEF TypeOK
<1>2. box' = [box EXCEPT ![b] = [on |-> FALSE, crashes |-> crashes]]
  BY DEF Die
<1> HIDE DEF crashes
<1>3. box' \in [Backends -> [on : BOOLEAN, crashes : Nat]]
  BY <1>1, <1>2 DEF TypeOK
<1>4. cache' \in [Backends -> [AllSlots -> Contents]]
  BY DEF Die, TypeOK, Contents
<1>5. cut' \subseteq Actors
  BY DEF Die, TypeOK, Calling, Actors
<1> QED
  BY <1>3, <1>4, <1>5

\* The drain's report is a number: there are finitely many conversations.
LEMMA LeftTyped == ASSUME NEW b PROVE Cardinality(OnlyInASlot(b, {})) \in Nat
  BY Parameters, FS_Subset, FS_CardinalityType DEF OnlyInASlot

\* The router starts with no record, no job and no turn.
LEMMA TypeInit == Init => IInv
  BY Parameters DEF Init, IdleTurn, NoSave, Contents, FileStates, Drains, TypeOK, IInv,
     TurnsPlaced, SavesPlaced, DrainPlaced,
     Threads, TurnPcs, Inside, BackendStates, Saves, Actors, NotSaving

-------------------------------------------------------------------------------
\* What a step of a turn keeps.
LEMMA TypeTurn ==
  ASSUME IInv, NEW t \in Turns, TurnStep(t) \/ ClientLeaves(t)
  PROVE  IInv'
<1>ok. TypeOK
  BY DEF IInv
<1>turns. turns \in [Convs -> Turns \cup {NoTurn}]
  BY DEF IInv, TypeOK
<1>pins. pins \in [Convs -> Pins \cup {NoPin}]
  BY DEF IInv, TypeOK
<1>order. order \in [Convs -> Nat]
  BY DEF IInv, TypeOK
<1>used. used \in [Convs -> Nat]
  BY DEF IInv, TypeOK
<1>be. be \in [Backends -> BackendStates]
  BY DEF IInv, TypeOK
<1>jobs. jobs \in Seq(Jobs)
  BY DEF IInv, TypeOK
<1>at. at \in [Turns -> Threads]
  BY DEF IInv, TypeOK
<1>sub. sub \in [Actors -> Saves]
  BY DEF IInv, TypeOK
<1>cache. cache \in [Backends -> [AllSlots -> Contents]]
  BY DEF IInv, TypeOK
<1>file. file \in [Convs -> FileStates]
  BY DEF IInv, TypeOK
<1>cut. cut \subseteq Actors
  BY DEF IInv, TypeOK
<1>1. CASE Arrive(t)
  <2>1. at' \in [Turns -> Threads]
    BY <1>1, <1>at, OverTyped, PcTyped DEF Arrive, Move, Threads
  <2>2. TurnsPlaced'
    BY <1>1, <1>at, IInv DEF Arrive, IInv, TurnsPlaced, Inside, Over, IdleTurn, Move,
       Threads, TurnPcs
  <2> QED
    BY <1>1, <2>1, <2>2, IInv DEF IInv, TypeOK, Arrive, records, threads, world,
       SavesPlaced, NotSaving, DrainPlaced
<1>2. CASE ClaimTurn(t)
  <2>1. turns' \in [Convs -> Turns \cup {NoTurn}]
    BY <1>2, <1>turns DEF ClaimTurn, FreedBy
  <2>2. at' \in [Turns -> Threads]
    BY <1>2, <1>at, PcTyped DEF ClaimTurn, Move, Threads
  <2>3. TurnsPlaced'
    BY <1>2, <1>at, IInv DEF ClaimTurn, IInv, TurnsPlaced, Inside, Move, Threads, TurnPcs
  <2> QED
    BY <1>2, <2>1, <2>2, <2>3, IInv DEF IInv, TypeOK, ClaimTurn, records, threads, world,
       SavesPlaced, NotSaving, DrainPlaced
<1>3. CASE LeaveQueue(t)
  <2>1. turns' \in [Convs -> Turns \cup {NoTurn}]
    BY <1>3, <1>turns DEF LeaveQueue, FreedBy
  <2>2. at' \in [Turns -> Threads]
    BY <1>3, <1>at, OverTyped, PcTyped DEF LeaveQueue, Move, Threads
  <2>3. TurnsPlaced'
    BY <1>3, <1>at, IInv DEF LeaveQueue, IInv, TurnsPlaced, Inside, Over, IdleTurn, Move,
       Threads, TurnPcs
  <2> QED
    BY <1>3, <2>1, <2>2, <2>3, IInv DEF IInv, TypeOK, LeaveQueue, records, threads, world,
       SavesPlaced, NotSaving, DrainPlaced
<1>4. ASSUME NEW b \in Backends, NEW s \in AllSlots, Take(t, b, s)
     PROVE  IInv'
  <2>1. pins' \in [Convs -> Pins \cup {NoPin}]
    <3>1. ConvOf[t] \in Convs => TakenPin(ConvOf[t], t, b, s) \in Pins
      BY <1>ok, TakenTyped DEF TypeOK
    <3>2. (IF ConvOf[t] \in Convs THEN [pins EXCEPT ![ConvOf[t]] = TakenPin(ConvOf[t], t, b, s)] ELSE pins)
            \in [Convs -> Pins \cup {NoPin}]
      BY <1>pins, <3>1 DEF TypeOK
    <3> QED
      BY <1>4, <1>pins, <3>1, <3>2 DEF Take
  <2>2. order' \in [Convs -> Nat]
    BY <1>4, <1>order, TouchTyped DEF Take
  <2>3. used' \in [Convs -> Nat]
    BY <1>4, <1>used, TouchTyped DEF Take
  <2>4. file' \in [Convs -> FileStates]
    BY <1>4, <1>file DEF Take, Dropped, FileStates, Contents
  <2>5. be' \in [Backends -> BackendStates]
    BY <1>4, <1>be, CountTyped DEF Take, BackendStates
  <2>6. at' \in [Turns -> Threads]
    <3>1. [at[t] EXCEPT !.pc = "park", !.be = b, !.slot = s, !.serving = b] \in Threads
      BY <1>at, PcTyped DEF Threads
    <3> QED
      BY <1>4, <1>at, <3>1 DEF Take, Offers
  <2>7. TurnsPlaced'
    BY <1>4, <1>at, IInv DEF Take, IInv, TurnsPlaced, Inside, Move, Threads, TurnPcs
  <2> QED
    BY <1>4, <2>1, <2>2, <2>3, <2>4, <2>5, <2>6, <2>7, IInv DEF IInv, TypeOK, Take, records,
       threads, world, SavesPlaced, NotSaving, DrainPlaced
<1>5. CASE Spill(t)
  <2>1. at' \in [Turns -> Threads]
    <3>1. [at[t] EXCEPT !.spill = TRUE] \in Threads
      BY <1>at, PcTyped DEF Threads
    <3> QED
      BY <1>5, <1>at, <3>1 DEF Spill
  <2>2. TurnsPlaced'
    BY <1>5, <1>at, IInv DEF Spill, IInv, TurnsPlaced, Inside, Move, Threads, TurnPcs
  <2> QED
    BY <1>5, <2>1, <2>2, IInv DEF IInv, TypeOK, Spill, records, threads, world, SavesPlaced,
       NotSaving, DrainPlaced
<1>6. CASE Refuse(t)
  <2>1. turns' \in [Convs -> Turns \cup {NoTurn}]
    BY <1>6, <1>turns DEF Refuse, FreedBy
  <2>2. at' \in [Turns -> Threads]
    BY <1>6, <1>at, OverTyped, PcTyped DEF Refuse, Move, Threads
  <2>3. TurnsPlaced'
    BY <1>6, <1>at, IInv DEF Refuse, IInv, TurnsPlaced, Inside, Over, IdleTurn, Move,
       Threads, TurnPcs
  <2> QED
    BY <1>6, <2>1, <2>2, <2>3, IInv DEF IInv, TypeOK, Refuse, records, threads, world,
       SavesPlaced, NotSaving, DrainPlaced
<1>61. CASE LeaveAcquire(t)
  <2>1. turns' \in [Convs -> Turns \cup {NoTurn}]
    BY <1>61, <1>turns DEF LeaveAcquire, FreedBy
  <2>2. at' \in [Turns -> Threads]
    BY <1>61, <1>at, OverTyped, PcTyped DEF LeaveAcquire, Move, Threads
  <2>3. TurnsPlaced'
    BY <1>61, <1>at, IInv DEF LeaveAcquire, IInv, TurnsPlaced, Inside, Over, IdleTurn, Move,
       Threads, TurnPcs
  <2> QED
    BY <1>61, <2>1, <2>2, <2>3, IInv DEF IInv, TypeOK, LeaveAcquire, records, threads, world,
       SavesPlaced, NotSaving, DrainPlaced
<1>7. CASE EnsureParked(t)
  BY <1>7, ParkOneTyped DEF EnsureParked, IInv, TurnsPlaced, Inside, TurnPcs
<1>8. CASE TakeSlot(t)
  <2>1. pins' \in [Convs -> Pins \cup {NoPin}]
    BY <1>8, <1>pins, EndClaimsTyped DEF TakeSlot, Pins, HasPin
  <2>2. sub' \in [Actors -> Saves]
    BY <1>8, <1>sub, NoSaveTyped DEF TakeSlot, Saves, Actors
  <2>3. at' \in [Turns -> Threads]
    <3>1. [at[t] EXCEPT !.pc = "stale", !.tried = {}] \in Threads
      BY <1>at, PcTyped DEF Threads
    <3> QED
      BY <1>8, <1>at, <3>1 DEF TakeSlot
  <2>4. SavesPlaced'
    BY <1>8, <1>sub, IInv DEF TakeSlot, IInv, SavesPlaced, NotSaving, NoSave, Saves, Actors
  <2>5. TurnsPlaced'
    BY <1>8, <1>at, IInv DEF TakeSlot, IInv, TurnsPlaced, Inside, Move, Threads, TurnPcs
  <2> QED
    BY <1>8, <2>1, <2>2, <2>3, <2>4, <2>5, IInv DEF IInv, TypeOK, TakeSlot, records,
       threads, world, DrainPlaced
<1>9. CASE ForgetStalePark(t)
  <2>1. pins' \in [Convs -> Pins \cup {NoPin}]
    <3>1. HasPin(ConvOf[t]) => [pins[ConvOf[t]] EXCEPT !.parked = FALSE, !.slot = NoSlot] \in Pins
      BY <1>pins DEF HasPin, Pins
    <3> QED
      BY <1>9, <1>pins, <3>1 DEF ForgetStalePark
  <2>2. file' \in [Convs -> FileStates]
    BY <1>9, <1>file DEF ForgetStalePark, world
  <2>3. at' \in [Turns -> Threads]
    BY <1>9, <1>at, PcTyped DEF ForgetStalePark, Move, Threads
  <2>4. TurnsPlaced'
    BY <1>9, <1>at, IInv DEF ForgetStalePark, IInv, TurnsPlaced, Inside, Move, Threads,
       TurnPcs
  <2> QED
    BY <1>9, <2>1, <2>2, <2>3, <2>4, IInv DEF IInv, TypeOK, ForgetStalePark, records,
       threads, world, SavesPlaced, NotSaving, DrainPlaced
<1>10. CASE Recall(t)
  <2>1. at' \in [Turns -> Threads]
    BY <1>10, <1>at, PcTyped DEF Recall, Move, Threads
  <2>2. TurnsPlaced'
    BY <1>10, <1>at, IInv DEF Recall, IInv, TurnsPlaced, Inside, Move, Threads, TurnPcs
  <2> QED
    BY <1>10, <2>1, <2>2, IInv DEF IInv, TypeOK, Recall, records, threads, world,
       SavesPlaced, NotSaving, DrainPlaced
<1>11. CASE Recalled(t)
  <2>1. cache' \in [Backends -> [AllSlots -> Contents]]
    BY <1>11, <1>cache, CacheTyped DEF Recalled, Contents
  <2>2. pins' \in [Convs -> Pins \cup {NoPin}]
    <3>1. at[t].be \in Backends \cup {NoBackend} /\ at[t].slot \in AllSlots \cup {NoSlot}
      BY <1>at DEF Threads
    <3>2. HasPin(ConvOf[t]) => [pins[ConvOf[t]] EXCEPT !.backend = at[t].be, !.slot = at[t].slot]
                                \in Pins
      BY <1>pins, <3>1 DEF HasPin, Pins
    <3> QED
      BY <1>11, <1>pins, <3>1, <3>2 DEF Recalled
  <2>3. at' \in [Turns -> Threads]
    BY <1>11, <1>at, PcTyped DEF Recalled, AfterWarm, Move, Threads
  <2>4. TurnsPlaced'
    BY <1>11, <1>at, IInv DEF Recalled, IInv, TurnsPlaced, Inside, AfterWarm, Move, Threads,
       TurnPcs
  <2> QED
    BY <1>11, <2>1, <2>2, <2>3, <2>4, IInv DEF IInv, TypeOK, Recalled, records, threads,
       world, SavesPlaced, NotSaving, DrainPlaced
<1>12. CASE RecallRejected(t)
  <2>1. pins' \in [Convs -> Pins \cup {NoPin}]
    <3>1. HasPin(ConvOf[t]) => [pins[ConvOf[t]] EXCEPT !.parked = FALSE] \in Pins
      BY <1>pins, <1>at DEF HasPin, Pins, Threads
    <3> QED
      BY <1>12, <1>pins, <3>1 DEF RecallRejected
  <2>2. file' \in [Convs -> FileStates]
    BY <1>12, <1>file DEF RecallRejected, world
  <2>3. at' \in [Turns -> Threads]
    BY <1>12, <1>at, PcTyped DEF RecallRejected, Move, Threads
  <2>4. TurnsPlaced'
    BY <1>12, <1>at, IInv DEF RecallRejected, IInv, TurnsPlaced, Inside, Move, Threads,
       TurnPcs
  <2> QED
    BY <1>12, <2>1, <2>2, <2>3, <2>4, IInv DEF IInv, TypeOK, RecallRejected, records,
       threads, world, SavesPlaced, NotSaving, DrainPlaced
<1>62. CASE UnlinkForgotten(t)
  <2>1. file' \in [Convs -> FileStates]
    BY <1>62, <1>file DEF UnlinkForgotten, Dropped, FileStates
  <2>2. at' \in [Turns -> Threads]
    BY <1>62, <1>at, PcTyped DEF UnlinkForgotten, Move, Threads
  <2>3. TurnsPlaced'
    BY <1>62, <1>at, IInv DEF UnlinkForgotten, IInv, TurnsPlaced, Inside, Move, Threads,
       TurnPcs
  <2> QED
    BY <1>62, <2>1, <2>2, <2>3, IInv DEF IInv, TypeOK, UnlinkForgotten, records, threads,
       SavesPlaced, NotSaving, DrainPlaced
<1>13. CASE RecallLost(t)
  <2>1. cut' \subseteq Actors
    BY <1>13, <1>cut DEF RecallLost, Actors
  <2>2. at' \in [Turns -> Threads]
    BY <1>13, <1>at, PcTyped DEF RecallLost, Move, Threads
  <2>3. TurnsPlaced'
    BY <1>13, <1>at, IInv DEF RecallLost, IInv, TurnsPlaced, Inside, Move, Threads, TurnPcs
  <2> QED
    BY <1>13, <2>1, <2>2, <2>3, IInv DEF IInv, TypeOK, RecallLost, records, threads, world,
       SavesPlaced, NotSaving, DrainPlaced
<1>14. CASE WarmPrefix(t)
  <2>1. cache' \in [Backends -> [AllSlots -> Contents]]
    BY <1>14, <1>cache, CacheTyped DEF WarmPrefix, Contents
  <2>2. at' \in [Turns -> Threads]
    BY <1>14, <1>at, PcTyped DEF WarmPrefix, AfterWarm, Move, Threads
  <2>3. TurnsPlaced'
    BY <1>14, <1>at, IInv DEF WarmPrefix, IInv, TurnsPlaced, Inside, AfterWarm, Move,
       Threads, TurnPcs
  <2> QED
    BY <1>14, <2>1, <2>2, <2>3, IInv DEF IInv, TypeOK, WarmPrefix, records, threads, world,
       SavesPlaced, NotSaving, DrainPlaced
<1>15. CASE ReadDone(t)
  <2>1. cache' \in [Backends -> [AllSlots -> Contents]]
    BY <1>15, <1>cache, MyPromptTyped, CacheTyped, <1>ok DEF ReadDone, Contents
  <2>2. pins' \in [Convs -> Pins \cup {NoPin}]
    <3>1. HasPin(ConvOf[t]) => [pins[ConvOf[t]] EXCEPT !.slot = at[t].slot] \in Pins
      BY <1>pins, <1>at DEF HasPin, Pins, Threads
    <3> QED
      BY <1>15, <1>pins, <3>1 DEF ReadDone
  <2>3. at' \in [Turns -> Threads]
    <3>1. [at[t] EXCEPT !.pc = "handoff"] \in Threads
      BY <1>at, PcTyped DEF Threads
    <3> QED
      BY <1>15, <1>at, <3>1 DEF ReadDone, Move
  <2>4. TurnsPlaced'
    BY <1>15, <1>at, IInv DEF ReadDone, IInv, TurnsPlaced, Inside, Move, Threads, TurnPcs
  <2> QED
    BY <1>15, <2>1, <2>2, <2>3, <2>4, IInv DEF IInv, TypeOK, ReadDone, records, threads,
       world, SavesPlaced, NotSaving, DrainPlaced
<1>16. CASE ReadGone(t)
  <2>1. cache' \in [Backends -> [AllSlots -> Contents]]
    <3>1. MyPrompt(t) \in Contents
      BY <1>ok, MyPromptTyped
    <3>2. CASE cache' = cache
      BY <1>cache, <3>2
    <3>3. ASSUME NEW b, NEW s, cache' = [cache EXCEPT ![b][s] = MyPrompt(t)]
          PROVE  cache' \in [Backends -> [AllSlots -> Contents]]
      <4>1. [cache EXCEPT ![b][s] = MyPrompt(t)] \in [Backends -> [AllSlots -> Contents]]
        BY <1>cache, <3>1, CacheTyped
      <4> QED
        BY <3>3, <4>1, Zenon
    <3> QED
      BY <1>16, <3>2, <3>3 DEF ReadGone
  <2>2. at' \in [Turns -> Threads]
    <3>1. [at[t] EXCEPT !.pc = "release", !.left = TRUE] \in Threads
      BY <1>at, PcTyped DEF Threads
    <3> QED
      BY <1>16, <1>at, <3>1 DEF ReadGone
  <2>3. cut' \subseteq Actors
    BY <1>16, <1>cut DEF ReadGone, Actors
  <2>4. TurnsPlaced'
    BY <1>16, <1>at, IInv DEF ReadGone, IInv, TurnsPlaced, Inside, Move, Threads, TurnPcs
  <2> QED
    BY <1>16, <2>1, <2>2, <2>3, <2>4, IInv DEF IInv, TypeOK, ReadGone, records, threads,
       world, SavesPlaced, NotSaving, DrainPlaced
<1>17. CASE ReadFailed(t)
  <2>1. at' \in [Turns -> Threads]
    BY <1>17, <1>at, PcTyped DEF ReadFailed, Move, Threads
  <2>2. cut' \subseteq Actors
    BY <1>17, <1>cut DEF ReadFailed, Actors
  <2>3. TurnsPlaced'
    BY <1>17, <1>at, IInv DEF ReadFailed, IInv, TurnsPlaced, Inside, Move, Threads, TurnPcs
  <2> QED
    BY <1>17, <2>1, <2>2, <2>3, IInv DEF IInv, TypeOK, ReadFailed, records, threads, world,
       SavesPlaced, NotSaving, DrainPlaced
<1>18. CASE Stay(t)
  <2>1. at' \in [Turns -> Threads]
    BY <1>18, <1>at, PcTyped DEF Stay, Move, Threads
  <2>2. TurnsPlaced'
    BY <1>18, <1>at, IInv DEF Stay, IInv, TurnsPlaced, Inside, Move, Threads, TurnPcs
  <2> QED
    BY <1>18, <2>1, <2>2, IInv DEF IInv, TypeOK, Stay, records, threads, world, SavesPlaced,
       NotSaving, DrainPlaced
<1>19. CASE LeaveReader(t)
  <2>1. at' \in [Turns -> Threads]
    <3>1. [at[t] EXCEPT !.pc = "release", !.left = TRUE] \in Threads
      BY <1>at, PcTyped DEF Threads
    <3> QED
      BY <1>19, <1>at, <3>1 DEF LeaveReader
  <2>2. TurnsPlaced'
    BY <1>19, <1>at, IInv DEF LeaveReader, IInv, TurnsPlaced, Inside, Move, Threads, TurnPcs
  <2> QED
    BY <1>19, <2>1, <2>2, IInv DEF IInv, TypeOK, LeaveReader, records, threads, world,
       SavesPlaced, NotSaving, DrainPlaced
<1>20. ASSUME NEW g \in Backends, CarrySave(t, g)
      PROVE  IInv'
  <2>1. sub' \in [Actors -> Saves]
    BY <1>20, <1>sub, SaveOfTyped, <1>at, <1>pins, IInv DEF CarrySave, IInv, TurnsPlaced,
       Inside, Threads, TurnPcs, Pins, HasPin, Generator, Saves, Actors
  <2>2. at' \in [Turns -> Threads]
    BY <1>20, <1>at, PcTyped DEF CarrySave, Move, Threads
  <2>3. SavesPlaced'
    BY <1>20, <1>sub, IInv, SaveOfTyped, <1>at, <1>pins DEF CarrySave, IInv, SavesPlaced,
       NotSaving, HasPin, Pins, TurnsPlaced, Inside, Threads, TurnPcs, Saves, Actors
  <2>4. TurnsPlaced'
    BY <1>20, <1>at, IInv DEF CarrySave, IInv, TurnsPlaced, Inside, Move, Threads, TurnPcs
  <2> QED
    BY <1>20, <2>1, <2>2, <2>3, <2>4, IInv DEF IInv, TypeOK, CarrySave, records, threads,
       world, DrainPlaced
<1>21. CASE CarrySaved(t)
  <2>1. be' \in [Backends -> BackendStates]
    BY <1>21, <1>be, CountTyped DEF CarrySaved, BackendStates
  <2>2. at' \in [Turns -> Threads]
    <3>1. \A x \in BOOLEAN : [at[t] EXCEPT !.pc = "genwait", !.named = x] \in Threads
      BY <1>at, PcTyped DEF Threads
    <3> QED
      BY <1>21, <1>at, <3>1 DEF CarrySaved
  <2>3. sub' \in [Actors -> Saves]
    BY <1>21, <1>sub, NoSaveTyped DEF CarrySaved, Saves, Actors
  <2>4. TurnsPlaced'
    BY <1>21, <1>at, IInv DEF CarrySaved, IInv, TurnsPlaced, Inside, Move, Threads, TurnPcs
  <2>5. SavesPlaced'
    BY <1>21, <1>sub, IInv DEF CarrySaved, IInv, SavesPlaced, NotSaving, NoSave, Saves,
       Actors
  <2> QED
    BY <1>21, <2>1, <2>2, <2>3, <2>4, <2>5, IInv DEF IInv, TypeOK, CarrySaved, records,
       threads, world, DrainPlaced
<1>22. CASE CarryNotSaved(t)
  <2>1. at' \in [Turns -> Threads]
    <3>1. [at[t] EXCEPT !.pc = "relay", !.dst = NoBackend] \in Threads
      BY <1>at, PcTyped DEF Threads
    <3> QED
      BY <1>22, <1>at, <3>1 DEF CarryNotSaved
  <2>2. sub' \in [Actors -> Saves]
    BY <1>22, <1>sub, NoSaveTyped DEF CarryNotSaved, Saves, Actors
  <2>3. TurnsPlaced'
    BY <1>22, <1>at, IInv DEF CarryNotSaved, IInv, TurnsPlaced, Inside, Move, Threads,
       TurnPcs
  <2>4. SavesPlaced'
    BY <1>22, <1>sub, IInv DEF CarryNotSaved, IInv, SavesPlaced, NotSaving, NoSave, Saves,
       Actors
  <2> QED
    BY <1>22, <2>1, <2>2, <2>3, <2>4, IInv DEF IInv, TypeOK, CarryNotSaved, records,
       threads, world, DrainPlaced
<1>23. ASSUME NEW s \in AllSlots, GenerateSlot(t, s)
      PROVE  IInv'
  <2>1. be' \in [Backends -> BackendStates]
    <3> DEFINE B == Count(be, at[t].dst, 1)
    <3>1. B \in [Backends -> BackendStates]
      BY <1>be, CountTyped DEF TypeOK
    <3> HIDE DEF B
    <3>2. [B EXCEPT ![at[t].dst].handed = @ \cup {s}] \in [Backends -> BackendStates]
      BY <3>1, HandedTyped DEF BackendStates
    <3> QED
      BY <1>23, <3>1, <3>2 DEF GenerateSlot, B
  <2>2. at' \in [Turns -> Threads]
    <3>1. [at[t] EXCEPT !.pc = "clear", !.free = s] \in Threads
      BY <1>at, PcTyped DEF Threads
    <3> QED
      BY <1>23, <1>at, <3>1 DEF GenerateSlot
  <2>3. TurnsPlaced'
    BY <1>23, <1>at, IInv DEF GenerateSlot, IInv, TurnsPlaced, Inside, Move, Threads,
       TurnPcs
  <2> QED
    BY <1>23, <2>1, <2>2, <2>3, IInv DEF IInv, TypeOK, GenerateSlot, records, threads,
       world, SavesPlaced, NotSaving, DrainPlaced
<1>24. CASE GenerateHere(t)
  <2>1. be' \in [Backends -> BackendStates]
    BY <1>24, <1>be, CountTyped DEF GenerateHere, BackendStates
  <2>2. at' \in [Turns -> Threads]
    <3>1. [at[t] EXCEPT !.pc = "relay", !.dst = NoBackend] \in Threads
      BY <1>at, PcTyped DEF Threads
    <3> QED
      BY <1>24, <1>at, <3>1 DEF GenerateHere
  <2>3. TurnsPlaced'
    BY <1>24, <1>at, IInv DEF GenerateHere, IInv, TurnsPlaced, Inside, NoGenerator, Move,
       Threads, TurnPcs
  <2> QED
    BY <1>24, <2>1, <2>2, <2>3, IInv DEF IInv, TypeOK, GenerateHere, records, threads,
       world, SavesPlaced, NotSaving, DrainPlaced
<1>25. CASE GenerateElsewhere(t)
  <2>1. at' \in [Turns -> Threads]
    <3>1. \A g \in Backends \cup {NoBackend} : [at[t] EXCEPT !.dst = g] \in Threads
      BY <1>at DEF Threads
    <3>2. Generator(Size[t], at[t].be) \subseteq Backends
      BY Parameters DEF Generator
    <3>3. \E g \in Backends \cup {NoBackend} : at' = [at EXCEPT ![t].dst = g]
      BY <1>25, <3>2 DEF GenerateElsewhere
    <3> QED
      BY <1>25, <1>at, <3>1, <3>2, <3>3 DEF GenerateElsewhere
  <2>2. TurnsPlaced'
    BY <1>25, <1>at, IInv DEF GenerateElsewhere, IInv, TurnsPlaced, Inside, NoGenerator,
       Generator, Move, Threads, TurnPcs
  <2> QED
    BY <1>25, <2>1, <2>2, IInv DEF IInv, TypeOK, GenerateElsewhere, records, threads, world,
       SavesPlaced, NotSaving, DrainPlaced
<1>26. CASE LeaveParked(t)
  <2>1. at' \in [Turns -> Threads]
    <3>1. [at[t] EXCEPT !.pc = "partial", !.left = TRUE, !.dst = NoBackend,
          !.serving = NoBackend] \in Threads
      BY <1>at, PcTyped DEF Threads
    <3> QED
      BY <1>26, <1>at, <3>1 DEF LeaveParked
  <2>2. TurnsPlaced'
    BY <1>26, <1>at, IInv DEF LeaveParked, IInv, TurnsPlaced, Inside, Move, Threads, TurnPcs
  <2> QED
    BY <1>26, <2>1, <2>2, IInv DEF IInv, TypeOK, LeaveParked, records, threads, world,
       SavesPlaced, NotSaving, DrainPlaced
<1>27. CASE ClearTarget(t)
  BY <1>27, ParkOneTyped DEF ClearTarget, IInv, TurnsPlaced, Inside, TurnPcs
<1>28. CASE TargetCleared(t)
  <2>1. sub' \in [Actors -> Saves]
    BY <1>28, <1>sub, NoSaveTyped DEF TargetCleared, Saves, Actors
  <2>2. at' \in [Turns -> Threads]
    <3>1. [at[t] EXCEPT !.pc = "landing", !.tried = {}] \in Threads
      BY <1>at, PcTyped DEF Threads
    <3> QED
      BY <1>28, <1>at, <3>1 DEF TargetCleared
  <2>3. SavesPlaced'
    BY <1>28, <1>sub, IInv DEF TargetCleared, IInv, SavesPlaced, NotSaving, NoSave, Saves,
       Actors
  <2>4. TurnsPlaced'
    BY <1>28, <1>at, IInv DEF TargetCleared, IInv, TurnsPlaced, Inside, Move, Threads,
       TurnPcs
  <2> QED
    BY <1>28, <2>1, <2>2, <2>3, <2>4, IInv DEF IInv, TypeOK, TargetCleared, records,
       threads, world, DrainPlaced
<1>29. CASE Land(t)
  <2>1. cache' \in [Backends -> [AllSlots -> Contents]]
    BY <1>29, <1>cache, CacheTyped DEF Land, Contents
  <2>2. be' \in [Backends -> BackendStates]
    BY <1>29, <1>be DEF Land, BackendStates
  <2>3. pins' \in [Convs -> Pins \cup {NoPin}]
    <3> DEFINE E == EndClaims(pins, at[t].dst, at[t].free, ConvOf[t])
    <3>1. E \in [Convs -> Pins \cup {NoPin}]
      BY <1>pins, EndClaimsTyped DEF TypeOK
    <3>2. HasPin(ConvOf[t]) => E[ConvOf[t]] \in Pins
      BY <1>pins DEF HasPin, EndClaims
    <3> HIDE DEF E
    <3>3. HasPin(ConvOf[t]) => [E[ConvOf[t]] EXCEPT !.backend = at[t].dst, !.slot = at[t].free,
          !.using = at[t].free, !.inflight = TRUE] \in Pins
      BY <3>2, <1>at DEF Pins, Threads
    <3> QED
      BY <1>29, <1>pins, <3>1, <3>2, <3>3 DEF Land, E
  <2>4. at' \in [Turns -> Threads]
    <3>1. [at[t] EXCEPT !.pc = "relay", !.serving = at[t].dst, !.dst = NoBackend,
          !.free = NoSlot, !.named = FALSE] \in Threads
      BY <1>at, PcTyped DEF Threads
    <3> QED
      BY <1>29, <1>at, <3>1 DEF Land
  <2>5. TurnsPlaced'
    BY <1>29, <1>at, IInv DEF Land, IInv, TurnsPlaced, Inside, Move, Threads, TurnPcs
  <2> QED
    BY <1>29, <2>1, <2>2, <2>3, <2>4, <2>5, IInv DEF IInv, TypeOK, Land, records, threads,
       world, SavesPlaced, NotSaving, DrainPlaced
<1>30. CASE LandFailed(t)
  <2>1. be' \in [Backends -> BackendStates]
    <3> DEFINE B == Count(Count(be, at[t].dst, -1), at[t].be, 1)
    <3>1. B \in [Backends -> BackendStates]
      BY <1>be, CountTyped DEF TypeOK
    <3> HIDE DEF B
    <3>2. [B EXCEPT ![at[t].dst].handed = @ \ {at[t].free}] \in [Backends -> BackendStates]
      BY <3>1, HandedTyped DEF BackendStates
    <3> QED
      BY <1>30, <3>1, <3>2 DEF LandFailed, B
  <2>2. at' \in [Turns -> Threads]
    <3>1. [at[t] EXCEPT !.pc = "relay", !.dst = NoBackend, !.free = NoSlot,
          !.named = FALSE] \in Threads
      BY <1>at, PcTyped DEF Threads
    <3> QED
      BY <1>30, <1>at, <3>1 DEF LandFailed
  <2>3. cut' \subseteq Actors
    BY <1>30, <1>cut DEF LandFailed, Actors
  <2>4. TurnsPlaced'
    BY <1>30, <1>at, IInv DEF LandFailed, IInv, TurnsPlaced, Inside, Move, Threads, TurnPcs
  <2> QED
    BY <1>30, <2>1, <2>2, <2>3, <2>4, IInv DEF IInv, TypeOK, LandFailed, records, threads,
       world, SavesPlaced, NotSaving, DrainPlaced
<1>31. CASE Relay(t)
  <2>1. cache' \in [Backends -> [AllSlots -> Contents]]
    <3>1. MyPrompt(t) \in Contents
      BY <1>ok, MyPromptTyped
    <3>2. CASE cache' = cache
      BY <1>cache, <3>2
    <3>3. ASSUME NEW b, NEW s, cache' = [cache EXCEPT ![b][s] = MyPrompt(t)]
          PROVE  cache' \in [Backends -> [AllSlots -> Contents]]
      <4>1. [cache EXCEPT ![b][s] = MyPrompt(t)] \in [Backends -> [AllSlots -> Contents]]
        BY <1>cache, <3>1, CacheTyped
      <4> QED
        BY <3>3, <4>1, Zenon
    <3> QED
      BY <1>31, <3>2, <3>3 DEF Relay
  <2>2. at' \in [Turns -> Threads]
    <3>1. \A gone \in BOOLEAN : [at[t] EXCEPT !.pc = "release", !.left = gone] \in Threads
      BY <1>at, PcTyped DEF Threads
    <3> QED
      BY <1>31, <1>at, <3>1 DEF Relay
  <2>3. cut' \subseteq Actors
    BY <1>31, <1>cut DEF Relay, Actors
  <2>4. TurnsPlaced'
    BY <1>31, <1>at, IInv DEF Relay, IInv, TurnsPlaced, Inside, Move, Threads, TurnPcs
  <2> QED
    BY <1>31, <2>1, <2>2, <2>3, <2>4, IInv DEF IInv, TypeOK, Relay, records, threads, world,
       SavesPlaced, NotSaving, DrainPlaced
<1>32. CASE Release(t)
  <2>1. be' \in [Backends -> BackendStates]
    BY <1>32, <1>be, CountTyped DEF Release, BackendStates
  <2>2. pins' \in [Convs -> Pins \cup {NoPin}]
    <3> DEFINE Openings == {Opening[u] : u \in Turns} \cup {NoOpening}
    <3>1. HasPin(ConvOf[t]) => \A o \in Openings :
          [pins[ConvOf[t]] EXCEPT !.inflight = FALSE, !.opening = o] \in Pins
      BY <1>pins DEF HasPin, Pins
    <3>2. HasPin(ConvOf[t]) => pins[ConvOf[t]].opening \in Openings
      BY <1>pins DEF HasPin, Pins
    <3> QED
      BY <1>32, <1>pins, <3>1, <3>2 DEF Release
  <2>3. used' \in [Convs -> Nat]
    <3>1. HasPin(ConvOf[t]) => Touch(used, ConvOf[t]) \in [Convs -> Nat]
      BY <1>used, TouchTyped DEF HasPin
    <3> QED
      BY <1>32, <1>used, <3>1 DEF Release
  <2>4. at' \in [Turns -> Threads]
    BY <1>32, <1>at, PcTyped DEF Release, Move, Threads
  <2>5. TurnsPlaced'
    BY <1>32, <1>at, IInv DEF Release, IInv, TurnsPlaced, Inside, Move, Threads, TurnPcs
  <2> QED
    BY <1>32, <2>1, <2>2, <2>3, <2>4, <2>5, IInv DEF IInv, TypeOK, Release, records,
       threads, world, SavesPlaced, NotSaving, DrainPlaced
<1>33. CASE ParkPartial(t)
  <2>1. pins' \in [Convs -> Pins \cup {NoPin}]
    <3>1. HasPin(ConvOf[t]) => [pins[ConvOf[t]] EXCEPT !.parking = TRUE] \in Pins
      BY <1>pins, <1>at DEF HasPin, Pins, Threads
    <3> QED
      BY <1>33, <1>pins, <3>1 DEF ParkPartial, Partial, HasPin
  <2>2. sub' \in [Actors -> Saves]
    BY <1>33, <1>sub, SaveOfTyped, <1>at, <1>pins, IInv DEF ParkPartial, IInv, TurnsPlaced,
       Inside, Threads, TurnPcs, Partial, HasPin, Saves, Actors
  <2>3. SavesPlaced'
    BY <1>33, <1>sub, IInv, SaveOfTyped, <1>at, <1>pins DEF ParkPartial, IInv, SavesPlaced,
       NotSaving, HasPin, Pins, TurnsPlaced, Inside, Threads, TurnPcs, Partial, Saves,
       Actors
  <2> QED
    BY <1>33, <2>1, <2>2, <2>3, IInv DEF IInv, TypeOK, ParkPartial, records, threads, world,
       TurnsPlaced, Inside, DrainPlaced
<1>34. CASE PartialOver(t)
  <2>1. sub' \in [Actors -> Saves]
    BY <1>34, <1>sub, NoSaveTyped DEF PartialOver, Saves, Actors
  <2>2. at' \in [Turns -> Threads]
    BY <1>34, <1>at, PcTyped DEF PartialOver, Move, Threads
  <2>3. SavesPlaced'
    BY <1>34, <1>sub, IInv DEF PartialOver, IInv, SavesPlaced, NotSaving, NoSave, Saves,
       Actors
  <2>4. TurnsPlaced'
    BY <1>34, <1>at, IInv DEF PartialOver, IInv, TurnsPlaced, Inside, Move, Threads, TurnPcs
  <2> QED
    BY <1>34, <2>1, <2>2, <2>3, <2>4, IInv DEF IInv, TypeOK, PartialOver, records, threads,
       world, DrainPlaced
<1>35. CASE ParkLater(t)
  <2>1. pins' \in [Convs -> Pins \cup {NoPin}]
    <3>1. HasPin(ConvOf[t]) => [pins[ConvOf[t]] EXCEPT !.parking = TRUE] \in Pins
      BY <1>pins, <1>at DEF HasPin, Pins, Threads
    <3> QED
      BY <1>35, <1>pins, <3>1 DEF ParkLater, Leaves, HasPin
  <2>2. jobs' \in Seq(Jobs)
    BY <1>35, <1>jobs, <1>at, <1>pins, <1>be, IInv DEF ParkLater, IInv, TurnsPlaced,
       TurnPcs, Leaves, Pins, HasPin, BackendStates, Inside, Threads, Jobs
  <2>3. at' \in [Turns -> Threads]
    BY <1>35, <1>at, OverTyped, PcTyped DEF ParkLater, Move, Threads
  <2>4. TurnsPlaced'
    BY <1>35, <1>at, IInv DEF ParkLater, IInv, TurnsPlaced, Inside, Over, IdleTurn, Move,
       Threads, TurnPcs
  <2> QED
    BY <1>35, <2>1, <2>2, <2>3, <2>4, IInv DEF IInv, TypeOK, ParkLater, records, threads,
       world, SavesPlaced, NotSaving, DrainPlaced
<1>36. CASE FinishTurn(t)
  <2>1. turns' \in [Convs -> Turns \cup {NoTurn}]
    BY <1>36, <1>turns DEF FinishTurn, FreedBy
  <2>2. at' \in [Turns -> Threads]
    BY <1>36, <1>at, OverTyped, PcTyped DEF FinishTurn, Move, Threads
  <2>3. TurnsPlaced'
    BY <1>36, <1>at, IInv DEF FinishTurn, IInv, TurnsPlaced, Inside, Over, IdleTurn, Move,
       Threads, TurnPcs
  <2> QED
    BY <1>36, <2>1, <2>2, <2>3, IInv DEF IInv, TypeOK, FinishTurn, records, threads, world,
       SavesPlaced, NotSaving, DrainPlaced
<1> QED
  BY <1>1, <1>62, <1>61, <1>2, <1>3, <1>4, <1>5, <1>6, <1>7, <1>8, <1>9, <1>10, <1>11, <1>12,
     <1>13,
     <1>14, <1>15, <1>16, <1>17, <1>18, <1>19, <1>20, <1>21, <1>22, <1>23, <1>24, <1>25,
     <1>26, <1>27, <1>28, <1>29, <1>30, <1>31, <1>32, <1>33, <1>34, <1>35, <1>36 DEF
     TurnStep, ClientLeaves

-------------------------------------------------------------------------------
\* What a step of a save keeps.

\* How every save ends: the sweep, and the answer.
LEMMA EndSaveTyped ==
  ASSUME IInv, NEW a \in Actors, ~NotSaving(a),
         NEW P \in [Convs -> Pins \cup {NoPin}], NEW ok \in BOOLEAN, EndSave(a, P, ok)
  PROVE  /\ pins' \in [Convs -> Pins \cup {NoPin}]
         /\ sub' \in [Actors -> Saves]
         /\ SavesPlaced'
<1> DEFINE doomed == Doomed(P, sub[a].conv)
           ended == [sub[a] EXCEPT !.phase = "sweep", !.ok = ok, !.spent = doomed, !.turn = 0]
<1>1. sub[a] \in Saves /\ sub \in [Actors -> Saves]
  BY DEF IInv, TypeOK
<1>2. doomed \in SUBSET Convs
  BY DEF Doomed
<1>3. pins' = Trimmed(P, doomed) /\ sub' = [sub EXCEPT ![a] = ended]
  BY DEF EndSave
<1>4. pins' \in [Convs -> Pins \cup {NoPin}]
  BY <1>3, TrimmedTyped
<1> HIDE DEF doomed
<1>5. ended \in Saves /\ ended.conv = sub[a].conv /\ ended.be = sub[a].be
                      /\ ended.slot = sub[a].slot
  BY <1>1, <1>2 DEF Saves
<1> HIDE DEF ended
<1>6. SavesPlaced'
  BY <1>1, <1>3, <1>5 DEF IInv, SavesPlaced, NotSaving
<1> QED
  BY <1>1, <1>3, <1>4, <1>5, <1>6

\* The eight steps of _save_park.
LEMMA TypeSave ==
  ASSUME IInv, NEW a \in Actors, SaveStep(a)
  PROVE  IInv'
<1>pins. pins \in [Convs -> Pins \cup {NoPin}]
  BY DEF IInv, TypeOK
<1>sub. sub \in [Actors -> Saves] /\ sub[a] \in Saves
  BY DEF IInv, TypeOK
<1>be. be \in [Backends -> BackendStates]
  BY DEF IInv, TypeOK
<1>file. file \in [Convs -> FileStates]
  BY DEF IInv, TypeOK
<1>cut. cut \subseteq Actors
  BY DEF IInv, TypeOK
<1>on. /\ ~NotSaving(a)
       /\ sub[a].conv \in Convs /\ sub[a].be \in Backends /\ sub[a].slot \in AllSlots
       /\ be[sub[a].be].saving[sub[a].slot] \in Int
  <2>1. ~NotSaving(a)
    BY DEF NotSaving, SaveStep, SaveCount, SaveBegin, SaveRefused, SaveCut, SaveKept,
       SaveShort, SaveLost, SaveSwept
  <2>2. sub[a].conv \in Convs /\ sub[a].be \in Backends /\ sub[a].slot \in AllSlots
    BY <2>1 DEF IInv, SavesPlaced
  <2> QED
    BY <1>be, <2>1, <2>2 DEF BackendStates
<1>park. \A c \in Convs : HasPin(c) => [pins[c] EXCEPT !.parking = FALSE] \in Pins
  BY <1>pins DEF HasPin, Pins
<1>1. CASE SaveCount(a)
  <2>1. pins' \in [Convs -> Pins \cup {NoPin}]
    BY <1>1, <1>pins, <1>park DEF SaveCount, HasPin
  <2>2. be' \in [Backends -> BackendStates]
    <3>1. \A x \in Int : [be EXCEPT ![sub[a].be].saving[sub[a].slot] = x]
                             \in [Backends -> BackendStates]
      BY <1>be, <1>on, SavingTyped, Zenon
    <3>0. be[sub[a].be].saving[sub[a].slot] + 1 \in Int
      BY <1>on
    <3>2. be' = be \/ be' = [be EXCEPT ![sub[a].be].saving[sub[a].slot] = @ + 1]
      BY <1>1 DEF SaveCount
    <3> QED
      BY <1>be, <3>0, <3>1, <3>2, Zenon
  <2>3. sub' \in [Actors -> Saves] /\ SavesPlaced'
    <3>1. PICK r \in {[sub[a] EXCEPT !.phase = "done", !.ok = FALSE],
                      [sub[a] EXCEPT !.phase = "begin"]} : sub' = [sub EXCEPT ![a] = r]
      BY <1>1, <1>sub DEF SaveCount
    <3>2. r \in Saves /\ r.conv = sub[a].conv /\ r.be = sub[a].be /\ r.slot = sub[a].slot
      BY <1>sub DEF Saves
    <3> QED
      BY <1>sub, <1>on, <3>1, <3>2 DEF IInv, SavesPlaced, NotSaving
  <2> QED
    BY <1>1, <2>1, <2>2, <2>3 DEF IInv, TypeOK, SaveCount, SaveVars, TurnsPlaced, DrainPlaced
<1>2. CASE SaveBegin(a)
  <2>1. sub' \in [Actors -> Saves] /\ SavesPlaced'
    <3> DEFINE turn == IF HasPin(sub[a].conv) THEN pins[sub[a].conv].turns ELSE 0
               begun == [sub[a] EXCEPT !.phase = "writing", !.turn = turn]
    <3>1. turn \in Nat
      BY <1>pins DEF HasPin, Pins
    <3>2. sub' = [sub EXCEPT ![a] = begun]
      BY <1>2 DEF SaveBegin
    <3> HIDE DEF turn
    <3>3. begun \in Saves /\ begun.conv = sub[a].conv /\ begun.be = sub[a].be
                          /\ begun.slot = sub[a].slot
      BY <1>sub, <3>1 DEF Saves
    <3> HIDE DEF begun
    <3> QED
      BY <1>sub, <1>on, <3>2, <3>3 DEF IInv, SavesPlaced, NotSaving
  <2>2. file' \in [Convs -> FileStates]
    BY <1>2, <1>file DEF SaveBegin, FileStates
  <2> QED
    BY <1>2, <2>1, <2>2 DEF IInv, TypeOK, SaveBegin, SaveVars, TurnsPlaced, DrainPlaced
<1>3. CASE SaveRefused(a)
  <2>1. pins' \in [Convs -> Pins \cup {NoPin}] /\ sub' \in [Actors -> Saves] /\ SavesPlaced'
    BY <1>3, <1>on, <1>pins, EndSaveTyped DEF SaveRefused
  <2> QED
    BY <1>3, <2>1 DEF IInv, TypeOK, SaveRefused, SaveVars, TurnsPlaced, DrainPlaced
<1>4. CASE SaveCut(a)
  <2>1. pins' \in [Convs -> Pins \cup {NoPin}] /\ sub' \in [Actors -> Saves] /\ SavesPlaced'
    BY <1>4, <1>on, <1>pins, EndSaveTyped DEF SaveCut
  <2>2. cut' \subseteq Actors
    BY <1>4, <1>cut DEF SaveCut
  <2> QED
    BY <1>4, <2>1, <2>2 DEF IInv, TypeOK, SaveCut, SaveVars, TurnsPlaced, DrainPlaced
<1>5. CASE SaveKept(a)
  <2> DEFINE c == sub[a].conv
             P == IF HasPin(c)
                  THEN [pins EXCEPT ![c] = [@ EXCEPT !.parked = TRUE, !.parkedTurn = sub[a].turn]]
                  ELSE pins
  <2>1. P \in [Convs -> Pins \cup {NoPin}]
    <3>1. sub[a].turn \in Nat
      BY <1>sub DEF Saves
    <3>2. HasPin(c) => [pins[c] EXCEPT !.parked = TRUE, !.parkedTurn = sub[a].turn] \in Pins
      BY <1>pins, <3>1 DEF HasPin, Pins
    <3> QED
      BY <1>pins, <3>2 DEF HasPin
  <2>2. EndSave(a, P, TRUE)
    BY <1>5 DEF SaveKept
  <2> HIDE DEF P
  <2>3. pins' \in [Convs -> Pins \cup {NoPin}] /\ sub' \in [Actors -> Saves] /\ SavesPlaced'
    BY <1>on, <2>1, <2>2, EndSaveTyped
  <2>4. file' \in [Convs -> FileStates]
    <3>1. cache[sub[a].be][sub[a].slot] \in Contents
      BY <1>on DEF IInv, TypeOK
    <3> QED
      BY <1>5, <1>file, <3>1 DEF SaveKept, FileStates, Contents
  <2> QED
    BY <1>5, <2>3, <2>4 DEF IInv, TypeOK, SaveKept, SaveVars, TurnsPlaced, DrainPlaced
<1>6. CASE SaveLost(a)
  <2> DEFINE c == sub[a].conv
             P == IF HasPin(c) /\ pins[c].turns = sub[a].turn
                  THEN [pins EXCEPT ![c] = [@ EXCEPT !.parked = FALSE, !.slot = NoSlot]]
                  ELSE pins
  <2>1. P \in [Convs -> Pins \cup {NoPin}]
    <3>1. HasPin(c) => [pins[c] EXCEPT !.parked = FALSE, !.slot = NoSlot] \in Pins
      BY <1>pins DEF HasPin, Pins
    <3> QED
      BY <1>pins, <3>1 DEF HasPin
  <2>2. EndSave(a, P, FALSE)
    BY <1>6 DEF SaveLost
  <2> HIDE DEF P
  <2>3. pins' \in [Convs -> Pins \cup {NoPin}] /\ sub' \in [Actors -> Saves] /\ SavesPlaced'
    BY <1>on, <2>1, <2>2, EndSaveTyped
  <2> QED
    BY <1>6, <2>3 DEF IInv, TypeOK, SaveLost, SaveVars, TurnsPlaced, DrainPlaced
<1>8. CASE SaveShort(a)
  <2>1. sub' \in [Actors -> Saves] /\ SavesPlaced'
    <3>1. /\ [sub[a] EXCEPT !.phase = "short"] \in Saves
          /\ sub' = [sub EXCEPT ![a] = [sub[a] EXCEPT !.phase = "short"]]
      BY <1>8, <1>sub DEF SaveShort, Saves
    <3> QED
      BY <1>sub, <1>on, <3>1 DEF IInv, SavesPlaced, NotSaving
  <2>2. file' \in [Convs -> FileStates]
    BY <1>8, <1>file DEF SaveShort, FileStates
  <2> QED
    BY <1>8, <2>1, <2>2 DEF IInv, TypeOK, SaveShort, SaveVars, TurnsPlaced, DrainPlaced
<1>7. CASE SaveSwept(a)
  <2>1. pins' \in [Convs -> Pins \cup {NoPin}]
    BY <1>7, <1>pins, <1>park DEF SaveSwept, HasPin
  <2>2. be' \in [Backends -> BackendStates]
    <3>1. \A x \in Int : [be EXCEPT ![sub[a].be].saving[sub[a].slot] = x]
                             \in [Backends -> BackendStates]
      BY <1>be, <1>on, SavingTyped, Zenon
    <3>0. be[sub[a].be].saving[sub[a].slot] - 1 \in Int
      BY <1>on
    <3>2. be' = [be EXCEPT ![sub[a].be].saving[sub[a].slot] = @ - 1]
      BY <1>7 DEF SaveSwept
    <3> QED
      BY <3>0, <3>1, <3>2, Zenon
  <2>3. sub' \in [Actors -> Saves] /\ SavesPlaced'
    <3>1. [sub[a] EXCEPT !.phase = "done", !.spent = {}] \in Saves
      BY <1>sub DEF Saves
    <3> QED
      BY <1>7, <1>sub, <3>1 DEF SaveSwept, IInv, SavesPlaced, NotSaving
  <2>4. file' \in [Convs -> FileStates]
    BY <1>7, <1>file DEF SaveSwept, Dropped, FileStates
  <2> QED
    BY <1>7, <2>1, <2>2, <2>3, <2>4 DEF IInv, TypeOK, SaveSwept, SaveVars, TurnsPlaced,
       DrainPlaced
<1> QED
  BY <1>1, <1>8, <1>2, <1>3, <1>4, <1>5, <1>6, <1>7 DEF SaveStep

-------------------------------------------------------------------------------
\* What the worker, the operator, the poll and the backends keep.
LEMMA TypeWorker ==
  ASSUME IInv, WorkerStep
  PROVE  IInv'
<1>1. /\ turns \in [Convs -> Turns \cup {NoTurn}]
      /\ sub \in [Actors -> Saves]
      /\ jobs \in Seq(Jobs)
      /\ Worker \in Actors
  BY DEF IInv, TypeOK, Actors
<1>2. CASE TakeJob
  <2> DEFINE j == Head(jobs)
             claimed == [SaveOf(j.conv, j.be, j.slot) EXCEPT !.claim = TRUE, !.gen = j.gen]
  <2>1. j \in Jobs /\ jobs' \in Seq(Jobs)
    BY <1>1, <1>2 DEF TakeJob
  <2>2. wk' = j.ticket /\ sub' = [sub EXCEPT ![Worker] = claimed]
    BY <1>2 DEF TakeJob
  <2> HIDE DEF j
  <2>3. /\ j.ticket \in Turns /\ j.conv \in Convs /\ j.be \in Backends
        /\ j.slot \in AllSlots /\ j.gen \in Nat
    BY <2>1 DEF Jobs
  <2>4. /\ claimed \in Saves
        /\ claimed.conv = j.conv /\ claimed.be = j.be /\ claimed.slot = j.slot
    BY <2>3, SaveOfTyped DEF Saves, SaveOf, NoSave
  <2> HIDE DEF claimed
  <2>5. sub' \in [Actors -> Saves] /\ SavesPlaced'
    BY <1>1, <2>2, <2>3, <2>4 DEF IInv, SavesPlaced, NotSaving
  <2> QED
    BY <1>2, <2>1, <2>2, <2>3, <2>5 DEF IInv, TypeOK, TakeJob, records, world, TurnsPlaced,
       DrainPlaced
<1>3. CASE JobDone
  <2>1. turns' \in [Convs -> Turns \cup {NoTurn}]
    BY <1>1, <1>3 DEF JobDone, FreedBy
  <2>2. sub' \in [Actors -> Saves] /\ SavesPlaced'
    BY <1>1, <1>3, NoSaveTyped DEF JobDone, IInv, SavesPlaced, NotSaving, NoSave
  <2> QED
    BY <1>3, <2>1, <2>2 DEF IInv, TypeOK, JobDone, records, world, TurnsPlaced, DrainPlaced
<1> QED
  BY <1>2, <1>3 DEF WorkerStep

\* Drain, park_all, restart and resume.
LEMMA TypeOperator ==
  ASSUME IInv, OperatorStep
  PROVE  IInv'
<1>1. /\ op \in Drains
      /\ sub \in [Actors -> Saves]
      /\ be \in [Backends -> BackendStates]
      /\ pins \in [Convs -> Pins \cup {NoPin}]
      /\ Operator \in Actors
  BY DEF IInv, TypeOK, Actors
<1>2. ASSUME NEW b \in Backends, Drain(b)
      PROVE  IInv'
  <2>1. be' \in [Backends -> BackendStates]
    BY <1>1, <1>2 DEF Drain, BackendStates
  <2>2. op' \in Drains /\ DrainPlaced'
    <3> DEFINE drains == op.drains + 1
    <3>1. drains \in Nat
      BY <1>1 DEF Drains
    <3>2. op' = [op EXCEPT !.pc = "quieting", !.be = b, !.drains = drains]
      BY <1>2 DEF Drain
    <3> HIDE DEF drains
    <3> QED
      BY <1>1, <3>1, <3>2 DEF Drains, DrainPlaced
  <2> QED
    BY <1>2, <2>1, <2>2 DEF IInv, TypeOK, Drain, records, world, TurnsPlaced, SavesPlaced,
       NotSaving
<1>3. CASE DrainWaited
  <2>1. op' \in Drains /\ DrainPlaced'
    <3> DEFINE quiet == be[op.be].busy <= 0
               pc == IF quiet THEN "parking" ELSE "counting"
    <3>1. op' = [op EXCEPT !.pc = pc, !.quiet = quiet]
      BY <1>3 DEF DrainWaited
    <3>2. quiet \in BOOLEAN /\ pc \in {"parking", "counting"}
      OBVIOUS
    <3> HIDE DEF quiet, pc
    <3> QED
      BY <1>1, <1>3, <3>1, <3>2 DEF Drains, IInv, DrainPlaced, DrainWaited
  <2> QED
    BY <1>3, <2>1 DEF IInv, TypeOK, DrainWaited, records, world, TurnsPlaced, SavesPlaced,
       NotSaving
<1>4. CASE ParkAllOne
  <2>1. PICK c \in Convs : /\ HasPin(c) /\ pins[c].slot # NoSlot
                           /\ pins' = [pins EXCEPT ![c].parking = TRUE]
                           /\ sub' = [sub EXCEPT ![Operator] = SaveOf(c, op.be, pins[c].slot)]
                           /\ op' = [op EXCEPT !.tried = @ \cup {c}]
    BY <1>4 DEF ParkAllOne, Oldest, OnlyInASlot
  <2>2. op.be \in Backends
    BY <1>4 DEF IInv, DrainPlaced, ParkAllOne
  <2>3. pins[c] \in Pins
    BY <1>1, <2>1 DEF HasPin
  <2>4. [pins[c] EXCEPT !.parking = TRUE] \in Pins /\ pins[c].slot \in AllSlots
    BY <2>1, <2>3 DEF Pins
  <2>5. pins' \in [Convs -> Pins \cup {NoPin}]
    BY <1>1, <2>1, <2>4
  <2>6. sub' \in [Actors -> Saves] /\ SavesPlaced'
    BY <1>1, <2>1, <2>2, <2>4, SaveOfTyped DEF IInv, SavesPlaced, NotSaving
  <2>7. op' \in Drains /\ DrainPlaced'
    BY <1>1, <2>1 DEF Drains, IInv, DrainPlaced
  <2> QED
    BY <1>4, <2>5, <2>6, <2>7 DEF IInv, TypeOK, ParkAllOne, world, TurnsPlaced
<1>5. CASE ParkAllOver
  <2>1. op' \in Drains /\ DrainPlaced'
    BY <1>1, <1>5 DEF ParkAllOver, Drains, IInv, DrainPlaced
  <2>2. sub' \in [Actors -> Saves] /\ SavesPlaced'
    BY <1>1, <1>5, NoSaveTyped DEF ParkAllOver, IInv, SavesPlaced, NotSaving, NoSave
  <2> QED
    BY <1>5, <2>1, <2>2 DEF IInv, TypeOK, ParkAllOver, records, world, TurnsPlaced
<1>6. CASE DrainReport
  <2>1. op' \in Drains /\ DrainPlaced'
    BY <1>1, <1>6, LeftTyped DEF DrainReport, Drains, IInv, DrainPlaced
  <2> QED
    BY <1>6, <2>1 DEF IInv, TypeOK, DrainReport, records, world, TurnsPlaced, SavesPlaced,
       NotSaving
<1>7. CASE RestartDrained
  <2>1. op' \in Drains /\ DrainPlaced'
    BY <1>1, <1>7 DEF RestartDrained, Drains, IInv, DrainPlaced
  <2>2. op.be \in Backends /\ Die(op.be)
    BY <1>7 DEF RestartDrained, IInv, DrainPlaced
  <2> QED
    BY <1>7, <2>1, <2>2, DieTyped DEF IInv, TypeOK, RestartDrained, records, TurnsPlaced,
       SavesPlaced, NotSaving
<1>8. CASE Resume
  <2>1. be' \in [Backends -> BackendStates]
    BY <1>1, <1>8 DEF Resume, BackendStates
  <2>2. op' \in Drains /\ DrainPlaced'
    BY <1>1, <1>8 DEF Resume, Drains, IInv, DrainPlaced
  <2> QED
    BY <1>8, <2>1, <2>2 DEF IInv, TypeOK, Resume, records, world, TurnsPlaced, SavesPlaced,
       NotSaving
<1> QED
  BY <1>2, <1>3, <1>4, <1>5, <1>6, <1>7, <1>8 DEF OperatorStep

\* The poll, a death and a boot.
LEMMA TypeBackend ==
  ASSUME IInv, NEW b \in Backends, Watch(b) \/ Crash(b) \/ Boot(b)
  PROVE  IInv'
<1>1. /\ be \in [Backends -> BackendStates]
      /\ pins \in [Convs -> Pins \cup {NoPin}]
      /\ box \in [Backends -> [on : BOOLEAN, crashes : Nat]]
  BY DEF IInv, TypeOK
<1>2. CASE Watch(b)
  <2> DEFINE misses == IF box[b].on THEN 0 ELSE IF be[b].misses < 2 THEN be[b].misses + 1 ELSE 2
             up == box[b].on \/ (be[b].up /\ misses < 2)
             cameBack == up /\ ~be[b].up
             generation == IF cameBack THEN be[b].generation + 1 ELSE be[b].generation
  <2>1. /\ be' = [be EXCEPT ![b] = [@ EXCEPT !.misses = misses, !.up = up,
                                             !.generation = generation]]
        /\ pins' = IF cameBack THEN ForgetSlots(pins, b) ELSE pins
    BY <1>2 DEF Watch
  <2>2. be[b] \in BackendStates /\ box[b].on \in BOOLEAN
    BY <1>1
  <2>3. misses \in 0 .. 2 /\ up \in BOOLEAN /\ generation \in Nat
    BY <2>2 DEF BackendStates
  <2>4. be' \in [Backends -> BackendStates]
    <3> HIDE DEF misses, up, generation
    <3>1. [be[b] EXCEPT !.misses = misses, !.up = up, !.generation = generation]
            \in BackendStates
      BY <2>2, <2>3 DEF BackendStates
    <3> QED
      BY <1>1, <2>1, <3>1
  <2>5. pins' \in [Convs -> Pins \cup {NoPin}]
    <3>1. \A p \in Pins : [p EXCEPT !.slot = NoSlot, !.using = NoSlot] \in Pins
      BY DEF Pins
    <3>2. ForgetSlots(pins, b) \in [Convs -> Pins \cup {NoPin}]
      BY <1>1, <3>1 DEF ForgetSlots
    <3> QED
      BY <1>1, <2>1, <3>2
  <2> QED
    BY <1>2, <2>4, <2>5 DEF IInv, TypeOK, Watch, threads, world, TurnsPlaced, SavesPlaced,
       NotSaving, DrainPlaced
<1>3. CASE Crash(b)
  <2>1. Die(b)
    BY <1>3 DEF Crash
  <2> QED
    BY <1>3, <2>1, DieTyped DEF IInv, TypeOK, Crash, records, threads, TurnsPlaced,
       SavesPlaced, NotSaving, DrainPlaced
<1>4. CASE Boot(b)
  <2>1. box' \in [Backends -> [on : BOOLEAN, crashes : Nat]]
    BY <1>1, <1>4 DEF Boot
  <2> QED
    BY <1>4, <2>1 DEF IInv, TypeOK, Boot, records, threads, TurnsPlaced, SavesPlaced,
       NotSaving, DrainPlaced
<1> QED
  BY <1>2, <1>3, <1>4

\* Every step keeps the invariant.
LEMMA TypeStep == IInv /\ [Next]_vars => IInv'
<1> SUFFICES ASSUME IInv, [Next]_vars PROVE IInv'
  OBVIOUS
<1>1. CASE UNCHANGED vars
  BY <1>1 DEF IInv, TypeOK, TurnsPlaced, SavesPlaced, NotSaving, DrainPlaced, vars, records,
     threads, world
<1>2. CASE Next
  BY <1>2, TypeTurn, TypeSave, TypeWorker, TypeOperator, TypeBackend DEF Next
<1> QED
  BY <1>1, <1>2

\* Every value keeps its kind, in every behaviour: no record is kept under a
\* request that names no conversation, and no save or job is without a slot.
THEOREM TypeCorrect == Spec => []TypeOK
<1>1. IInv => TypeOK
  BY DEF IInv
<1> QED
  BY <1>1, TypeInit, TypeStep, PTL DEF Spec

-------------------------------------------------------------------------------
\* `busy` and the turns.

\* Until it lands elsewhere, a turn is served where it reads.
ServesWhereItReads ==
    \A t \in Turns : at[t].pc \in Reading \cup {"genwait", "clear", "landing"} =>
                         at[t].serving = at[t].be

\* The turns that count b theirs.
CountedOn(b) == {t \in Turns : Counted(t, b)}

\* BusyIsTurns, of finitely many turns.
BusyCounts ==
    \A b \in Backends : IsFiniteSet(CountedOn(b)) /\ be[b].busy = Cardinality(CountedOn(b))

\* What t adds to the count of b.
Share(t, b) == IF Counted(t, b) THEN 1 ELSE 0

\* `busy` follows t.
Followed(t) == \A b \in Backends : be'[b].busy = be[b].busy + Share(t, b)' - Share(t, b)

\* One turn moves, and `busy` with it.
LEMMA BusyMoves ==
  ASSUME BusyCounts, NEW t \in Turns,
         \A u \in Turns \ {t} : at'[u] = at[u],
         Followed(t)
  PROVE  BusyCounts'
<1> SUFFICES ASSUME NEW b \in Backends
             PROVE  IsFiniteSet(CountedOn(b)') /\ be'[b].busy = Cardinality(CountedOn(b)')
  BY DEF BusyCounts
<1> DEFINE S == CountedOn(b)
           T == CountedOn(b)'
           n == be[b].busy
           m == be'[b].busy
           p == Share(t, b)'
           q == Share(t, b)
<1> SUFFICES IsFiniteSet(T) /\ m = Cardinality(T)
  OBVIOUS
<1>1. IsFiniteSet(S) /\ n = Cardinality(S) /\ Cardinality(S) \in Nat
  BY FS_CardinalityType DEF BusyCounts
<1>2. \A u \in Turns \ {t} : u \in S <=> u \in T
  BY DEF CountedOn, Counted, Reading
<1>3. m = n + p - q
  BY DEF Followed
<1>4. (t \in S <=> Counted(t, b)) /\ (t \in T <=> Counted(t, b)')
  BY DEF CountedOn
<1>5. S \subseteq Turns /\ T \subseteq Turns
  BY DEF CountedOn
<1>6. CASE t \in S /\ t \in T
  <2>1. S = T
    BY <1>2, <1>5, <1>6
  <2>2. p = 1 /\ q = 1
    BY <1>4, <1>6 DEF Share
  <2> HIDE DEF S, T, n, m, p, q
  <2> QED
    BY <1>1, <1>3, <2>1, <2>2
<1>7. CASE t \notin S /\ t \notin T
  <2>1. S = T
    BY <1>2, <1>5, <1>7
  <2>2. p = 0 /\ q = 0
    BY <1>4, <1>7 DEF Share
  <2> HIDE DEF S, T, n, m, p, q
  <2> QED
    BY <1>1, <1>3, <2>1, <2>2
<1>8. CASE t \notin S /\ t \in T
  <2>1. T = S \cup {t}
    BY <1>2, <1>5, <1>8
  <2>2. p = 1 /\ q = 0
    BY <1>4, <1>8 DEF Share
  <2>3. IsFiniteSet(T) /\ Cardinality(T) = Cardinality(S) + 1
    BY <1>1, <1>8, <2>1, FS_AddElement
  <2> HIDE DEF S, T, n, m, p, q
  <2> QED
    BY <1>1, <1>3, <2>2, <2>3
<1>9. CASE t \in S /\ t \notin T
  <2>1. T = S \ {t}
    BY <1>2, <1>5, <1>9
  <2>2. p = 0 /\ q = 1
    BY <1>4, <1>9 DEF Share
  <2>3. IsFiniteSet(T) /\ Cardinality(T) = Cardinality(S) - 1
    BY <1>1, <1>9, <2>1, FS_RemoveElement
  <2> HIDE DEF S, T, n, m, p, q
  <2> QED
    BY <1>1, <1>3, <2>2, <2>3
<1> QED
  BY <1>6, <1>7, <1>8, <1>9

\* What Count does to `busy`.
LEMMA CountBusy ==
  ASSUME NEW B \in [Backends -> BackendStates], NEW b, NEW n \in Int, NEW x \in Backends
  PROVE  Count(B, b, n)[x].busy = B[x].busy + (IF x = b THEN n ELSE 0)
<1>1. B[x] \in BackendStates /\ B[x].busy \in Int
  BY DEF BackendStates
<1> QED
  BY <1>1 DEF Count, BackendStates

\* No other turn moves, and this one still is served where it reads.
Placed(t) ==
    /\ \A u \in Turns \ {t} : at'[u] = at[u]
    /\ at'[t].pc \in Reading \cup {"genwait", "clear", "landing"} => at'[t].serving = at'[t].be

\* A step of t that no backend's count is about.
Quiet(t) ==
    /\ Placed(t)
    /\ \A b \in Backends : Counted(t, b)' = Counted(t, b)
    /\ \A b \in Backends : be'[b].busy = be[b].busy

\* The steps that leave every count alone.
QuietStep(t) ==
    \/ Arrive(t) \/ ClaimTurn(t) \/ LeaveQueue(t) \/ Spill(t) \/ Refuse(t) \/ LeaveAcquire(t)
    \/ EnsureParked(t) \/ TakeSlot(t) \/ ForgetStalePark(t)
    \/ Recall(t) \/ Recalled(t) \/ RecallRejected(t) \/ RecallLost(t) \/ UnlinkForgotten(t)
    \/ WarmPrefix(t)
    \/ ReadDone(t) \/ ReadGone(t) \/ ReadFailed(t) \/ Stay(t) \/ LeaveReader(t)
    \/ \E g \in Backends : CarrySave(t, g)
    \/ CarryNotSaved(t) \/ LeaveParked(t) \/ GenerateElsewhere(t) \/ ClearTarget(t)
    \/ TargetCleared(t) \/ Land(t) \/ Relay(t) \/ ParkPartial(t) \/ PartialOver(t)
    \/ ParkLater(t) \/ FinishTurn(t)

\* So they do.
LEMMA QuietSteps ==
  ASSUME TypeOK, ServesWhereItReads, NEW t \in Turns, QuietStep(t)
  PROVE  Quiet(t)
<1>0. /\ at \in [Turns -> Threads] /\ at[t] \in Threads
      /\ (at[t].pc \in Reading \cup {"genwait", "clear", "landing"} => at[t].serving = at[t].be)
  BY DEF TypeOK, ServesWhereItReads
<1>1. CASE Arrive(t)
  BY <1>0, <1>1 DEF Arrive, Over, IdleTurn, Quiet, Placed, Counted, Reading, Move, Threads
<1>2. CASE ClaimTurn(t)
  BY <1>0, <1>2 DEF ClaimTurn, Quiet, Placed, Counted, Reading, Move, Threads
<1>3. CASE LeaveQueue(t)
  BY <1>0, <1>3 DEF LeaveQueue, Over, IdleTurn, Quiet, Placed, Counted, Reading, Move, Threads
<1>4. CASE Spill(t)
  BY <1>0, <1>4 DEF Spill, Quiet, Placed, Counted, Reading, Move, Threads
<1>5. CASE Refuse(t)
  BY <1>0, <1>5 DEF Refuse, Over, IdleTurn, Quiet, Placed, Counted, Reading, Move, Threads
<1>61. CASE LeaveAcquire(t)
  BY <1>0, <1>61 DEF LeaveAcquire, Over, IdleTurn, Quiet, Placed, Counted, Reading, Move, Threads
<1>6. CASE EnsureParked(t)
  BY <1>0, <1>6 DEF EnsureParked, ParkOne, Quiet, Placed, Counted, Reading, Move, Threads
<1>7. CASE TakeSlot(t)
  BY <1>0, <1>7 DEF TakeSlot, Quiet, Placed, Counted, Reading, Move, Threads
<1>8. CASE ForgetStalePark(t)
  BY <1>0, <1>8 DEF ForgetStalePark, Quiet, Placed, Counted, Reading, Move, Threads
<1>9. CASE Recall(t)
  BY <1>0, <1>9 DEF Recall, Quiet, Placed, Counted, Reading, Move, Threads
<1>62. CASE UnlinkForgotten(t)
  BY <1>0, <1>62 DEF UnlinkForgotten, Quiet, Placed, Counted, Reading, Move, Threads
<1>10. CASE Recalled(t)
  BY <1>0, <1>10 DEF Recalled, AfterWarm, Quiet, Placed, Counted, Reading, Move, Threads
<1>11. CASE RecallRejected(t)
  BY <1>0, <1>11 DEF RecallRejected, Quiet, Placed, Counted, Reading, Move, Threads
<1>12. CASE RecallLost(t)
  BY <1>0, <1>12 DEF RecallLost, Quiet, Placed, Counted, Reading, Move, Threads
<1>13. CASE WarmPrefix(t)
  BY <1>0, <1>13 DEF WarmPrefix, AfterWarm, Quiet, Placed, Counted, Reading, Move, Threads
<1>14. CASE ReadDone(t)
  BY <1>0, <1>14 DEF ReadDone, Quiet, Placed, Counted, Reading, Move, Threads
<1>15. CASE ReadGone(t)
  BY <1>0, <1>15 DEF ReadGone, Quiet, Placed, Counted, Reading, Move, Threads
<1>16. CASE ReadFailed(t)
  BY <1>0, <1>16 DEF ReadFailed, Quiet, Placed, Counted, Reading, Move, Threads
<1>17. CASE Stay(t)
  BY <1>0, <1>17 DEF Stay, Quiet, Placed, Counted, Reading, Move, Threads
<1>18. CASE LeaveReader(t)
  BY <1>0, <1>18 DEF LeaveReader, Quiet, Placed, Counted, Reading, Move, Threads
<1>19. ASSUME NEW g \in Backends, CarrySave(t, g) PROVE Quiet(t)
  BY <1>0, <1>19 DEF CarrySave, Quiet, Placed, Counted, Reading, Move, Threads
<1>20. CASE CarryNotSaved(t)
  BY <1>0, <1>20 DEF CarryNotSaved, Quiet, Placed, Counted, Reading, Move, Threads
<1>21. CASE LeaveParked(t)
  BY <1>0, <1>21 DEF LeaveParked, Quiet, Placed, Counted, Reading, Move, Threads
<1>22. CASE GenerateElsewhere(t)
  BY <1>0, <1>22 DEF GenerateElsewhere, NoGenerator, Quiet, Placed, Counted, Reading, Move,
     Threads
<1>23. CASE ClearTarget(t)
  BY <1>0, <1>23 DEF ClearTarget, ParkOne, Quiet, Placed, Counted, Reading, Move, Threads
<1>24. CASE TargetCleared(t)
  BY <1>0, <1>24 DEF TargetCleared, Quiet, Placed, Counted, Reading, Move, Threads
<1>25. CASE Land(t)
  BY <1>0, <1>25 DEF Land, Quiet, Placed, Counted, Reading, Move, Threads
<1>26. CASE Relay(t)
  BY <1>0, <1>26 DEF Relay, Quiet, Placed, Counted, Reading, Move, Threads
<1>27. CASE ParkPartial(t)
  BY <1>0, <1>27 DEF ParkPartial, Quiet, Placed, Counted, Reading, Move, Threads
<1>28. CASE PartialOver(t)
  BY <1>0, <1>28 DEF PartialOver, Quiet, Placed, Counted, Reading, Move, Threads
<1>29. CASE ParkLater(t)
  BY <1>0, <1>29 DEF ParkLater, Over, IdleTurn, Quiet, Placed, Counted, Reading, Move, Threads
<1>30. CASE FinishTurn(t)
  BY <1>0, <1>30 DEF FinishTurn, Over, IdleTurn, Quiet, Placed, Counted, Reading, Move, Threads
<1> QED
  BY <1>1, <1>62, <1>61, <1>2, <1>3, <1>4, <1>5, <1>6, <1>7, <1>8, <1>9, <1>10, <1>11, <1>12,
     <1>13, <1>14,
     <1>15, <1>16, <1>17, <1>18, <1>19, <1>20, <1>21, <1>22, <1>23, <1>24, <1>25, <1>26, <1>27,
     <1>28, <1>29, <1>30 DEF QuietStep

\* The steps that give a backend a turn or take one from it.
CountStep(t) ==
    \/ \E b \in Backends, s \in AllSlots : Take(t, b, s)
    \/ CarrySaved(t) \/ \E s \in AllSlots : GenerateSlot(t, s)
    \/ GenerateHere(t) \/ LandFailed(t) \/ Release(t)

\* Each changes `busy` of the backends it moves between.
LEMMA CountSteps ==
  ASSUME IInv, ServesWhereItReads, NEW t \in Turns, CountStep(t)
  PROVE  Placed(t) /\ Followed(t)
<1>0. /\ at \in [Turns -> Threads] /\ at[t] \in Threads
      /\ be \in [Backends -> BackendStates]
      /\ (at[t].pc \in Reading \cup {"genwait", "clear", "landing"} => at[t].serving = at[t].be)
  BY DEF IInv, TypeOK, ServesWhereItReads
<1>b. \A b \in Backends : be[b].busy \in Int
  BY <1>0 DEF BackendStates
<1>1. ASSUME NEW b \in Backends, NEW s \in AllSlots, Take(t, b, s)
      PROVE  Placed(t) /\ Followed(t)
  <2>1. /\ at[t].pc = "acquire"
        /\ at' = [at EXCEPT ![t] = [@ EXCEPT !.pc = "park", !.be = b, !.slot = s, !.serving = b]]
        /\ be' = Count(be, b, 1)
    BY <1>1 DEF Take
  <2>2. Placed(t)
    BY <1>0, <2>1 DEF Placed, Threads
  <2>3. \A x \in Backends : ~Counted(t, x) /\ (Counted(t, x)' <=> x = b)
    BY <1>0, <2>1 DEF Counted, Reading, Threads
  <2>4. \A x \in Backends : be'[x].busy = be[x].busy + (IF x = b THEN 1 ELSE 0)
    BY <1>0, <2>1, CountBusy
  <2>5. \A x \in Backends : Share(t, x) = 0 /\ Share(t, x)' = IF x = b THEN 1 ELSE 0
    BY <2>3 DEF Share
  <2> QED
    BY <1>b, <2>2, <2>4, <2>5 DEF Followed
<1>2. CASE CarrySaved(t)
  <2>1. /\ at[t].pc = "handoff"
        /\ at'[t].pc = "genwait" /\ at'[t].be = at[t].be /\ at'[t].serving = at[t].serving
        /\ be' = Count(be, at[t].be, -1)
    BY <1>0, <1>2 DEF CarrySaved, Threads
  <2>2. Placed(t)
    BY <1>0, <1>2, <2>1 DEF CarrySaved, Placed, Reading
  <2>3. \A x \in Backends : ~Counted(t, x)' /\ (Counted(t, x) <=> x = at[t].be)
    BY <2>1 DEF Counted, Reading
  <2>4. \A x \in Backends : be'[x].busy = be[x].busy + (IF x = at[t].be THEN -1 ELSE 0)
    BY <1>0, <2>1, CountBusy
  <2>5. \A x \in Backends : Share(t, x)' = 0 /\ Share(t, x) = IF x = at[t].be THEN 1 ELSE 0
    BY <2>3 DEF Share
  <2> QED
    BY <1>b, <2>2, <2>4, <2>5 DEF Followed
<1>3. ASSUME NEW s \in AllSlots, GenerateSlot(t, s)
      PROVE  Placed(t) /\ Followed(t)
  <2> DEFINE g == at[t].dst
             B == Count(be, g, 1)
  <2>1. /\ at[t].pc = "genwait"
        /\ at'[t].pc = "clear" /\ at'[t].be = at[t].be /\ at'[t].serving = at[t].serving
        /\ at'[t].dst = g
        /\ be' = [B EXCEPT ![g].handed = @ \cup {s}]
    BY <1>0, <1>3 DEF GenerateSlot, Threads
  <2>2. Placed(t)
    BY <1>0, <1>3, <2>1 DEF GenerateSlot, Placed, Reading
  <2>3. \A x \in Backends : ~Counted(t, x) /\ (Counted(t, x)' <=> x = g)
    BY <2>1 DEF Counted, Reading
  <2>4. \A x \in Backends : B[x].busy = be[x].busy + (IF x = g THEN 1 ELSE 0)
    BY <1>0, CountBusy
  <2>5. B \in [Backends -> BackendStates]
    BY <1>0, CountTyped
  <2>6. \A x \in Backends : be'[x].busy = B[x].busy
    BY <2>1, <2>5 DEF BackendStates
  <2>7. \A x \in Backends : Share(t, x) = 0 /\ Share(t, x)' = IF x = g THEN 1 ELSE 0
    BY <2>3 DEF Share
  <2> HIDE DEF g, B
  <2> QED
    BY <1>b, <2>2, <2>4, <2>6, <2>7 DEF Followed
<1>4. CASE GenerateHere(t)
  <2>1. /\ at[t].pc = "genwait"
        /\ at'[t].pc = "relay" /\ at'[t].be = at[t].be /\ at'[t].serving = at[t].serving
        /\ be' = Count(be, at[t].be, 1)
    BY <1>0, <1>4 DEF GenerateHere, NoGenerator, Threads
  <2>2. Placed(t)
    BY <1>0, <1>4, <2>1 DEF GenerateHere, Placed, Reading
  <2>3. \A x \in Backends : ~Counted(t, x) /\ (Counted(t, x)' <=> x = at[t].be)
    BY <1>0, <2>1 DEF Counted, Reading
  <2>4. \A x \in Backends : be'[x].busy = be[x].busy + (IF x = at[t].be THEN 1 ELSE 0)
    BY <1>0, <2>1, CountBusy
  <2>5. \A x \in Backends : Share(t, x) = 0 /\ Share(t, x)' = IF x = at[t].be THEN 1 ELSE 0
    BY <2>3 DEF Share
  <2> QED
    BY <1>b, <2>2, <2>4, <2>5 DEF Followed
<1>5. CASE LandFailed(t)
  <2> DEFINE g == at[t].dst
             A == Count(be, g, -1)
             B == Count(A, at[t].be, 1)
  <2>1. /\ at[t].pc = "landing"
        /\ at'[t].pc = "relay" /\ at'[t].be = at[t].be /\ at'[t].serving = at[t].serving
        /\ be' = [B EXCEPT ![g].handed = @ \ {at[t].free}]
    BY <1>0, <1>5 DEF LandFailed, Threads
  <2>2. Placed(t)
    BY <1>0, <1>5, <2>1 DEF LandFailed, Placed, Reading
  <2>3. \A x \in Backends : (Counted(t, x) <=> x = g) /\ (Counted(t, x)' <=> x = at[t].be)
    BY <1>0, <2>1 DEF Counted, Reading
  <2>4. A \in [Backends -> BackendStates] /\ B \in [Backends -> BackendStates]
    BY <1>0, CountTyped
  <2>5. \A x \in Backends : A[x].busy = be[x].busy + (IF x = g THEN -1 ELSE 0)
    BY <1>0, CountBusy
  <2>6. \A x \in Backends : B[x].busy = A[x].busy + (IF x = at[t].be THEN 1 ELSE 0)
    BY <2>4, CountBusy
  <2>7. \A x \in Backends : be'[x].busy = B[x].busy
    BY <2>1, <2>4 DEF BackendStates
  <2>8. \A x \in Backends : /\ Share(t, x) = IF x = g THEN 1 ELSE 0
                            /\ Share(t, x)' = IF x = at[t].be THEN 1 ELSE 0
    BY <2>3 DEF Share
  <2> HIDE DEF g, A, B
  <2> QED
    BY <1>b, <2>2, <2>5, <2>6, <2>7, <2>8 DEF Followed
<1>6. CASE Release(t)
  <2>1. /\ at[t].pc = "release"
        /\ at'[t].pc \in {"partial", "later"}
        /\ be' = Count(be, at[t].serving, -1)
    BY <1>0, <1>6 DEF Release, Move, Threads
  <2>2. Placed(t)
    BY <1>0, <1>6, <2>1 DEF Release, Move, Placed, Reading
  <2>3. \A x \in Backends : ~Counted(t, x)' /\ (Counted(t, x) <=> x = at[t].serving)
    BY <2>1 DEF Counted, Reading
  <2>4. \A x \in Backends : be'[x].busy = be[x].busy + (IF x = at[t].serving THEN -1 ELSE 0)
    BY <1>0, <2>1, CountBusy
  <2>5. \A x \in Backends : Share(t, x)' = 0 /\ Share(t, x) = IF x = at[t].serving THEN 1 ELSE 0
    BY <2>3 DEF Share
  <2> QED
    BY <1>b, <2>2, <2>4, <2>5 DEF Followed
<1> QED
  BY <1>1, <1>2, <1>3, <1>4, <1>5, <1>6 DEF CountStep

\* A step of a turn keeps the counts.
LEMMA BusyTurn ==
  ASSUME IInv, ServesWhereItReads, BusyCounts, NEW t \in Turns, TurnStep(t) \/ ClientLeaves(t)
  PROVE  ServesWhereItReads' /\ BusyCounts'
<1>1. QuietStep(t) \/ CountStep(t)
  BY DEF TurnStep, ClientLeaves, QuietStep, CountStep
<1>2. \A b \in Backends : be[b].busy \in Int
  BY DEF IInv, TypeOK, BackendStates
<1>3. Placed(t) /\ Followed(t)
  <2>1. CASE CountStep(t)
    BY <2>1, CountSteps
  <2>2. CASE QuietStep(t)
    <3>1. Quiet(t)
      BY <2>2, QuietSteps DEF IInv
    <3>2. \A b \in Backends : Share(t, b)' = Share(t, b) /\ Share(t, b) \in Int
      BY <3>1 DEF Quiet, Share
    <3>3. \A b \in Backends : be'[b].busy = be[b].busy
      BY <3>1 DEF Quiet
    <3>4. Placed(t)
      BY <3>1 DEF Quiet
    <3> QED
      BY <1>2, <3>2, <3>3, <3>4 DEF Followed
  <2> QED
    BY <1>1, <2>1, <2>2
<1>4. BusyCounts'
  BY <1>3, BusyMoves DEF Placed
<1>5. ServesWhereItReads'
  BY <1>3 DEF Placed, ServesWhereItReads
<1> QED
  BY <1>4, <1>5

\* Where no turn moves, no count does.
LEMMA BusyStill ==
  ASSUME ServesWhereItReads, BusyCounts, UNCHANGED at,
         \A b \in Backends : be'[b].busy = be[b].busy
  PROVE  ServesWhereItReads' /\ BusyCounts'
  BY DEF ServesWhereItReads, BusyCounts, CountedOn, Counted

\* A save, the worker, the operator, the poll and the processes move no turn.
LEMMA OthersStill ==
  ASSUME TypeOK,
         \/ \E a \in Actors : SaveStep(a)
         \/ WorkerStep \/ OperatorStep
         \/ \E b \in Backends : Watch(b) \/ Crash(b) \/ Boot(b)
  PROVE  /\ UNCHANGED at
         /\ \A b \in Backends : be'[b].busy = be[b].busy
<1>0. be \in [Backends -> BackendStates]
  BY DEF TypeOK
<1>1. ASSUME NEW a \in Actors, SaveStep(a)
      PROVE  UNCHANGED at /\ \A b \in Backends : be'[b].busy = be[b].busy
  <2>1. UNCHANGED at
    BY <1>1 DEF SaveStep, SaveCount, SaveBegin, SaveRefused, SaveCut, SaveKept, SaveShort, SaveLost,
       SaveSwept, SaveVars
  <2>2. \A b \in Backends : be'[b].busy = be[b].busy
    <3>1. CASE SaveCount(a)
      BY <1>0, <3>1 DEF SaveCount, BackendStates
    <3>2. CASE SaveSwept(a)
      BY <1>0, <3>2 DEF SaveSwept, BackendStates
    <3>3. CASE SaveBegin(a) \/ SaveRefused(a) \/ SaveCut(a) \/ SaveKept(a) \/ SaveShort(a)
                \/ SaveLost(a)
      BY <3>3 DEF SaveBegin, SaveRefused, SaveCut, SaveKept, SaveShort, SaveLost
    <3> QED
      BY <1>1, <3>1, <3>2, <3>3 DEF SaveStep
  <2> QED
    BY <2>1, <2>2
<1>2. CASE WorkerStep
  BY <1>2 DEF WorkerStep, TakeJob, JobDone
<1>3. CASE OperatorStep
  <2>1. UNCHANGED at
    BY <1>3 DEF OperatorStep, Drain, DrainWaited, ParkAllOne, ParkAllOver, DrainReport,
       RestartDrained, Resume
  <2>2. be' = be \/ \E b, d : be' = [be EXCEPT ![b].draining = d]
    BY <1>3 DEF OperatorStep, Drain, DrainWaited, ParkAllOne, ParkAllOver, DrainReport,
       RestartDrained, Resume
  <2> QED
    BY <1>0, <2>1, <2>2 DEF BackendStates
<1>4. ASSUME NEW b \in Backends, Watch(b) \/ Crash(b) \/ Boot(b)
      PROVE  UNCHANGED at /\ \A x \in Backends : be'[x].busy = be[x].busy
  <2>1. UNCHANGED at
    BY <1>4 DEF Watch, Crash, Boot
  <2>2. CASE Crash(b) \/ Boot(b)
    BY <2>1, <2>2 DEF Crash, Boot
  <2>3. CASE Watch(b)
    <3>1. PICK misses, up, generation :
              be' = [be EXCEPT ![b] = [@ EXCEPT !.misses = misses, !.up = up,
                                                !.generation = generation]]
      BY <2>3 DEF Watch
    <3>2. be'[b].busy = be[b].busy
      BY <1>0, <3>1 DEF BackendStates
    <3>3. \A x \in Backends \ {b} : be'[x] = be[x]
      BY <1>0, <3>1
    <3> QED
      BY <2>1, <3>2, <3>3
  <2> QED
    BY <1>4, <2>2, <2>3
<1> QED
  BY <1>1, <1>2, <1>3, <1>4

\* Every step keeps the counts.
LEMMA BusyStep ==
  ASSUME IInv, ServesWhereItReads, BusyCounts, [Next]_vars
  PROVE  ServesWhereItReads' /\ BusyCounts'
<1>1. CASE UNCHANGED vars
  BY <1>1, BusyStill DEF vars
<1>2. ASSUME NEW t \in Turns, TurnStep(t) \/ ClientLeaves(t)
      PROVE  ServesWhereItReads' /\ BusyCounts'
  BY <1>2, BusyTurn
<1>3. CASE \/ \E a \in Actors : SaveStep(a)
           \/ WorkerStep \/ OperatorStep
           \/ \E b \in Backends : Watch(b) \/ Crash(b) \/ Boot(b)
  BY <1>3, OthersStill, BusyStill DEF IInv
<1> QED
  BY <1>1, <1>2, <1>3 DEF Next

\* No backend starts with a turn.
LEMMA BusyInit == Init => ServesWhereItReads /\ BusyCounts
<1> SUFFICES ASSUME Init PROVE ServesWhereItReads /\ BusyCounts
  OBVIOUS
<1>1. \A t \in Turns : at[t].pc = "new"
  BY DEF Init, IdleTurn
<1>2. \A b \in Backends : be[b].busy = 0
  BY DEF Init
<1>3. \A b \in Backends : CountedOn(b) = {}
  BY <1>1 DEF CountedOn, Counted, Reading
<1> QED
  BY <1>1, <1>2, <1>3, FS_EmptySet DEF ServesWhereItReads, BusyCounts, Reading

\* `busy` is the number of turns that count a backend theirs.
THEOREM BusyIsExact == Spec => []BusyIsTurns
<1>1. Init => IInv /\ ServesWhereItReads /\ BusyCounts
  BY TypeInit, BusyInit
<1>2. IInv /\ ServesWhereItReads /\ BusyCounts /\ [Next]_vars
        => (IInv /\ ServesWhereItReads /\ BusyCounts)'
  BY BusyStep, TypeStep
<1>3. BusyCounts => BusyIsTurns
  BY DEF BusyCounts, BusyIsTurns, CountedOn
<1> QED
  BY <1>1, <1>2, <1>3, PTL DEF Spec

-------------------------------------------------------------------------------
\* `parking` and the writers.

\* A record that is marked `parking`.
Marked(c) == HasPin(c) /\ pins[c].parking

\* A copy of c is queued or running.
Written(c) ==
    \/ \E a \in Actors : sub[a].conv = c /\ ~NotSaving(a)
    \/ \E i \in DOMAIN jobs : jobs[i].conv = c

\* A worker that holds no job is inside no save.
WorkerRests == wk = NoTurn => NotSaving(Worker)

\* Each save under way goes on.
SavesGoOn == \A a \in Actors : ~NotSaving(a) => ~NotSaving(a)' /\ sub'[a].conv = sub[a].conv

\* The steps that mark nothing and end no save.
LEMMA MarksKept ==
  ASSUME ParkingHasAWriter, WorkerRests, SavesGoOn, UNCHANGED jobs,
         wk' = wk /\ sub'[Worker] = sub[Worker],
         \A c \in Convs : Marked(c)' => Marked(c)
  PROVE  ParkingHasAWriter' /\ WorkerRests'
<1>1. \A c \in Convs : Marked(c) => Written(c)
  BY DEF ParkingHasAWriter, Marked, Written
<1>2. \A c \in Convs : Written(c) => Written(c)'
  BY DEF SavesGoOn, Written
<1>3. ParkingHasAWriter'
  BY <1>1, <1>2 DEF ParkingHasAWriter, Marked, Written
<1> QED
  BY <1>3 DEF WorkerRests, NotSaving

\* What such a step looks like, for a turn.
Unmarked(t) ==
    /\ SavesGoOn /\ UNCHANGED <<jobs, wk>> /\ sub'[Worker] = sub[Worker]
    /\ \A c \in Convs : Marked(c)' => Marked(c)

\* The steps of a turn that mark no record.
UnmarkedStep(t) ==
    \/ Arrive(t) \/ ClaimTurn(t) \/ LeaveQueue(t)
    \/ \E b \in Backends, s \in AllSlots : Take(t, b, s)
    \/ Spill(t) \/ Refuse(t) \/ LeaveAcquire(t) \/ TakeSlot(t) \/ ForgetStalePark(t)
    \/ Recall(t) \/ Recalled(t) \/ RecallRejected(t) \/ RecallLost(t) \/ UnlinkForgotten(t)
    \/ WarmPrefix(t)
    \/ ReadDone(t) \/ ReadGone(t) \/ ReadFailed(t) \/ Stay(t) \/ LeaveReader(t)
    \/ \E g \in Backends : CarrySave(t, g)
    \/ CarrySaved(t) \/ CarryNotSaved(t) \/ LeaveParked(t)
    \/ \E s \in AllSlots : GenerateSlot(t, s)
    \/ GenerateHere(t) \/ GenerateElsewhere(t) \/ TargetCleared(t)
    \/ Land(t) \/ LandFailed(t) \/ Relay(t) \/ Release(t) \/ PartialOver(t) \/ FinishTurn(t)

\* So they do.
LEMMA UnmarkedSteps ==
  ASSUME TypeOK, NEW t \in Turns, UnmarkedStep(t)
  PROVE  Unmarked(t)
<1>0. /\ sub \in [Actors -> Saves] /\ t \in Actors /\ t # Worker
      /\ pins \in [Convs -> Pins \cup {NoPin}]
  BY Parameters DEF TypeOK, Actors
<1>1. CASE Arrive(t)
  BY <1>0, <1>1 DEF Arrive, Unmarked, SavesGoOn, NotSaving, Marked, HasPin, Pins, threads,
     records
<1>2. CASE ClaimTurn(t)
  BY <1>0, <1>2 DEF ClaimTurn, Unmarked, SavesGoOn, NotSaving, Marked, HasPin, Pins, threads,
     records
<1>3. CASE LeaveQueue(t)
  BY <1>0, <1>3 DEF LeaveQueue, Unmarked, SavesGoOn, NotSaving, Marked, HasPin, Pins, threads,
     records
<1>4. ASSUME NEW b \in Backends, NEW s \in AllSlots, Take(t, b, s) PROVE Unmarked(t)
  BY <1>0, <1>4 DEF Take, TakenPin, Unmarked, SavesGoOn, NotSaving, Marked, HasPin, Pins,
     threads, records
<1>5. CASE Spill(t)
  BY <1>0, <1>5 DEF Spill, Unmarked, SavesGoOn, NotSaving, Marked, HasPin, Pins, threads,
     records
<1>6. CASE Refuse(t)
  BY <1>0, <1>6 DEF Refuse, Unmarked, SavesGoOn, NotSaving, Marked, HasPin, Pins, threads,
     records
<1>61. CASE LeaveAcquire(t)
  BY <1>0, <1>61 DEF LeaveAcquire, Unmarked, SavesGoOn, NotSaving, Marked, HasPin, Pins, threads,
     records
<1>7. CASE TakeSlot(t)
  BY <1>0, <1>7 DEF TakeSlot, NothingAtRisk, NoSave, EndClaims, Unmarked, SavesGoOn, NotSaving,
     Marked, HasPin, Pins, threads, records
<1>8. CASE ForgetStalePark(t)
  BY <1>0, <1>8 DEF ForgetStalePark, Unmarked, SavesGoOn, NotSaving, Marked, HasPin, Pins,
     threads, records
<1>9. CASE Recall(t)
  BY <1>0, <1>9 DEF Recall, Unmarked, SavesGoOn, NotSaving, Marked, HasPin, Pins, threads,
     records
<1>62. CASE UnlinkForgotten(t)
  BY <1>0, <1>62 DEF UnlinkForgotten, Unmarked, SavesGoOn, NotSaving, Marked, HasPin, Pins,
     threads,
     records
<1>10. CASE Recalled(t)
  BY <1>0, <1>10 DEF Recalled, Unmarked, SavesGoOn, NotSaving, Marked, HasPin, Pins, threads,
     records
<1>11. CASE RecallRejected(t)
  BY <1>0, <1>11 DEF RecallRejected, Unmarked, SavesGoOn, NotSaving, Marked, HasPin, Pins,
     threads, records
<1>12. CASE RecallLost(t)
  BY <1>0, <1>12 DEF RecallLost, Unmarked, SavesGoOn, NotSaving, Marked, HasPin, Pins, threads,
     records
<1>13. CASE WarmPrefix(t)
  BY <1>0, <1>13 DEF WarmPrefix, Unmarked, SavesGoOn, NotSaving, Marked, HasPin, Pins, threads,
     records
<1>14. CASE ReadDone(t)
  BY <1>0, <1>14 DEF ReadDone, Unmarked, SavesGoOn, NotSaving, Marked, HasPin, Pins, threads,
     records
<1>15. CASE ReadGone(t)
  BY <1>0, <1>15 DEF ReadGone, Unmarked, SavesGoOn, NotSaving, Marked, HasPin, Pins, threads,
     records
<1>16. CASE ReadFailed(t)
  BY <1>0, <1>16 DEF ReadFailed, Unmarked, SavesGoOn, NotSaving, Marked, HasPin, Pins, threads,
     records
<1>17. CASE Stay(t)
  BY <1>0, <1>17 DEF Stay, Unmarked, SavesGoOn, NotSaving, Marked, HasPin, Pins, threads,
     records
<1>18. CASE LeaveReader(t)
  BY <1>0, <1>18 DEF LeaveReader, Unmarked, SavesGoOn, NotSaving, Marked, HasPin, Pins,
     threads, records
<1>19. ASSUME NEW g \in Backends, CarrySave(t, g) PROVE Unmarked(t)
  BY <1>0, <1>19 DEF CarrySave, SaveOf, NoSave, Unmarked, SavesGoOn, NotSaving, Marked, HasPin,
     Pins, threads, records
<1>20. CASE CarrySaved(t)
  BY <1>0, <1>20 DEF CarrySaved, Saved, NoSave, Unmarked, SavesGoOn, NotSaving, Marked, HasPin,
     Pins, threads, records
<1>21. CASE CarryNotSaved(t)
  BY <1>0, <1>21 DEF CarryNotSaved, Saved, NoSave, Unmarked, SavesGoOn, NotSaving, Marked,
     HasPin, Pins, threads, records
<1>22. CASE LeaveParked(t)
  BY <1>0, <1>22 DEF LeaveParked, Unmarked, SavesGoOn, NotSaving, Marked, HasPin, Pins,
     threads, records
<1>23. ASSUME NEW s \in AllSlots, GenerateSlot(t, s) PROVE Unmarked(t)
  BY <1>0, <1>23 DEF GenerateSlot, Unmarked, SavesGoOn, NotSaving, Marked, HasPin, Pins,
     threads, records
<1>24. CASE GenerateHere(t)
  BY <1>0, <1>24 DEF GenerateHere, Unmarked, SavesGoOn, NotSaving, Marked, HasPin, Pins,
     threads, records
<1>25. CASE GenerateElsewhere(t)
  BY <1>0, <1>25 DEF GenerateElsewhere, Unmarked, SavesGoOn, NotSaving, Marked, HasPin, Pins,
     threads, records
<1>26. CASE TargetCleared(t)
  BY <1>0, <1>26 DEF TargetCleared, NothingAtRisk, NoSave, Unmarked, SavesGoOn, NotSaving,
     Marked, HasPin, Pins, threads, records
<1>27. CASE Land(t)
  BY <1>0, <1>27 DEF Land, EndClaims, Unmarked, SavesGoOn, NotSaving, Marked, HasPin, Pins,
     threads, records
<1>28. CASE LandFailed(t)
  BY <1>0, <1>28 DEF LandFailed, Unmarked, SavesGoOn, NotSaving, Marked, HasPin, Pins, threads,
     records
<1>29. CASE Relay(t)
  BY <1>0, <1>29 DEF Relay, Unmarked, SavesGoOn, NotSaving, Marked, HasPin, Pins, threads,
     records
<1>30. CASE Release(t)
  BY <1>0, <1>30 DEF Release, Unmarked, SavesGoOn, NotSaving, Marked, HasPin, Pins, threads,
     records
<1>31. CASE PartialOver(t)
  BY <1>0, <1>31 DEF PartialOver, Saved, NoSave, Unmarked, SavesGoOn, NotSaving, Marked,
     HasPin, Pins, threads, records
<1>32. CASE FinishTurn(t)
  BY <1>0, <1>32 DEF FinishTurn, Unmarked, SavesGoOn, NotSaving, Marked, HasPin, Pins, threads,
     records
<1> QED
  BY <1>1, <1>62, <1>61, <1>2, <1>3, <1>4, <1>5, <1>6, <1>7, <1>8, <1>9, <1>10, <1>11, <1>12,
     <1>13, <1>14,
     <1>15, <1>16, <1>17, <1>18, <1>19, <1>20, <1>21, <1>22, <1>23, <1>24, <1>25, <1>26, <1>27,
     <1>28, <1>29, <1>30, <1>31, <1>32 DEF UnmarkedStep

\* A record is marked by the thread that then copies it.
LEMMA MarkedForSave ==
  ASSUME TypeOK, ParkingHasAWriter, WorkerRests, NEW a \in Actors \ {Worker}, NotSaving(a),
         NEW c \in Convs, NEW b, NEW s,
         pins' = [pins EXCEPT ![c].parking = TRUE],
         sub' = [sub EXCEPT ![a] = SaveOf(c, b, s)],
         UNCHANGED <<jobs, wk>>
  PROVE  ParkingHasAWriter' /\ WorkerRests'
<1>0. /\ sub \in [Actors -> Saves] /\ pins \in [Convs -> Pins \cup {NoPin}]
      /\ Worker \in Actors
  BY DEF TypeOK, Actors
<1>1. sub'[a].conv = c /\ ~NotSaving(a)' /\ \A e \in Actors \ {a} : sub'[e] = sub[e]
  BY <1>0 DEF SaveOf, NoSave, NotSaving
<1>2. \A d \in Convs \ {c} : Marked(d)' => Marked(d)
  BY <1>0 DEF Marked, HasPin
<1>3. \A d \in Convs : Marked(d) => Written(d)
  BY DEF ParkingHasAWriter, Marked, Written
<1>4. \A d \in Convs : Written(d) => Written(d)'
  BY <1>1 DEF Written, NotSaving
<1>5. Written(c)'
  BY <1>1 DEF Written
<1>6. ParkingHasAWriter'
  BY <1>2, <1>3, <1>4, <1>5 DEF ParkingHasAWriter, Marked, Written
<1> QED
  BY <1>0, <1>1, <1>6 DEF WorkerRests, NotSaving

\* The steps of a turn that mark a record.
LEMMA MarkTurn ==
  ASSUME IInv, ParkingHasAWriter, WorkerRests, NEW t \in Turns, TurnStep(t) \/ ClientLeaves(t)
  PROVE  ParkingHasAWriter' /\ WorkerRests'
<1>0. TypeOK /\ t \in Actors \ {Worker} /\ Worker \in Actors
  BY Parameters DEF IInv, Actors
<1>1. CASE UnmarkedStep(t)
  BY <1>0, <1>1, UnmarkedSteps, MarksKept DEF Unmarked
<1>2. ASSUME NEW b, ParkOne(t, b) PROVE ParkingHasAWriter' /\ WorkerRests'
  <2>1. PICK c \in Convs : /\ pins' = [pins EXCEPT ![c].parking = TRUE]
                           /\ sub' = [sub EXCEPT ![t] = SaveOf(c, b, pins[c].slot)]
    BY <1>2 DEF ParkOne, Oldest, OnlyInASlot
  <2> QED
    BY <1>0, <1>2, <2>1, MarkedForSave DEF ParkOne
<1>3. CASE ParkPartial(t)
  <2>1. ConvOf[t] \in Convs
    BY <1>3 DEF ParkPartial, Partial, HasPin
  <2> QED
    BY <1>0, <1>3, <2>1, MarkedForSave DEF ParkPartial, NotSaving
<1>4. CASE ParkLater(t)
  <2> DEFINE c == ConvOf[t]
             j == [conv |-> c, be |-> at[t].serving, slot |-> pins[c].slot, ticket |-> t,
                   gen |-> be[at[t].serving].generation]
  <2>1. /\ c \in Convs /\ pins' = [pins EXCEPT ![c].parking = TRUE]
        /\ jobs' = Append(jobs, j) /\ UNCHANGED <<sub, wk>>
    BY <1>4 DEF ParkLater, Leaves, HasPin, threads
  <2>2. jobs \in Seq(Jobs) /\ pins \in [Convs -> Pins \cup {NoPin}]
    BY <1>0 DEF TypeOK
  <2>3. /\ \A i \in DOMAIN jobs : i \in DOMAIN jobs' /\ jobs'[i] = jobs[i]
        /\ \E i \in DOMAIN jobs' : jobs'[i] = j
    BY <2>1, <2>2
  <2>4. j.conv = c
    OBVIOUS
  <2> HIDE DEF j
  <2>5. \A d \in Convs \ {c} : Marked(d)' => Marked(d)
    BY <2>1, <2>2 DEF Marked, HasPin
  <2>6. \A d \in Convs : Marked(d) => Written(d)
    BY DEF ParkingHasAWriter, Marked, Written
  <2>7. \A d \in Convs : Written(d) => Written(d)'
    BY <2>1, <2>3 DEF Written, NotSaving
  <2>8. Written(c)'
    BY <2>3, <2>4 DEF Written
  <2>9. ParkingHasAWriter'
    BY <2>5, <2>6, <2>7, <2>8 DEF ParkingHasAWriter, Marked, Written
  <2> QED
    BY <2>1, <2>9 DEF WorkerRests, NotSaving
<1> QED
  BY <1>1, <1>2, <1>3, <1>4
  DEF TurnStep, ClientLeaves, UnmarkedStep, EnsureParked, ClearTarget

\* The sweep marks nothing, and the save goes on to its finally.
LEMMA MarkSweep ==
  ASSUME TypeOK, NEW a \in Actors, NEW P \in [Convs -> Pins \cup {NoPin}], NEW ok, EndSave(a, P, ok),
         \A d \in Convs : P[d] # NoPin => pins[d] # NoPin /\ (P[d].parking => pins[d].parking)
  PROVE  /\ \A d \in Convs : Marked(d)' => Marked(d)
         /\ ~NotSaving(a)' /\ sub'[a].conv = sub[a].conv
         /\ \A e \in Actors \ {a} : sub'[e] = sub[e]
<1>0. sub \in [Actors -> Saves] /\ sub[a] \in Saves
  BY DEF TypeOK
<1>1. ~NotSaving(a)' /\ sub'[a].conv = sub[a].conv /\ \A e \in Actors \ {a} : sub'[e] = sub[e]
  BY <1>0 DEF EndSave, NotSaving, Saves
<1>2. PICK gone : pins' = Trimmed(P, gone) /\ \A d \in gone : P[d] # NoPin
  <2> DEFINE doomed == Doomed(P, sub[a].conv)
  <2>1. pins' = Trimmed(P, doomed)
    BY DEF EndSave
  <2>2. \A d \in doomed : P[d] # NoPin
    BY DEF Doomed
  <2> HIDE DEF doomed
  <2> QED
    BY <2>1, <2>2
<1>3. ASSUME NEW d \in Convs, Marked(d)' PROVE Marked(d)
  <2>1. CASE d \in gone
    <3>1. pins'[d] = [P[d] EXCEPT !.parked = FALSE] /\ P[d] \in Pins
      BY <1>2, <2>1 DEF Trimmed
    <3>2. pins'[d].parking = P[d].parking
      BY <3>1 DEF Pins
    <3> QED
      BY <1>2, <1>3, <2>1, <3>2 DEF Marked, HasPin
  <2>2. CASE d \notin gone
    BY <1>2, <1>3, <2>2 DEF Marked, HasPin, Trimmed
  <2> QED
    BY <2>1, <2>2
<1> QED
  BY <1>1, <1>3

\* A save goes on until it unmarks its record.
LEMMA SaveMarks ==
  ASSUME IInv, NEW a \in Actors, SaveStep(a)
  PROVE  /\ \A d \in Convs : Marked(d)' => Marked(d)
         /\ sub'[a].conv = sub[a].conv
         /\ \A e \in Actors \ {a} : sub'[e] = sub[e]
         /\ ~NotSaving(a)' \/ (~NotSaving(a) /\ \A d \in Convs : Marked(d)' => d # sub[a].conv)
<1>0. /\ sub \in [Actors -> Saves] /\ pins \in [Convs -> Pins \cup {NoPin}]
      /\ sub[a] \in Saves /\ TypeOK
  BY DEF IInv, TypeOK
<1>1. CASE SaveCount(a)
  <2>1. /\ \A d \in Convs : Marked(d)' => Marked(d)
        /\ ~NotSaving(a)' \/ (~NotSaving(a) /\ \A d \in Convs : Marked(d)' => d # sub[a].conv)
    <3>1. ~NotSaving(a)
      BY <1>1 DEF SaveCount, NotSaving
    <3>2. CASE pins' = pins /\ sub' = [sub EXCEPT ![a].phase = "begin"]
      BY <1>0, <3>2 DEF Marked, HasPin, NotSaving
    <3>3. CASE pins' = IF HasPin(sub[a].conv)
                       THEN [pins EXCEPT ![sub[a].conv].parking = FALSE] ELSE pins
      BY <1>0, <3>1, <3>3 DEF Marked, HasPin, Pins
    <3> QED
      BY <1>1, <3>2, <3>3 DEF SaveCount
  <2>2. sub'[a].conv = sub[a].conv /\ \A e \in Actors \ {a} : sub'[e] = sub[e]
    <3>1. CASE sub' = [sub EXCEPT ![a].phase = "begin"]
      BY <1>0, <3>1 DEF Saves
    <3>2. CASE sub' = [sub EXCEPT ![a] = [@ EXCEPT !.phase = "done", !.ok = FALSE]]
      BY <1>0, <3>2 DEF Saves
    <3> QED
      BY <1>1, <3>1, <3>2 DEF SaveCount
  <2> QED
    BY <2>1, <2>2
<1>2. CASE SaveBegin(a)
  BY <1>0, <1>2 DEF SaveBegin, Marked, HasPin, NotSaving, Saves
<1>3. CASE SaveSwept(a)
  <2>1. /\ \A d \in Convs : Marked(d)' => Marked(d)
        /\ ~NotSaving(a) /\ \A d \in Convs : Marked(d)' => d # sub[a].conv
    BY <1>0, <1>3 DEF SaveSwept, Marked, HasPin, Pins, NotSaving
  <2>2. sub'[a].conv = sub[a].conv /\ \A e \in Actors \ {a} : sub'[e] = sub[e]
    BY <1>0, <1>3 DEF SaveSwept, Saves
  <2> QED
    BY <2>1, <2>2
<1>4. CASE SaveRefused(a)
  BY <1>0, <1>4, MarkSweep DEF SaveRefused
<1>5. CASE SaveCut(a)
  BY <1>0, <1>5, MarkSweep DEF SaveCut
<1>6. CASE SaveKept(a)
  <2> DEFINE j == sub[a]
             P == IF HasPin(j.conv)
                  THEN [pins EXCEPT ![j.conv] = [@ EXCEPT !.parked = TRUE, !.parkedTurn = j.turn]]
                  ELSE pins
  <2>1. EndSave(a, P, TRUE)
    BY <1>6 DEF SaveKept
  <2>2. P \in [Convs -> Pins \cup {NoPin}]
    <3>1. j.turn \in Nat
      BY <1>0 DEF Saves
    <3>2. ASSUME HasPin(j.conv)
          PROVE  [pins[j.conv] EXCEPT !.parked = TRUE, !.parkedTurn = j.turn] \in Pins
      <4>1. pins[j.conv] \in Pins
        BY <1>0, <3>2 DEF HasPin
      <4> QED
        BY <3>1, <4>1 DEF Pins
    <3> QED
      BY <1>0, <3>2 DEF HasPin
  <2>3. \A d \in Convs : P[d] # NoPin => pins[d] # NoPin /\ (P[d].parking => pins[d].parking)
    BY <1>0 DEF HasPin, Pins
  <2> HIDE DEF P
  <2> QED
    BY <1>0, <2>1, <2>2, <2>3, MarkSweep
<1>7. CASE SaveLost(a)
  <2> DEFINE j == sub[a]
             P == IF HasPin(j.conv) /\ pins[j.conv].turns = j.turn
                  THEN [pins EXCEPT ![j.conv] = [@ EXCEPT !.parked = FALSE, !.slot = NoSlot]]
                  ELSE pins
  <2>1. EndSave(a, P, FALSE)
    BY <1>7 DEF SaveLost
  <2>2. P \in [Convs -> Pins \cup {NoPin}]
    BY <1>0 DEF HasPin, Pins
  <2>3. \A d \in Convs : P[d] # NoPin => pins[d] # NoPin /\ (P[d].parking => pins[d].parking)
    BY <1>0 DEF HasPin, Pins
  <2> HIDE DEF P
  <2> QED
    BY <1>0, <2>1, <2>2, <2>3, MarkSweep
<1>8. CASE SaveShort(a)
  BY <1>0, <1>8 DEF SaveShort, Marked, HasPin, NotSaving, Saves
<1> QED
  BY <1>1, <1>8, <1>2, <1>3, <1>4, <1>5, <1>6, <1>7 DEF SaveStep

\* So whoever is marked still has a writer.
LEMMA MarkSave ==
  ASSUME IInv, ParkingHasAWriter, WorkerRests, NEW a \in Actors, SaveStep(a)
  PROVE  ParkingHasAWriter' /\ WorkerRests'
<1>0. Worker \in Actors
  BY DEF Actors
<1>1. ~NotSaving(a)
  BY DEF NotSaving, SaveStep, SaveCount, SaveBegin, SaveRefused, SaveCut, SaveKept, SaveShort,
     SaveLost,
     SaveSwept
<1>2. UNCHANGED <<jobs, wk>>
  BY DEF SaveStep, SaveCount, SaveBegin, SaveRefused, SaveCut, SaveKept, SaveShort, SaveLost,
     SaveSwept,
     SaveVars
<1>3. PICK k : k = sub[a].conv
  OBVIOUS
<1>4. /\ \A d \in Convs : Marked(d)' => Marked(d)
      /\ sub'[a].conv = k
      /\ \A e \in Actors \ {a} : sub'[e] = sub[e]
      /\ ~NotSaving(a)' \/ \A d \in Convs : Marked(d)' => d # k
  BY <1>3, SaveMarks
<1>5. \A d \in Convs : Marked(d) => Written(d)
  BY DEF ParkingHasAWriter, Marked, Written
<1>6. \A d \in Convs : Written(d) => Written(d)' \/ (d = k /\ NotSaving(a)')
  BY <1>2, <1>3, <1>4 DEF Written, NotSaving
<1>7. \A d \in Convs : Marked(d)' => Written(d)'
  BY <1>4, <1>5, <1>6
<1>8. ParkingHasAWriter'
  BY <1>7 DEF ParkingHasAWriter, Marked, Written
<1> QED
  BY <1>0, <1>1, <1>2, <1>4, <1>8 DEF WorkerRests, NotSaving

\* The worker takes a job over and gives it up when it is done.
LEMMA MarkWorker ==
  ASSUME IInv, ParkingHasAWriter, WorkerRests, WorkerStep
  PROVE  ParkingHasAWriter' /\ WorkerRests'
<1>0. /\ sub \in [Actors -> Saves] /\ Worker \in Actors /\ jobs \in Seq(Jobs)
  BY DEF IInv, TypeOK, Actors
<1>1. \A d \in Convs : Marked(d) => Written(d)
  BY DEF ParkingHasAWriter, Marked, Written
<1>2. CASE TakeJob
  <2>1. /\ NotSaving(Worker) /\ jobs # <<>> /\ jobs' = Tail(jobs) /\ UNCHANGED pins
        /\ wk' = Head(jobs).ticket
        /\ sub'[Worker].conv = Head(jobs).conv /\ ~NotSaving(Worker)'
        /\ \A e \in Actors \ {Worker} : sub'[e] = sub[e]
    BY <1>0, <1>2 DEF TakeJob, WorkerRests, SaveOf, NoSave, NotSaving, records
  <2>2. Head(jobs) \in Jobs
    BY <1>0, <2>1
  <2>3. wk' # NoTurn
    BY <2>1, <2>2, Parameters DEF Jobs
  <2>4. \A i \in DOMAIN jobs : jobs[i] = Head(jobs) \/ \E k \in DOMAIN jobs' : jobs'[k] = jobs[i]
    <3>1. SUFFICES ASSUME NEW i \in DOMAIN jobs, i # 1
                   PROVE  \E k \in DOMAIN jobs' : jobs'[k] = jobs[i]
      BY <1>0, <2>1
    <3>2. i \in 2..Len(jobs) /\ Len(jobs) \in Nat
      BY <1>0, <3>1
    <3>3. i - 1 \in DOMAIN jobs' /\ jobs'[i - 1] = jobs[i]
      BY <1>0, <2>1, <3>2
    <3> QED
      BY <3>3
  <2>5. \A d \in Convs : Written(d) => Written(d)'
    BY <1>0, <2>1, <2>4 DEF Written, NotSaving
  <2> QED
    BY <1>1, <2>1, <2>3, <2>5 DEF WorkerRests, ParkingHasAWriter, Marked, Written, HasPin
<1>3. CASE JobDone
  <2>1. /\ NotSaving(Worker) /\ UNCHANGED <<pins, jobs>> /\ NotSaving(Worker)'
        /\ \A e \in Actors \ {Worker} : sub'[e] = sub[e]
    BY <1>0, <1>3 DEF JobDone, Saved, NoSave, NotSaving, records
  <2>2. \A d \in Convs : Written(d) => Written(d)'
    BY <1>0, <2>1 DEF Written, NotSaving
  <2> QED
    BY <1>1, <2>1, <2>2 DEF WorkerRests, ParkingHasAWriter, Marked, Written, HasPin
<1> QED
  BY <1>2, <1>3 DEF WorkerStep

\* park_all marks what it copies.
LEMMA MarkOperator ==
  ASSUME IInv, ParkingHasAWriter, WorkerRests, OperatorStep
  PROVE  ParkingHasAWriter' /\ WorkerRests'
<1>0. /\ TypeOK /\ sub \in [Actors -> Saves] /\ Worker \in Actors
      /\ Operator \in Actors \ {Worker}
  BY Parameters DEF IInv, TypeOK, Actors
<1>1. CASE ParkAllOne
  <2>1. PICK c \in Convs : /\ pins' = [pins EXCEPT ![c].parking = TRUE]
                           /\ sub' = [sub EXCEPT ![Operator] = SaveOf(c, op.be, pins[c].slot)]
    BY <1>1 DEF ParkAllOne, Oldest, OnlyInASlot
  <2> QED
    BY <1>0, <1>1, <2>1, MarkedForSave DEF ParkAllOne
<1>2. CASE ~ParkAllOne
  <2>1. UNCHANGED <<pins, jobs, wk>>
    BY <1>2 DEF OperatorStep, Drain, DrainWaited, ParkAllOver, DrainReport, RestartDrained,
       Resume, records
  <2>2. sub' = sub \/ (NotSaving(Operator) /\ sub' = [sub EXCEPT ![Operator] = NoSave])
    BY <1>2 DEF OperatorStep, Drain, DrainWaited, ParkAllOver, DrainReport, RestartDrained,
       Resume
  <2>3. SavesGoOn /\ sub'[Worker] = sub[Worker]
    BY <1>0, <2>2 DEF SavesGoOn, NotSaving
  <2> QED
    BY <2>1, <2>3, MarksKept DEF Marked, HasPin
<1> QED
  BY <1>1, <1>2

\* The poll and the processes end no save and mark nothing.
LEMMA MarkBackend ==
  ASSUME IInv, ParkingHasAWriter, WorkerRests, NEW b \in Backends, Watch(b) \/ Crash(b) \/ Boot(b)
  PROVE  ParkingHasAWriter' /\ WorkerRests'
<1>0. pins \in [Convs -> Pins \cup {NoPin}]
  BY DEF IInv, TypeOK
<1>1. UNCHANGED <<jobs, wk, sub>>
  BY DEF Watch, Crash, Boot, threads
<1>2. pins' = pins \/ pins' = ForgetSlots(pins, b)
  BY DEF Watch, Crash, Boot, records
<1>3. \A c \in Convs : Marked(c)' => Marked(c)
  BY <1>0, <1>2 DEF Marked, HasPin, ForgetSlots, Pins
<1>4. SavesGoOn
  BY <1>1 DEF SavesGoOn, NotSaving
<1> QED
  BY <1>1, <1>3, <1>4, MarksKept

\* A record is marked `parking` only while a copy of it is queued or running,
\* so no conversation is refused its copies for the life of the process.
THEOREM ParkingIsWritten == Spec => []ParkingHasAWriter
<1>1. Init => IInv /\ ParkingHasAWriter /\ WorkerRests
  <2>1. Init => ParkingHasAWriter
    BY DEF Init, ParkingHasAWriter, HasPin
  <2>2. Init => WorkerRests
    BY DEF Init, WorkerRests, NotSaving, NoSave, Actors
  <2> QED
    BY <2>1, <2>2, TypeInit
<1>2. IInv /\ ParkingHasAWriter /\ WorkerRests /\ [Next]_vars
        => (IInv /\ ParkingHasAWriter /\ WorkerRests)'
  <2> SUFFICES ASSUME IInv, ParkingHasAWriter, WorkerRests, [Next]_vars
               PROVE  ParkingHasAWriter' /\ WorkerRests'
    BY TypeStep
  <2>1. CASE UNCHANGED vars
    BY <2>1 DEF vars, records, threads, ParkingHasAWriter, WorkerRests, HasPin, NotSaving
  <2>2. CASE Next
    BY <2>2, MarkTurn, MarkSave, MarkWorker, MarkOperator, MarkBackend DEF Next
  <2> QED
    BY <2>1, <2>2
<1> QED
  BY <1>1, <1>2, PTL DEF Spec

-------------------------------------------------------------------------------
\* Pool implements TurnOrder; and what the tickets are for besides the order:
\* no two turns are in one slot.

\* Where a turn has passed claim_turn and its thread has not let go.
Serving == TurnPcs \ {"new", "claim", "done"}

\* A turn that has its conversation to itself.
Has(t) == at[t].pc \in Serving \/ Copying(t)

\* The ticket on a conversation is the one of the turn that has it.
TicketHeld == \A t \in Turns : Has(t) /\ ConvOf[t] \in Convs => turns[ConvOf[t]] = t

\* A queued or running copy is the last of its turn.
CopyLast == \A t \in Turns : Copying(t) => at[t].pc = "done" /\ ConvOf[t] \in Convs

\* Each ticket travels once.
OneJobEach ==
    /\ \A i, j \in DOMAIN jobs : jobs[i].ticket = jobs[j].ticket => i = j
    /\ \A i \in DOMAIN jobs : jobs[i].ticket # wk

Claims == TicketHeld /\ CopyLast /\ OneJobEach

\* The steps of a turn between the claim and the letting go.
ServingStep(t) ==
    \/ \E b \in Backends, s \in AllSlots : Take(t, b, s)
    \/ Spill(t) \/ EnsureParked(t) \/ TakeSlot(t) \/ ForgetStalePark(t)
    \/ Recall(t) \/ Recalled(t) \/ RecallRejected(t) \/ RecallLost(t) \/ UnlinkForgotten(t)
    \/ WarmPrefix(t)
    \/ ReadDone(t) \/ ReadGone(t) \/ ReadFailed(t) \/ Stay(t) \/ LeaveReader(t)
    \/ \E g \in Backends : CarrySave(t, g)
    \/ CarrySaved(t) \/ CarryNotSaved(t)
    \/ \E s \in AllSlots : GenerateSlot(t, s)
    \/ GenerateHere(t) \/ GenerateElsewhere(t) \/ LeaveParked(t) \/ ClearTarget(t)
    \/ TargetCleared(t) \/ Land(t) \/ LandFailed(t) \/ Relay(t) \/ Release(t)
    \/ ParkPartial(t) \/ PartialOver(t)

\* Such a step leaves the turn serving, every other where it is, and the
\* tickets alone.
LEMMA ServesOn ==
  ASSUME TypeOK, NEW t \in Turns, ServingStep(t)
  PROVE  /\ at[t].pc \in Serving /\ at'[t].pc \in Serving
         /\ \A u \in Turns \ {t} : at'[u].pc = at[u].pc
         /\ UNCHANGED <<turns, jobs, wk>>
<1> DEFINE Goal == /\ at[t].pc \in Serving /\ at'[t].pc \in Serving
                   /\ \A u \in Turns \ {t} : at'[u].pc = at[u].pc
                   /\ UNCHANGED <<turns, jobs, wk>>
<1>0. at \in [Turns -> Threads] /\ at[t] \in Threads
  BY DEF TypeOK
<1>1. ASSUME NEW b \in Backends, NEW s \in AllSlots, Take(t, b, s) PROVE Goal
  BY <1>0, <1>1 DEF Take, Move, Threads, Serving, TurnPcs, threads
<1>2. CASE Spill(t)
  BY <1>0, <1>2 DEF Spill, Move, Threads, Serving, TurnPcs, threads
<1>3. CASE EnsureParked(t)
  BY <1>0, <1>3 DEF EnsureParked, ParkOne, Move, Threads, Serving, TurnPcs, threads
<1>4. CASE TakeSlot(t)
  BY <1>0, <1>4 DEF TakeSlot, Move, Threads, Serving, TurnPcs, threads
<1>5. CASE ForgetStalePark(t)
  BY <1>0, <1>5 DEF ForgetStalePark, Move, Threads, Serving, TurnPcs, threads
<1>6. CASE Recall(t)
  BY <1>0, <1>6 DEF Recall, Move, Threads, Serving, TurnPcs, threads
<1>62. CASE UnlinkForgotten(t)
  BY <1>0, <1>62 DEF UnlinkForgotten, Move, Threads, Serving, TurnPcs, threads
<1>7. CASE Recalled(t)
  BY <1>0, <1>7 DEF Recalled, AfterWarm, Move, Threads, Serving, TurnPcs, threads
<1>8. CASE RecallRejected(t)
  BY <1>0, <1>8 DEF RecallRejected, Move, Threads, Serving, TurnPcs, threads
<1>9. CASE RecallLost(t)
  BY <1>0, <1>9 DEF RecallLost, Move, Threads, Serving, TurnPcs, threads
<1>10. CASE WarmPrefix(t)
  BY <1>0, <1>10 DEF WarmPrefix, AfterWarm, Move, Threads, Serving, TurnPcs, threads
<1>11. CASE ReadDone(t)
  BY <1>0, <1>11 DEF ReadDone, Move, Threads, Serving, TurnPcs, threads
<1>12. CASE ReadGone(t)
  BY <1>0, <1>12 DEF ReadGone, Move, Threads, Serving, TurnPcs, threads
<1>13. CASE ReadFailed(t)
  BY <1>0, <1>13 DEF ReadFailed, Move, Threads, Serving, TurnPcs, threads
<1>14. CASE Stay(t)
  BY <1>0, <1>14 DEF Stay, Move, Threads, Serving, TurnPcs, threads
<1>15. CASE LeaveReader(t)
  BY <1>0, <1>15 DEF LeaveReader, Move, Threads, Serving, TurnPcs, threads
<1>16. ASSUME NEW g \in Backends, CarrySave(t, g) PROVE Goal
  BY <1>0, <1>16 DEF CarrySave, Move, Threads, Serving, TurnPcs, threads
<1>17. CASE CarrySaved(t)
  BY <1>0, <1>17 DEF CarrySaved, Move, Threads, Serving, TurnPcs, threads
<1>18. CASE CarryNotSaved(t)
  BY <1>0, <1>18 DEF CarryNotSaved, Move, Threads, Serving, TurnPcs, threads
<1>19. ASSUME NEW s \in AllSlots, GenerateSlot(t, s) PROVE Goal
  BY <1>0, <1>19 DEF GenerateSlot, Move, Threads, Serving, TurnPcs, threads
<1>20. CASE GenerateHere(t)
  BY <1>0, <1>20 DEF GenerateHere, NoGenerator, Move, Threads, Serving, TurnPcs, threads
<1>21. CASE GenerateElsewhere(t)
  BY <1>0, <1>21 DEF GenerateElsewhere, NoGenerator, Move, Threads, Serving, TurnPcs, threads
<1>22. CASE LeaveParked(t)
  BY <1>0, <1>22 DEF LeaveParked, Move, Threads, Serving, TurnPcs, threads
<1>23. CASE ClearTarget(t)
  BY <1>0, <1>23 DEF ClearTarget, ParkOne, Move, Threads, Serving, TurnPcs, threads
<1>24. CASE TargetCleared(t)
  BY <1>0, <1>24 DEF TargetCleared, Move, Threads, Serving, TurnPcs, threads
<1>25. CASE Land(t)
  BY <1>0, <1>25 DEF Land, Move, Threads, Serving, TurnPcs, threads
<1>26. CASE LandFailed(t)
  BY <1>0, <1>26 DEF LandFailed, Move, Threads, Serving, TurnPcs, threads
<1>27. CASE Relay(t)
  BY <1>0, <1>27 DEF Relay, Move, Threads, Serving, TurnPcs, threads
<1>28. CASE Release(t)
  BY <1>0, <1>28 DEF Release, Move, Threads, Serving, TurnPcs, threads
<1>29. CASE ParkPartial(t)
  BY <1>0, <1>29 DEF ParkPartial, Move, Threads, Serving, TurnPcs, threads
<1>30. CASE PartialOver(t)
  BY <1>0, <1>30 DEF PartialOver, Move, Threads, Serving, TurnPcs, threads
<1> QED
  BY <1>1, <1>62, <1>2, <1>3, <1>4, <1>5, <1>6, <1>7, <1>8, <1>9, <1>10, <1>11, <1>12, <1>13, <1>14,
     <1>15, <1>16, <1>17, <1>18, <1>19, <1>20, <1>21, <1>22, <1>23, <1>24, <1>25, <1>26, <1>27,
     <1>28,
     <1>29, <1>30 DEF ServingStep

-------------------------------------------------------------------------------
\* A job's ticket is a turn's.
LEMMA TicketsAreTurns ==
  ASSUME TypeOK, NEW i \in DOMAIN jobs
  PROVE  jobs[i].ticket \in Turns
<1>1. jobs[i] \in Jobs
  BY DEF TypeOK
<1> QED
  BY <1>1 DEF Jobs

\* What a step must do for the claims to stay: a turn that has its conversation
\* had it before, or claims it, and only the one that lets go frees a ticket.
LEMMA ClaimsServing ==
  ASSUME TypeOK, Claims, NEW t \in Turns, ServingStep(t)
  PROVE  Claims'
<1>1. /\ at[t].pc \in Serving /\ at'[t].pc \in Serving
      /\ \A u \in Turns \ {t} : at'[u].pc = at[u].pc
      /\ turns' = turns /\ jobs' = jobs /\ wk' = wk
  BY ServesOn
<1>2. \A u \in Turns : Copying(u)' = Copying(u)
  BY <1>1 DEF Copying
<1>3. ~Copying(t)
  BY <1>1 DEF Claims, CopyLast, Serving
<1>4. TicketHeld'
  BY <1>1, <1>2, <1>3 DEF Claims, TicketHeld, Has
<1>5. CopyLast'
  BY <1>1, <1>2, <1>3 DEF Claims, CopyLast
<1>6. OneJobEach'
  BY <1>1 DEF Claims, OneJobEach
<1> QED
  BY <1>4, <1>5, <1>6 DEF Claims

\* The steps of a turn that start or end it.
EndStep(t) == LeaveQueue(t) \/ Refuse(t) \/ LeaveAcquire(t) \/ FinishTurn(t)

\* What an ending does to the tickets.
LEMMA EndsFree ==
  ASSUME TypeOK, NEW t \in Turns, EndStep(t)
  PROVE  /\ at[t].pc \notin {"new", "done"} /\ at'[t].pc = "done"
         /\ \A u \in Turns \ {t} : at'[u].pc = at[u].pc
         /\ turns' = FreedBy(t)
         /\ UNCHANGED <<jobs, wk>>
  BY DEF TypeOK, EndStep, LeaveQueue, Refuse, LeaveAcquire, FinishTurn, Over, IdleTurn, threads

\* An ending frees its own ticket and no other's.
LEMMA ClaimsEnd ==
  ASSUME TypeOK, Claims, NEW t \in Turns, EndStep(t)
  PROVE  Claims'
<1>1. /\ at[t].pc \notin {"new", "done"} /\ at'[t].pc = "done"
      /\ \A u \in Turns \ {t} : at'[u].pc = at[u].pc
      /\ turns' = FreedBy(t)
      /\ jobs' = jobs /\ wk' = wk
  BY EndsFree
<1>2. \A u \in Turns : Copying(u)' = Copying(u)
  BY <1>1 DEF Copying
<1>3. ~Copying(t)
  BY <1>1 DEF Claims, CopyLast
<1>4. TicketHeld'
  <2> SUFFICES ASSUME NEW u \in Turns, Has(u)', ConvOf[u] \in Convs
               PROVE  turns'[ConvOf[u]] = u
    BY DEF TicketHeld
  <2>1. u # t
    BY <1>1, <1>2, <1>3 DEF Has, Serving
  <2>2. turns[ConvOf[u]] = u
    BY <1>1, <1>2, <2>1 DEF Claims, TicketHeld, Has
  <2> QED
    BY <1>1, <2>1, <2>2 DEF FreedBy
<1>5. CopyLast'
  BY <1>1, <1>2, <1>3 DEF Claims, CopyLast
<1>6. OneJobEach'
  BY <1>1 DEF Claims, OneJobEach
<1> QED
  BY <1>4, <1>5, <1>6 DEF Claims

\* A new request holds nothing.
LEMMA ClaimsArrive ==
  ASSUME TypeOK, Claims, NEW t \in Turns, Arrive(t)
  PROVE  Claims'
<1>1. /\ at[t].pc = "new" /\ at'[t].pc \in {"claim", "done"}
      /\ \A u \in Turns \ {t} : at'[u].pc = at[u].pc
      /\ turns' = turns /\ jobs' = jobs /\ wk' = wk
  BY DEF TypeOK, Arrive, Over, IdleTurn, Threads, threads
<1>2. \A u \in Turns : Copying(u)' = Copying(u)
  BY <1>1 DEF Copying
<1>3. ~Copying(t)
  BY <1>1 DEF Claims, CopyLast
<1> QED
  BY <1>1, <1>2, <1>3 DEF Claims, TicketHeld, Has, Serving, CopyLast, OneJobEach

\* A turn claims its conversation only when nothing else has it.
LEMMA ClaimIsFree ==
  ASSUME TypeOK, Claims, NEW t \in Turns, ClaimTurn(t), NEW u \in Turns,
         Has(u), ConvOf[u] = ConvOf[t]
  PROVE  ConvOf[t] \notin Convs
<1>1. SUFFICES ASSUME ConvOf[t] \in Convs PROVE FALSE
  OBVIOUS
<1>2. turns[ConvOf[t]] = u
  BY <1>1 DEF Claims, TicketHeld
<1>3. u = t
  BY <1>1, <1>2, Parameters DEF ClaimTurn
<1>4. at[t].pc = "claim"
  BY DEF ClaimTurn
<1> QED
  BY <1>3, <1>4 DEF Has, Serving, Claims, CopyLast

\* So the claim is the only one of its conversation.
LEMMA ClaimsClaim ==
  ASSUME TypeOK, Claims, NEW t \in Turns, ClaimTurn(t)
  PROVE  Claims'
<1>1. /\ at[t].pc = "claim" /\ at'[t].pc = "acquire"
      /\ \A u \in Turns \ {t} : at'[u].pc = at[u].pc
      /\ turns' = [c \in Convs |-> IF c = ConvOf[t] THEN t ELSE turns[c]]
      /\ jobs' = jobs /\ wk' = wk
  BY DEF TypeOK, ClaimTurn, Move, Threads, threads
<1>2. \A u \in Turns : Copying(u)' = Copying(u)
  BY <1>1 DEF Copying
<1>3. ~Copying(t)
  BY <1>1 DEF Claims, CopyLast
<1>4. TicketHeld'
  <2> SUFFICES ASSUME NEW u \in Turns, Has(u)', ConvOf[u] \in Convs
               PROVE  turns'[ConvOf[u]] = u
    BY DEF TicketHeld
  <2>1. CASE u = t
    BY <1>1, <2>1
  <2>2. CASE u # t
    <3>1. Has(u)
      BY <1>1, <1>2, <2>2 DEF Has
    <3>2. ConvOf[u] # ConvOf[t]
      BY <3>1, ClaimIsFree
    <3>3. turns[ConvOf[u]] = u
      BY <3>1 DEF Claims, TicketHeld
    <3> QED
      BY <1>1, <3>2, <3>3
  <2> QED
    BY <2>1, <2>2
<1>5. CopyLast'
  BY <1>1, <1>2, <1>3 DEF Claims, CopyLast
<1>6. OneJobEach'
  BY <1>1 DEF Claims, OneJobEach
<1> QED
  BY <1>4, <1>5, <1>6 DEF Claims

\* park_later hands the ticket to a job, and nobody else has it.
LEMMA Handed ==
  ASSUME TypeOK, NEW t \in Turns, ParkLater(t)
  PROVE  /\ at[t].pc = "later" /\ at'[t].pc = "done" /\ ConvOf[t] \in Convs
         /\ \A u \in Turns \ {t} : at'[u].pc = at[u].pc
         /\ turns' = turns /\ wk' = wk
         /\ DOMAIN jobs' = 1 .. Len(jobs) + 1
         /\ \A i \in DOMAIN jobs : jobs'[i] = jobs[i]
         /\ jobs'[Len(jobs) + 1].ticket = t
<1>1. PICK j : jobs' = Append(jobs, j) /\ j.ticket = t
  BY DEF ParkLater
<1>2. jobs \in Seq(Jobs)
  BY DEF TypeOK
<1> QED
  BY <1>1, <1>2 DEF TypeOK, ParkLater, Leaves, HasPin, Over, IdleTurn, threads

\* The ticket goes with the job.
LEMMA ClaimsParkLater ==
  ASSUME TypeOK, Claims, NEW t \in Turns, ParkLater(t)
  PROVE  Claims'
<1>1. /\ at[t].pc = "later" /\ at'[t].pc = "done" /\ ConvOf[t] \in Convs
      /\ \A u \in Turns \ {t} : at'[u].pc = at[u].pc
      /\ turns' = turns /\ wk' = wk
      /\ DOMAIN jobs' = 1 .. Len(jobs) + 1
      /\ \A i \in DOMAIN jobs : jobs'[i] = jobs[i]
      /\ jobs'[Len(jobs) + 1].ticket = t
  BY Handed
<1>2. DOMAIN jobs = 1 .. Len(jobs) /\ Len(jobs) \in Nat
  BY DEF TypeOK
<1>3. ~Copying(t)
  BY <1>1 DEF Claims, CopyLast
<1>4. \A u \in Turns : Copying(u)' <=> Copying(u) \/ u = t
  BY <1>1, <1>2 DEF Copying
<1>5. TicketHeld'
  <2> SUFFICES ASSUME NEW u \in Turns, Has(u)', ConvOf[u] \in Convs
               PROVE  turns[ConvOf[u]] = u
    BY <1>1 DEF TicketHeld
  <2>1. Has(u)
    BY <1>1, <1>4 DEF Has, Serving, TurnPcs
  <2> QED
    BY <2>1 DEF Claims, TicketHeld
<1>6. CopyLast'
  BY <1>1, <1>4 DEF Claims, CopyLast
<1>7. OneJobEach'
  BY <1>1, <1>2, <1>3 DEF Claims, OneJobEach, Copying
<1> QED
  BY <1>5, <1>6, <1>7 DEF Claims

\* The worker takes the first job's ticket.
LEMMA Taken ==
  ASSUME TypeOK, TakeJob
  PROVE  /\ wk = NoTurn /\ Len(jobs) \in Nat \ {0} /\ DOMAIN jobs = 1 .. Len(jobs)
         /\ wk' = jobs[1].ticket
         /\ DOMAIN jobs' = 1 .. Len(jobs) - 1
         /\ \A i \in 1 .. Len(jobs) - 1 : jobs'[i] = jobs[i + 1]
         /\ UNCHANGED <<turns, at>>
<1>1. jobs \in Seq(Jobs) /\ jobs # <<>>
  BY DEF TypeOK, TakeJob
<1>2. wk' = Head(jobs).ticket /\ jobs' = Tail(jobs) /\ UNCHANGED <<turns, at>> /\ wk = NoTurn
  BY DEF TakeJob
<1> QED
  BY <1>1, <1>2

\* The worker holds the ticket of the job it took.
LEMMA ClaimsTakeJob ==
  ASSUME TypeOK, Claims, TakeJob
  PROVE  Claims'
<1>1. /\ wk = NoTurn /\ Len(jobs) \in Nat \ {0} /\ DOMAIN jobs = 1 .. Len(jobs)
      /\ wk' = jobs[1].ticket
      /\ DOMAIN jobs' = 1 .. Len(jobs) - 1
      /\ \A i \in 1 .. Len(jobs) - 1 : jobs'[i] = jobs[i + 1]
      /\ turns' = turns /\ at' = at
  BY Taken
<1>2. /\ \A i \in DOMAIN jobs' : i + 1 \in DOMAIN jobs /\ i + 1 # 1 /\ jobs'[i] = jobs[i + 1]
      /\ 1 \in DOMAIN jobs
  BY <1>1
<1>3. \A u \in Turns : Copying(u)' => Copying(u)
  <2> SUFFICES ASSUME NEW u \in Turns, Copying(u)' PROVE Copying(u)
    OBVIOUS
  <2>1. CASE wk' = u
    BY <1>1, <1>2, <2>1 DEF Copying
  <2>2. CASE \E i \in DOMAIN jobs' : jobs'[i].ticket = u
    BY <1>2, <2>2 DEF Copying
  <2> QED
    BY <2>1, <2>2 DEF Copying
<1>4. OneJobEach'
  <2>1. \A i, j \in DOMAIN jobs' : jobs'[i].ticket = jobs'[j].ticket => i = j
    <3> SUFFICES ASSUME NEW i \in DOMAIN jobs', NEW j \in DOMAIN jobs',
                        jobs'[i].ticket = jobs'[j].ticket
                 PROVE  i = j
      OBVIOUS
    <3>1. i + 1 = j + 1
      BY <1>2 DEF Claims, OneJobEach
    <3> QED
      BY <1>1, <3>1
  <2>2. \A i \in DOMAIN jobs' : jobs'[i].ticket # wk'
    BY <1>1, <1>2 DEF Claims, OneJobEach
  <2> QED
    BY <2>1, <2>2 DEF OneJobEach
<1> QED
  BY <1>1, <1>3, <1>4 DEF Claims, TicketHeld, Has, CopyLast

\* The copy has landed, and its ticket is given back.
LEMMA ClaimsJobDone ==
  ASSUME TypeOK, Claims, JobDone
  PROVE  Claims'
<1>1. /\ wk \in Turns /\ wk' = NoTurn /\ turns' = FreedBy(wk)
      /\ jobs' = jobs /\ at' = at
  BY DEF TypeOK, JobDone
<1>2. \A u \in Turns : Copying(u)' <=> Copying(u) /\ u # wk
  BY <1>1, Parameters DEF Copying, Claims, OneJobEach
<1>3. Copying(wk) /\ at[wk].pc = "done"
  BY <1>1 DEF Copying, Claims, CopyLast
<1>4. TicketHeld'
  <2> SUFFICES ASSUME NEW u \in Turns, Has(u)', ConvOf[u] \in Convs
               PROVE  turns'[ConvOf[u]] = u
    BY DEF TicketHeld
  <2>1. u # wk
    BY <1>1, <1>2, <1>3 DEF Has, Serving
  <2>2. turns[ConvOf[u]] = u
    BY <1>1, <1>2 DEF Claims, TicketHeld, Has
  <2> QED
    BY <1>1, <2>1, <2>2 DEF FreedBy
<1>5. CopyLast'
  BY <1>1, <1>2 DEF Claims, CopyLast
<1>6. OneJobEach'
  BY <1>1, TicketsAreTurns, Parameters DEF Claims, OneJobEach
<1> QED
  BY <1>4, <1>5, <1>6 DEF Claims

\* Steps that touch no ticket and no turn's place.
Apart == UNCHANGED <<turns, jobs, wk>> /\ \A t \in Turns : at'[t].pc = at[t].pc

\* Nothing the tickets depend on moves.
LEMMA ClaimsApart == ASSUME Claims, Apart PROVE Claims'
<1>1. \A u \in Turns : Copying(u)' = Copying(u)
  BY DEF Apart, Copying
<1> QED
  BY <1>1 DEF Apart, Claims, TicketHeld, Has, CopyLast, OneJobEach

-------------------------------------------------------------------------------
\* Every step is one of these.
LEMMA StepKinds ==
  ASSUME TypeOK, [Next]_vars
  PROVE  \/ \E t \in Turns : \/ ServingStep(t) \/ EndStep(t)
                             \/ Arrive(t) \/ ClaimTurn(t) \/ ParkLater(t)
         \/ TakeJob \/ JobDone
         \/ Apart
<1>1. CASE UNCHANGED vars
  BY <1>1 DEF vars, threads, Apart
<1>2. ASSUME NEW t \in Turns, TurnStep(t) \/ ClientLeaves(t)
      PROVE  ServingStep(t) \/ EndStep(t) \/ Arrive(t) \/ ClaimTurn(t) \/ ParkLater(t)
  BY <1>2 DEF TurnStep, ClientLeaves, ServingStep, EndStep
<1>3. ASSUME NEW a \in Actors, SaveStep(a) PROVE Apart
  BY <1>3 DEF SaveStep, SaveCount, SaveBegin, SaveRefused, SaveCut, SaveKept, SaveShort, SaveLost,
     SaveSwept, SaveVars, Apart
<1>4. CASE OperatorStep
  BY <1>4 DEF OperatorStep, Drain, DrainWaited, ParkAllOne, ParkAllOver, DrainReport,
     RestartDrained, Resume, Apart
<1>5. ASSUME NEW b \in Backends, Watch(b) \/ Crash(b) \/ Boot(b) PROVE Apart
  BY <1>5 DEF Watch, Crash, Boot, threads, Apart
<1> QED
  BY <1>1, <1>2, <1>3, <1>4, <1>5 DEF Next, WorkerStep

\* The inductive step.
LEMMA ClaimsStep == TypeOK /\ Claims /\ [Next]_vars => Claims'
  BY StepKinds, ClaimsServing, ClaimsEnd, ClaimsArrive, ClaimsClaim, ClaimsParkLater,
     ClaimsTakeJob, ClaimsJobDone, ClaimsApart

\* No ticket is out when the router starts.
LEMMA ClaimsInit == Init => Claims
  BY Parameters DEF Init, IdleTurn, Claims, TicketHeld, Has, Serving, Copying, CopyLast,
     OneJobEach

\* The tickets are kept for ever: whoever serves or copies a conversation holds
\* it, through every way out of a turn and through the worker's queue.
THEOREM ClaimsHold == Spec => []Claims
<1>1. Init => Claims
  BY ClaimsInit
<1>2. TypeOK /\ Claims /\ [Next]_vars => Claims'
  BY ClaimsStep
<1> QED
  BY <1>1, <1>2, TypeCorrect, PTL DEF Spec

-------------------------------------------------------------------------------
\* The stage of each turn, which is what TurnOrder sees of Pool.
stages == [t \in Turns |-> StageOf(t)]

\* Then no stage moves either.
LEMMA Stays ==
  ASSUME Apart
  PROVE  stages' = stages
<1>1. \A t \in Turns : StageOf(t)' = StageOf(t)
  BY DEF Apart, StageOf, Copying
<1> QED
  BY <1>1 DEF stages

\* What a step does to the stages.
LEMMA OneMoves ==
  ASSUME NEW t \in Turns, \A u \in Turns \ {t} : StageOf(u)' = StageOf(u)
  PROVE  stages' = [stages EXCEPT ![t] = StageOf(t)']
  BY DEF stages

\* Every step of Pool is a step of TurnOrder, or leaves every stage where it is.
LEMMA StepMaps == TypeOK /\ Claims /\ [Next]_vars => [Order!Next]_stages
<1> SUFFICES ASSUME TypeOK, Claims, [Next]_vars
             PROVE  Order!Next \/ stages' = stages
  OBVIOUS
<1> DEFINE Finishes(t) == /\ StageOf(t) # "over" /\ StageOf(t)' = "over"
                          /\ \A u \in Turns \ {t} : StageOf(u)' = StageOf(u)
<1>fin. ASSUME NEW t \in Turns, Finishes(t) PROVE Order!Next
  BY <1>fin, OneMoves DEF Order!Next, Order!Finish, stages
<1>1. ASSUME NEW t \in Turns, ServingStep(t) PROVE stages' = stages
  <2>1. /\ at[t].pc \in Serving /\ at'[t].pc \in Serving
        /\ \A u \in Turns \ {t} : at'[u].pc = at[u].pc
        /\ jobs' = jobs /\ wk' = wk
    BY <1>1, ServesOn
  <2>2. \A u \in Turns : StageOf(u)' = StageOf(u)
    BY <2>1 DEF StageOf, Copying, Serving
  <2> QED
    BY <2>2 DEF stages
<1>2. ASSUME NEW t \in Turns, EndStep(t) PROVE Order!Next
  <2>1. /\ at[t].pc \notin {"new", "done"} /\ at'[t].pc = "done"
        /\ \A u \in Turns \ {t} : at'[u].pc = at[u].pc
        /\ jobs' = jobs /\ wk' = wk
    BY <1>2, EndsFree
  <2>2. ~Copying(t)
    BY <2>1 DEF Claims, CopyLast
  <2>3. Finishes(t)
    BY <2>1, <2>2 DEF StageOf, Copying
  <2> QED
    BY <1>fin, <2>3
<1>3. ASSUME NEW t \in Turns, Arrive(t) PROVE Order!Next \/ stages' = stages
  <2>1. /\ at[t].pc = "new" /\ at'[t].pc \in {"claim", "done"}
        /\ \A u \in Turns \ {t} : at'[u].pc = at[u].pc
        /\ jobs' = jobs /\ wk' = wk
    BY <1>3 DEF TypeOK, Arrive, Over, IdleTurn, Threads, threads
  <2>2. ~Copying(t)
    BY <2>1 DEF Claims, CopyLast
  <2>3. CASE at'[t].pc = "done"
    <3>1. Finishes(t)
      BY <2>1, <2>2, <2>3 DEF StageOf, Copying
    <3> QED
      BY <1>fin, <3>1
  <2>4. CASE at'[t].pc = "claim"
    <3>1. \A u \in Turns : StageOf(u)' = StageOf(u)
      BY <2>1, <2>4 DEF StageOf, Copying
    <3> QED
      BY <3>1 DEF stages
  <2> QED
    BY <2>1, <2>3, <2>4
<1>4. ASSUME NEW t \in Turns, ClaimTurn(t) PROVE Order!Next
  <2>1. /\ at[t].pc = "claim" /\ at'[t].pc = "acquire"
        /\ \A u \in Turns \ {t} : at'[u].pc = at[u].pc
        /\ jobs' = jobs /\ wk' = wk
    BY <1>4 DEF TypeOK, ClaimTurn, Move, Threads, threads
  <2>2. StageOf(t) = "waiting" /\ StageOf(t)' = "serving"
    BY <2>1 DEF StageOf
  <2>3. \A u \in Turns \ {t} : StageOf(u)' = StageOf(u)
    BY <2>1 DEF StageOf, Copying
  <2>4. \A u \in Turns : StageOf(u) \in {"serving", "copying"} /\ ConvOf[u] = ConvOf[t]
                            => ConvOf[t] = NoConv
    <3> SUFFICES ASSUME NEW u \in Turns, StageOf(u) \in {"serving", "copying"},
                        ConvOf[u] = ConvOf[t]
                 PROVE  ConvOf[t] = NoConv
      OBVIOUS
    <3>1. Has(u)
      BY DEF StageOf, Has, Serving, TypeOK, Threads
    <3> QED
      BY <1>4, <3>1, ClaimIsFree, Parameters
  <2>5. Order!Enter(t)
    BY <2>2, <2>3, <2>4, OneMoves DEF Order!Enter, Order!Holds, stages
  <2> QED
    BY <2>5 DEF Order!Next
<1>5. ASSUME NEW t \in Turns, ParkLater(t) PROVE Order!Next
  <2>1. /\ at[t].pc = "later" /\ at'[t].pc = "done" /\ ConvOf[t] \in Convs
        /\ \A u \in Turns \ {t} : at'[u].pc = at[u].pc
        /\ wk' = wk
        /\ DOMAIN jobs' = 1 .. Len(jobs) + 1
        /\ \A i \in DOMAIN jobs : jobs'[i] = jobs[i]
        /\ jobs'[Len(jobs) + 1].ticket = t
    BY <1>5, Handed
  <2>2. DOMAIN jobs = 1 .. Len(jobs) /\ Len(jobs) \in Nat
    BY DEF TypeOK
  <2>3. \A u \in Turns : Copying(u)' <=> Copying(u) \/ u = t
    BY <2>1, <2>2 DEF Copying
  <2>4. StageOf(t) = "serving" /\ StageOf(t)' = "copying"
    BY <2>1, <2>3 DEF StageOf
  <2>5. \A u \in Turns \ {t} : StageOf(u)' = StageOf(u)
    BY <2>1, <2>3 DEF StageOf
  <2>6. ConvOf[t] # NoConv
    BY <2>1, Parameters
  <2>7. Order!LeaveCopy(t)
    BY <2>4, <2>5, <2>6, OneMoves DEF Order!LeaveCopy, stages
  <2> QED
    BY <2>7 DEF Order!Next
<1>6. CASE TakeJob
  <2>1. /\ wk = NoTurn /\ Len(jobs) \in Nat \ {0} /\ DOMAIN jobs = 1 .. Len(jobs)
        /\ wk' = jobs[1].ticket
        /\ DOMAIN jobs' = 1 .. Len(jobs) - 1
        /\ \A i \in 1 .. Len(jobs) - 1 : jobs'[i] = jobs[i + 1]
        /\ at' = at
    BY <1>6, Taken
  <2>2. ASSUME NEW u \in Turns PROVE Copying(u)' <=> Copying(u)
    <3>1. ASSUME NEW i \in DOMAIN jobs, jobs[i].ticket = u PROVE Copying(u)'
      <4>1. CASE i = 1
        BY <2>1, <3>1, <4>1 DEF Copying
      <4>2. CASE i # 1
        <5>1. i - 1 \in DOMAIN jobs' /\ jobs'[i - 1] = jobs[i]
          BY <2>1, <4>2
        <5> QED
          BY <3>1, <5>1 DEF Copying
      <4> QED
        BY <4>1, <4>2
    <3>2. wk # u
      BY <2>1, Parameters
    <3>3. CASE wk' = u
      <4>1. 1 \in DOMAIN jobs /\ jobs[1].ticket = u
        BY <2>1, <3>3
      <4> QED
        BY <3>3, <4>1 DEF Copying
    <3>4. ASSUME NEW i \in DOMAIN jobs', jobs'[i].ticket = u PROVE Copying(u)
      <4>1. i + 1 \in DOMAIN jobs /\ jobs'[i] = jobs[i + 1]
        BY <2>1
      <4> QED
        BY <3>4, <4>1 DEF Copying
    <3> QED
      BY <3>1, <3>2, <3>3, <3>4 DEF Copying
  <2>3. \A u \in Turns : StageOf(u)' = StageOf(u)
    BY <2>1, <2>2 DEF StageOf
  <2> QED
    BY <2>3 DEF stages
<1>7. CASE JobDone
  <2>1. PICK t \in Turns : wk = t /\ wk' = NoTurn /\ jobs' = jobs /\ at' = at
    BY <1>7 DEF TypeOK, JobDone
  <2>2. \A u \in Turns : Copying(u)' <=> Copying(u) /\ u # t
    BY <2>1, Parameters DEF Copying, Claims, OneJobEach
  <2>3. Copying(t) /\ at[t].pc = "done"
    BY <2>1 DEF Copying, Claims, CopyLast
  <2>4. Finishes(t)
    BY <2>1, <2>2, <2>3 DEF StageOf
  <2> QED
    BY <1>fin, <2>4
<1>8. CASE Apart
  BY <1>8, Stays
<1> QED
  BY <1>1, <1>2, <1>3, <1>4, <1>5, <1>6, <1>7, <1>8, StepKinds

\* Every turn starts out waiting.
LEMMA InitMaps == Init => Order!Init
  BY DEF Init, IdleTurn, Order!Init, StageOf

\* Pool implements TurnOrder: claim_turn, finish_turn, park_later and the
\* worker keep the order of every conversation's turns, however many turns,
\* backends and slots there are, whichever of them fail, crash or leave.
THEOREM Implements == Spec => ImplementsTurnOrder
<1>1. Init => Order!Init
  BY InitMaps
<1>2. TypeOK /\ Claims /\ [Next]_vars => [Order!Next]_stages
  BY StepMaps
<1> QED
  BY <1>1, <1>2, TypeCorrect, ClaimsHold, PTL DEF Spec, ImplementsTurnOrder, Order!Spec, stages

\* So no two turns of one conversation are ever served, or copied, together.
THEOREM OneTurnOfAConversation == Spec => []Order!OneTurnAtATime
<1>1. TypeOK /\ Claims => Order!OneTurnAtATime
  BY Parameters DEF TypeOK, Threads, Claims, TicketHeld, Has, Serving, StageOf,
     Order!OneTurnAtATime, Order!Holds
<1> QED
  BY <1>1, TypeCorrect, ClaimsHold, PTL

-------------------------------------------------------------------------------
\* The turns and their slots.

\* Each backend a turn may read on has one slot.
OneSlotReaders == \A t \in Turns : \A b \in Reads[t] : \E s \in AllSlots : SlotsOf[b] = {s}

\* From the slot to the end of the reply.
Held == Reading \cup {"genwait", "clear", "landing", "relay", "release"}

\* Where a turn has a slot handed to it on its generator.
Landing == {"clear", "landing"}

\* Until it is released, a turn's record is its own, on the backend that serves
\* it.  (A record the turn finds gone stays gone.)
RecordsServe ==
    \A t \in Turns : at[t].pc \in Held /\ HasPin(ConvOf[t]) =>
        /\ pins[ConvOf[t]].inflight
        /\ pins[ConvOf[t]].backend = at[t].serving

\* While a turn reads and until it lands, `using` is the slot it was given, or
\* was never noted.
UsingNoted ==
    \A t \in Turns : at[t].pc \in Held \ {"relay", "release"} /\ HasPin(ConvOf[t]) =>
        pins[ConvOf[t]].using \in {NoSlot, at[t].slot}

\* A slot on the generator stays handed until the turn has landed.
HandedOver == \A t \in Turns : at[t].pc \in Landing => at[t].free \in be[at[t].dst].handed

\* A turn reads where its path is read.
ReadsWhereItMay == \A t \in Turns : at[t].pc \in Reading => at[t].be \in Reads[t]

\* No record names a slot that another turn, past take_slot, has noted.
NoOtherClaims ==
    \A t \in Turns : \A d \in Convs \ {ConvOf[t]} :
        /\ at[t].pc \in Held \ {"park"}
        /\ HasPin(ConvOf[t]) /\ pins[ConvOf[t]].using # NoSlot
        /\ HasPin(d) /\ pins[d].backend = at[t].serving
        => pins[d].slot # pins[ConvOf[t]].using

\* (b, s) is t's: it reads there, was handed it, or noted it where it is served.
Owns(t, b, s) ==
    \/ at[t].pc \in Reading /\ at[t].be = b /\ at[t].slot = s
    \/ at[t].pc \in Landing /\ at[t].dst = b /\ at[t].free = s
    \/ /\ at[t].pc \in Held \ Reading /\ at[t].serving = b
       /\ HasPin(ConvOf[t]) /\ pins[ConvOf[t]].using = s

\* No slot is two turns'.
OneOwner ==
    \A b \in Backends, s \in AllSlots :
        \A t, u \in Turns : Owns(t, b, s) /\ Owns(u, b, s) => t = u

-------------------------------------------------------------------------------
\* What a step leaves of a record that is not its turn's.
RecKept(c) ==
    HasPin(c)' => /\ HasPin(c)
                  /\ pins'[c].inflight = pins[c].inflight
                  /\ pins'[c].backend = pins[c].backend
                  /\ pins'[c].using = pins[c].using
SlotKept(c) ==
    HasPin(c)' /\ pins'[c].slot # NoSlot =>
        HasPin(c) /\ pins'[c].slot = pins[c].slot /\ pins'[c].backend = pins[c].backend

\* What was handed stays handed, but for the slot t landed in.
HandedKept(t) ==
    \A b \in Backends :
        be[b].handed \ {s \in be[b].handed : at[t].pc \in Landing /\ at[t].dst = b /\ at[t].free = s}
            \subseteq be'[b].handed

OthersKept(t) ==
    /\ \A u \in Turns \ {t} : at'[u] = at[u]
    /\ \A c \in Convs \ {ConvOf[t]} : RecKept(c) /\ SlotKept(c)
    /\ HandedKept(t)

\* Counting a turn hands nothing over and takes nothing back.
LEMMA CountHanded ==
  ASSUME NEW B \in [Backends -> BackendStates], NEW b, NEW n, NEW x \in Backends
  PROVE  Count(B, b, n)[x].handed = B[x].handed
  BY DEF Count, BackendStates

\* A step of a turn leaves the records and places of the others alone.
LEMMA OthersKeep ==
  ASSUME TypeOK, NEW t \in Turns, TurnStep(t) \/ ClientLeaves(t)
  PROVE  OthersKept(t)
<1>0. /\ pins \in [Convs -> Pins \cup {NoPin}]
      /\ be \in [Backends -> BackendStates]
      /\ at \in [Turns -> Threads]
  BY DEF TypeOK
<1>u. ASSUME \A c \in Convs : pins'[c] = pins[c]
      PROVE  \A c \in Convs : RecKept(c) /\ SlotKept(c)
  BY <1>u DEF RecKept, SlotKept, HasPin
<1>p. ASSUME NEW b, ParkOne(t, b) PROVE OthersKept(t)
  <2>1. PICK c \in Convs : /\ HasPin(c) /\ pins' = [pins EXCEPT ![c].parking = TRUE]
                           /\ at' = [at EXCEPT ![t].tried = @ \cup {c}]
    BY <1>p DEF ParkOne, Oldest, OnlyInASlot
  <2>2. \A d \in Convs : RecKept(d) /\ SlotKept(d)
    BY <1>0, <2>1 DEF RecKept, SlotKept, HasPin, Pins
  <2> QED
    BY <1>0, <1>p, <2>1, <2>2 DEF ParkOne, OthersKept, HandedKept
<1>1. CASE Arrive(t)
  BY <1>0, <1>u, <1>1 DEF Arrive, OthersKept, HandedKept, Move, records
<1>2. CASE ClaimTurn(t)
  BY <1>0, <1>u, <1>2 DEF ClaimTurn, OthersKept, HandedKept, Move, records
<1>3. CASE LeaveQueue(t)
  BY <1>0, <1>u, <1>3 DEF LeaveQueue, OthersKept, HandedKept, Move, records
<1>4. CASE Spill(t)
  BY <1>0, <1>u, <1>4 DEF Spill, OthersKept, HandedKept, Move, records
<1>5. CASE Refuse(t)
  BY <1>0, <1>u, <1>5 DEF Refuse, OthersKept, HandedKept, Move, records
<1>61. CASE LeaveAcquire(t)
  BY <1>0, <1>u, <1>61 DEF LeaveAcquire, OthersKept, HandedKept, Move, records
<1>6. CASE Recall(t)
  BY <1>0, <1>u, <1>6 DEF Recall, OthersKept, HandedKept, Move, records
<1>62. CASE UnlinkForgotten(t)
  BY <1>0, <1>u, <1>62 DEF UnlinkForgotten, OthersKept, HandedKept, Move, records
<1>7. CASE RecallLost(t)
  BY <1>0, <1>u, <1>7 DEF RecallLost, OthersKept, HandedKept, Move, records
<1>8. CASE WarmPrefix(t)
  BY <1>0, <1>u, <1>8 DEF WarmPrefix, OthersKept, HandedKept, Move, records
<1>9. CASE ReadGone(t)
  BY <1>0, <1>u, <1>9 DEF ReadGone, OthersKept, HandedKept, Move, records
<1>10. CASE ReadFailed(t)
  BY <1>0, <1>u, <1>10 DEF ReadFailed, OthersKept, HandedKept, Move, records
<1>11. CASE Stay(t)
  BY <1>0, <1>u, <1>11 DEF Stay, OthersKept, HandedKept, Move, records
<1>12. CASE LeaveReader(t)
  BY <1>0, <1>u, <1>12 DEF LeaveReader, OthersKept, HandedKept, Move, records
<1>13. ASSUME NEW g \in Backends, CarrySave(t, g) PROVE OthersKept(t)
  BY <1>0, <1>u, <1>13 DEF CarrySave, OthersKept, HandedKept, Move, records
<1>14. CASE CarryNotSaved(t)
  BY <1>0, <1>u, <1>14 DEF CarryNotSaved, OthersKept, HandedKept, Move, records
<1>15. CASE LeaveParked(t)
  BY <1>0, <1>u, <1>15 DEF LeaveParked, OthersKept, HandedKept, Move, records
<1>16. CASE GenerateElsewhere(t)
  BY <1>0, <1>u, <1>16 DEF GenerateElsewhere, NoGenerator, OthersKept, HandedKept, Move, records
<1>17. CASE TargetCleared(t)
  BY <1>0, <1>u, <1>17 DEF TargetCleared, OthersKept, HandedKept, Move, records
<1>18. CASE Relay(t)
  BY <1>0, <1>u, <1>18 DEF Relay, OthersKept, HandedKept, Move, records
<1>19. CASE PartialOver(t)
  BY <1>0, <1>u, <1>19 DEF PartialOver, OthersKept, HandedKept, Move, records
<1>20. CASE FinishTurn(t)
  BY <1>0, <1>u, <1>20 DEF FinishTurn, OthersKept, HandedKept, Move, records
<1>21. CASE EnsureParked(t)
  BY <1>p, <1>21 DEF EnsureParked
<1>22. CASE TakeSlot(t)
  BY <1>0, <1>22 DEF TakeSlot, EndClaims, OthersKept, HandedKept, RecKept, SlotKept, HasPin,
     Pins, Move, records
<1>23. CASE ForgetStalePark(t)
  BY <1>0, <1>23 DEF ForgetStalePark, OthersKept, HandedKept, RecKept, SlotKept, HasPin, Pins,
     Move, records
<1>24. CASE Recalled(t)
  BY <1>0, <1>24 DEF Recalled, OthersKept, HandedKept, RecKept, SlotKept, HasPin, Pins, Move,
     records
<1>25. CASE RecallRejected(t)
  BY <1>0, <1>25 DEF RecallRejected, OthersKept, HandedKept, RecKept, SlotKept, HasPin, Pins,
     Move, records
<1>26. CASE ReadDone(t)
  BY <1>0, <1>26 DEF ReadDone, OthersKept, HandedKept, RecKept, SlotKept, HasPin, Pins, Move,
     records
<1>27. CASE ClearTarget(t)
  BY <1>p, <1>27 DEF ClearTarget
<1>28. CASE ParkPartial(t)
  BY <1>0, <1>28 DEF ParkPartial, OthersKept, HandedKept, RecKept, SlotKept, HasPin, Pins,
     Move, records
<1>29. CASE ParkLater(t)
  BY <1>0, <1>29 DEF ParkLater, OthersKept, HandedKept, RecKept, SlotKept, HasPin, Pins, Move,
     records
<1>30. ASSUME NEW b \in Backends, NEW s \in AllSlots, Take(t, b, s) PROVE OthersKept(t)
  <2>1. \A u \in Turns \ {t} : at'[u] = at[u]
    BY <1>0, <1>30 DEF Take
  <2>2. \A c \in Convs \ {ConvOf[t]} : RecKept(c) /\ SlotKept(c)
    BY <1>0, <1>30 DEF Take, RecKept, SlotKept, HasPin
  <2>3. HandedKept(t)
    BY <1>0, <1>30, CountHanded DEF Take, HandedKept
  <2> QED
    BY <2>1, <2>2, <2>3 DEF OthersKept
<1>31. CASE CarrySaved(t)
  BY <1>0, <1>u, <1>31, CountHanded DEF CarrySaved, OthersKept, HandedKept, records
<1>32. ASSUME NEW s \in AllSlots, GenerateSlot(t, s) PROVE OthersKept(t)
  <2> DEFINE B == Count(be, at[t].dst, 1)
  <2>1. B \in [Backends -> BackendStates] /\ be' = [B EXCEPT ![at[t].dst].handed = @ \cup {s}]
    BY <1>0, <1>32, CountTyped DEF GenerateSlot
  <2>2. \A b \in Backends : B[b].handed = be[b].handed
    BY <1>0, CountHanded
  <2> HIDE DEF B
  <2>3. \A b \in Backends : be[b].handed \subseteq be'[b].handed
    BY <2>1, <2>2 DEF BackendStates
  <2> QED
    BY <1>0, <1>u, <1>32, <2>3 DEF GenerateSlot, OthersKept, HandedKept, records
<1>33. CASE GenerateHere(t)
  BY <1>0, <1>u, <1>33, CountHanded DEF GenerateHere, OthersKept, HandedKept, records
<1>34. CASE Land(t)
  <2>1. \A u \in Turns \ {t} : at'[u] = at[u]
    BY <1>0, <1>34 DEF Land
  <2>2. \A c \in Convs \ {ConvOf[t]} : RecKept(c) /\ SlotKept(c)
    BY <1>0, <1>34 DEF Land, EndClaims, RecKept, SlotKept, HasPin, Pins
  <2>3. HandedKept(t)
    BY <1>0, <1>34 DEF Land, HandedKept, BackendStates, Landing
  <2> QED
    BY <2>1, <2>2, <2>3 DEF OthersKept
<1>35. CASE LandFailed(t)
  <2> DEFINE A == Count(be, at[t].dst, -1)
             B == Count(A, at[t].be, 1)
  <2>1. A \in [Backends -> BackendStates] /\ B \in [Backends -> BackendStates]
    BY <1>0, CountTyped
  <2>2. \A b \in Backends : B[b].handed = be[b].handed
    BY <1>0, <2>1, CountHanded
  <2>3. be' = [B EXCEPT ![at[t].dst].handed = @ \ {at[t].free}] /\ at[t].pc = "landing"
    BY <1>35 DEF LandFailed
  <2> HIDE DEF A, B
  <2>4. HandedKept(t)
    BY <2>1, <2>2, <2>3 DEF BackendStates, HandedKept, Landing
  <2> QED
    BY <1>0, <1>u, <1>35, <2>4 DEF LandFailed, OthersKept, records
<1>36. CASE Release(t)
  <2>1. \A c \in Convs \ {ConvOf[t]} : RecKept(c) /\ SlotKept(c)
    BY <1>0, <1>36 DEF Release, RecKept, SlotKept, HasPin
  <2>2. HandedKept(t)
    BY <1>0, <1>36, CountHanded DEF Release, HandedKept
  <2> QED
    BY <1>0, <1>36, <2>1, <2>2 DEF Release, Move, OthersKept
<1> QED
  BY <1>1, <1>62, <1>61, <1>2, <1>3, <1>4, <1>5, <1>6, <1>7, <1>8, <1>9, <1>10, <1>11, <1>12,
     <1>13, <1>14,
     <1>15, <1>16, <1>17, <1>18, <1>19, <1>20, <1>21, <1>22, <1>23, <1>24, <1>25, <1>26, <1>27,
     <1>28, <1>29, <1>30, <1>31, <1>32, <1>33, <1>34, <1>35, <1>36 DEF TurnStep, ClientLeaves

-------------------------------------------------------------------------------
\* What the slots of the turns rest on.
Accounts ==
    /\ IInv /\ Claims /\ ServesWhereItReads /\ BusyCounts
    /\ RecordsServe /\ UsingNoted /\ HandedOver /\ ReadsWhereItMay /\ NoOtherClaims /\ OneOwner

\* The part of it that this section is about.
Slots == RecordsServe /\ UsingNoted /\ HandedOver /\ ReadsWhereItMay /\ NoOtherClaims /\ OneOwner

\* A turn owns the slot its record has noted where it is served.
LEMMA OwnsNoted ==
  ASSUME ServesWhereItReads, UsingNoted, NEW t \in Turns, at[t].pc \in Held, HasPin(ConvOf[t]),
         pins[ConvOf[t]].using # NoSlot
  PROVE  Owns(t, at[t].serving, pins[ConvOf[t]].using)
<1>1. CASE at[t].pc \in Reading
  <2>1. at[t].serving = at[t].be /\ at[t].slot = pins[ConvOf[t]].using
    BY <1>1 DEF ServesWhereItReads, UsingNoted, Held, Reading
  <2> QED
    BY <1>1, <2>1 DEF Owns
<1>2. CASE at[t].pc \notin Reading
  BY <1>2 DEF Owns
<1> QED
  BY <1>1, <1>2

\* What a turn owns is a slot of a backend.
LEMMA OwnsSlots ==
  ASSUME IInv, NEW t \in Turns, NEW b, NEW s, Owns(t, b, s), s # NoSlot
  PROVE  b \in Backends /\ s \in AllSlots
<1>0. at[t] \in Threads /\ pins \in [Convs -> Pins \cup {NoPin}]
  BY DEF IInv, TypeOK
<1>1. CASE at[t].pc \in Reading /\ at[t].be = b /\ at[t].slot = s
  BY <1>1 DEF IInv, TurnsPlaced, Reading, Inside, TurnPcs
<1>2. CASE at[t].pc \in Landing /\ at[t].dst = b /\ at[t].free = s
  BY <1>2 DEF IInv, TurnsPlaced, Landing
<1>3. CASE /\ at[t].pc \in Held \ Reading /\ at[t].serving = b
           /\ HasPin(ConvOf[t]) /\ pins[ConvOf[t]].using = s
  <2>1. b \in Backends
    BY <1>3 DEF IInv, TurnsPlaced, Held, Reading, Inside, TurnPcs
  <2>2. pins[ConvOf[t]] \in Pins
    BY <1>0, <1>3 DEF HasPin
  <2>3. s \in AllSlots
    BY <1>3, <2>2 DEF Pins
  <2> QED
    BY <2>1, <2>3
<1> QED
  BY <1>1, <1>2, <1>3 DEF Owns

\* Two turns that have slots are not of one conversation.
LEMMA HeldApart ==
  ASSUME Claims, NEW t \in Turns, NEW u \in Turns \ {t}, at[t].pc \in Serving, at[u].pc \in Held,
         ConvOf[u] \in Convs
  PROVE  ConvOf[u] # ConvOf[t]
<1>1. at[u].pc \in Serving
  BY DEF Held, Reading, Serving, TurnPcs
<1> QED
  BY <1>1 DEF Claims, TicketHeld, Has

\* A turn whose conversation the step is not of keeps its record.
LEMMA Undisturbed ==
  ASSUME Claims, NEW t \in Turns, OthersKept(t),
         ConvOf[t] \in Convs => at[t].pc \in Serving \/ RecKept(ConvOf[t]),
         NEW u \in Turns \ {t}, at'[u].pc \in Held
  PROVE  /\ at'[u] = at[u]
         /\ HasPin(ConvOf[u])' => RecKept(ConvOf[u]) /\ HasPin(ConvOf[u])
         /\ \A b, s : Owns(u, b, s)' => Owns(u, b, s)
<1>1. at'[u] = at[u]
  BY DEF OthersKept
<1>2. HasPin(ConvOf[u])' => RecKept(ConvOf[u]) /\ HasPin(ConvOf[u])
  <2>1. SUFFICES ASSUME HasPin(ConvOf[u])' PROVE RecKept(ConvOf[u])
    BY DEF RecKept
  <2>2. ConvOf[u] \in Convs
    BY <2>1 DEF HasPin
  <2>3. CASE ConvOf[u] = ConvOf[t]
    BY <1>1, <2>2, <2>3, HeldApart
  <2>4. CASE ConvOf[u] # ConvOf[t]
    BY <2>2, <2>4 DEF OthersKept
  <2> QED
    BY <2>3, <2>4
<1>3. \A b, s : Owns(u, b, s)' => Owns(u, b, s)
  BY <1>1, <1>2 DEF Owns, RecKept
<1> QED
  BY <1>1, <1>2, <1>3

\* What the step must do for its own turn.
OwnKept(t) ==
    /\ at'[t].pc \in Held /\ HasPin(ConvOf[t])' =>
           pins'[ConvOf[t]].inflight /\ pins'[ConvOf[t]].backend = at'[t].serving
    /\ at'[t].pc \in Held \ {"relay", "release"} /\ HasPin(ConvOf[t])' =>
           pins'[ConvOf[t]].using \in {NoSlot, at'[t].slot}
    /\ at'[t].pc \in Landing => at'[t].free \in be'[at'[t].dst].handed
    /\ at'[t].pc \in Reading => at'[t].be \in Reads[t]

\* A slot that becomes its turn's was nobody's.
OwnsNew(t) ==
    \A b \in Backends, s \in AllSlots :
        Owns(t, b, s)' => Owns(t, b, s) \/ \A u \in Turns \ {t} : ~Owns(u, b, s)

\* Past take_slot no other record names what its turn has noted.
OwnClaims(t) ==
    \A d \in Convs \ {ConvOf[t]} :
        /\ at'[t].pc \in Held \ {"park"}
        /\ HasPin(ConvOf[t])' /\ pins'[ConvOf[t]].using # NoSlot
        /\ HasPin(d)' /\ pins'[d].backend = at'[t].serving
        => pins'[d].slot # pins'[ConvOf[t]].using

\* A slot its record comes to name is nobody else's.
OwnSlot(t) ==
    ConvOf[t] \in Convs =>
        \/ SlotKept(ConvOf[t])
        \/ pins'[ConvOf[t]].slot = NoSlot
        \/ \A u \in Turns \ {t} : ~Owns(u, pins'[ConvOf[t]].backend, pins'[ConvOf[t]].slot)

\* With these, the slots stay in order.
LEMMA SlotsStep ==
  ASSUME IInv, Claims, ServesWhereItReads, Slots, NEW t \in Turns, OthersKept(t),
         ConvOf[t] \in Convs => at[t].pc \in Serving \/ RecKept(ConvOf[t]),
         OwnKept(t), OwnsNew(t), OwnClaims(t), OwnSlot(t)
  PROVE  Slots'
<1>1. ASSUME NEW u \in Turns \ {t}, at'[u].pc \in Held
      PROVE  /\ at'[u] = at[u]
             /\ HasPin(ConvOf[u])' => RecKept(ConvOf[u]) /\ HasPin(ConvOf[u])
             /\ \A b, s : Owns(u, b, s)' => Owns(u, b, s)
  BY <1>1, Undisturbed
<1>2. RecordsServe'
  <2> SUFFICES ASSUME NEW u \in Turns, at'[u].pc \in Held, HasPin(ConvOf[u])'
               PROVE  pins'[ConvOf[u]].inflight /\ pins'[ConvOf[u]].backend = at'[u].serving
    BY DEF RecordsServe
  <2>1. CASE u = t
    BY <2>1 DEF OwnKept
  <2>2. CASE u # t
    BY <1>1, <2>2 DEF Slots, RecordsServe, RecKept
  <2> QED
    BY <2>1, <2>2
<1>3. UsingNoted'
  <2> SUFFICES ASSUME NEW u \in Turns, at'[u].pc \in Held \ {"relay", "release"},
                      HasPin(ConvOf[u])'
               PROVE  pins'[ConvOf[u]].using \in {NoSlot, at'[u].slot}
    BY DEF UsingNoted
  <2>1. CASE u = t
    BY <2>1 DEF OwnKept
  <2>2. CASE u # t
    BY <1>1, <2>2 DEF Slots, UsingNoted, RecKept
  <2> QED
    BY <2>1, <2>2
<1>4. HandedOver'
  <2> SUFFICES ASSUME NEW u \in Turns, at'[u].pc \in Landing
               PROVE  at'[u].free \in be'[at'[u].dst].handed
    BY DEF HandedOver
  <2>1. CASE u = t
    BY <2>1 DEF OwnKept
  <2>2. CASE u # t
    <3>1. at'[u] = at[u] /\ at[u].pc \in Landing
      BY <2>2 DEF OthersKept
    <3>2. at[u].free \in be[at[u].dst].handed /\ at[u].dst \in Backends /\ at[u].free \in AllSlots
      BY <3>1 DEF Slots, HandedOver, IInv, TurnsPlaced, Landing
    <3>3. ~(at[t].pc \in Landing /\ at[t].dst = at[u].dst /\ at[t].free = at[u].free)
      BY <2>2, <3>1, <3>2 DEF Slots, OneOwner, Owns
    <3> QED
      BY <3>1, <3>2, <3>3 DEF OthersKept, HandedKept
  <2> QED
    BY <2>1, <2>2
<1>5. ReadsWhereItMay'
  BY DEF Slots, ReadsWhereItMay, OwnKept, OthersKept
<1>6. NoOtherClaims'
  <2> SUFFICES ASSUME NEW u \in Turns, NEW d \in Convs \ {ConvOf[u]},
                      at'[u].pc \in Held \ {"park"}, HasPin(ConvOf[u])',
                      pins'[ConvOf[u]].using # NoSlot, HasPin(d)',
                      pins'[d].backend = at'[u].serving
               PROVE  pins'[d].slot # pins'[ConvOf[u]].using
    BY DEF NoOtherClaims
  <2>1. CASE u = t
    BY <2>1 DEF OwnClaims
  <2>2. CASE u # t
    <3>1. /\ at'[u] = at[u] /\ HasPin(ConvOf[u])
          /\ pins'[ConvOf[u]].using = pins[ConvOf[u]].using
      BY <1>1, <2>2 DEF RecKept
    <3>2. CASE SlotKept(d)
      BY <3>1, <3>2 DEF SlotKept, Slots, NoOtherClaims
    <3>3. CASE ~SlotKept(d)
      <4>1. d = ConvOf[t]
        BY <3>3 DEF OthersKept
      <4>2. Owns(u, at[u].serving, pins[ConvOf[u]].using)
        BY <3>1, OwnsNoted DEF Slots
      <4> QED
        BY <2>2, <3>1, <3>3, <4>1, <4>2 DEF OwnSlot
    <3> QED
      BY <3>2, <3>3
  <2> QED
    BY <2>1, <2>2
<1>7. OneOwner'
  <2> SUFFICES ASSUME NEW b \in Backends, NEW s \in AllSlots, NEW u \in Turns, NEW v \in Turns,
                      Owns(u, b, s)', Owns(v, b, s)', u # v
               PROVE  FALSE
    BY DEF OneOwner
  <2>1. \A w \in Turns \ {t} : Owns(w, b, s)' => Owns(w, b, s)
    <3> SUFFICES ASSUME NEW w \in Turns \ {t}, Owns(w, b, s)' PROVE Owns(w, b, s)
      OBVIOUS
    <3>1. at'[w].pc \in Held
      BY DEF Owns, Held, Landing
    <3> QED
      BY <1>1, <3>1
  <2>2. ~(Owns(u, b, s) /\ Owns(v, b, s))
    BY DEF Slots, OneOwner
  <2>3. CASE u # t /\ v # t
    BY <2>1, <2>2, <2>3
  <2>4. CASE u = t
    BY <2>1, <2>2, <2>4 DEF OwnsNew
  <2>5. CASE v = t
    BY <2>1, <2>2, <2>5 DEF OwnsNew
  <2> QED
    BY <2>3, <2>4, <2>5
<1> QED
  BY <1>2, <1>3, <1>4, <1>5, <1>6, <1>7 DEF Slots

-------------------------------------------------------------------------------
\* The steps before a turn has a slot, and after it let go.
OutStep(t) ==
    \/ Arrive(t) \/ ClaimTurn(t) \/ LeaveQueue(t) \/ Spill(t) \/ Refuse(t) \/ LeaveAcquire(t)
    \/ LeaveParked(t) \/ Release(t) \/ ParkPartial(t) \/ PartialOver(t)
    \/ ParkLater(t) \/ FinishTurn(t)

\* They leave the turn without a slot, and its record with the slot it had.
LEMMA OutSteps ==
  ASSUME TypeOK, NEW t \in Turns, OutStep(t)
  PROVE  /\ at'[t].pc \notin Held
         /\ ConvOf[t] \in Convs =>
                SlotKept(ConvOf[t]) /\ (at[t].pc \in Serving \/ RecKept(ConvOf[t]))
<1> DEFINE Goal == /\ at'[t].pc \notin Held
                   /\ ConvOf[t] \in Convs =>
                        SlotKept(ConvOf[t]) /\ (at[t].pc \in Serving \/ RecKept(ConvOf[t]))
<1>0. /\ pins \in [Convs -> Pins \cup {NoPin}] /\ at \in [Turns -> Threads] /\ at[t] \in Threads
      /\ Over.pc = "done"
  BY DEF TypeOK, Over, IdleTurn
<1>1. CASE Arrive(t)
  BY <1>0, <1>1 DEF Arrive, Held, Reading, Serving, TurnPcs, SlotKept, RecKept, HasPin, Pins,
     Threads, Move, records
<1>2. CASE ClaimTurn(t)
  BY <1>0, <1>2 DEF ClaimTurn, Held, Reading, Serving, TurnPcs, SlotKept, RecKept, HasPin,
     Pins, Threads, Move, records
<1>3. CASE LeaveQueue(t)
  BY <1>0, <1>3 DEF LeaveQueue, Held, Reading, Serving, TurnPcs, SlotKept, RecKept, HasPin,
     Pins, Threads, Move, records
<1>4. CASE Spill(t)
  BY <1>0, <1>4 DEF Spill, Held, Reading, Serving, TurnPcs, SlotKept, RecKept, HasPin, Pins,
     Threads, Move, records
<1>5. CASE Refuse(t)
  BY <1>0, <1>5 DEF Refuse, Held, Reading, Serving, TurnPcs, SlotKept, RecKept, HasPin, Pins,
     Threads, Move, records
<1>61. CASE LeaveAcquire(t)
  BY <1>0, <1>61 DEF LeaveAcquire, Held, Reading, Serving, TurnPcs, SlotKept, RecKept, HasPin,
     Pins,
     Threads, Move, records
<1>6. CASE LeaveParked(t)
  BY <1>0, <1>6 DEF LeaveParked, Held, Reading, Serving, TurnPcs, SlotKept, RecKept, HasPin,
     Pins, Threads, Move, records
<1>7. CASE Release(t)
  BY <1>0, <1>7 DEF Release, Held, Reading, Serving, TurnPcs, SlotKept, RecKept, HasPin, Pins,
     Threads, Move, records
<1>8. CASE ParkPartial(t)
  BY <1>0, <1>8 DEF ParkPartial, Partial, Held, Reading, Serving, TurnPcs, SlotKept, RecKept,
     HasPin, Pins, Threads, Move, records
<1>9. CASE PartialOver(t)
  BY <1>0, <1>9 DEF PartialOver, Held, Reading, Serving, TurnPcs, SlotKept, RecKept, HasPin,
     Pins, Threads, Move, records
<1>10. CASE ParkLater(t)
  BY <1>0, <1>10 DEF ParkLater, Leaves, Held, Reading, Serving, TurnPcs, SlotKept, RecKept,
     HasPin, Pins, Threads, Move, records
<1>11. CASE FinishTurn(t)
  BY <1>0, <1>11 DEF FinishTurn, Held, Reading, Serving, TurnPcs, SlotKept, RecKept, HasPin,
     Pins, Threads, Move, records
<1> QED
  BY <1>1, <1>61, <1>2, <1>3, <1>4, <1>5, <1>6, <1>7, <1>8, <1>9, <1>10, <1>11 DEF OutStep

\* So the slots stay in order.
LEMMA SlotsOut ==
  ASSUME IInv, Claims, ServesWhereItReads, Slots, NEW t \in Turns, OutStep(t)
  PROVE  Slots'
<1>1. OthersKept(t)
  BY OthersKeep DEF OutStep, TurnStep, ClientLeaves, IInv
<1>2. /\ at'[t].pc \notin Held
      /\ ConvOf[t] \in Convs =>
             SlotKept(ConvOf[t]) /\ (at[t].pc \in Serving \/ RecKept(ConvOf[t]))
  BY OutSteps DEF IInv
<1>3. OwnKept(t) /\ OwnClaims(t) /\ OwnSlot(t)
  BY <1>2 DEF OwnKept, OwnClaims, OwnSlot, Held, Landing, Reading
<1>4. OwnsNew(t)
  BY <1>2 DEF OwnsNew, Owns, Held, Landing, Reading
<1> QED
  BY <1>1, <1>2, <1>3, <1>4, SlotsStep

\* The steps of a turn in the slots it has.
InStep(t) ==
    \/ EnsureParked(t) \/ ForgetStalePark(t)
    \/ Recall(t) \/ Recalled(t) \/ RecallRejected(t) \/ RecallLost(t) \/ UnlinkForgotten(t)
    \/ WarmPrefix(t)
    \/ ReadDone(t) \/ ReadGone(t) \/ ReadFailed(t) \/ Stay(t) \/ LeaveReader(t)
    \/ \E g \in Backends : CarrySave(t, g)
    \/ CarrySaved(t) \/ CarryNotSaved(t) \/ GenerateHere(t) \/ GenerateElsewhere(t)
    \/ ClearTarget(t) \/ TargetCleared(t) \/ LandFailed(t) \/ Relay(t)

\* Where such a step leaves its turn.
Within(t) ==
    /\ at[t].pc \in Held /\ at'[t].pc \in Held
    /\ at'[t].be = at[t].be /\ at'[t].slot = at[t].slot /\ at'[t].serving = at[t].serving
    /\ at'[t].pc \in Reading => at[t].pc \in Reading
    /\ at'[t].pc \in Landing =>
           at[t].pc \in Landing /\ at'[t].dst = at[t].dst /\ at'[t].free = at[t].free
    /\ at[t].pc = "park" => at'[t].pc = "park"
    /\ at[t].pc \in {"relay", "release"} => at'[t].pc \in {"relay", "release"}

\* And its record: as it was, or with the slot it reads in.
OwnRecord(t) ==
    ConvOf[t] \in Convs =>
        /\ RecKept(ConvOf[t])
        /\ \/ SlotKept(ConvOf[t])
           \/ /\ at[t].pc \in Reading
              /\ pins'[ConvOf[t]].slot = at[t].slot
              /\ HasPin(ConvOf[t])' => pins'[ConvOf[t]].backend = at[t].be

\* They stay within.
LEMMA InSteps ==
  ASSUME TypeOK, ServesWhereItReads, RecordsServe, NEW t \in Turns, InStep(t)
  PROVE  Within(t) /\ OwnRecord(t)
<1>0. /\ pins \in [Convs -> Pins \cup {NoPin}] /\ at \in [Turns -> Threads] /\ at[t] \in Threads
  BY DEF TypeOK
<1>r. at[t].pc \in Reading /\ HasPin(ConvOf[t]) => pins[ConvOf[t]].backend = at[t].be
  BY DEF ServesWhereItReads, RecordsServe, Held
<1>u. (\A c \in Convs : pins'[c] = pins[c]) => OwnRecord(t)
  BY DEF OwnRecord, RecKept, SlotKept, HasPin
<1>p. ASSUME NEW b, ParkOne(t, b), at[t].pc \in {"park", "clear"} PROVE Within(t) /\ OwnRecord(t)
  <2>1. PICK c \in Convs : /\ HasPin(c) /\ pins' = [pins EXCEPT ![c].parking = TRUE]
                           /\ at' = [at EXCEPT ![t].tried = @ \cup {c}]
    BY <1>p DEF ParkOne, Oldest, OnlyInASlot
  <2>2. \A d \in Convs : RecKept(d) /\ SlotKept(d)
    BY <1>0, <2>1 DEF RecKept, SlotKept, HasPin, Pins
  <2>3. Within(t)
    BY <1>0, <1>p, <2>1 DEF Within, Held, Reading, Landing, Threads
  <2> QED
    BY <2>2, <2>3 DEF OwnRecord
<1>1. CASE EnsureParked(t)
  BY <1>p, <1>1 DEF EnsureParked
<1>2. CASE ForgetStalePark(t)
  <2>1. Within(t)
    BY <1>0, <1>2 DEF ForgetStalePark, Within, Held, Reading, Landing, Threads, Move
  <2>2. OwnRecord(t)
    <3> SUFFICES ASSUME ConvOf[t] \in Convs, ~(\A c \in Convs : pins'[c] = pins[c])
                 PROVE  OwnRecord(t)
      BY <1>u DEF OwnRecord
    <3>1. /\ HasPin(ConvOf[t])
          /\ pins'[ConvOf[t]] = [pins[ConvOf[t]] EXCEPT !.parked = FALSE, !.slot = NoSlot]
      BY <1>0, <1>2 DEF ForgetStalePark
    <3>2. pins[ConvOf[t]] \in Pins /\ at[t].pc \in Reading
      BY <1>0, <1>2, <3>1 DEF ForgetStalePark, HasPin, Reading
    <3> QED
      BY <1>r, <3>1, <3>2 DEF OwnRecord, RecKept, SlotKept, HasPin, Pins
  <2> QED
    BY <2>1, <2>2
<1>3. CASE Recall(t)
  BY <1>0, <1>u, <1>3 DEF Recall, Within, Held, Reading, Landing, Threads, Move, records
<1>62. CASE UnlinkForgotten(t)
  BY <1>0, <1>u, <1>62 DEF UnlinkForgotten, Within, Held, Reading, Landing, Threads, Move, records
<1>4. CASE Recalled(t)
  <2>1. Within(t)
    BY <1>0, <1>4 DEF Recalled, AfterWarm, Within, Held, Reading, Landing, Threads, Move
  <2>2. OwnRecord(t)
    <3> SUFFICES ASSUME ConvOf[t] \in Convs, ~(\A c \in Convs : pins'[c] = pins[c])
                 PROVE  OwnRecord(t)
      BY <1>u DEF OwnRecord
    <3>1. /\ HasPin(ConvOf[t])
          /\ pins'[ConvOf[t]] = [pins[ConvOf[t]] EXCEPT !.backend = at[t].be, !.slot = at[t].slot]
      BY <1>0, <1>4 DEF Recalled
    <3>2. pins[ConvOf[t]] \in Pins /\ at[t].pc \in Reading
      BY <1>0, <1>4, <3>1 DEF Recalled, HasPin, Reading
    <3> QED
      BY <1>r, <3>1, <3>2 DEF OwnRecord, RecKept, SlotKept, HasPin, Pins
  <2> QED
    BY <2>1, <2>2
<1>5. CASE RecallRejected(t)
  <2>1. Within(t)
    BY <1>0, <1>5 DEF RecallRejected, Within, Held, Reading, Landing, Threads, Move
  <2>2. OwnRecord(t)
    <3> SUFFICES ASSUME ConvOf[t] \in Convs, ~(\A c \in Convs : pins'[c] = pins[c])
                 PROVE  OwnRecord(t)
      BY <1>u DEF OwnRecord
    <3>1. /\ HasPin(ConvOf[t])
          /\ pins'[ConvOf[t]] = [pins[ConvOf[t]] EXCEPT !.parked = FALSE]
      BY <1>0, <1>5 DEF RecallRejected
    <3>2. pins[ConvOf[t]] \in Pins /\ at[t].pc \in Reading
      BY <1>0, <1>5, <3>1 DEF RecallRejected, HasPin, Reading
    <3> QED
      BY <1>r, <3>1, <3>2 DEF OwnRecord, RecKept, SlotKept, HasPin, Pins
  <2> QED
    BY <2>1, <2>2
<1>6. CASE RecallLost(t)
  BY <1>0, <1>u, <1>6 DEF RecallLost, Within, Held, Reading, Landing, Threads, Move, records
<1>7. CASE WarmPrefix(t)
  BY <1>0, <1>u, <1>7 DEF WarmPrefix, AfterWarm, Within, Held, Reading, Landing, Threads, Move,
     records
<1>8. CASE ReadDone(t)
  <2>1. Within(t)
    BY <1>0, <1>8 DEF ReadDone, Within, Held, Reading, Landing, Threads, Move
  <2>2. OwnRecord(t)
    <3> SUFFICES ASSUME ConvOf[t] \in Convs, ~(\A c \in Convs : pins'[c] = pins[c])
                 PROVE  OwnRecord(t)
      BY <1>u DEF OwnRecord
    <3>1. /\ HasPin(ConvOf[t])
          /\ pins'[ConvOf[t]] = [pins[ConvOf[t]] EXCEPT !.slot = at[t].slot]
      BY <1>0, <1>8 DEF ReadDone
    <3>2. pins[ConvOf[t]] \in Pins /\ at[t].pc \in Reading
      BY <1>0, <1>8, <3>1 DEF ReadDone, HasPin, Reading
    <3> QED
      BY <1>r, <3>1, <3>2 DEF OwnRecord, RecKept, SlotKept, HasPin, Pins
  <2> QED
    BY <2>1, <2>2
<1>9. CASE ReadGone(t)
  BY <1>0, <1>u, <1>9 DEF ReadGone, Within, Held, Reading, Landing, Threads, Move, records
<1>10. CASE ReadFailed(t)
  BY <1>0, <1>u, <1>10 DEF ReadFailed, Within, Held, Reading, Landing, Threads, Move, records
<1>11. CASE Stay(t)
  BY <1>0, <1>u, <1>11 DEF Stay, Within, Held, Reading, Landing, Threads, Move, records
<1>12. CASE LeaveReader(t)
  BY <1>0, <1>u, <1>12 DEF LeaveReader, Within, Held, Reading, Landing, Threads, Move, records
<1>13. ASSUME NEW g \in Backends, CarrySave(t, g) PROVE Within(t) /\ OwnRecord(t)
  BY <1>0, <1>u, <1>13 DEF CarrySave, Within, Held, Reading, Landing, Threads, Move, records
<1>14. CASE CarrySaved(t)
  BY <1>0, <1>u, <1>14 DEF CarrySaved, Within, Held, Reading, Landing, Threads, Move, records
<1>15. CASE CarryNotSaved(t)
  BY <1>0, <1>u, <1>15 DEF CarryNotSaved, Within, Held, Reading, Landing, Threads, Move, records
<1>16. CASE GenerateHere(t)
  BY <1>0, <1>u, <1>16 DEF GenerateHere, NoGenerator, Within, Held, Reading, Landing, Threads,
     Move, records
<1>17. CASE GenerateElsewhere(t)
  BY <1>0, <1>u, <1>17 DEF GenerateElsewhere, NoGenerator, Within, Held, Reading, Landing,
     Threads, Move, records
<1>18. CASE ClearTarget(t)
  BY <1>p, <1>18 DEF ClearTarget
<1>19. CASE TargetCleared(t)
  BY <1>0, <1>u, <1>19 DEF TargetCleared, Within, Held, Reading, Landing, Threads, Move, records
<1>20. CASE LandFailed(t)
  BY <1>0, <1>u, <1>20 DEF LandFailed, Within, Held, Reading, Landing, Threads, Move, records
<1>21. CASE Relay(t)
  BY <1>0, <1>u, <1>21 DEF Relay, Within, Held, Reading, Landing, Threads, Move, records
<1> QED
  BY <1>1, <1>62, <1>2, <1>3, <1>4, <1>5, <1>6, <1>7, <1>8, <1>9, <1>10, <1>11, <1>12, <1>13, <1>14,
     <1>15, <1>16, <1>17, <1>18, <1>19, <1>20, <1>21 DEF InStep

\* A turn on its way to its generator keeps what it was handed there.
LEMMA HandedIn ==
  ASSUME TypeOK, NEW t \in Turns, Within(t), InStep(t), at'[t].pc \in Landing
  PROVE  be' = be
<1>0. at \in [Turns -> Threads] /\ at[t] \in Threads /\ at[t].pc \in {"clear", "landing"}
  BY DEF TypeOK, Within, Landing
<1>1. CASE LandFailed(t)
  BY <1>0, <1>1 DEF LandFailed, Landing, Threads
<1>2. CASE EnsureParked(t) \/ ClearTarget(t)
  BY <1>2 DEF EnsureParked, ClearTarget, ParkOne
<1>3. CASE TargetCleared(t)
  BY <1>3 DEF TargetCleared
<1>4. ~CarrySaved(t) /\ ~GenerateHere(t)
  BY <1>0 DEF CarrySaved, GenerateHere, NoGenerator
<1> QED
  BY <1>1, <1>2, <1>3, <1>4 DEF InStep, ForgetStalePark, Recall, Recalled, RecallRejected,
     RecallLost, UnlinkForgotten, WarmPrefix, ReadDone, ReadGone, ReadFailed, Stay, LeaveReader,
     CarrySave,
     CarryNotSaved, GenerateElsewhere, Relay

\* So the slots stay in order.
LEMMA SlotsIn ==
  ASSUME IInv, Claims, ServesWhereItReads, Slots, NEW t \in Turns, InStep(t)
  PROVE  Slots'
<1>1. OthersKept(t)
  BY OthersKeep DEF InStep, TurnStep, ClientLeaves, IInv
<1>2. Within(t) /\ OwnRecord(t)
  BY InSteps DEF IInv, Slots
<1>3. HasPin(ConvOf[t])' => RecKept(ConvOf[t]) /\ HasPin(ConvOf[t])
  BY <1>2 DEF OwnRecord, RecKept, HasPin
<1>4. OwnsNew(t)
  <2> SUFFICES ASSUME NEW b \in Backends, NEW s \in AllSlots, Owns(t, b, s)'
               PROVE  Owns(t, b, s)
    BY DEF OwnsNew
  <2>1. CASE \/ at'[t].pc \in Reading /\ at'[t].be = b /\ at'[t].slot = s
             \/ at'[t].pc \in Landing /\ at'[t].dst = b /\ at'[t].free = s
    BY <1>2, <2>1 DEF Owns, Within
  <2>2. CASE /\ at'[t].pc \in Held \ Reading /\ at'[t].serving = b
             /\ HasPin(ConvOf[t])' /\ pins'[ConvOf[t]].using = s
    <3>1. /\ HasPin(ConvOf[t]) /\ pins[ConvOf[t]].using = s /\ at[t].serving = b
          /\ at[t].pc \in Held
      BY <1>2, <1>3, <2>2 DEF Within, RecKept
    <3>2. s # NoSlot
      BY Parameters DEF AllSlots
    <3> QED
      BY <3>1, <3>2, OwnsNoted DEF Slots
  <2> QED
    BY <2>1, <2>2 DEF Owns
<1>5. OwnKept(t)
  <2>1. at'[t].pc \in Landing => at'[t].free \in be'[at'[t].dst].handed
    BY <1>2, HandedIn DEF Within, Slots, HandedOver, IInv
  <2>2. at'[t].pc \in Held /\ HasPin(ConvOf[t])' =>
            pins'[ConvOf[t]].inflight /\ pins'[ConvOf[t]].backend = at'[t].serving
    BY <1>2, <1>3 DEF Within, Slots, RecordsServe, RecKept
  <2>3. at'[t].pc \in Held \ {"relay", "release"} /\ HasPin(ConvOf[t])' =>
            pins'[ConvOf[t]].using \in {NoSlot, at'[t].slot}
    BY <1>2, <1>3 DEF Within, Slots, UsingNoted, RecKept
  <2>4. at'[t].pc \in Reading => at'[t].be \in Reads[t]
    BY <1>2 DEF Within, Slots, ReadsWhereItMay
  <2> QED
    BY <2>1, <2>2, <2>3, <2>4 DEF OwnKept
<1>6. OwnClaims(t)
  <2> SUFFICES ASSUME NEW d \in Convs \ {ConvOf[t]}, at'[t].pc \in Held \ {"park"},
                      HasPin(ConvOf[t])', pins'[ConvOf[t]].using # NoSlot,
                      HasPin(d)', pins'[d].backend = at'[t].serving,
                      pins'[d].slot = pins'[ConvOf[t]].using
               PROVE  FALSE
    BY DEF OwnClaims
  <2>1. HasPin(d) /\ pins[d].slot = pins'[d].slot /\ pins[d].backend = pins'[d].backend
    BY <1>1 DEF OthersKept, SlotKept
  <2>2. at[t].pc \in Held \ {"park"} /\ at'[t].serving = at[t].serving
    BY <1>2 DEF Within
  <2> QED
    BY <1>3, <2>1, <2>2 DEF RecKept, Slots, NoOtherClaims
<1>7. OwnSlot(t)
  <2> SUFFICES ASSUME ConvOf[t] \in Convs, ~SlotKept(ConvOf[t])
               PROVE  \A u \in Turns \ {t} :
                          ~Owns(u, pins'[ConvOf[t]].backend, pins'[ConvOf[t]].slot)
    BY DEF OwnSlot
  <2>1. /\ at[t].pc \in Reading
        /\ pins'[ConvOf[t]].slot = at[t].slot /\ pins'[ConvOf[t]].backend = at[t].be
    BY <1>2 DEF OwnRecord, SlotKept
  <2>2. at[t].be \in Backends /\ at[t].slot \in AllSlots
    BY <2>1 DEF IInv, TurnsPlaced, Reading, Inside, TurnPcs
  <2>3. Owns(t, at[t].be, at[t].slot)
    BY <2>1 DEF Owns
  <2> QED
    BY <2>1, <2>2, <2>3 DEF Slots, OneOwner
<1> QED
  BY <1>1, <1>2, <1>4, <1>5, <1>6, <1>7, SlotsStep DEF OwnRecord

-------------------------------------------------------------------------------
\* A backend without a count has no turn that counts on it.
LEMMA NoneCounted ==
  ASSUME BusyCounts, NEW b \in Backends, be[b].busy < 1, NEW u \in Turns
  PROVE  ~Counted(u, b)
<1>1. IsFiniteSet(CountedOn(b)) /\ be[b].busy = Cardinality(CountedOn(b))
  BY DEF BusyCounts
<1>2. Cardinality(CountedOn(b)) \in Nat
  BY <1>1, FS_CardinalityType
<1>3. Cardinality(CountedOn(b)) = 0
  BY <1>1, <1>2
<1>4. CountedOn(b) = {}
  BY <1>1, <1>3, FS_EmptySet
<1> QED
  BY <1>4 DEF CountedOn

\* What a turn that does not count on b owns there, its record has noted.
LEMMA OwnsUncounted ==
  ASSUME RecordsServe, NEW u \in Turns, NEW b, NEW s, Owns(u, b, s), ~Counted(u, b)
  PROVE  /\ at[u].pc \in Held \ Reading /\ at[u].serving = b
         /\ HasPin(ConvOf[u]) /\ pins[ConvOf[u]].using = s
         /\ pins[ConvOf[u]].inflight /\ pins[ConvOf[u]].backend = b
<1>1. /\ at[u].pc \in Held \ Reading /\ at[u].serving = b
      /\ HasPin(ConvOf[u]) /\ pins[ConvOf[u]].using = s
  BY DEF Owns, Counted, Reading, Landing
<1> QED
  BY <1>1 DEF RecordsServe

\* And it is among the slots of turns.
LEMMA NotedIsTurns ==
  ASSUME NEW u \in Turns, NEW b, NEW c, HasPin(ConvOf[u]), ConvOf[u] # c,
         pins[ConvOf[u]].inflight, pins[ConvOf[u]].backend = b,
         pins[ConvOf[u]].using # NoSlot
  PROVE  pins[ConvOf[u]].using \in TurnSlots(b, c)
<1>1. ConvOf[u] \in {d \in Convs \ {c} : HasPin(d) /\ pins[d].inflight /\ pins[d].backend = b}
  BY DEF HasPin
<1> QED
  BY <1>1 DEF TurnSlots

\* A backend that can take a turn it has one slot for counts none.
LEMMA UsableIsIdle ==
  ASSUME TypeOK, NEW b \in Backends, NEW n, Usable(b, n), NEW s, SlotsOf[b] = {s}
  PROVE  be[b].busy < 1
<1>1. Cardinality(SlotsOf[b]) = 1
  BY FS_Singleton
<1>2. IsFiniteSet(Saving(b) \ TurnSlots(b, NoConv))
  <2>1. IsFiniteSet(SlotsOf[b]) /\ Saving(b) \ TurnSlots(b, NoConv) \subseteq SlotsOf[b]
    BY FS_Singleton DEF Saving
  <2> QED
    BY <2>1, FS_Subset
<1>3. Cardinality(Saving(b) \ TurnSlots(b, NoConv)) \in Nat
  BY <1>2, FS_CardinalityType
<1>4. be[b].busy \in Int
  BY DEF TypeOK, BackendStates
<1>5. be[b].busy + Cardinality(Saving(b) \ TurnSlots(b, NoConv)) < 1
  BY <1>1 DEF Usable
<1> QED
  BY <1>3, <1>4, <1>5

\* acquire takes a slot nobody has: none counts on the backend, and what the
\* records have noted pick_slot passes over.
LEMMA TakesFree ==
  ASSUME Accounts, OneSlotReaders, NEW t \in Turns, NEW b \in Backends, NEW s \in AllSlots,
         Take(t, b, s)
  PROVE  b \in Reads[t] /\ \A u \in Turns \ {t} : ~Owns(u, b, s)
<1>1. /\ at[t].pc = "acquire" /\ b \in Reads[t]
      /\ Usable(b, Size[t]) /\ s \in PickSlot(b, ConvOf[t])
  BY DEF Take, Offers, Pinned
<1>2. PICK x \in AllSlots : SlotsOf[b] = {x}
  BY <1>1 DEF OneSlotReaders
<1>3. be[b].busy < 1
  BY <1>1, <1>2, UsableIsIdle DEF Accounts, IInv
<1>4. s # NoSlot
  BY Parameters DEF AllSlots
<1> SUFFICES ASSUME NEW u \in Turns \ {t}, Owns(u, b, s) PROVE FALSE
  BY <1>1
<1>5. /\ at[u].pc \in Held \ Reading /\ at[u].serving = b
      /\ HasPin(ConvOf[u]) /\ pins[ConvOf[u]].using = s
      /\ pins[ConvOf[u]].inflight /\ pins[ConvOf[u]].backend = b
  BY <1>3, NoneCounted, OwnsUncounted DEF Accounts
<1>6. ConvOf[u] # ConvOf[t]
  BY <1>1, <1>5, HeldApart DEF Accounts, Serving, TurnPcs, HasPin
<1>7. s \notin TurnSlots(b, ConvOf[t])
  <2>1. CASE HoldsHere(ConvOf[t], b) /\ pins[ConvOf[t]].slot = s
    BY <1>4, <1>5, <1>6, <2>1 DEF Accounts, NoOtherClaims, HoldsHere, HasPin, Reading
  <2>2. CASE ~(HoldsHere(ConvOf[t], b) /\ pins[ConvOf[t]].slot = s)
    BY <1>1, <2>2 DEF PickSlot
  <2> QED
    BY <2>1, <2>2
<1> QED
  BY <1>4, <1>5, <1>6, <1>7, NotedIsTurns

\* So the slots stay in order when one is taken.
LEMMA SlotsTake ==
  ASSUME Accounts, OneSlotReaders, NEW t \in Turns, NEW b \in Backends, NEW s \in AllSlots,
         Take(t, b, s)
  PROVE  Slots'
<1>0. /\ pins \in [Convs -> Pins \cup {NoPin}] /\ at \in [Turns -> Threads]
      /\ at[t].pc = "acquire"
  BY DEF Accounts, IInv, TypeOK, Take
<1>1. OthersKept(t)
  BY OthersKeep DEF TurnStep, Accounts, IInv
<1>2. b \in Reads[t] /\ \A u \in Turns \ {t} : ~Owns(u, b, s)
  BY TakesFree
<1>3. at'[t].pc = "park" /\ at'[t].be = b /\ at'[t].slot = s /\ at'[t].serving = b
  BY <1>0 DEF Take, Threads
<1>4. HasPin(ConvOf[t])' => pins'[ConvOf[t]] = TakenPin(ConvOf[t], t, b, s)
  BY <1>0 DEF Take, HasPin
<1>5. /\ TakenPin(ConvOf[t], t, b, s).backend = b
      /\ TakenPin(ConvOf[t], t, b, s).inflight
      /\ TakenPin(ConvOf[t], t, b, s).using \in {NoSlot, s}
      /\ TakenPin(ConvOf[t], t, b, s).slot # NoSlot =>
            /\ HasPin(ConvOf[t]) /\ pins[ConvOf[t]].backend = b
            /\ TakenPin(ConvOf[t], t, b, s).slot = pins[ConvOf[t]].slot
  <2>1. CASE HasPin(ConvOf[t])
    <3>1. pins[ConvOf[t]] \in Pins
      BY <1>0, <2>1 DEF HasPin
    <3> QED
      BY <2>1, <3>1 DEF TakenPin, Pins
  <2>2. CASE ~HasPin(ConvOf[t])
    BY <2>2 DEF TakenPin
  <2> QED
    BY <2>1, <2>2
<1>6. OwnKept(t)
  BY <1>2, <1>3, <1>4, <1>5 DEF OwnKept, Landing
<1>7. OwnsNew(t)
  BY <1>2, <1>3 DEF OwnsNew, Owns, Reading, Landing
<1>8. OwnClaims(t)
  BY <1>3 DEF OwnClaims
<1>9. ConvOf[t] \in Convs => SlotKept(ConvOf[t])
  BY <1>4, <1>5 DEF SlotKept
<1> QED
  BY <1>0, <1>1, <1>6, <1>7, <1>8, <1>9, SlotsStep DEF Accounts, Slots, OwnSlot, Serving,
     TurnPcs

\* When its last holder's claims end.
LEMMA SlotsTakeSlot ==
  ASSUME Accounts, NEW t \in Turns, TakeSlot(t)
  PROVE  Slots'
<1>0. /\ pins \in [Convs -> Pins \cup {NoPin}] /\ at \in [Turns -> Threads]
      /\ at[t].pc = "park" /\ at[t].slot \in AllSlots /\ at[t].be \in Backends
      /\ at[t].serving = at[t].be
  BY DEF Accounts, IInv, TypeOK, TakeSlot, TurnsPlaced, Inside, TurnPcs, ServesWhereItReads,
     Reading
<1>1. OthersKept(t)
  BY OthersKeep DEF TurnStep, Accounts, IInv
<1>2. /\ at'[t].pc = "stale" /\ at'[t].be = at[t].be /\ at'[t].slot = at[t].slot
      /\ at'[t].serving = at[t].serving
  BY <1>0 DEF TakeSlot, Threads
<1>3. ConvOf[t] \in Convs => pins'[ConvOf[t]] = pins[ConvOf[t]]
  BY <1>0 DEF TakeSlot, EndClaims
<1>4. \A d \in Convs \ {ConvOf[t]} : HasPin(d)' /\ pins'[d].backend = at[t].be =>
          pins'[d].slot # at[t].slot
  <2> SUFFICES ASSUME NEW d \in Convs \ {ConvOf[t]}, HasPin(d)', pins'[d].backend = at[t].be
               PROVE  pins'[d].slot # at[t].slot
    OBVIOUS
  <2>1. pins[d] \in Pins
    BY <1>0 DEF TakeSlot, EndClaims, HasPin
  <2>2. at[t].slot # NoSlot
    BY <1>0, Parameters DEF AllSlots
  <2> QED
    BY <1>0, <2>1, <2>2 DEF TakeSlot, EndClaims, HasPin, Pins
<1>5. /\ HasPin(ConvOf[t])' => HasPin(ConvOf[t]) /\ pins'[ConvOf[t]] = pins[ConvOf[t]]
      /\ HasPin(ConvOf[t]) => /\ pins[ConvOf[t]].inflight
                              /\ pins[ConvOf[t]].backend = at[t].be
                              /\ pins[ConvOf[t]].using \in {NoSlot, at[t].slot}
  BY <1>0, <1>3 DEF HasPin, Accounts, RecordsServe, UsingNoted, Held, Reading
<1>6. OwnKept(t)
  BY <1>0, <1>2, <1>5 DEF OwnKept, Landing, Accounts, ReadsWhereItMay, Reading
<1>7. OwnsNew(t)
  BY <1>0, <1>2 DEF OwnsNew, Owns, Reading, Landing
<1>8. OwnClaims(t)
  BY <1>0, <1>2, <1>4, <1>5 DEF OwnClaims
<1>9. ConvOf[t] \in Convs => SlotKept(ConvOf[t])
  BY <1>5 DEF SlotKept
<1> QED
  BY <1>0, <1>1, <1>6, <1>7, <1>8, <1>9, SlotsStep DEF Accounts, Slots, OwnSlot, Serving,
     TurnPcs

\* When the generator hands one over: no turn reads in it, none was handed it,
\* none has noted it.
LEMMA SlotsGenerate ==
  ASSUME Accounts, OneSlotReaders, NEW t \in Turns, NEW s \in AllSlots, GenerateSlot(t, s)
  PROVE  Slots'
<1> DEFINE g == at[t].dst
<1>0. /\ pins \in [Convs -> Pins \cup {NoPin}] /\ at \in [Turns -> Threads]
      /\ be \in [Backends -> BackendStates]
      /\ at[t].pc = "genwait" /\ g \in Backends
  BY DEF Accounts, IInv, TypeOK, GenerateSlot, Threads
<1>1. OthersKept(t)
  BY OthersKeep DEF TurnStep, Accounts, IInv
<1>2. /\ at'[t].pc = "clear" /\ at'[t].dst = g /\ at'[t].free = s
      /\ at'[t].serving = at[t].serving /\ at'[t].slot = at[t].slot
      /\ pins' = pins
  BY <1>0 DEF GenerateSlot, Threads, records
<1>3. s \in be'[g].handed
  BY <1>0, CountTyped DEF GenerateSlot, BackendStates
<1>4. s # NoSlot
  BY Parameters DEF AllSlots
<1>5. \A u \in Turns \ {t} : ~Owns(u, g, s)
  <2> SUFFICES ASSUME NEW u \in Turns \ {t}, Owns(u, g, s) PROVE FALSE
    OBVIOUS
  <2>1. s \in FreeSlots(g) /\ be[g].busy < Cardinality(SlotsOf[g])
    BY DEF GenerateSlot
  <2>2. CASE at[u].pc \in Landing /\ at[u].dst = g /\ at[u].free = s
    BY <2>1, <2>2 DEF FreeSlots, Accounts, HandedOver
  <2>3. CASE at[u].pc \in Reading /\ at[u].be = g
    <3>1. PICK x \in AllSlots : SlotsOf[g] = {x}
      BY <2>3 DEF OneSlotReaders, Accounts, ReadsWhereItMay
    <3>2. be[g].busy < 1
      BY <2>1, <3>1, FS_Singleton
    <3>3. Counted(u, g)
      BY <2>3 DEF Counted, Reading
    <3> QED
      BY <1>0, <3>2, <3>3, NoneCounted DEF Accounts
  <2>4. CASE /\ at[u].pc \in Held \ Reading /\ at[u].serving = g
             /\ HasPin(ConvOf[u]) /\ pins[ConvOf[u]].using = s
    <3>1. pins[ConvOf[u]].inflight /\ pins[ConvOf[u]].backend = g
      BY <2>4 DEF Accounts, RecordsServe
    <3>2. ConvOf[u] # NoConv
      BY <2>4, Parameters DEF HasPin
    <3>3. s \in TurnSlots(g, NoConv)
      BY <1>4, <2>4, <3>1, <3>2, NotedIsTurns
    <3> QED
      BY <2>1, <3>3 DEF FreeSlots
  <2> QED
    BY <2>2, <2>3, <2>4 DEF Owns
<1>6. HasPin(ConvOf[t])' = HasPin(ConvOf[t])
  BY <1>2 DEF HasPin
<1>7. OwnKept(t)
  BY <1>0, <1>2, <1>3, <1>6 DEF OwnKept, Accounts, RecordsServe, UsingNoted, Held, Reading
<1>8. OwnsNew(t)
  BY <1>0, <1>2, <1>5, <1>6 DEF OwnsNew, Owns, Reading, Landing, Held
<1>9. OwnClaims(t)
  BY <1>0, <1>2, <1>6 DEF OwnClaims, Accounts, NoOtherClaims, HasPin, Held
<1>10. ConvOf[t] \in Convs => SlotKept(ConvOf[t])
  BY <1>2 DEF SlotKept, HasPin
<1> QED
  BY <1>0, <1>1, <1>7, <1>8, <1>9, <1>10, SlotsStep
     DEF Accounts, Slots, OwnSlot, Serving, TurnPcs

\* When the carried turn has landed: the slot it was handed is noted.
LEMMA SlotsLand ==
  ASSUME Accounts, NEW t \in Turns, Land(t)
  PROVE  Slots'
<1> DEFINE g == at[t].dst
           s == at[t].free
<1>0. /\ pins \in [Convs -> Pins \cup {NoPin}] /\ at \in [Turns -> Threads]
      /\ at[t].pc = "landing" /\ g \in Backends /\ s \in AllSlots
  BY DEF Accounts, IInv, TypeOK, Land, TurnsPlaced
<1>1. OthersKept(t)
  BY OthersKeep DEF TurnStep, Accounts, IInv
<1>2. at'[t].pc = "relay" /\ at'[t].serving = g
  BY <1>0 DEF Land, Threads
<1>3. s # NoSlot
  BY <1>0, Parameters DEF AllSlots
<1>4. ConvOf[t] \in Convs /\ HasPin(ConvOf[t])' =>
          /\ HasPin(ConvOf[t])
          /\ pins'[ConvOf[t]].backend = g /\ pins'[ConvOf[t]].slot = s
          /\ pins'[ConvOf[t]].using = s /\ pins'[ConvOf[t]].inflight
  <2> SUFFICES ASSUME ConvOf[t] \in Convs, HasPin(ConvOf[t])'
               PROVE  /\ HasPin(ConvOf[t])
                      /\ pins'[ConvOf[t]].backend = g /\ pins'[ConvOf[t]].slot = s
                      /\ pins'[ConvOf[t]].using = s /\ pins'[ConvOf[t]].inflight
    OBVIOUS
  <2>1. HasPin(ConvOf[t])
    BY DEF Land, HasPin
  <2>2. pins[ConvOf[t]] \in Pins
    BY <1>0, <2>1 DEF HasPin
  <2>3. EndClaims(pins, g, s, ConvOf[t])[ConvOf[t]] = pins[ConvOf[t]]
    BY DEF EndClaims
  <2>4. pins'[ConvOf[t]] = [pins[ConvOf[t]] EXCEPT !.backend = g, !.slot = s, !.using = s,
                                                   !.inflight = TRUE]
    BY <2>1, <2>3 DEF Land, EndClaims
  <2> QED
    BY <2>1, <2>2, <2>4 DEF Pins
<1>5. HasPin(ConvOf[t])' => ConvOf[t] \in Convs
  BY DEF HasPin
<1>6. \A d \in Convs \ {ConvOf[t]} :
          HasPin(ConvOf[t])' /\ HasPin(d)' /\ pins'[d].backend = g => pins'[d].slot # s
  <2> SUFFICES ASSUME NEW d \in Convs \ {ConvOf[t]}, HasPin(ConvOf[t])', HasPin(d)',
                      pins'[d].backend = g
               PROVE  pins'[d].slot # s
    OBVIOUS
  <2>1. pins'[d] = EndClaims(pins, g, s, ConvOf[t])[d]
    BY <1>4, <1>5 DEF Land, EndClaims
  <2>2. pins[d] \in Pins
    BY <1>0, <2>1 DEF EndClaims, HasPin
  <2> QED
    BY <1>3, <2>1, <2>2 DEF EndClaims, HasPin, Pins
<1>7. Owns(t, g, s)
  BY <1>0 DEF Owns, Landing
<1>8. \A u \in Turns \ {t} : ~Owns(u, g, s)
  BY <1>0, <1>7 DEF Accounts, OneOwner
<1>9. OwnKept(t)
  BY <1>2, <1>4, <1>5 DEF OwnKept, Landing, Reading
<1>10. OwnsNew(t)
  BY <1>2, <1>4, <1>5, <1>7 DEF OwnsNew, Owns, Landing, Reading
<1>11. OwnClaims(t)
  BY <1>2, <1>4, <1>5, <1>6 DEF OwnClaims
<1>12. OwnSlot(t)
  <2>1. HasPin(ConvOf[t])' => \A u \in Turns \ {t} :
                                  ~Owns(u, pins'[ConvOf[t]].backend, pins'[ConvOf[t]].slot)
    BY <1>4, <1>5, <1>8
  <2>2. ~HasPin(ConvOf[t])' => SlotKept(ConvOf[t])
    BY DEF SlotKept
  <2> QED
    BY <2>1, <2>2 DEF OwnSlot
<1> QED
  BY <1>0, <1>1, <1>9, <1>10, <1>11, <1>12, SlotsStep DEF Accounts, Slots, Serving, TurnPcs

-------------------------------------------------------------------------------
\* A save, the worker, the operator and the poll leave the slot a running turn's
\* record has noted, and give no record a slot.
LeftAs(c) ==
    /\ HasPin(c)' => HasPin(c)
    /\ HasPin(c) /\ pins[c].inflight => RecKept(c)
    /\ SlotKept(c)

\* They move no turn, and hand no slot over.
AllLeft ==
    /\ UNCHANGED at
    /\ \A b \in Backends : be'[b].handed = be[b].handed
    /\ \A c \in Convs : LeftAs(c)

\* So the slots stay in order.
LEMMA SlotsLeft ==
  ASSUME IInv, ServesWhereItReads, Slots, AllLeft
  PROVE  Slots'
<1>1. at' = at /\ \A b \in Backends : be'[b].handed = be[b].handed
  BY DEF AllLeft
<1>2. ASSUME NEW u \in Turns, at[u].pc \in Held, HasPin(ConvOf[u])'
      PROVE  HasPin(ConvOf[u]) /\ RecKept(ConvOf[u])
  <2>1. ConvOf[u] \in Convs
    BY <1>2 DEF HasPin
  <2> QED
    BY <1>2, <2>1 DEF AllLeft, LeftAs, Slots, RecordsServe
<1>3. RecordsServe' /\ UsingNoted' /\ ReadsWhereItMay'
  BY <1>1, <1>2 DEF Slots, RecordsServe, UsingNoted, ReadsWhereItMay, RecKept
<1>4. HandedOver'
  BY <1>1 DEF Slots, HandedOver, Landing, IInv, TurnsPlaced
<1>5. NoOtherClaims'
  <2> SUFFICES ASSUME NEW u \in Turns, NEW d \in Convs \ {ConvOf[u]}, at[u].pc \in Held \ {"park"},
                      HasPin(ConvOf[u])', pins'[ConvOf[u]].using # NoSlot,
                      HasPin(d)', pins'[d].backend = at[u].serving,
                      pins'[d].slot = pins'[ConvOf[u]].using
               PROVE  FALSE
    BY <1>1 DEF NoOtherClaims
  <2>1. HasPin(d) /\ pins[d].slot = pins'[d].slot /\ pins[d].backend = pins'[d].backend
    BY DEF AllLeft, LeftAs, SlotKept
  <2> QED
    BY <1>2, <2>1 DEF RecKept, Slots, NoOtherClaims
<1>6. \A u \in Turns : \A b, s : Owns(u, b, s)' => Owns(u, b, s)
  BY <1>1, <1>2 DEF Owns, RecKept
<1>7. OneOwner'
  BY <1>6 DEF Slots, OneOwner
<1> QED
  BY <1>3, <1>4, <1>5, <1>7 DEF Slots

\* What the end of a save does to the records.
LEMMA SweepLeaves ==
  ASSUME TypeOK, NEW a \in Actors, NEW P \in [Convs -> Pins \cup {NoPin}], NEW ok, EndSave(a, P, ok),
         \A d \in Convs : P[d] # NoPin =>
             /\ pins[d] # NoPin
             /\ P[d].inflight = pins[d].inflight /\ P[d].backend = pins[d].backend
             /\ P[d].using = pins[d].using /\ P[d].slot \in {NoSlot, pins[d].slot}
  PROVE  \A c \in Convs : LeftAs(c)
<1>1. PICK gone : pins' = Trimmed(P, gone) /\ \A d \in gone : P[d] # NoPin
  <2> DEFINE doomed == Doomed(P, sub[a].conv)
  <2>1. pins' = Trimmed(P, doomed)
    BY DEF EndSave
  <2>2. \A d \in doomed : P[d] # NoPin
    BY DEF Doomed
  <2> HIDE DEF doomed
  <2> QED
    BY <2>1, <2>2
<1> SUFFICES ASSUME NEW c \in Convs PROVE LeftAs(c)
  OBVIOUS
<1>2. CASE c \in gone
  <2>1. pins'[c] = [P[c] EXCEPT !.parked = FALSE] /\ P[c] \in Pins
    BY <1>1, <1>2 DEF Trimmed
  <2>2. /\ pins'[c].inflight = P[c].inflight /\ pins'[c].backend = P[c].backend
        /\ pins'[c].using = P[c].using /\ pins'[c].slot = P[c].slot
    BY <2>1 DEF Pins
  <2> QED
    BY <1>1, <1>2, <2>2 DEF LeftAs, RecKept, SlotKept, HasPin
<1>3. CASE c \notin gone
  <2>1. pins'[c] = P[c]
    BY <1>1, <1>3 DEF Trimmed
  <2> QED
    BY <2>1 DEF LeftAs, RecKept, SlotKept, HasPin
<1> QED
  BY <1>2, <1>3

\* A save leaves the turns their slots.
LEMMA SaveLeaves ==
  ASSUME IInv, NEW a \in Actors, SaveStep(a)
  PROVE  AllLeft
<1>0. /\ TypeOK /\ be \in [Backends -> BackendStates]
      /\ pins \in [Convs -> Pins \cup {NoPin}] /\ sub \in [Actors -> Saves] /\ sub[a] \in Saves
  BY DEF IInv, TypeOK
<1>1. UNCHANGED at
  BY OthersStill DEF IInv
<1>2. \A b \in Backends : be'[b].handed = be[b].handed
  <2>1. CASE SaveCount(a)
    BY <1>0, <2>1 DEF SaveCount, BackendStates
  <2>2. CASE SaveSwept(a)
    BY <1>0, <2>2 DEF SaveSwept, BackendStates
  <2>3. CASE SaveBegin(a) \/ SaveRefused(a) \/ SaveCut(a) \/ SaveKept(a) \/ SaveShort(a)
                \/ SaveLost(a)
    BY <2>3 DEF SaveBegin, SaveRefused, SaveCut, SaveKept, SaveShort, SaveLost
  <2> QED
    BY <2>1, <2>2, <2>3 DEF SaveStep
<1>3. \A c \in Convs : LeftAs(c)
  <2>1. CASE SaveCount(a) \/ SaveSwept(a)
    <3>1. \/ pins' = pins
          \/ HasPin(sub[a].conv) /\ pins' = [pins EXCEPT ![sub[a].conv].parking = FALSE]
      BY <2>1 DEF SaveCount, SaveSwept
    <3> QED
      BY <1>0, <3>1 DEF LeftAs, RecKept, SlotKept, HasPin, Pins
  <2>2. CASE SaveBegin(a) \/ SaveShort(a)
    BY <2>2 DEF SaveBegin, SaveShort, LeftAs, RecKept, SlotKept, HasPin
  <2>3. CASE SaveRefused(a) \/ SaveCut(a)
    <3>1. EndSave(a, pins, FALSE)
      BY <2>3 DEF SaveRefused, SaveCut
    <3> QED
      BY <1>0, <3>1, SweepLeaves
  <2>4. CASE SaveKept(a)
    <3> DEFINE P == IF HasPin(sub[a].conv)
                    THEN [pins EXCEPT ![sub[a].conv] = [@ EXCEPT !.parked = TRUE,
                                                                 !.parkedTurn = sub[a].turn]]
                    ELSE pins
    <3>1. EndSave(a, P, TRUE)
      BY <2>4 DEF SaveKept
    <3>2. P \in [Convs -> Pins \cup {NoPin}]
      <4>1. sub[a].turn \in Nat
        BY <1>0 DEF Saves
      <4>2. HasPin(sub[a].conv) =>
                [pins[sub[a].conv] EXCEPT !.parked = TRUE, !.parkedTurn = sub[a].turn] \in Pins
        BY <1>0, <4>1 DEF HasPin, Pins
      <4> QED
        BY <1>0, <4>2 DEF HasPin
    <3>3. \A d \in Convs : P[d] # NoPin =>
             /\ pins[d] # NoPin
             /\ P[d].inflight = pins[d].inflight /\ P[d].backend = pins[d].backend
             /\ P[d].using = pins[d].using /\ P[d].slot \in {NoSlot, pins[d].slot}
      BY <1>0 DEF HasPin, Pins
    <3> HIDE DEF P
    <3> QED
      BY <1>0, <3>1, <3>2, <3>3, SweepLeaves
  <2>5. CASE SaveLost(a)
    <3> DEFINE mine == HasPin(sub[a].conv) /\ pins[sub[a].conv].turns = sub[a].turn
               P == IF mine
                    THEN [pins EXCEPT ![sub[a].conv] = [@ EXCEPT !.parked = FALSE,
                                                                 !.slot = NoSlot]]
                    ELSE pins
    <3>1. EndSave(a, P, FALSE)
      BY <2>5 DEF SaveLost
    <3>2. P \in [Convs -> Pins \cup {NoPin}]
      <4>1. HasPin(sub[a].conv) =>
                [pins[sub[a].conv] EXCEPT !.parked = FALSE, !.slot = NoSlot] \in Pins
        BY <1>0 DEF HasPin, Pins
      <4> QED
        BY <1>0, <4>1 DEF HasPin
    <3>3. \A d \in Convs : P[d] # NoPin =>
             /\ pins[d] # NoPin
             /\ P[d].inflight = pins[d].inflight /\ P[d].backend = pins[d].backend
             /\ P[d].using = pins[d].using /\ P[d].slot \in {NoSlot, pins[d].slot}
      BY <1>0 DEF HasPin, Pins
    <3> HIDE DEF P
    <3> QED
      BY <1>0, <3>1, <3>2, <3>3, SweepLeaves
  <2> QED
    BY <2>1, <2>2, <2>3, <2>4, <2>5 DEF SaveStep
<1> QED
  BY <1>1, <1>2, <1>3 DEF AllLeft

\* And so do the worker, the operator, the poll and the processes.
LEMMA WatchLeaves ==
  ASSUME IInv, \/ WorkerStep \/ OperatorStep
               \/ \E b \in Backends : Watch(b) \/ Crash(b) \/ Boot(b)
  PROVE  AllLeft
<1>0. be \in [Backends -> BackendStates] /\ pins \in [Convs -> Pins \cup {NoPin}]
  BY DEF IInv, TypeOK
<1>1. UNCHANGED at
  BY OthersStill DEF IInv
<1>u. pins' = pins => \A c \in Convs : LeftAs(c)
  BY DEF LeftAs, RecKept, SlotKept, HasPin
<1>2. CASE WorkerStep
  BY <1>1, <1>u, <1>2 DEF WorkerStep, TakeJob, JobDone, records, AllLeft
<1>3. CASE OperatorStep
  <2>1. be' = be \/ \E b, d : be' = [be EXCEPT ![b].draining = d]
    BY <1>3 DEF OperatorStep, Drain, DrainWaited, ParkAllOne, ParkAllOver, DrainReport,
       RestartDrained, Resume
  <2>2. \A b \in Backends : be'[b].handed = be[b].handed
    BY <1>0, <2>1 DEF BackendStates
  <2>3. pins' = pins \/ \E c \in Convs : HasPin(c) /\ pins' = [pins EXCEPT ![c].parking = TRUE]
    BY <1>3 DEF OperatorStep, Drain, DrainWaited, ParkAllOne, Oldest, OnlyInASlot, ParkAllOver,
       DrainReport, RestartDrained, Resume, records
  <2>4. \A c \in Convs : LeftAs(c)
    BY <1>0, <2>3 DEF LeftAs, RecKept, SlotKept, HasPin, Pins
  <2> QED
    BY <1>1, <2>2, <2>4 DEF AllLeft
<1>4. ASSUME NEW b \in Backends, Watch(b) PROVE AllLeft
  <2>1. PICK misses, up, generation :
            be' = [be EXCEPT ![b] = [@ EXCEPT !.misses = misses, !.up = up,
                                              !.generation = generation]]
    BY <1>4 DEF Watch
  <2>2. be'[b].handed = be[b].handed /\ \A x \in Backends \ {b} : be'[x] = be[x]
    BY <1>0, <2>1 DEF BackendStates
  <2>3. pins' = pins \/ pins' = ForgetSlots(pins, b)
    BY <1>4 DEF Watch
  <2>4. pins' = ForgetSlots(pins, b) => \A c \in Convs : LeftAs(c)
    BY <1>0 DEF ForgetSlots, LeftAs, RecKept, SlotKept, HasPin, Pins
  <2> QED
    BY <1>1, <1>u, <2>2, <2>3, <2>4 DEF AllLeft
<1>5. ASSUME NEW b \in Backends, Crash(b) \/ Boot(b) PROVE AllLeft
  BY <1>1, <1>u, <1>5 DEF Crash, Boot, records, AllLeft
<1> QED
  BY <1>2, <1>3, <1>4, <1>5

\* Every step keeps the slots in order.
LEMMA SlotsKept ==
  ASSUME Accounts, OneSlotReaders, [Next]_vars
  PROVE  Slots'
<1>0. IInv /\ Claims /\ ServesWhereItReads /\ Slots
  BY DEF Accounts, Slots
<1>1. ASSUME NEW t \in Turns, TurnStep(t) \/ ClientLeaves(t) PROVE Slots'
  <2>1. \/ OutStep(t) \/ InStep(t) \/ TakeSlot(t) \/ Land(t)
        \/ \E b \in Backends, s \in AllSlots : Take(t, b, s)
        \/ \E s \in AllSlots : GenerateSlot(t, s)
    BY <1>1 DEF TurnStep, ClientLeaves, OutStep, InStep
  <2> QED
    BY <1>0, <2>1, SlotsOut, SlotsIn, SlotsTake, SlotsTakeSlot, SlotsGenerate, SlotsLand
<1>2. CASE UNCHANGED vars
  BY <1>0, <1>2, SlotsLeft DEF vars, records, AllLeft, LeftAs, RecKept, SlotKept, HasPin
<1> QED
  BY <1>0, <1>1, <1>2, SaveLeaves, WatchLeaves, SlotsLeft DEF Next

\* No turn starts with a slot.
LEMMA SlotsInit == Init => Slots
<1> SUFFICES ASSUME Init PROVE Slots
  OBVIOUS
<1>1. \A t \in Turns : at[t].pc = "new"
  BY DEF Init, IdleTurn
<1> QED
  BY <1>1 DEF Slots, RecordsServe, UsingNoted, HandedOver, ReadsWhereItMay, NoOtherClaims,
     OneOwner, Owns, Held, Landing, Reading

\* The accounts hold at the start,
LEMMA AccountsInit == Init => Accounts
  BY TypeInit, ClaimsInit, BusyInit, SlotsInit DEF Accounts, Slots

\* and every step keeps them.
LEMMA AccountsStep ==
  ASSUME OneSlotReaders, Accounts, [Next]_vars
  PROVE  Accounts'
<1>1. IInv' /\ Claims'
  BY TypeStep, ClaimsStep DEF Accounts, IInv
<1>2. ServesWhereItReads' /\ BusyCounts'
  BY BusyStep DEF Accounts
<1>3. Slots'
  BY SlotsKept
<1> QED
  BY <1>1, <1>2, <1>3 DEF Accounts, Slots

\* Two turns never read, restore or generate in one slot together, as long as
\* the backends that read have one slot each: acquire counts on `busy` there,
\* and elsewhere on the records, the slots handed over and the copies.
THEOREM NoSharedSlot ==
  ASSUME OneSlotReaders
  PROVE  Spec => []OneTurnPerSlot
<1>1. Accounts => OneTurnPerSlot
  BY DEF Accounts, OneOwner, OneTurnPerSlot, InSlot, Owns, Reading, Landing, Held
<1> QED
  BY <1>1, AccountsInit, AccountsStep, PTL DEF Spec

=============================================================================
