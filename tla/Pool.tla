--------------------------------- MODULE Pool ---------------------------------
(***************************************************************************)
(* The pool of the router (src/bin/router/pool/pool.py) with the turns     *)
(* (pool/turn.py) that run in it: the slots of every backend, the pin of   *)
(* every conversation, the copies on disk, the park worker, the poll that  *)
(* watches the backends and an operator who drains them.                   *)
(*                                                                         *)
(* One action is one hold of Pool.cv, or one call to a backend with the    *)
(* hold that follows it.  Where two holds follow each other with nothing   *)
(* between them that another thread could tell apart, they are one action. *)
(* A call that takes time (save, restore, read, relay) begins in one       *)
(* action and ends in another.                                             *)
(***************************************************************************)
EXTENDS Integers, FiniteSets, Sequences

CONSTANTS
    Turns,        \* one per request, named by its wait ticket
    Convs,        \* conversations the client named
    NoConv,       \* a request no conversation could be named for
    ConvOf,       \* [Turns -> Convs \cup {NoConv}]
    Size,         \* tokens each turn needs, reply room included
    Opening,      \* the first cut of each turn's prompt, or NoOpening
    NoOpening,
    Reads,        \* [Turns -> SUBSET Backends]: prefills(be, path)
    Typed,        \* turns with a plan: answered where they are read
    Unread,       \* turns whose body is no JSON object: read_only is None
    Backends,
    NoBackend,    \* no live backend, "(before the restart)" included
    SlotsOf,      \* [Backends -> slot ids]
    NoSlot,
    Generates,    \* SUBSET Backends: generates(be)
    Pref,         \* the operator's order of where to generate
    NCtx,         \* tokens a slot of each backend holds
    Handoff,      \* Tuning.handoff
    ParkMin,      \* Tuning.park_min_tokens, reply_tokens added
    ParkBudget,   \* Tuning.park_budget, in copies: every copy is one unit
    MaxPins,      \* Tuning.max_pins
    Drainable,    \* backends the operator may drain
    MaxDrains,    \* bound: drains in one run
    Crashable,    \* backends whose process may die
    MaxCrashes,   \* bound: deaths of one backend process
    Faults,       \* SUBSET {"leave", "save", "restore", "read"}
    NoTurn,
    NoPin,
    Worker,       \* the park worker thread
    Operator,     \* the thread of a drain request
    Empty,        \* what a fresh or erased slot holds
    SharedOpening, \* an opening, which belongs to no conversation
    NoFile,
    Torn          \* what a file holds while a save writes it, or died writing

ASSUME Parameters ==
    /\ ConvOf \in [Turns -> Convs \cup {NoConv}] /\ NoConv \notin Convs
    /\ Size \in [Turns -> Nat]
    /\ Reads \in [Turns -> SUBSET Backends] /\ Generates \subseteq Backends
    /\ NoBackend \notin Backends
    /\ \A b \in Backends : NoSlot \notin SlotsOf[b]
    /\ NoTurn \notin Turns
    /\ {Worker, Operator} \cap Turns = {} /\ Worker # Operator
    /\ IsFiniteSet(Convs)

\* park_budget and max_pins, counted in copies and in records.
ASSUME Budgets == ParkBudget \in Nat /\ MaxPins \in Nat

Actors   == Turns \cup {Worker, Operator}
AllSlots == UNION {SlotsOf[b] : b \in Backends}

VARIABLES
    turns,    \* Pool.turns: the ticket each conversation is held by
    pins,     \* Pool.pins: the record of each conversation, or NoPin
    order,    \* the order of Pool.pins, an OrderedDict
    used,     \* the conversations by record["last"]
    be,       \* Pool.backends, and the counters beside them
    jobs,     \* Pool.park_jobs
    at,       \* each turn's thread: where it is, and its local variables
    sub,      \* the _save_park each thread is inside, or the last one's answer
    wk,       \* the job the worker holds, or NoTurn
    op,       \* the drain under way
    box,      \* external: is each llama-server process running
    cache,    \* external: what each slot of each backend holds
    file,     \* external: what is in each conversation's slot file
    cut       \* external: threads whose call a dying backend cut off

records  == <<pins, order, used>>
threads  == <<sub, wk, op>>
world    == <<box, cache, file, cut>>
vars == <<turns, records, be, jobs, at, threads, world>>

-------------------------------------------------------------------------------
\* What a slot or a file can hold.  A prompt is named by its conversation and
\* by the number of the turn that read it.

Prompt(c, n) == [conv |-> c, turn |-> n]

Prompts  == [conv : Convs \cup {NoConv}, turn : Nat]
Contents == Prompts \cup {Empty, SharedOpening}
FileStates == Prompts \cup {SharedOpening, NoFile, Torn}

\* The markers of what a file holds are no prompts, and each its own.
ASSUME Kinds ==
    /\ NoFile \notin {Empty, SharedOpening, Torn}
    /\ \A x \in {Empty, SharedOpening, NoFile, Torn} : x \notin Prompts

HasPin(c) == c \in Convs /\ pins[c] # NoPin

\* Mutant of CopyIsCurrent: any copy will do.
AnyCopyIsCurrent(p) == p.parked

\* identity.copy_is_current
CopyIsCurrent(p) == p.parked /\ p.parkedTurn = p.turns

\* identity.worth_keeping
WorthKeeping(p) == p.tokens >= ParkMin

\* Pool._holds_here
HoldsHere(c, b) == HasPin(c) /\ pins[c].backend = b /\ pins[c].slot # NoSlot

\* Pool._turn_slots: the slots on b that a turn owns, c's own left out.
TurnSlots(b, c) ==
    {pins[d].using : d \in {d \in Convs \ {c} : /\ HasPin(d)
                                                /\ pins[d].inflight
                                                /\ pins[d].backend = b}} \ {NoSlot}

Saving(b) == {s \in SlotsOf[b] : be[b].saving[s] > 0}

\* Pool._usable.  `n` is the tokens the turn needs.
Usable(b, n) ==
    /\ be[b].up
    /\ ~be[b].draining
    /\ be[b].busy + Cardinality(Saving(b) \ TurnSlots(b, NoConv)) < Cardinality(SlotsOf[b])
    /\ n <= NCtx[b]

\* Pool.pick_slot: the slots a read of c may be given on b.  The poll only
\* says which of them to prefer, and it is two seconds old.
PickSlot(b, c) ==
    LET busyHere == Saving(b) \cup be[b].handed
    IN  IF HoldsHere(c, b) /\ pins[c].slot \notin busyHere
        THEN {pins[c].slot}
        ELSE SlotsOf[b] \ (busyHere \cup TurnSlots(b, c))

\* Mutant of FreeSlots: forgets the slots handed to carries still on their way.
FreeSlotsNotHanded(b) == SlotsOf[b] \ (TurnSlots(b, NoConv) \cup Saving(b))

\* Pool._free_slot
FreeSlots(b) == SlotsOf[b] \ (TurnSlots(b, NoConv) \cup Saving(b) \cup be[b].handed)

\* Pool.generator: where a turn of n tokens read on b may move to.  Backends
\* of equal pref are tried in table order, which is not modelled.
Generator(n, b) ==
    LET fit == {g \in Generates : be[g].up /\ ~be[g].draining /\ n <= NCtx[g]}
        first == {g \in fit : \A h \in fit : Pref[g] <= Pref[h]}
    IN  {g \in first : b \in Generates => Pref[g] < Pref[b]}

Waiters == {t \in Turns : at[t].pc \in {"claim", "acquire"}}

\* Pool._owed, the part that is certain: a turn waits to generate on b, or
\* one whose cache is in a slot there waits to come back.
MustOwe(b, t) ==
    /\ b \in Generates
    /\ ~HoldsHere(ConvOf[t], b)
    /\ \/ \E u \in Turns : at[u].pc = "genwait" /\ at[u].dst = b
       \/ \E u \in Waiters : /\ ConvOf[u] # ConvOf[t]
                             /\ HoldsHere(ConvOf[u], b)
                             /\ ~pins[ConvOf[u]].inflight
                             /\ Size[u] <= NCtx[b]

\* The part the measured rates decide, which the model leaves open: a read in
\* flight elsewhere moves to b when it is done.
MayOwe(b, t) ==
    /\ b \in Generates
    /\ ~HoldsHere(ConvOf[t], b)
    /\ \E c \in Convs \ {ConvOf[t]} : /\ HasPin(c)
                                      /\ pins[c].inflight
                                      /\ pins[c].backend \in Backends \ {b}
                                      /\ b \in Generator(0, pins[c].backend)

\* `order` and `used` are orders of recency: 1 is the latest, 0 is never.
Touch(s, c) ==
    [d \in Convs |-> CASE d = c -> 1
                       [] d # c /\ s[d] > 0 /\ (s[c] = 0 \/ s[d] < s[c]) -> s[d] + 1
                       [] OTHER -> s[d]]

Oldest(s, S) == {c \in S : \A d \in S : s[d] <= s[c]}

\* Pool._sweep_order and _doomed: the conversations of P whose copy a budget
\* sweep drops, the latest used kept.  `keep` names the copy just written.
Doomed(P, keep) ==
    LET held == {c \in Convs : P[c] # NoPin /\ P[c].parked}
        ahead(c) == {d \in held : used[d] <= used[c] \/ d = keep}
    IN  {c \in held \ {keep} : ~P[c].parking /\ Cardinality(ahead(c)) > ParkBudget}

\* Pool._trim_copies: the records a sweep leaves.
Trimmed(P, doomed) ==
    [c \in Convs |-> IF c \in doomed THEN [P[c] EXCEPT !.parked = FALSE] ELSE P[c]]

Dropped(F, gone) == [c \in Convs |-> IF c \in gone THEN NoFile ELSE F[c]]

-------------------------------------------------------------------------------
\* The thread of a turn before it starts and after it ends.
IdleTurn == [pc |-> "new", be |-> NoBackend, slot |-> NoSlot, serving |-> NoBackend,
             dst |-> NoBackend, free |-> NoSlot, named |-> FALSE,
             spill |-> FALSE, left |-> FALSE, tried |-> {}]
Over == [IdleTurn EXCEPT !.pc = "done"]

NoSave == [phase |-> "none", conv |-> NoConv, be |-> NoBackend, slot |-> NoSlot,
           claim |-> FALSE, gen |-> 0, turn |-> 0, ok |-> FALSE, spent |-> {}]

\* _save_park called for conversation c, on slot s of b.
SaveOf(c, b, s) == [NoSave EXCEPT !.phase = "count", !.conv = c, !.be = b, !.slot = s]

Saved(a) == sub[a].phase = "done"
NotSaving(a) == sub[a].phase \in {"none", "done"}

Init ==
    /\ turns = [c \in Convs |-> NoTurn]
    /\ pins = [c \in Convs |-> NoPin]
    /\ order = [c \in Convs |-> 0]
    /\ used = [c \in Convs |-> 0]
    /\ be = [b \in Backends |-> [up |-> TRUE, misses |-> 0, draining |-> FALSE, busy |-> 0,
                                 saving |-> [s \in AllSlots |-> 0], handed |-> {},
                                 generation |-> 0]]
    /\ jobs = <<>>
    /\ at = [t \in Turns |-> IdleTurn]
    /\ sub = [a \in Actors |-> NoSave]
    /\ wk = NoTurn
    /\ op = [pc |-> "idle", be |-> NoBackend, tried |-> {}, quiet |-> FALSE,
             left |-> 0, drains |-> 0]
    /\ box = [b \in Backends |-> [on |-> TRUE, crashes |-> 0]]
    /\ cache = [b \in Backends |-> [s \in AllSlots |-> Empty]]
    /\ file = [c \in Convs |-> NoFile]
    /\ cut = {}

\* `busy` of b goes up or down by n.
Count(B, b, n) == [B EXCEPT ![b].busy = @ + n]

Move(t, pc) == at' = [at EXCEPT ![t].pc = pc]

\* finish_turn: the ticket must match.
FreedBy(t) ==
    [c \in Convs |-> IF c = ConvOf[t] /\ turns[c] = t THEN NoTurn ELSE turns[c]]

-------------------------------------------------------------------------------
\* Turn.run, up to the slot.

\* The size check.  A request that fits is counted as waiting.
Arrive(t) ==
    /\ at[t].pc = "new"
    /\ LET fits == \E b \in Reads[t] : be[b].up /\ Size[t] <= NCtx[b]
       IN  at' = [at EXCEPT ![t] = IF fits THEN [@ EXCEPT !.pc = "claim"] ELSE Over]
    /\ UNCHANGED <<turns, records, be, jobs, threads, world>>

\* Mutant of ClaimTurn: does not wait for the turn ahead.
ClaimTurnAtOnce(t) ==
    /\ at[t].pc = "claim"
    /\ turns' = [c \in Convs |-> IF c = ConvOf[t] THEN t ELSE turns[c]]
    /\ Move(t, "acquire")
    /\ UNCHANGED <<records, be, jobs, threads, world>>

\* claim_turn, when no other turn of the conversation holds it.
ClaimTurn(t) ==
    /\ at[t].pc = "claim"
    /\ ConvOf[t] \in Convs => turns[ConvOf[t]] \in {NoTurn, t}
    /\ turns' = [c \in Convs |-> IF c = ConvOf[t] THEN t ELSE turns[c]]
    /\ Move(t, "acquire")
    /\ UNCHANGED <<records, be, jobs, threads, world>>

\* claim_turn, when the client leaves the queue: finish_turn finds another
\* ticket there, or none.
LeaveQueue(t) ==
    /\ "leave" \in Faults
    /\ at[t].pc = "claim"
    /\ ConvOf[t] \in Convs
    /\ turns[ConvOf[t]] \notin {NoTurn, t}
    /\ at' = [at EXCEPT ![t] = Over]
    /\ turns' = FreedBy(t)
    /\ UNCHANGED <<records, be, jobs, threads, world>>

\* The backend the pin names, until the turn gives it up.
Target(t) == IF at[t].spill \/ ~HasPin(ConvOf[t]) THEN NoBackend ELSE pins[ConvOf[t]].backend

\* The pin is worth waiting for: its backend can still take this request.
Pinned(t) ==
    LET b == Target(t) IN b # NoBackend /\ be[b].up /\ Size[t] <= NCtx[b] /\ b \in Reads[t]

\* The slots one pass of acquire may take.
Offers(t) ==
    {o \in (IF Pinned(t) THEN {Target(t)} ELSE Reads[t]) \X AllSlots :
        Usable(o[1], Size[t]) /\ o[2] \in PickSlot(o[1], ConvOf[t]) /\ ~MustOwe(o[1], t)}

\* A pass that took nothing.
Blocked(t) == \A o \in Offers(t) : MayOwe(o[1], t)

\* The record _take leaves.  pick_slot notes `using` on the record it finds,
\* and the first turn of a conversation has none yet.
TakenPin(c, t, b, s) ==
    IF HasPin(c)
    THEN [pins[c] EXCEPT !.backend = b,
                         !.slot = IF pins[c].backend = b THEN @ ELSE NoSlot,
                         !.using = s,
                         !.tokens = Size[t],
                         !.inflight = TRUE,
                         !.turns = @ + 1]
    ELSE [backend |-> b, slot |-> NoSlot, using |-> NoSlot, tokens |-> Size[t],
          inflight |-> TRUE, turns |-> 1, parking |-> FALSE, parked |-> FALSE,
          parkedTurn |-> 0, opening |-> NoOpening]

\* The records max_pins pushes out of P, the first in order o.
Victims(P, o) ==
    LET held == {c \in Convs : P[c] # NoPin}
        idle == {c \in held : ~P[c].inflight /\ ~P[c].parking}
    IN  {c \in idle : Cardinality(held) - MaxPins > Cardinality({d \in idle : o[d] > o[c]})}

\* acquire, taking slot s of b, and end_wait.
Take(t, b, s) ==
    LET c == ConvOf[t]
        taken == IF c \in Convs THEN [pins EXCEPT ![c] = TakenPin(c, t, b, s)] ELSE pins
        queue == IF c \in Convs THEN Touch(order, c) ELSE order
        out == IF c \in Convs THEN Victims(taken, queue) ELSE {}
    IN  /\ at[t].pc = "acquire"
        /\ <<b, s>> \in Offers(t)
        /\ pins' = [d \in Convs |-> IF d \in out THEN NoPin ELSE taken[d]]
        /\ order' = queue
        /\ used' = IF c \in Convs THEN Touch(used, c) ELSE used
        /\ file' = Dropped(file, {d \in out : taken[d].parked})
        /\ be' = Count(be, b, 1)
        /\ at' = [at EXCEPT ![t] = [@ EXCEPT !.pc = "park", !.be = b, !.slot = s, !.serving = b]]
        /\ UNCHANGED <<turns, jobs, threads, box, cache, cut>>

\* acquire gives the pin up: it can never take this request, or pin_patience
\* has run out.
Spill(t) ==
    /\ at[t].pc = "acquire"
    /\ ~at[t].spill
    /\ HasPin(ConvOf[t])
    /\ Blocked(t)
    /\ at' = [at EXCEPT ![t].spill = TRUE]
    /\ UNCHANGED <<turns, records, be, jobs, threads, world>>

\* acquire answers None: nothing that could serve the turn is up.  The turn
\* gives the conversation back.
Refuse(t) ==
    /\ at[t].pc = "acquire"
    /\ Blocked(t)
    /\ ~Pinned(t)
    /\ \A b \in Reads[t] : ~be[b].up
    /\ at' = [at EXCEPT ![t] = Over]
    /\ turns' = FreedBy(t)
    /\ UNCHANGED <<records, be, jobs, threads, world>>

\* acquire answers None because the client left.  Nothing else ends a wait for
\* a slot of a backend that is up: it has no deadline.
LeaveAcquire(t) ==
    /\ "leave" \in Faults
    /\ at[t].pc = "acquire"
    /\ Blocked(t)
    /\ at' = [at EXCEPT ![t] = Over]
    /\ turns' = FreedBy(t)
    /\ UNCHANGED <<records, be, jobs, threads, world>>

-------------------------------------------------------------------------------
\* _save_park and _park: four callers, one procedure.  A thread is in phase
\* "count" before the claim on the slot, "begin" before the turn number is
\* read, "writing" while the backend writes, "short" when it has unlinked a
\* file that held nothing, "sweep" before the finally.

SaveVars == <<turns, order, used, jobs, at, wk, op, box, cache>>

\* Threads whose save of c's file is still running.
Writers(c) == {a \in Actors : sub[a].phase = "writing" /\ sub[a].conv = c}

\* The claim on the slot.  A queued job is dropped when its slot changed
\* hands or its backend restarted while it waited.
SaveCount(a) ==
    LET j == sub[a]
        p == pins[j.conv]
        stale == /\ j.claim
                 /\ \/ ~HasPin(j.conv)
                    \/ p.inflight
                    \/ p.backend # j.be
                    \/ p.slot # j.slot
                    \/ j.gen # be[j.be].generation
    IN  /\ j.phase = "count"
        /\ IF stale
           THEN /\ pins' = IF HasPin(j.conv) THEN [pins EXCEPT ![j.conv].parking = FALSE] ELSE pins
                /\ sub' = [sub EXCEPT ![a] = [@ EXCEPT !.phase = "done", !.ok = FALSE]]
                /\ UNCHANGED be
           ELSE /\ be' = [be EXCEPT ![j.be].saving[j.slot] = @ + 1]
                /\ sub' = [sub EXCEPT ![a].phase = "begin"]
                /\ UNCHANGED pins
        /\ UNCHANGED <<SaveVars, file, cut>>

\* The turn this save belongs to, and the call to the backend.
SaveBegin(a) ==
    LET j == sub[a]
        turn == IF HasPin(j.conv) THEN pins[j.conv].turns ELSE 0
    IN  /\ j.phase = "begin"
        /\ box[j.be].on
        /\ sub' = [sub EXCEPT ![a] = [@ EXCEPT !.phase = "writing", !.turn = turn]]
        /\ file' = [file EXCEPT ![j.conv] = Torn]
        /\ UNCHANGED <<SaveVars, pins, be, cut>>

\* The budget sweep every save ends with, over the records P, kept or not.
EndSave(a, P, ok) ==
    LET j == sub[a]
        doomed == Doomed(P, j.conv)
    IN  /\ pins' = Trimmed(P, doomed)
        /\ sub' = [sub EXCEPT ![a] = [@ EXCEPT !.phase = "sweep", !.ok = ok, !.spent = doomed,
                                               !.turn = 0]]

\* The backend is down, or refuses before it writes.
SaveRefused(a) ==
    /\ sub[a].phase = "begin"
    /\ ~box[sub[a].be].on \/ "save" \in Faults
    /\ EndSave(a, pins, FALSE)
    /\ UNCHANGED <<SaveVars, be, file, cut>>

\* The backend dies with the file half written.
SaveCut(a) ==
    /\ sub[a].phase = "writing"
    /\ a \in cut
    /\ EndSave(a, pins, FALSE)
    /\ cut' = cut \ {a}
    /\ UNCHANGED <<SaveVars, be, file>>

\* The copy is written: the record vouches for it, as of the turn it was begun
\* in.  A file somebody unlinked meanwhile stays gone.
SaveKept(a) ==
    LET j == sub[a]
        held == cache[j.be][j.slot]
        P == IF HasPin(j.conv)
             THEN [pins EXCEPT ![j.conv] = [@ EXCEPT !.parked = TRUE, !.parkedTurn = j.turn]]
             ELSE pins
    IN  /\ j.phase = "writing"
        /\ a \notin cut
        /\ held # Empty
        /\ file' = IF file[j.conv] = NoFile \/ Writers(j.conv) # {a}
                   THEN file ELSE [file EXCEPT ![j.conv] = held]
        /\ EndSave(a, P, TRUE)
        /\ UNCHANGED <<SaveVars, be, cut>>

\* The file is under park_floor: the slot held nothing, and the file goes.
SaveShort(a) ==
    LET j == sub[a]
    IN  /\ j.phase = "writing"
        /\ a \notin cut
        /\ cache[j.be][j.slot] = Empty
        /\ file' = [file EXCEPT ![j.conv] = NoFile]
        /\ sub' = [sub EXCEPT ![a].phase = "short"]
        /\ UNCHANGED <<SaveVars, pins, be, cut>>

\* Then the record.  Only the turn the save was begun in may clear it.
SaveLost(a) ==
    LET j == sub[a]
        mine == HasPin(j.conv) /\ pins[j.conv].turns = j.turn
        P == IF mine
             THEN [pins EXCEPT ![j.conv] = [@ EXCEPT !.parked = FALSE, !.slot = NoSlot]]
             ELSE pins
    IN  /\ j.phase = "short"
        /\ EndSave(a, P, FALSE)
        /\ UNCHANGED <<SaveVars, be, file, cut>>

\* Mutant of SaveSwept: leaves a record alone that its next turn has taken up.
SaveSweptIfIdle(a) ==
    LET j == sub[a]
        idle == HasPin(j.conv) /\ ~pins[j.conv].inflight
    IN  /\ j.phase = "sweep"
        /\ file' = Dropped(file, j.spent)
        /\ be' = [be EXCEPT ![j.be].saving[j.slot] = @ - 1]
        /\ pins' = IF idle THEN [pins EXCEPT ![j.conv].parking = FALSE] ELSE pins
        /\ sub' = [sub EXCEPT ![a] = [@ EXCEPT !.phase = "done", !.spent = {}]]
        /\ UNCHANGED <<SaveVars, cut>>

\* The swept files go, then the finally of _save_park.
SaveSwept(a) ==
    LET j == sub[a]
    IN  /\ j.phase = "sweep"
        /\ file' = Dropped(file, j.spent)
        /\ be' = [be EXCEPT ![j.be].saving[j.slot] = @ - 1]
        /\ pins' = IF HasPin(j.conv) THEN [pins EXCEPT ![j.conv].parking = FALSE] ELSE pins
        /\ sub' = [sub EXCEPT ![a] = [@ EXCEPT !.phase = "done", !.spent = {}]]
        /\ UNCHANGED <<SaveVars, cut>>

SaveStep(a) ==
    \/ SaveCount(a) \/ SaveBegin(a) \/ SaveRefused(a) \/ SaveCut(a)
    \/ SaveKept(a) \/ SaveShort(a) \/ SaveLost(a) \/ SaveSwept(a)

\* The caches in b's slots that only a slot holds: what ensure_parked and
\* park_all copy.
OnlyInASlot(b, tried) ==
    {c \in Convs \ tried : /\ HasPin(c)
                           /\ pins[c].backend = b
                           /\ ~pins[c].inflight
                           /\ ~pins[c].parking
                           /\ pins[c].slot # NoSlot
                           /\ ~CopyIsCurrent(pins[c])
                           /\ WorthKeeping(pins[c])}

\* One copy of ensure_parked(b, conv), made by the turn t itself: the cache
\* used longest ago, each conversation once.
ParkOne(t, b) ==
    /\ NotSaving(t)
    /\ \E c \in Oldest(used, OnlyInASlot(b, at[t].tried \cup {ConvOf[t]})) :
          /\ pins' = [pins EXCEPT ![c].parking = TRUE]
          /\ sub' = [sub EXCEPT ![t] = SaveOf(c, b, pins[c].slot)]
          /\ at' = [at EXCEPT ![t].tried = @ \cup {c}]
    /\ UNCHANGED <<turns, order, used, be, jobs, wk, op, world>>

\* Mutant of NothingAtRisk: one copy, or none, and the read lands.
NothingRunning(t, b) == NotSaving(t)

\* ensure_parked(b, conv) has no more to copy.
NothingAtRisk(t, b) ==
    /\ NotSaving(t)
    /\ OnlyInASlot(b, at[t].tried \cup {ConvOf[t]}) = {}

\* Mutant of EndClaims: whoever was in the slot still claims it.
ClaimsLeftStanding(P, b, s, c) == P

\* _end_claims: slot s of b is c's now, so no other record names it.
EndClaims(P, b, s, c) ==
    [d \in Convs |-> IF d # c /\ P[d] # NoPin /\ P[d].backend = b /\ P[d].slot = s
                     THEN [P[d] EXCEPT !.slot = NoSlot] ELSE P[d]]

-------------------------------------------------------------------------------
\* Turn.run, from the slot to the read.

\* ensure_parked before the read.
EnsureParked(t) == at[t].pc = "park" /\ ParkOne(t, at[t].be)

\* ensure_parked is done, and take_slot.
TakeSlot(t) ==
    /\ at[t].pc = "park"
    /\ NothingAtRisk(t, at[t].be)
    /\ pins' = EndClaims(pins, at[t].be, at[t].slot, ConvOf[t])
    /\ sub' = [sub EXCEPT ![t] = NoSave]
    /\ at' = [at EXCEPT ![t] = [@ EXCEPT !.pc = "stale", !.tried = {}]]
    /\ UNCHANGED <<turns, order, used, be, jobs, wk, op, world>>

\* forget_stale_park: the client changed the opening, so the copy is no use.
\* Its file goes when the lock is let go.
ForgetStalePark(t) ==
    LET c == ConvOf[t]
        stale == /\ Opening[t] # NoOpening
                 /\ HasPin(c)
                 /\ pins[c].parked
                 /\ pins[c].opening \notin {NoOpening, Opening[t]}
    IN  /\ at[t].pc = "stale"
        /\ pins' = IF stale
                   THEN [pins EXCEPT ![c] = [@ EXCEPT !.parked = FALSE, !.slot = NoSlot]]
                   ELSE pins
        /\ Move(t, IF stale THEN "stale_file" ELSE "recall")
        /\ UNCHANGED <<turns, order, used, be, jobs, threads, world>>

\* The file of a copy forget_stale_park or _forget_park gave up, unlinked
\* outside the lock.
UnlinkForgotten(t) ==
    /\ at[t].pc \in {"stale_file", "refused_file"}
    /\ file' = Dropped(file, {ConvOf[t]})
    /\ Move(t, IF at[t].pc = "stale_file" THEN "recall" ELSE "warm")
    /\ UNCHANGED <<turns, records, be, jobs, threads, box, cache, cut>>

\* recall restores a copy unless the cache is in the slot it was given.
Recalls(t) ==
    LET c == ConvOf[t] IN
    /\ HasPin(c)
    /\ pins[c].parked
    /\ ~(pins[c].backend = at[t].be /\ pins[c].slot = at[t].slot)

\* A body that is no JSON object is neither read nor carried.
AfterWarm(t) == IF t \in Unread THEN "relay" ELSE "reading"

Recall(t) ==
    /\ at[t].pc = "recall"
    /\ Move(t, IF Recalls(t) THEN "restoring" ELSE "warm")
    /\ UNCHANGED <<turns, records, be, jobs, threads, world>>

\* The restore landed: the whole file went into the slot.
Recalled(t) ==
    LET c == ConvOf[t]
    IN  /\ at[t].pc = "restoring"
        /\ t \notin cut
        /\ box[at[t].be].on
        /\ file[c] \in Contents
        /\ cache' = [cache EXCEPT ![at[t].be][at[t].slot] = file[c]]
        /\ pins' = IF HasPin(c)
                   THEN [pins EXCEPT ![c] = [@ EXCEPT !.backend = at[t].be, !.slot = at[t].slot]]
                   ELSE pins
        /\ Move(t, AfterWarm(t))
        /\ UNCHANGED <<turns, order, used, be, jobs, threads, box, file, cut>>

\* Mutant of RecallRejected: unlinks the file and keeps its name.
RecallRejectedKeepingIt(t) ==
    /\ at[t].pc = "restoring"
    /\ t \notin cut
    /\ box[at[t].be].on
    /\ file[ConvOf[t]] \notin Contents \/ "restore" \in Faults
    /\ Move(t, IF HasPin(ConvOf[t]) /\ pins[ConvOf[t]].parked THEN "refused_file" ELSE "warm")
    /\ UNCHANGED <<turns, records, be, jobs, threads, world>>

\* The backend answered with an error: no such file, or not a whole one.
\* _forget_park drops the copy, and its file when the lock is let go.
RecallRejected(t) ==
    LET c == ConvOf[t]
        named == HasPin(c) /\ pins[c].parked
    IN  /\ at[t].pc = "restoring"
        /\ t \notin cut
        /\ box[at[t].be].on
        /\ file[c] \notin Contents \/ "restore" \in Faults
        /\ pins' = IF named THEN [pins EXCEPT ![c].parked = FALSE] ELSE pins
        /\ Move(t, IF named THEN "refused_file" ELSE "warm")
        /\ UNCHANGED <<turns, order, used, be, jobs, threads, world>>

\* The backend did not answer: it may be back soon, so the copy stays.
RecallLost(t) ==
    /\ at[t].pc = "restoring"
    /\ t \in cut \/ ~box[at[t].be].on
    /\ cut' = cut \ {t}
    /\ Move(t, "warm")
    /\ UNCHANGED <<turns, records, be, jobs, threads, box, cache, file>>

\* warm_prefix: a conversation with no cache of its own may start from a
\* shared opening.  Which one, and who reads it first, is not modelled here.
WarmPrefix(t) ==
    LET c == ConvOf[t]
        own == HasPin(c) /\ (pins[c].parked \/ pins[c].slot # NoSlot)
    IN  /\ at[t].pc = "warm"
        /\ \/ UNCHANGED cache
           \/ /\ ~own
              /\ Opening[t] # NoOpening
              /\ box[at[t].be].on
              /\ cache' = [cache EXCEPT ![at[t].be][at[t].slot] = SharedOpening]
        /\ Move(t, AfterWarm(t))
        /\ UNCHANGED <<turns, records, be, jobs, threads, box, file, cut>>

\* What the slot holds once t's prompt is in it.
MyPrompt(t) ==
    Prompt(ConvOf[t], IF HasPin(ConvOf[t]) THEN pins[ConvOf[t]].turns ELSE 0)

\* The read answered, and note_slot.
ReadDone(t) ==
    LET c == ConvOf[t]
    IN  /\ at[t].pc = "reading"
        /\ t \notin cut
        /\ box[at[t].be].on
        /\ cache' = [cache EXCEPT ![at[t].be][at[t].slot] = MyPrompt(t)]
        /\ pins' = IF HasPin(c) THEN [pins EXCEPT ![c].slot = at[t].slot] ELSE pins
        /\ Move(t, "handoff")
        /\ UNCHANGED <<turns, order, used, be, jobs, threads, box, file, cut>>

\* The client left mid-read.  The backend had read some of the prompt into the
\* slot, or had not begun.
ReadGone(t) ==
    /\ "leave" \in Faults
    /\ at[t].pc = "reading"
    /\ \/ UNCHANGED cache
       \/ /\ t \notin cut
          /\ box[at[t].be].on
          /\ cache' = [cache EXCEPT ![at[t].be][at[t].slot] = MyPrompt(t)]
    /\ at' = [at EXCEPT ![t] = [@ EXCEPT !.pc = "release", !.left = TRUE]]
    /\ cut' = cut \ {t}
    /\ UNCHANGED <<turns, records, be, jobs, threads, box, file>>

\* The backend refused the read, or died under it: the client is told 502.
ReadFailed(t) ==
    /\ at[t].pc = "reading"
    /\ t \in cut \/ ~box[at[t].be].on \/ "read" \in Faults
    /\ Move(t, "release")
    /\ cut' = cut \ {t}
    /\ UNCHANGED <<turns, records, be, jobs, threads, box, cache, file>>

-------------------------------------------------------------------------------
\* hand_off, and the reply.

\* hand_off carries nothing: it is off, the turn is typed, no generator comes
\* before the reader, or no slot is on record.
Stay(t) ==
    LET b == at[t].be
    IN  /\ at[t].pc = "handoff"
        /\ NotSaving(t)
        /\ sub[t].phase = "none"
        /\ \/ ~Handoff
           \/ t \in Typed /\ b \in Generates
           \/ Generator(Size[t], b) = {} /\ b \in Generates
           \/ Generator(Size[t], b) # {} /\ ~(HasPin(ConvOf[t]) /\ pins[ConvOf[t]].slot # NoSlot)
        /\ Move(t, "relay")
        /\ UNCHANGED <<turns, records, be, jobs, threads, world>>

Carries(t) == Handoff /\ ~(t \in Typed /\ at[t].be \in Generates)

\* The client leaves while the turn waits, on a reader that may not generate,
\* for a generator to come up: Gone, with the reader still held.
LeaveReader(t) ==
    /\ "leave" \in Faults
    /\ at[t].pc = "handoff"
    /\ sub[t].phase = "none"
    /\ Carries(t)
    /\ at[t].be \notin Generates
    /\ Generator(Size[t], at[t].be) = {}
    /\ at' = [at EXCEPT ![t] = [@ EXCEPT !.pc = "release", !.left = TRUE]]
    /\ UNCHANGED <<turns, records, be, jobs, threads, world>>

\* hand_off saves the slot for the generator it chose.
CarrySave(t, g) ==
    LET c == ConvOf[t]
    IN  /\ at[t].pc = "handoff"
        /\ sub[t].phase = "none"
        /\ Carries(t)
        /\ g \in Generator(Size[t], at[t].be)
        /\ HasPin(c) /\ pins[c].slot # NoSlot
        /\ sub' = [sub EXCEPT ![t] = SaveOf(c, at[t].be, pins[c].slot)]
        /\ at' = [at EXCEPT ![t].dst = g]
        /\ UNCHANGED <<turns, records, be, jobs, wk, op, world>>

\* The cache is on disk, so the reader is given back before the wait.
CarrySaved(t) ==
    LET named == HasPin(ConvOf[t]) /\ pins[ConvOf[t]].parked
    IN  /\ at[t].pc = "handoff"
        /\ Saved(t)
        /\ sub[t].ok
        /\ be' = Count(be, at[t].be, -1)
        /\ at' = [at EXCEPT ![t] = [@ EXCEPT !.pc = "genwait", !.named = named]]
        /\ sub' = [sub EXCEPT ![t] = NoSave]
        /\ UNCHANGED <<turns, records, jobs, wk, op, world>>

CarryNotSaved(t) ==
    /\ at[t].pc = "handoff"
    /\ Saved(t)
    /\ ~sub[t].ok
    /\ at' = [at EXCEPT ![t] = [@ EXCEPT !.pc = "relay", !.dst = NoBackend]]
    /\ sub' = [sub EXCEPT ![t] = NoSave]
    /\ UNCHANGED <<turns, records, be, jobs, wk, op, world>>

\* _wait_to_generate answers a slot of the generator, counted like a request.
GenerateSlot(t, s) ==
    LET g == at[t].dst
    IN  /\ at[t].pc = "genwait"
        /\ g # NoBackend
        /\ be[g].up /\ ~be[g].draining
        /\ be[g].busy < Cardinality(SlotsOf[g])
        /\ s \in FreeSlots(g)
        /\ be' = [Count(be, g, 1) EXCEPT ![g].handed = @ \cup {s}]
        /\ at' = [at EXCEPT ![t] = [@ EXCEPT !.pc = "clear", !.free = s]]
        /\ UNCHANGED <<turns, records, jobs, threads, world>>

\* Mutant of NoGenerator: with no generator left it never looks again.
GeneratorWentAway(t) ==
    /\ at[t].pc = "genwait"
    /\ at[t].dst # NoBackend
    /\ ~(be[at[t].dst].up /\ ~be[at[t].dst].draining)

\* _wait_to_generate answers None: its generator went away.
NoGenerator(t) ==
    /\ at[t].pc = "genwait"
    /\ ~(at[t].dst # NoBackend /\ be[at[t].dst].up /\ ~be[at[t].dst].draining)

\* Parked, and nobody to answer: hand_off answers None.  The poll may still
\* call a slot busy that is free, so a client can leave with one free.
LeaveParked(t) ==
    /\ "leave" \in Faults
    /\ at[t].pc = "genwait"
    /\ at' = [at EXCEPT ![t] = [@ EXCEPT !.pc = "partial", !.left = TRUE, !.dst = NoBackend,
                                         !.serving = NoBackend]]
    /\ UNCHANGED <<turns, records, be, jobs, threads, world>>

\* Mutant of GenerateHere: the reader is not counted again.
GenerateHereUncounted(t) ==
    /\ NoGenerator(t)
    /\ at[t].be \in Generates
    /\ at' = [at EXCEPT ![t] = [@ EXCEPT !.pc = "relay", !.dst = NoBackend]]
    /\ UNCHANGED <<turns, records, be, jobs, threads, world>>

\* The generator went away and the reader generates: a slow answer beats none.
GenerateHere(t) ==
    /\ NoGenerator(t)
    /\ at[t].be \in Generates
    /\ be' = Count(be, at[t].be, 1)
    /\ at' = [at EXCEPT ![t] = [@ EXCEPT !.pc = "relay", !.dst = NoBackend]]
    /\ UNCHANGED <<turns, records, jobs, threads, world>>

\* The reader may not generate: look for another generator.
GenerateElsewhere(t) ==
    LET found == Generator(Size[t], at[t].be)
    IN  /\ NoGenerator(t)
        /\ at[t].be \notin Generates
        /\ \E g \in (IF found = {} THEN {NoBackend} ELSE found) :
              /\ g # at[t].dst
              /\ at' = [at EXCEPT ![t].dst = g]
        /\ UNCHANGED <<turns, records, be, jobs, threads, world>>

\* ensure_parked on the generator: the restore writes over the slot.
ClearTarget(t) == at[t].pc = "clear" /\ ParkOne(t, at[t].dst)

TargetCleared(t) ==
    /\ at[t].pc = "clear"
    /\ NothingAtRisk(t, at[t].dst)
    /\ sub' = [sub EXCEPT ![t] = NoSave]
    /\ at' = [at EXCEPT ![t] = [@ EXCEPT !.pc = "landing", !.tried = {}]]
    /\ UNCHANGED <<turns, records, be, jobs, wk, op, world>>

\* The carried turn is in its slot, and owns it.
Land(t) ==
    LET c == ConvOf[t]
        g == at[t].dst
        s == at[t].free
    IN  /\ at[t].pc = "landing"
        /\ t \notin cut
        /\ box[g].on
        /\ at[t].named /\ file[c] \in Contents
        /\ cache' = [cache EXCEPT ![g][s] = file[c]]
        /\ be' = [be EXCEPT ![g].handed = @ \ {s}]
        /\ pins' = IF HasPin(c)
                   THEN [EndClaims(pins, g, s, c) EXCEPT ![c] =
                           [@ EXCEPT !.backend = g, !.slot = s, !.using = s, !.inflight = TRUE]]
                   ELSE pins
        /\ at' = [at EXCEPT ![t] = [@ EXCEPT !.pc = "relay", !.serving = g, !.dst = NoBackend,
                                             !.free = NoSlot, !.named = FALSE]]
        /\ UNCHANGED <<turns, order, used, jobs, threads, box, file, cut>>

\* The restore failed: the generator's slot goes back, and the turn generates
\* where it read, counted there again.
LandFailed(t) ==
    LET g == at[t].dst
    IN  /\ at[t].pc = "landing"
        /\ \/ t \in cut
           \/ ~box[g].on
           \/ ~at[t].named
           \/ file[ConvOf[t]] \notin Contents
           \/ "restore" \in Faults
        /\ be' = [Count(Count(be, g, -1), at[t].be, 1) EXCEPT ![g].handed = @ \ {at[t].free}]
        /\ at' = [at EXCEPT ![t] = [@ EXCEPT !.pc = "relay", !.dst = NoBackend, !.free = NoSlot,
                                             !.named = FALSE]]
        /\ cut' = cut \ {t}
        /\ UNCHANGED <<turns, records, jobs, threads, box, cache, file>>

\* relay or say_answers: the reply is generated in the slot that holds the
\* prompt, or in any slot of the backend when none does.  A client that leaves
\* a typed turn leaves it mid-work.
Relay(t) ==
    LET b == at[t].serving
        mine == {s \in SlotsOf[b] : cache[b][s] = MyPrompt(t)}
    IN  /\ at[t].pc = "relay"
        /\ \/ UNCHANGED cache
           \/ /\ t \notin Unread /\ t \notin cut /\ box[b].on
              /\ mine = {}
              /\ \E s \in SlotsOf[b] : cache' = [cache EXCEPT ![b][s] = MyPrompt(t)]
        /\ \E gone \in IF "leave" \in Faults /\ t \in Typed THEN BOOLEAN ELSE {FALSE} :
              at' = [at EXCEPT ![t] = [@ EXCEPT !.pc = "release", !.left = gone]]
        /\ cut' = cut \ {t}
        /\ UNCHANGED <<turns, records, be, jobs, threads, box, file>>

-------------------------------------------------------------------------------
\* The ending of Turn.run, whatever way out was taken.

\* note_holds, and release.
Release(t) ==
    LET c == ConvOf[t]
        opening == IF Opening[t] = NoOpening THEN pins[c].opening ELSE Opening[t]
    IN  /\ at[t].pc = "release"
        /\ be' = Count(be, at[t].serving, -1)
        /\ pins' = IF HasPin(c)
                   THEN [pins EXCEPT ![c] = [@ EXCEPT !.inflight = FALSE, !.opening = opening]]
                   ELSE pins
        /\ used' = IF HasPin(c) THEN Touch(used, c) ELSE used
        /\ Move(t, IF at[t].left THEN "partial" ELSE "later")
        /\ UNCHANGED <<turns, order, jobs, threads, world>>

\* park_partial: keep what an abandoned read got through.
Partial(t) ==
    LET c == ConvOf[t]
    IN  HasPin(c) /\ ~CopyIsCurrent(pins[c]) /\ ~pins[c].parking

ParkPartial(t) ==
    LET c == ConvOf[t]
    IN  /\ at[t].pc = "partial"
        /\ sub[t].phase = "none"
        /\ Partial(t)
        /\ pins' = [pins EXCEPT ![c].parking = TRUE]
        /\ sub' = [sub EXCEPT ![t] = SaveOf(c, at[t].be, at[t].slot)]
        /\ UNCHANGED <<turns, order, used, be, jobs, at, wk, op, world>>

PartialOver(t) ==
    /\ at[t].pc = "partial"
    /\ Saved(t) \/ (sub[t].phase = "none" /\ ~Partial(t))
    /\ sub' = [sub EXCEPT ![t] = NoSave]
    /\ Move(t, "later")
    /\ UNCHANGED <<turns, records, be, jobs, wk, op, world>>

\* Mutant of Leaves: does not ask whether the record still names a slot.
LeavesAnySlot(t) ==
    LET c == ConvOf[t]
    IN  /\ at[t].serving \notin Reads[t] \cup {NoBackend}
        /\ HasPin(c)
        /\ WorthKeeping(pins[c])
        /\ ~pins[c].parking

\* park_later has a copy for the worker: the turn was served where its path is
\* not read.
Leaves(t) ==
    LET c == ConvOf[t]
    IN  /\ at[t].serving \notin Reads[t] \cup {NoBackend}
        /\ HasPin(c)
        /\ pins[c].slot # NoSlot
        /\ WorthKeeping(pins[c])
        /\ ~pins[c].parking

\* Mutant of ParkLater: the ticket does not go with the job.
ParkLaterLettingGo(t) ==
    LET c == ConvOf[t]
        b == at[t].serving
    IN  /\ at[t].pc = "later"
        /\ Leaves(t)
        /\ pins' = [pins EXCEPT ![c].parking = TRUE]
        /\ jobs' = Append(jobs, [conv |-> c, be |-> b, slot |-> pins[c].slot, ticket |-> t,
                                 gen |-> be[b].generation])
        /\ turns' = FreedBy(t)
        /\ at' = [at EXCEPT ![t] = Over]
        /\ UNCHANGED <<order, used, be, threads, world>>

\* park_later: the ticket travels with the job.
ParkLater(t) ==
    LET c == ConvOf[t]
        b == at[t].serving
    IN  /\ at[t].pc = "later"
        /\ Leaves(t)
        /\ pins' = [pins EXCEPT ![c].parking = TRUE]
        /\ jobs' = Append(jobs, [conv |-> c, be |-> b, slot |-> pins[c].slot, ticket |-> t,
                                 gen |-> be[b].generation])
        /\ at' = [at EXCEPT ![t] = Over]
        /\ UNCHANGED <<turns, order, used, be, threads, world>>

FinishTurn(t) ==
    /\ at[t].pc = "later"
    /\ ~Leaves(t)
    /\ turns' = FreedBy(t)
    /\ at' = [at EXCEPT ![t] = Over]
    /\ UNCHANGED <<records, be, jobs, threads, world>>

\* _run_parks: one worker, one job at a time.
TakeJob ==
    /\ wk = NoTurn
    /\ jobs # <<>>
    /\ LET j == Head(jobs)
       IN  /\ wk' = j.ticket
           /\ sub' = [sub EXCEPT ![Worker] = [SaveOf(j.conv, j.be, j.slot) EXCEPT
                                                !.claim = TRUE, !.gen = j.gen]]
    /\ jobs' = Tail(jobs)
    /\ UNCHANGED <<turns, records, be, at, op, world>>

\* Mutant of JobDone: the ticket is lost with the job.
JobDoneKeepingTicket ==
    /\ wk # NoTurn
    /\ Saved(Worker)
    /\ wk' = NoTurn
    /\ sub' = [sub EXCEPT ![Worker] = NoSave]
    /\ UNCHANGED <<turns, records, be, jobs, at, op, world>>

\* The finally: the ticket goes back whatever happened.
JobDone ==
    /\ wk # NoTurn
    /\ Saved(Worker)
    /\ turns' = FreedBy(wk)
    /\ wk' = NoTurn
    /\ sub' = [sub EXCEPT ![Worker] = NoSave]
    /\ UNCHANGED <<records, be, jobs, at, op, world>>

-------------------------------------------------------------------------------
\* The poll, and the processes it watches.

\* forget_slots: a restarted backend lost every slot.  A record mid-turn or
\* mid-copy is left alone.
ForgetSlots(P, b) ==
    [c \in Convs |-> IF P[c] # NoPin /\ P[c].backend = b /\ ~P[c].inflight /\ ~P[c].parking
                     THEN [P[c] EXCEPT !.slot = NoSlot, !.using = NoSlot] ELSE P[c]]

\* _watch, one backend: two misses before down, and a backend that came back
\* has empty slots.
Watch(b) ==
    LET misses == IF box[b].on THEN 0 ELSE IF be[b].misses < 2 THEN be[b].misses + 1 ELSE 2
        up == box[b].on \/ (be[b].up /\ misses < 2)
        cameBack == up /\ ~be[b].up
        generation == IF cameBack THEN be[b].generation + 1 ELSE be[b].generation
    IN  /\ be' = [be EXCEPT ![b] = [@ EXCEPT !.misses = misses, !.up = up,
                                             !.generation = generation]]
        /\ be' # be
        /\ pins' = IF cameBack THEN ForgetSlots(pins, b) ELSE pins
        /\ UNCHANGED <<turns, order, used, jobs, at, threads, world>>

\* The threads with a call to b in flight.
Calling(b) ==
    {a \in Actors : sub[a].phase = "writing" /\ sub[a].be = b}
    \cup {t \in Turns : \/ at[t].pc \in {"restoring", "reading"} /\ at[t].be = b
                        \/ at[t].pc = "landing" /\ at[t].dst = b
                        \/ at[t].pc = "relay" /\ at[t].serving = b}

\* A llama-server dies and takes every cache in its slots with it.
Die(b) ==
    /\ box[b].on
    /\ box' = [box EXCEPT ![b] = [on |-> FALSE, crashes |-> box[b].crashes + 1]]
    /\ cache' = [cache EXCEPT ![b] = [s \in AllSlots |-> Empty]]
    /\ cut' = cut \cup Calling(b)

Crash(b) ==
    /\ b \in Crashable
    /\ box[b].crashes < MaxCrashes
    /\ Die(b)
    /\ UNCHANGED <<turns, records, be, jobs, at, threads, file>>

\* It is started again, by its supervisor or by restart-backend.sh.
Boot(b) ==
    /\ ~box[b].on
    /\ box' = [box EXCEPT ![b].on = TRUE]
    /\ UNCHANGED <<turns, records, be, jobs, at, threads, cache, file, cut>>

-------------------------------------------------------------------------------
\* drain, park_all and resume, called one after the other by an operator.

Drain(b) ==
    /\ op.pc = "idle"
    /\ op.drains < MaxDrains
    /\ b \in Drainable
    /\ be' = [be EXCEPT ![b].draining = TRUE]
    /\ op' = [op EXCEPT !.pc = "quieting", !.be = b, !.drains = @ + 1]
    /\ UNCHANGED <<turns, records, jobs, at, sub, wk, world>>

\* Running work ends, or drain_deadline passes with some left.
DrainWaited ==
    /\ op.pc = "quieting"
    /\ op' = [op EXCEPT !.pc = IF be[op.be].busy <= 0 THEN "parking" ELSE "counting",
                        !.quiet = be[op.be].busy <= 0]
    /\ UNCHANGED <<turns, records, be, jobs, at, sub, wk, world>>

\* One copy of park_all(only=name): each conversation once.
ParkAllOne ==
    /\ op.pc = "parking"
    /\ NotSaving(Operator)
    /\ be[op.be].up \/ op.tried # {}
    /\ \E c \in Oldest(order, OnlyInASlot(op.be, op.tried)) :
          /\ pins' = [pins EXCEPT ![c].parking = TRUE]
          /\ sub' = [sub EXCEPT ![Operator] = SaveOf(c, op.be, pins[c].slot)]
          /\ op' = [op EXCEPT !.tried = @ \cup {c}]
    /\ UNCHANGED <<turns, order, used, be, jobs, at, wk, world>>

ParkAllOver ==
    /\ op.pc = "parking"
    /\ NotSaving(Operator)
    /\ ~(be[op.be].up \/ op.tried # {}) \/ OnlyInASlot(op.be, op.tried) = {}
    /\ op' = [op EXCEPT !.pc = "counting", !.tried = {}]
    /\ sub' = [sub EXCEPT ![Operator] = NoSave]
    /\ UNCHANGED <<turns, records, be, jobs, at, wk, world>>

\* The report: how many caches are still only in a slot.
DrainReport ==
    /\ op.pc = "counting"
    /\ op' = [op EXCEPT !.pc = "drained", !.left = Cardinality(OnlyInASlot(op.be, {}))]
    /\ UNCHANGED <<turns, records, be, jobs, at, sub, wk, world>>

\* The script restarts a backend whose report was clean.
RestartDrained ==
    /\ op.pc = "drained"
    /\ op.quiet /\ op.left = 0
    /\ Die(op.be)
    /\ op' = [op EXCEPT !.pc = "restarted"]
    /\ UNCHANGED <<turns, records, be, jobs, at, sub, wk, file>>

Resume ==
    /\ op.pc \in {"drained", "restarted"}
    /\ box[op.be].on
    /\ be' = [be EXCEPT ![op.be].draining = FALSE]
    /\ op' = [op EXCEPT !.pc = "idle", !.be = NoBackend, !.quiet = FALSE, !.left = 0]
    /\ UNCHANGED <<turns, records, jobs, at, sub, wk, world>>

-------------------------------------------------------------------------------
\* One step of a turn's own thread that needs nobody to fail or leave.
TurnStep(t) ==
    \/ Arrive(t) \/ ClaimTurn(t)
    \/ \E b \in Backends, s \in AllSlots : Take(t, b, s)
    \/ Spill(t) \/ Refuse(t) \/ EnsureParked(t) \/ TakeSlot(t) \/ ForgetStalePark(t)
    \/ Recall(t) \/ Recalled(t) \/ RecallRejected(t) \/ RecallLost(t) \/ UnlinkForgotten(t)
    \/ WarmPrefix(t)
    \/ ReadDone(t) \/ ReadFailed(t) \/ Stay(t)
    \/ \E g \in Backends : CarrySave(t, g)
    \/ CarrySaved(t) \/ CarryNotSaved(t)
    \/ \E s \in AllSlots : GenerateSlot(t, s)
    \/ GenerateHere(t) \/ GenerateElsewhere(t) \/ ClearTarget(t) \/ TargetCleared(t)
    \/ Land(t) \/ LandFailed(t) \/ Relay(t) \/ Release(t) \/ ParkPartial(t) \/ PartialOver(t)
    \/ ParkLater(t) \/ FinishTurn(t)

\* The client of a turn stops waiting.
ClientLeaves(t) ==
    LeaveQueue(t) \/ LeaveAcquire(t) \/ ReadGone(t) \/ LeaveReader(t) \/ LeaveParked(t)

WorkerStep == TakeJob \/ JobDone

OperatorStep ==
    \/ \E b \in Backends : Drain(b)
    \/ DrainWaited \/ ParkAllOne \/ ParkAllOver \/ DrainReport \/ RestartDrained \/ Resume

Next ==
    \/ \E t \in Turns : TurnStep(t) \/ ClientLeaves(t)
    \/ \E a \in Actors : SaveStep(a)
    \/ WorkerStep
    \/ OperatorStep
    \/ \E b \in Backends : Watch(b) \/ Crash(b) \/ Boot(b)

Spec == Init /\ [][Next]_vars

-------------------------------------------------------------------------------
TurnPcs == {"new", "claim", "acquire", "park", "stale", "stale_file", "recall", "restoring",
            "refused_file", "warm", "reading", "handoff", "genwait", "clear", "landing", "relay", "release",
            "partial", "later", "done"}

Threads == [pc : TurnPcs, be : Backends \cup {NoBackend}, slot : AllSlots \cup {NoSlot},
            serving : Backends \cup {NoBackend}, dst : Backends \cup {NoBackend},
            free : AllSlots \cup {NoSlot}, named : BOOLEAN, spill : BOOLEAN,
            left : BOOLEAN, tried : SUBSET Convs]

Pins == [backend : Backends \cup {NoBackend}, slot : AllSlots \cup {NoSlot},
         using : AllSlots \cup {NoSlot}, tokens : Nat, inflight : BOOLEAN,
         turns : Nat, parking : BOOLEAN, parked : BOOLEAN, parkedTurn : Nat,
         opening : {Opening[t] : t \in Turns} \cup {NoOpening}]

BackendStates == [up : BOOLEAN, misses : 0 .. 2, draining : BOOLEAN, busy : Int,
                  saving : [AllSlots -> Int], handed : SUBSET AllSlots, generation : Nat]

Saves == [phase : {"none", "count", "begin", "writing", "short", "sweep", "done"},
          conv : Convs \cup {NoConv}, be : Backends \cup {NoBackend},
          slot : AllSlots \cup {NoSlot}, claim : BOOLEAN, gen : Nat, turn : Nat,
          ok : BOOLEAN, spent : SUBSET Convs]

Jobs == [conv : Convs, be : Backends, slot : AllSlots, ticket : Turns, gen : Nat]

Drains == [pc : {"idle", "quieting", "parking", "counting", "drained", "restarted"},
           be : Backends \cup {NoBackend}, tried : SUBSET Convs, quiet : BOOLEAN,
           left : Nat, drains : Nat]

\* Every variable holds a value of its kind: no record is kept under None, no
\* job is queued without a backend and a slot.
TypeOK ==
    /\ turns \in [Convs -> Turns \cup {NoTurn}]
    /\ pins \in [Convs -> Pins \cup {NoPin}]
    /\ order \in [Convs -> Nat]
    /\ used \in [Convs -> Nat]
    /\ be \in [Backends -> BackendStates]
    /\ jobs \in Seq(Jobs)
    /\ at \in [Turns -> Threads]
    /\ sub \in [Actors -> Saves]
    /\ wk \in Turns \cup {NoTurn}
    /\ op \in Drains
    /\ box \in [Backends -> [on : BOOLEAN, crashes : Nat]]
    /\ cache \in [Backends -> [AllSlots -> Contents]]
    /\ file \in [Convs -> FileStates]
    /\ cut \subseteq Actors

\* Pool implements TurnOrder: what each thread and job does to the tickets
\* keeps one turn of a conversation at a time.
Copying(t) == wk = t \/ \E i \in DOMAIN jobs : jobs[i].ticket = t
StageOf(t) == CASE at[t].pc \in {"new", "claim"} -> "waiting"
                [] at[t].pc = "done" -> IF Copying(t) THEN "copying" ELSE "over"
                [] OTHER -> "serving"
Order == INSTANCE TurnOrder WITH stage <- [t \in Turns |-> StageOf(t)]
ImplementsTurnOrder == Order!Spec

\* A turn on the backend that reads it.
Reading == {"park", "stale", "stale_file", "recall", "restoring", "refused_file", "warm",
            "reading", "handoff"}

\* `busy` is the number of turns that count a backend theirs, through every
\* way hand_off gives one back and takes it again.
Counted(t, b) ==
    \/ at[t].be = b /\ at[t].pc \in Reading
    \/ at[t].dst = b /\ at[t].pc \in {"clear", "landing"}
    \/ at[t].serving = b /\ at[t].pc \in {"relay", "release"}
BusyIsTurns ==
    \A b \in Backends : be[b].busy = Cardinality({t \in Turns : Counted(t, b)})

\* Two turns never read, restore or generate in one slot together.  (b, s) is
\* where t's cache is, or is about to be.
InSlot(t, b, s) ==
    \/ at[t].be = b /\ at[t].slot = s /\ at[t].pc \in Reading
    \/ at[t].dst = b /\ at[t].free = s /\ at[t].pc \in {"clear", "landing"}
    \/ /\ at[t].serving = b
       /\ at[t].pc = "relay"
       /\ HasPin(ConvOf[t]) /\ pins[ConvOf[t]].using = s
OneTurnPerSlot ==
    \A b \in Backends, s \in AllSlots :
        \A t, u \in Turns : InSlot(t, b, s) /\ InSlot(u, b, s) => t = u

\* A record is marked `parking` only while a copy of it is queued or running:
\* "Left behind, it refuses every later copy of this conversation for the life
\* of the process" (pool.py, _save_park).
ParkingHasAWriter ==
    \A c \in Convs : HasPin(c) /\ pins[c].parking =>
        \/ \E a \in Actors : sub[a].conv = c /\ ~NotSaving(a)
        \/ \E i \in DOMAIN jobs : jobs[i].conv = c

\* Two saves never write one file together.
OneWriterPerFile == \A c \in Convs : Cardinality(Writers(c)) <= 1

\* A file holds nothing of another conversation.
NoForeignCopy == \A c \in Convs : file[c] \in Prompts => file[c].conv = c

\* A save of c has unlinked its file, and the record is still to hear of it.
Unnaming(c) == \E a \in Actors : sub[a].phase = "short" /\ sub[a].conv = c

\* A copy called current is not behind the cache its record names.  ensure_parked
\* and park_all pass over a current copy, so one that is behind loses a turn.
CurrentCopyIsCurrent ==
    \A c \in Convs :
        LET p == pins[c] IN
        /\ HasPin(c) /\ ~p.inflight /\ CopyIsCurrent(p) /\ Writers(c) = {} /\ ~Unnaming(c)
        /\ p.slot # NoSlot
        /\ cache[p.backend][p.slot] \in [conv : {c}, turn : Nat]
        => /\ file[c] \in Prompts
           /\ file[c].turn >= cache[p.backend][p.slot].turn

\* A parked record names a file that is there, or a save that found the slot
\* empty has unlinked it and is about to say so.
ParkedIsThere ==
    \A c \in Convs : HasPin(c) /\ pins[c].parked => file[c] # NoFile \/ Unnaming(c)

\* When every turn is over, no record reads as held by one.
NothingLeftHeld ==
    (\A t \in Turns : at[t].pc = "done") => \A c \in Convs : HasPin(c) => ~pins[c].inflight

\* The latest turn of c, worth keeping and idle, is in some slot or on disk.
Latest(c) == Prompt(c, pins[c].turns)
Resting(c) == HasPin(c) /\ ~pins[c].inflight /\ WorthKeeping(pins[c])
Kept(c) == \/ file[c] = Latest(c)
           \/ \E b \in Backends, s \in AllSlots : cache[b][s] = Latest(c)

\* The cache of an idle conversation is never lost: it is copied before another
\* takes its slot and before a drained backend is restarted.
CacheNeverLost == [][\A c \in Convs : Resting(c) /\ Kept(c) /\ Resting(c)' => Kept(c)']_vars

\* Every thread goes on when it can: a waiting one looks again each second.
\* The poll comes back, and a dead backend is started again.
Fairness ==
    /\ \A t \in Turns : WF_vars(TurnStep(t))
    /\ \A a \in Actors : WF_vars(SaveStep(a))
    /\ WF_vars(WorkerStep)
    /\ WF_vars(DrainWaited \/ ParkAllOne \/ ParkAllOver \/ DrainReport \/ Resume)
    /\ \A b \in Backends : WF_vars(Watch(b)) /\ WF_vars(Boot(b))

FairSpec == Spec /\ Fairness

\* Every request is answered or refused, and the conversation is let go.
EveryTurnEnds == \A t \in Turns : <>(at[t].pc = "done" /\ \A c \in Convs : turns[c] # t)

==============================================================================
