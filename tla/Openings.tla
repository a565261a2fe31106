------------------------------- MODULE Openings -------------------------------
(***************************************************************************)
(* The openings of the pool (Pool.warm_prefix and what it calls): starts   *)
(* of prompts that several requests share, kept as files.  A request whose *)
(* conversation has no cache loads the deepest opening it shares, waits    *)
(* for another request that reads it, or reads it and keeps the copy.      *)
(*                                                                         *)
(* One action is one hold of Pool.cv, one change of a file, or one call to *)
(* a backend.  A restore is three: the call, the backend reading the file, *)
(* and what the router does with the answer.                               *)
(***************************************************************************)
EXTENDS Integers, FiniteSets, Sequences, Queues

CONSTANTS
    Requests,     \* the requests that reach warm_prefix
    HasOwn,       \* those whose conversation has a copy or a slot
    Base,         \* [Requests -> keys]: the first cut, or NoKey
    NoKey,
    Lead,         \* lead_key: what comes before the first user message
    Lines,        \* what a line of a message can say
    Text,         \* [Requests -> Seq(Lines)]: the lines of that message, <<>> when there is none to use;
                  \* the last line is unfinished, so nobody shares it
    OnBase,       \* requests whose base ends where that message begins
    Least,        \* Tuning.system_min_chars, in lines
    MaxHeads,     \* the length of a deque of heads
    BlockBudget,  \* Tuning.block_budget, in openings: each is one unit
    Adopted,      \* the openings the last run left, the latest used last
    Faults        \* SUBSET {"load", "read", "leave", "patience"}

Leads == {Lead[t] : t \in Requests}
Bases == {Base[t] : t \in Requests} \ {NoKey}

\* start_key: a start is named by the lead and the lines.
Start(t, n) == [lead |-> Lead[t], text |-> SubSeq(Text[t], 1, n)]
Starts == UNION {{Start(t, n) : n \in 1 .. Len(Text[t]) - 1} : t \in Requests}
Keys == Bases \cup Starts

ASSUME Parameters ==
    /\ HasOwn \subseteq Requests /\ OnBase \subseteq Requests
    /\ NoKey \notin Keys /\ Bases \cap Starts = {}
    /\ Text \in [Requests -> Seq(Lines)]
    /\ \A t \in OnBase : Base[t] # NoKey
    /\ Least \in Nat \ {0} /\ MaxHeads \in Nat \ {0} /\ BlockBudget \in Nat \ {0}
    /\ Adopted \in Seq(Keys) /\ Len(Adopted) <= BlockBudget

VARIABLES
    openings,   \* Pool.openings, an OrderedDict: its keys in order
    starts,     \* the keys of Pool.starts
    heads,      \* Pool.heads: the messages seen under each lead
    building,   \* the keys of Pool.building
    files,      \* external: the slot file of each key
    rq          \* each request's thread

vars == <<openings, starts, heads, building, files, rq>>

-------------------------------------------------------------------------------
Has(k) == k \in Range(openings)
ToEnd(q, k) == Append(Without(q, {k}), k)

\* trim_openings: deeper openings before system prompts, then the least
\* recently used, until they fit.  Answers the keys dropped.
Trim(q, keep) ==
    LET free == Pick(q, Starts \ keep) \o Pick(q, Bases \ keep)
    IN  {free[i] : i \in {i \in DOMAIN free : i <= Len(q) - BlockBudget}}

\* common_prefix, cut at a line break: the lines two messages share.
Shared(x, y) ==
    {n \in 1 .. Len(x) - 1 : n < Len(y) /\ SubSeq(x, 1, n) = SubSeq(y, 1, n)}

Fewest(S) == CHOOSE n \in S : \A m \in S : n <= m
Most(S) == CHOOSE n \in S : \A m \in S : n >= m

\* shared_start: how long a start each of `others` shares with x, when that is
\* long enough; the shortest of those.
SharedLengths(x, others) ==
    {Most(Shared(x, y)) : y \in {y \in Range(others) \ {x} :
                                    \E n \in Shared(x, y) : n >= Least}}

\* Mutant of Unsaved: a request with no cut has an unsaved one.
AnyUnsaved(t) == ~Has(Base[t])

Unsaved(t) == Base[t] # NoKey /\ ~Has(Base[t])

\* The message is looked at once its base is kept, or there is none.
Looks(t) == Text[t] # <<>> /\ ~Unsaved(t)

\* _stored_start: the kept starts this message begins with, by their length.
Found(t) ==
    {n \in 1 .. Len(Text[t]) - 1 : Has(Start(t, n)) /\ Start(t, n) \in starts}

\* The starts nobody has and nobody reads, one or none.
Wanted(t) ==
    LET lengths == SharedLengths(Text[t], heads[Lead[t]])
    IN  {Start(t, n) : n \in {n \in lengths : n = Fewest(lengths)}} \ building

Heard(t) ==
    LET h == heads[Lead[t]]
        more == Append(h, Text[t])
    IN  IF ~Looks(t) \/ Text[t] \in Range(h) THEN heads
        ELSE [heads EXCEPT ![Lead[t]] =
                 IF Len(more) > MaxHeads THEN Tail(more) ELSE more]

-------------------------------------------------------------------------------
New == [pc |-> "new", plan |-> "none", key |-> NoKey, load |-> NoKey, named |-> TRUE,
        spent |-> {}, out |-> "none"]

Init ==
    /\ openings = Adopted
    /\ starts = Range(Adopted) \cap Starts
    /\ heads = [l \in Leads |-> <<>>]
    /\ building = {}
    /\ files \in {f \in [Keys -> {"none", "good", "stale"}] :
                     \A k \in Keys : f[k] = "none" <=> k \notin Range(Adopted)}
    /\ rq = [t \in Requests |-> New]

Go(t, pc) == rq' = [rq EXCEPT ![t].pc = pc]
Leave(t, out) == rq' = [rq EXCEPT ![t].pc = "done", ![t].out = out]

\* The finally of warm_prefix: a builder takes its key out, whatever happened.
Builds(t) == rq[t].plan \in {"read", "start"}
NotBuilding(t) == IF Builds(t) THEN building \ {rq[t].key} ELSE building

\* warm_prefix, when the conversation's own cache is better.
Skip(t) ==
    /\ rq[t].pc = "new" /\ t \in HasOwn
    /\ Leave(t, "cold")
    /\ UNCHANGED <<openings, starts, heads, building, files>>

\* The hold in which warm_prefix decides: the plan, and what it is about.
Decide(t, pc, plan, key, load) ==
    /\ rq[t].pc = "new" /\ t \notin HasOwn
    /\ rq' = [rq EXCEPT ![t].pc = pc, ![t].plan = plan, ![t].key = key, ![t].load = load]
    /\ heads' = Heard(t)
    /\ UNCHANGED <<openings, starts, files>>

PlanLoadStart(t) ==
    /\ Looks(t) /\ Found(t) # {}
    /\ LET k == Start(t, Most(Found(t))) IN Decide(t, "loading", "load", k, k)
    /\ UNCHANGED building

\* Read on into the start, from the base where it ends there.
PlanStart(t) ==
    /\ Looks(t) /\ Found(t) = {}
    /\ \E k \in Wanted(t) :
          /\ IF t \in OnBase THEN Decide(t, "lookup", "start", k, Base[t])
                             ELSE Decide(t, "link", "start", k, NoKey)
          /\ building' = building \cup {k}

PlanLoadBase(t) ==
    /\ Has(Base[t])
    /\ Looks(t) => Found(t) = {} /\ Wanted(t) = {}
    /\ Decide(t, "loading", "load", Base[t], Base[t])
    /\ UNCHANGED building

PlanWait(t) ==
    /\ Unsaved(t) /\ Base[t] \in building
    /\ Decide(t, "wait", "wait", Base[t], Base[t])
    /\ UNCHANGED building

\* Mutant of PlanRead: whether another request reads it is not asked.
PlanReadAnyway(t) ==
    /\ Unsaved(t)
    /\ Decide(t, "link", "read", Base[t], NoKey)
    /\ building' = building \cup {Base[t]}

PlanRead(t) ==
    /\ Unsaved(t) /\ Base[t] \notin building
    /\ Decide(t, "link", "read", Base[t], NoKey)
    /\ building' = building \cup {Base[t]}

PlanNone(t) ==
    /\ Base[t] = NoKey
    /\ Looks(t) => Found(t) = {} /\ Wanted(t) = {}
    /\ Decide(t, "done", "none", NoKey, NoKey)
    /\ UNCHANGED building

-------------------------------------------------------------------------------
\* _load_prefix.

\* _read_start looks its base up with the lock let go.
Lookup(t) ==
    /\ rq[t].pc = "lookup"
    /\ rq' = [rq EXCEPT ![t].pc = "loading", ![t].named = Has(rq[t].load)]
    /\ UNCHANGED <<openings, starts, heads, building, files>>

\* The backend opens the file.  It refuses no name, no file, half a file and
\* one of another version.
Answer(t) ==
    /\ rq[t].pc = "loading"
    /\ Go(t, IF rq[t].named /\ files[rq[t].load] = "good" THEN "loaded" ELSE "refused")
    /\ UNCHANGED <<openings, starts, heads, building, files>>

\* False from _load_prefix ends every plan.
Unloaded(t) == Leave(t, "cold") /\ building' = NotBuilding(t)

\* No answer is not a refusal.
LoadLost(t) ==
    /\ "load" \in Faults
    /\ rq[t].pc = "loading"
    /\ Unloaded(t)
    /\ UNCHANGED <<openings, starts, heads, files>>

Loaded(t) ==
    /\ rq[t].pc = "loaded"
    /\ openings' = IF Has(rq[t].load) THEN ToEnd(openings, rq[t].load) ELSE openings
    /\ IF rq[t].plan = "start" THEN Go(t, "link") ELSE Leave(t, "warm")
    /\ UNCHANGED <<starts, heads, building, files>>

\* _drop_opening, when the name it was given is not the one kept.
RefusedOther(t) ==
    /\ rq[t].pc = "refused"
    /\ rq[t].named # Has(rq[t].load)
    /\ Unloaded(t)
    /\ UNCHANGED <<openings, starts, heads, files>>

RefusedDropped(t) ==
    /\ rq[t].pc = "refused"
    /\ rq[t].named /\ Has(rq[t].load)
    /\ openings' = Without(openings, {rq[t].load})
    /\ starts' = starts \ {rq[t].load}
    /\ Go(t, "unlink")
    /\ UNCHANGED <<heads, building, files>>

\* Nothing is kept and no name was given: they are equal, and `del` raises.
RefusedRaised(t) ==
    /\ rq[t].pc = "refused"
    /\ ~rq[t].named /\ ~Has(rq[t].load)
    /\ Leave(t, "raised")
    /\ building' = NotBuilding(t)
    /\ UNCHANGED <<openings, starts, heads, files>>

Unlink(t) ==
    /\ rq[t].pc = "unlink"
    /\ files' = [files EXCEPT ![rq[t].load] = "none"]
    /\ Unloaded(t)
    /\ UNCHANGED <<openings, starts, heads>>

-------------------------------------------------------------------------------
\* _wait_for_opening.

WaitOver(t) ==
    IF Has(rq[t].key) THEN Go(t, "loading") ELSE Leave(t, "cold")

Waited(t) ==
    /\ rq[t].pc = "wait"
    /\ rq[t].key \notin building
    /\ WaitOver(t)
    /\ UNCHANGED <<openings, starts, heads, building, files>>

\* build_patience runs out.
WaitedLong(t) ==
    /\ "patience" \in Faults
    /\ rq[t].pc = "wait"
    /\ WaitOver(t)
    /\ UNCHANGED <<openings, starts, heads, building, files>>

WaitLeft(t) ==
    /\ "leave" \in Faults
    /\ rq[t].pc = "wait"
    /\ rq[t].key \in building
    /\ Leave(t, "cold")
    /\ UNCHANGED <<openings, starts, heads, building, files>>

-------------------------------------------------------------------------------
\* _read_prefix and _read_start.

\* link_block: the name points at nothing until the save.
Link(t) ==
    /\ rq[t].pc = "link"
    /\ files' = [files EXCEPT ![rq[t].key] = "link"]
    /\ Go(t, "reading")
    /\ UNCHANGED <<openings, starts, heads, building>>

\* Mutant of ReadKept: a start is kept without its row.
ReadKeptUnnamed(t) ==
    LET k == rq[t].key
        more == ToEnd(openings, k)
        gone == Trim(more, building)
    IN  /\ rq[t].pc = "reading"
        /\ files' = [files EXCEPT ![k] = "good"]
        /\ openings' = Without(more, gone)
        /\ rq' = [rq EXCEPT ![t].pc = "sweep", ![t].spent = gone]
        /\ UNCHANGED <<starts, heads, building>>

\* Read and saved: the opening is kept, and others go to make room.
ReadKept(t) ==
    LET k == rq[t].key
        more == ToEnd(openings, k)
        gone == Trim(more, building)
        known == IF rq[t].plan = "start" THEN (starts \cup {k}) \ gone ELSE starts
    IN  /\ rq[t].pc = "reading"
        /\ files' = [files EXCEPT ![k] = "good"]
        /\ openings' = Without(more, gone)
        /\ starts' = known
        /\ rq' = [rq EXCEPT ![t].pc = "sweep", ![t].spent = gone]
        /\ UNCHANGED <<heads, building>>

\* Mutant of ReadFailed: the key is left behind.
ReadFailedLeavingKey(t) ==
    /\ "read" \in Faults
    /\ rq[t].pc = "reading"
    /\ files' = [files EXCEPT ![rq[t].key] = "none"]
    /\ Leave(t, "cold")
    /\ UNCHANGED <<openings, starts, heads, building>>

\* Mutant of ReadFailed: the link made before the read stays.
ReadFailedLeavingLink(t) ==
    /\ "read" \in Faults
    /\ rq[t].pc = "reading"
    /\ Leave(t, "cold")
    /\ building' = NotBuilding(t)
    /\ UNCHANGED <<openings, starts, heads, files>>

\* The read or the save fails, the client leaves, or the copy of a base is
\* short: the file goes.  A base that was loaded first is in the slot all the same.
ReadFailed(t) ==
    /\ "read" \in Faults
    /\ rq[t].pc = "reading"
    /\ files' = [files EXCEPT ![rq[t].key] = "none"]
    /\ Leave(t, IF rq[t].load # NoKey THEN "warm" ELSE "cold")
    /\ building' = NotBuilding(t)
    /\ UNCHANGED <<openings, starts, heads>>

\* The files of the openings dropped, one after the other.
Sweep(t) ==
    /\ rq[t].pc = "sweep"
    /\ \E k \in rq[t].spent :
          /\ files' = [files EXCEPT ![k] = "none"]
          /\ rq' = [rq EXCEPT ![t].spent = @ \ {k}]
    /\ UNCHANGED <<openings, starts, heads, building>>

Swept(t) ==
    /\ rq[t].pc = "sweep"
    /\ rq[t].spent = {}
    /\ Leave(t, "warm")
    /\ building' = NotBuilding(t)
    /\ UNCHANGED <<openings, starts, heads, files>>

-------------------------------------------------------------------------------
Step(t) ==
    \/ Skip(t)
    \/ PlanLoadStart(t) \/ PlanStart(t) \/ PlanLoadBase(t) \/ PlanWait(t) \/ PlanRead(t)
    \/ PlanNone(t)
    \/ Lookup(t) \/ Answer(t) \/ Loaded(t) \/ RefusedOther(t) \/ RefusedDropped(t)
    \/ RefusedRaised(t) \/ Unlink(t)
    \/ Waited(t) \/ Link(t) \/ ReadKept(t) \/ Sweep(t) \/ Swept(t)

Fault(t) == LoadLost(t) \/ WaitedLong(t) \/ WaitLeft(t) \/ ReadFailed(t)

Next == \E t \in Requests : Step(t) \/ Fault(t)

Spec == Init /\ [][Next]_vars
FairSpec == Spec /\ WF_vars(\E t \in Requests : Step(t))

-------------------------------------------------------------------------------
Pcs == {"new", "lookup", "loading", "loaded", "refused", "unlink", "wait", "link",
        "reading", "sweep", "done"}
Threads == [pc : Pcs, plan : {"none", "load", "wait", "read", "start"},
            key : Keys \cup {NoKey}, load : Keys \cup {NoKey}, named : BOOLEAN,
            spent : SUBSET Keys, out : {"none", "cold", "warm", "raised"}]

\* Every variable holds a value of its kind; no opening is kept under None.
TypeOK ==
    /\ openings \in Seq(Keys)
    /\ starts \subseteq Starts
    /\ heads \in [Leads -> Seq({Text[t] : t \in Requests})]
    /\ building \subseteq Keys
    /\ files \in [Keys -> {"none", "link", "good", "stale"}]
    /\ rq \in [Requests -> Threads]

\* One request reads an opening, and a key is marked as being read only while
\* one does: "A key left behind makes every later conversation with this system
\* prompt wait build_patience for nothing" (pool.py, warm_prefix).
Reading(t) == Builds(t) /\ rq[t].pc # "done"
OneReader ==
    /\ building = {rq[t].key : t \in {t \in Requests : Reading(t)}}
    /\ \A t, u \in Requests : Reading(t) /\ Reading(u) /\ rq[t].key = rq[u].key => t = u

\* A start that is kept can be matched: without its row nothing would ever load
\* it, and the next run would delete it.
StartsAreKnown == Range(openings) \cap Starts \subseteq starts

\* A file on disk is kept, is being written, or is about to be deleted.
Unlinks(t) == rq[t].spent \cup IF rq[t].pc = "unlink" THEN {rq[t].load} ELSE {}
NoStrayFile ==
    \A k \in Keys : files[k] # "none" =>
        Has(k) \/ k \in building \/ \E t \in Requests : k \in Unlinks(t)

\* Nobody raises out of warm_prefix.
NeverRaises == \A t \in Requests : rq[t].out # "raised"

\* With nothing being read, the openings fit their budget.
BudgetKept == building = {} => Len(openings) <= BlockBudget

\* Every request comes out of warm_prefix, and none has to wait its patience out.
EveryRequestEnds == <>(\A t \in Requests : rq[t].pc = "done")
==============================================================================
