-------------------------------- MODULE Restart --------------------------------
(***************************************************************************)
(* What outlives the router: the copies in run/slots and pins.json, the    *)
(* map that says whose they are (src/bin/router/store/files.py), with the  *)
(* threads of the pool that write them, the shutdown that copies the live  *)
(* caches out (__main__.py) and the start that takes them over             *)
(* (Pool.adopt).                                                           *)
(*                                                                         *)
(* A thread that writes a copy picks it under the lock, claims its slot    *)
(* under the lock, saves, records it under the lock, deletes what the      *)
(* budget spends, takes the rows under the lock, and then opens, writes    *)
(* and renames the map with no lock held.  Each is an action here, and the *)
(* process can die between any two.                                        *)
(*                                                                         *)
(* Every slot here is on one backend that writes replies only, so every    *)
(* cache is worth a copy and every copy is one unit of the budget.  The    *)
(* backend's own death is Pool's subject.  A copy is known here by whether *)
(* it is the cache of the last turn: "older" stands for whatever is less,  *)
(* an earlier turn's, another conversation's, or half of one.              *)
(*                                                                         *)
(* Assumed: a backend that goes on with a save after the router died ends  *)
(* it before the next start lists the files.                               *)
(***************************************************************************)
EXTENDS Integers, FiniteSets, Sequences, SequencesExt, Queues

CONSTANTS
    Convs, NoConv,
    Handlers,     \* threads that serve a request
    Worker,       \* the park worker
    Main,         \* the thread adopt and the signal handler run on
    Slots, NoSlot,
    ParkBudget,   \* Tuning.park_budget, in copies
    Dies,         \* whether the router may be killed
    AnyLateTurn,  \* bound: if FALSE, a turn that begins after the signal is the
                  \* first since then of its conversation, and that is quiet
    Faulty        \* threads whose saves may be refused, and writes may fail

ASSUME Parameters ==
    /\ NoConv \notin Convs /\ NoSlot \notin Slots
    /\ ParkBudget \in Nat \ {0}
    /\ Dies \in BOOLEAN /\ AnyLateTurn \in BOOLEAN
    /\ Worker # Main /\ {Worker, Main} \cap Handlers = {}

Threads == Handlers \cup {Worker, Main}

VARIABLES
    rec,     \* Pool.pins: the record of each conversation
    used,    \* the conversations by record["last"], the latest at the end
    jobs,    \* Pool.park_jobs
    serve,   \* each handler: its conversation, and how far the turn is
    sv,      \* each thread: the copy it is making
    main,    \* the main thread: what it does, and whom park_all tried
    file,    \* what <conv>.park holds
    pins,    \* what pins.json holds
    spare,   \* what pins.json.new holds
    clean,   \* history: one save alone put the map in place
    quiet    \* history: conversations idle since the signal, whose file no sweep
             \* took or was to take, and whose copy was not refused, not out of
             \* time, not left to a request, and not of a slot read into since

memory == <<rec, used, jobs, serve, sv, main>>
disk   == <<file, pins, spare>>
vars   == <<memory, disk, clean, quiet>>

-------------------------------------------------------------------------------
\* The map.  Its rows are conversations, in the order they were last used.

Gone  == [is |-> "gone", rows |-> <<>>, synced |-> TRUE]
Blank == [is |-> "blank", rows |-> <<>>, synced |-> FALSE]
Text(is, rows) == [is |-> is, rows |-> rows, synced |-> TRUE]

\* Store._rows: an unreadable map reads as no rows.
Vouched == IF pins.is = "rows" THEN pins.rows ELSE <<>>

\* What a file holds once rows are written at its start.  Longer text covers
\* what was there, and shorter text leaves the end of it behind.
Overlay(rows, old) ==
    LET covers == old.is = "blank" \/ (old.is = "rows" /\ Len(rows) > Len(old.rows))
        shorter == old.is = "rows" /\ Len(rows) < Len(old.rows)
    IN  (IF shorter THEN {} ELSE {Text("rows", rows)})
        \cup (IF covers THEN {} ELSE {Text("garbled", <<>>)})

-------------------------------------------------------------------------------
\* The records.

Nothing == [inflight |-> FALSE, slot |-> NoSlot, using |-> NoSlot,
            copy |-> "none", parking |-> FALSE]

Latest(c) == Append(Without(used, {c}), c)

Parked(R) == {c \in Convs : R[c].copy # "none"}

\* Pool._sweep_order and Pool._doomed: the copies past the budget, counted
\* from the last one used with keep first, that no thread is writing.
Doomed(R, keep) ==
    LET held == Pick(used, Parked(R) \ {keep})
        most == IF keep \in Parked(R) THEN ParkBudget - 1 ELSE ParkBudget
    IN  {held[i] : i \in {i \in 1..Len(held) :
            Len(held) - i >= most /\ ~R[held[i]].parking}}

\* Pool._trim_copies, the records' half of it.
Trimmed(R, doomed) ==
    [c \in Convs |-> IF c \in doomed THEN [R[c] EXCEPT !.copy = "none"] ELSE R[c]]

\* Pool.ensure_parked and Pool.park_all: whose cache is only in a slot.
AtRisk(skip) ==
    {c \in Convs \ skip : /\ ~rec[c].inflight /\ ~rec[c].parking
                          /\ rec[c].slot # NoSlot
                          /\ rec[c].copy # "latest"}

-------------------------------------------------------------------------------
\* One copy.  `mine` is whether the turn noted for it is the record's still,
\* `fresh` whether the slot still holds what that copy is for.

Resting == [pc |-> "idle", conv |-> NoConv, slot |-> NoSlot, mine |-> FALSE,
            fresh |-> FALSE, ok |-> FALSE, spent |-> {}, rows |-> <<>>, fd |-> "none",
            alone |-> TRUE]

Writing == {t \in Threads : sv[t].pc \in {"open", "write", "rename"}}

\* be["saving"]: the slots that saves have claimed.
Saving == {sv[t].slot : t \in {u \in Threads : sv[u].pc # "claim"}} \ {NoSlot}

\* The thread is to copy c, and has its slot to claim or has claimed it.
Copy(t, c, pc) ==
    sv' = [sv EXCEPT ![t] = [Resting EXCEPT !.pc = pc, !.conv = c, !.slot = rec[c].slot,
                                            !.mine = TRUE, !.fresh = TRUE]]

\* The thread only has files to delete, and the map to write after them.
Clear(t, spent) ==
    sv' = [sv EXCEPT ![t] = [Resting EXCEPT !.pc = "drop", !.spent = spent]]

\* What a save of the thread's conversation leaves in its file, and what the
\* record then says of it: record["parked_turn"] is the turn that was noted.
Age(t)   == IF sv[t].fresh THEN "latest" ELSE "older"
Filed(t) == IF sv[t].mine THEN "latest" ELSE "older"

\* _save_park's first hold counts the save, and _park's first hold notes the
\* turn.  A turn placed since the copy was picked is the turn it notes.
Claim(t) ==
    /\ sv[t].pc = "claim"
    /\ sv' = [sv EXCEPT ![t].pc = "save", ![t].mine = TRUE]
    /\ UNCHANGED <<rec, used, jobs, serve, main, disk, clean, quiet>>

\* _park's call to the backend: written, refused, or written with the answer
\* too late to count.
Save(t) ==
    /\ sv[t].pc = "save"
    /\ \/ /\ file' = [file EXCEPT ![sv[t].conv] = Age(t)]
          /\ sv' = [sv EXCEPT ![t].pc = "hold", ![t].ok = TRUE]
       \/ /\ t \in Faulty
          /\ \/ UNCHANGED file
             \/ file' = [file EXCEPT ![sv[t].conv] = Age(t)]
          /\ sv' = [sv EXCEPT ![t].pc = "hold"]
    /\ UNCHANGED <<rec, used, jobs, serve, main, pins, spare, clean, quiet>>

\* Mutant of Hold: the map waits for the stop.
HoldUnwritten(t) ==
    LET c == sv[t].conv
        R == IF sv[t].ok THEN [rec EXCEPT ![c].copy = Filed(t)] ELSE rec
        doomed == Doomed(R, c)
    IN  /\ sv[t].pc = "hold"
        /\ rec' = Trimmed(R, doomed)
        /\ sv' = [sv EXCEPT ![t].spent = doomed, ![t].ok = FALSE, ![t].mine = FALSE,
                            ![t].fresh = FALSE,
                            ![t].pc = CASE doomed # {} -> "drop"
                                        [] doomed = {} /\ sv[t].ok -> "end"
                                        [] OTHER -> "end"]
        /\ quiet' = (IF sv[t].ok /\ file[c] = Filed(t) THEN quiet ELSE quiet \ {c}) \ doomed
        /\ UNCHANGED <<used, jobs, serve, main, disk, clean>>

\* _park's second hold.  A refused save keeps the copy there was.
Hold(t) ==
    LET c == sv[t].conv
        R == IF sv[t].ok THEN [rec EXCEPT ![c].copy = Filed(t)] ELSE rec
        doomed == Doomed(R, c)
    IN  /\ sv[t].pc = "hold"
        /\ rec' = Trimmed(R, doomed)
        /\ sv' = [sv EXCEPT ![t].spent = doomed, ![t].ok = FALSE, ![t].mine = FALSE,
                            ![t].fresh = FALSE,
                            ![t].pc = CASE doomed # {} -> "drop"
                                        [] doomed = {} /\ sv[t].ok -> "map"
                                        [] OTHER -> "end"]
        /\ quiet' = (IF sv[t].ok /\ file[c] = Filed(t) THEN quiet ELSE quiet \ {c}) \ doomed
        /\ UNCHANGED <<used, jobs, serve, main, disk, clean>>

\* Store.drop, one file of the list at a time.
Drop(t) ==
    /\ sv[t].pc = "drop"
    /\ \E c \in sv[t].spent :
         /\ file' = [file EXCEPT ![c] = "none"]
         /\ sv' = [sv EXCEPT ![t].spent = @ \ {c},
                             ![t].pc = IF sv[t].spent = {c} THEN "map" ELSE "drop"]
    /\ UNCHANGED <<rec, used, jobs, serve, main, pins, spare, clean, quiet>>

\* Pool.save_pins takes the rows under the lock, and writes them after it.
TakeRows(t) ==
    /\ sv[t].pc = "map"
    /\ sv' = [u \in Threads |->
                 CASE u = t -> [sv[t] EXCEPT !.pc = "open", !.alone = Writing = {},
                                !.rows = Pick(used, Parked(rec))]
                   [] u # t /\ u \in Writing -> [sv[u] EXCEPT !.alone = FALSE]
                   [] OTHER -> sv[u]]
    /\ UNCHANGED <<rec, used, jobs, serve, main, disk, clean, quiet>>

\* The threads after t is done with the map, and the name its file had is now
\* `name`: "gone" when it was unlinked, "pins" when it was renamed.
Closed(t, name) ==
    [u \in Threads |->
        CASE u = t -> [Resting EXCEPT !.pc = "end", !.conv = sv[t].conv, !.slot = sv[t].slot]
          [] u # t /\ sv[u].fd = "spare" -> [sv[u] EXCEPT !.fd = name]
          [] u # t /\ sv[u].fd = "pins" /\ name = "pins" -> [sv[u] EXCEPT !.fd = "gone"]
          [] OTHER -> sv[u]]

\* A write that failed: Store._write says so, and unlinks the spare.
GiveUp(t) ==
    /\ sv' = Closed(t, "gone")
    /\ spare' = Gone
    /\ clean' = FALSE
    /\ UNCHANGED pins

\* open(spare, "w"): cuts the file off, another thread's included.
Open(t) ==
    /\ sv[t].pc = "open"
    /\ sv' = [sv EXCEPT ![t].pc = "write", ![t].fd = "spare"]
    /\ spare' = Blank
    /\ UNCHANGED <<rec, used, jobs, serve, main, file, pins, clean, quiet>>

\* Mutant of Write: no fsync.
WriteUnsynced(t) ==
    /\ sv[t].pc = "write"
    /\ \/ /\ sv' = [sv EXCEPT ![t].pc = "rename"]
          /\ IF sv[t].fd = "spare"
             THEN spare' \in {[w EXCEPT !.synced = FALSE] : w \in Overlay(sv[t].rows, spare)}
             ELSE UNCHANGED spare
          /\ IF sv[t].fd = "pins" THEN pins' \in Overlay(sv[t].rows, pins) ELSE UNCHANGED pins
          /\ UNCHANGED clean
       \/ t \in Faulty /\ GiveUp(t)
    /\ UNCHANGED <<rec, used, jobs, serve, main, file, quiet>>

\* The text, the flush and the fsync.  The file is the one opened, wherever a
\* rename has put it since.
Write(t) ==
    /\ sv[t].pc = "write"
    /\ \/ /\ sv' = [sv EXCEPT ![t].pc = "rename"]
          /\ IF sv[t].fd = "spare" THEN spare' \in Overlay(sv[t].rows, spare) ELSE UNCHANGED spare
          /\ IF sv[t].fd = "pins" THEN pins' \in Overlay(sv[t].rows, pins) ELSE UNCHANGED pins
          /\ UNCHANGED clean
       \/ t \in Faulty /\ GiveUp(t)
    /\ UNCHANGED <<rec, used, jobs, serve, main, file, quiet>>

\* os.replace, by name.  It fails when another thread has renamed the spare.
Rename(t) ==
    /\ sv[t].pc = "rename"
    /\ IF spare.is = "gone"
       THEN GiveUp(t)
       ELSE /\ pins' = spare
            /\ spare' = Gone
            /\ sv' = Closed(t, "pins")
            /\ clean' = sv[t].alone
    /\ UNCHANGED <<rec, used, jobs, serve, main, file, quiet>>

\* _save_park's finally.  A thread that only cleared had no claim to give up.
End(t) ==
    /\ sv[t].pc = "end"
    /\ rec' = IF sv[t].slot # NoSlot
              THEN [rec EXCEPT ![sv[t].conv].parking = FALSE] ELSE rec
    /\ sv' = [sv EXCEPT ![t] = Resting]
    /\ UNCHANGED <<used, jobs, serve, main, disk, clean, quiet>>

CopyStep(t) ==
    \/ Claim(t) \/ Save(t) \/ Hold(t) \/ Drop(t) \/ TakeRows(t)
    \/ Open(t) \/ Write(t) \/ Rename(t) \/ End(t)

-------------------------------------------------------------------------------
\* The turns.

Waiting == [pc |-> "idle", conv |-> NoConv, tried |-> {}]

Running == main.pc \notin {"down", "stopped"}
Serving == main.pc \in {"serving", "draining", "parking", "mapping"}

\* The conversations whose turn ticket is out.  A queued copy holds one.
Queued == ({sv[Worker].conv} \ {NoConv}) \cup {jobs[i].conv : i \in 1..Len(jobs)}
Ticketed == {serve[h].conv : h \in Handlers} \cup Queued

InUse == {rec[c].using : c \in Convs} \ {NoSlot}

\* Pool.pick_slot
PickSlot(c) ==
    LET free == Slots \ (InUse \cup Saving)
    IN  IF rec[c].slot \in free THEN {rec[c].slot} ELSE free

\* Pool.acquire, of a turn that has its ticket.  Every copy of c is now of an
\* earlier turn, and so is one a thread has begun, until Claim notes its turn.
Place(h, c) ==
    /\ Serving
    /\ main.pc = "serving" \/ AnyLateTurn \/ c \in quiet
    /\ serve[h].pc = "idle" /\ c \notin Ticketed
    /\ \E s \in PickSlot(c) :
         rec' = [rec EXCEPT ![c].inflight = TRUE, ![c].using = s,
                            ![c].copy = IF @ = "latest" THEN "older" ELSE @]
    /\ used' = Latest(c)
    /\ serve' = [serve EXCEPT ![h] = [pc |-> "ensure", conv |-> c, tried |-> {}]]
    /\ sv' = [t \in Threads |->
                  IF sv[t].conv = c THEN [sv[t] EXCEPT !.mine = FALSE, !.fresh = FALSE]
                                    ELSE sv[t]]
    /\ file' = [file EXCEPT ![c] = IF @ = "latest" THEN "older" ELSE @]
    /\ quiet' = quiet \ {c}
    /\ UNCHANGED <<jobs, main, pins, spare, clean>>

\* Pool.ensure_parked: copy the least recently used of the caches at risk.
Ensure(h) ==
    LET left == AtRisk(serve[h].tried \cup {serve[h].conv})
        c == Pick(used, left)[1]
    IN  /\ Serving
        /\ serve[h].pc = "ensure" /\ sv[h].pc = "idle" /\ left # {}
        /\ Copy(h, c, "claim")
        /\ rec' = [rec EXCEPT ![c].parking = TRUE]
        /\ serve' = [serve EXCEPT ![h].tried = @ \cup {c}]
        /\ UNCHANGED <<used, jobs, main, disk, clean, quiet>>

\* Pool.take_slot ends the other claims on the slot, and the turn reads there,
\* whoever still has to save what lay in it.
Take(h) ==
    LET c == serve[h].conv
        s == rec[c].using
    IN  /\ Serving
        /\ serve[h].pc = "ensure" /\ sv[h].pc = "idle"
        /\ AtRisk(serve[h].tried \cup {c}) = {}
        /\ rec' = [d \in Convs |->
                      CASE d = c -> [rec[c] EXCEPT !.slot = s]
                        [] d # c /\ rec[d].slot = s -> [rec[d] EXCEPT !.slot = NoSlot]
                        [] OTHER -> rec[d]]
        /\ sv' = [t \in Threads |->
                     IF sv[t].slot = s THEN [sv[t] EXCEPT !.fresh = FALSE] ELSE sv[t]]
        /\ serve' = [serve EXCEPT ![h].pc = "taken", ![h].tried = {}]
        /\ UNCHANGED <<used, jobs, main, disk, clean, quiet>>

\* Pool.forget_stale_park and Pool._forget_park: the copy is of no use.  The
\* first also forgets the slot, until the read that follows names it again.
Forget(h) ==
    /\ Serving
    /\ serve[h].pc = "taken" /\ rec[serve[h].conv].copy # "none"
    /\ rec' = [rec EXCEPT ![serve[h].conv].copy = "none"]
    /\ Clear(h, {serve[h].conv})
    /\ serve' = [serve EXCEPT ![h].pc = "forgot"]
    /\ UNCHANGED <<used, jobs, main, disk, clean, quiet>>

\* Pool.release, once the reply is out.
Release(h) ==
    /\ Serving
    /\ serve[h].pc \in {"taken", "forgot"} /\ sv[h].pc = "idle"
    /\ rec' = [rec EXCEPT ![serve[h].conv].inflight = FALSE, ![serve[h].conv].using = NoSlot]
    /\ used' = Latest(serve[h].conv)
    /\ serve' = [serve EXCEPT ![h].pc = "replied"]
    /\ UNCHANGED <<jobs, sv, main, disk, clean, quiet>>

\* Pool.park_later queues the copy and the ticket with it, or the ticket goes
\* back now.
Finish(h) ==
    LET c == serve[h].conv
        r == rec[c]
        queue == r.slot # NoSlot /\ ~r.parking
    IN  /\ Serving
        /\ serve[h].pc = "replied"
        /\ rec' = IF queue THEN [rec EXCEPT ![c].parking = TRUE] ELSE rec
        /\ jobs' = IF queue THEN Append(jobs, [conv |-> c, slot |-> r.slot]) ELSE jobs
        /\ serve' = [serve EXCEPT ![h] = Waiting]
        /\ UNCHANGED <<used, sv, main, disk, clean, quiet>>

\* Mutant of TakeJob: the claim is not checked again.
TakeJobAnySlot ==
    LET j == Head(jobs)
    IN  /\ Serving
        /\ jobs # <<>> /\ sv[Worker].pc = "idle"
        /\ jobs' = Tail(jobs)
        /\ Copy(Worker, j.conv, "save") /\ UNCHANGED rec
        /\ UNCHANGED <<used, serve, main, disk, clean, quiet>>

\* Pool._run_parks takes a job.  One hold looks at the slot and claims it: a
\* slot that changed hands is not saved.  The turn it notes is the job's, whose
\* ticket it has.
TakeJob ==
    LET j == Head(jobs)
    IN  /\ Serving
        /\ jobs # <<>> /\ sv[Worker].pc = "idle"
        /\ jobs' = Tail(jobs)
        /\ IF rec[j.conv].slot = j.slot
           THEN Copy(Worker, j.conv, "save") /\ UNCHANGED rec
           ELSE UNCHANGED sv /\ rec' = [rec EXCEPT ![j.conv].parking = FALSE]
        /\ UNCHANGED <<used, serve, main, disk, clean, quiet>>

Turn(h) == \/ \E c \in Convs : Place(h, c)
           \/ Ensure(h) \/ Take(h) \/ Forget(h) \/ Release(h) \/ Finish(h)

-------------------------------------------------------------------------------
\* The stop, the deaths and the start.

To(pc) == main' = [main EXCEPT !.pc = pc]

\* What no other process remembers.
Forgotten ==
    /\ used' = <<>> /\ jobs' = <<>>
    /\ serve' = [h \in Handlers |-> Waiting]
    /\ sv' = [t \in Threads |-> Resting]

\* The signal handler begins, on the main thread.
Signal ==
    /\ main.pc = "serving"
    /\ To("draining")
    /\ quiet' = {c \in Convs : /\ \A h \in Handlers : serve[h].conv # c
                               /\ \A t \in Threads : c \notin sv[t].spent
                               /\ rec[c].copy = "latest" => file[c] = "latest"}
    /\ UNCHANGED <<rec, used, jobs, serve, sv, disk, clean>>

\* Mutant of Drained: the signal handler does not wait for the worker.
DrainedAtOnce ==
    /\ main.pc = "draining"
    /\ To("parking")
    /\ UNCHANGED <<rec, used, jobs, serve, sv, disk, clean, quiet>>

\* Pool.drain_parks: the worker is done, or the time is up.
Drained ==
    /\ main.pc = "draining"
    /\ \/ Queued = {} /\ UNCHANGED quiet
       \/ Queued # {} /\ quiet' = quiet \ Queued
    /\ To("parking")
    /\ UNCHANGED <<rec, used, jobs, serve, sv, disk, clean>>

\* Mutant of ParkNext: a refused save is tried again.
ParkNextAgain ==
    /\ main.pc = "parking" /\ sv[Main].pc = "idle"
    /\ \E c \in AtRisk(main.tried) :
         /\ Copy(Main, c, "claim")
         /\ rec' = [rec EXCEPT ![c].parking = TRUE]
    /\ UNCHANGED <<main, used, jobs, serve, disk, clean, quiet>>

\* Pool.park_all tries each cache once.
ParkNext ==
    /\ main.pc = "parking" /\ sv[Main].pc = "idle"
    /\ \E c \in AtRisk(main.tried) :
         /\ Copy(Main, c, "claim")
         /\ rec' = [rec EXCEPT ![c].parking = TRUE]
         /\ main' = [main EXCEPT !.tried = @ \cup {c}]
    /\ UNCHANGED <<used, jobs, serve, disk, clean, quiet>>

\* park_all is done, or out of time, and the map is written once more.
ParkedAll ==
    /\ main.pc = "parking" /\ sv[Main].pc = "idle"
    /\ main' = [pc |-> "mapping", tried |-> {}]
    /\ sv' = [sv EXCEPT ![Main] = [Resting EXCEPT !.pc = "map"]]
    /\ quiet' = quiet \ (AtRisk(main.tried) \cup {sv[h].conv : h \in Handlers})
    /\ UNCHANGED <<rec, used, jobs, serve, disk, clean>>

\* sys.exit: the other threads are daemons and die where they are.  The records
\* stay here until the next start, for what StopKeeps says of them.
Exit ==
    /\ main.pc = "mapping" /\ sv[Main].pc = "idle"
    /\ main' = [pc |-> "stopped", tried |-> {}]
    /\ Forgotten
    /\ UNCHANGED <<rec, disk, clean, quiet>>

\* A kill, or a second signal.  A backend goes on with a save it was asked for.
Die ==
    /\ Running
    /\ Dies
    /\ \E done \in SUBSET {t \in Threads : sv[t].pc = "save"} :
         file' = [c \in Convs |-> IF \E t \in done : sv[t].conv = c THEN "older" ELSE file[c]]
    /\ main' = [pc |-> "down", tried |-> {}]
    /\ rec' = [c \in Convs |-> Nothing]
    /\ quiet' = {}
    /\ Forgotten
    /\ UNCHANGED <<pins, spare, clean>>

\* The maps that one save alone may have put in place before.
Earlier == {Gone} \cup {Text("rows", rows) :
                            rows \in UNION {Injection(1..n, Convs) : n \in 0..Cardinality(Convs)}}

\* The machine goes down with the router, or after it.  What no fsync forced
\* down is lost, and what was unlinked or renamed last may be as it was: a copy
\* is gone, torn or back again, and the map is an earlier one.  A map that two
\* threads wrote may be back too, and then no save alone put it in place.
LosePower ==
    /\ ~Running
    /\ Dies
    /\ file' \in [Convs -> {"none", "older"}]
    /\ \/ pins' \in {IF pins.synced THEN pins ELSE Blank} \cup Earlier /\ UNCHANGED clean
       \/ pins' = Text("garbled", <<>>) /\ clean' = FALSE
    /\ main' = [pc |-> "down", tried |-> {}]
    /\ rec' = [c \in Convs |-> Nothing]
    /\ quiet' = {}
    /\ UNCHANGED <<used, jobs, serve, sv, spare>>

\* Mutant of Adopt: only the budget deletes.
AdoptKeepingStrays ==
    LET kept == Pick(Vouched, {c \in Convs : file[c] # "none"})
        R == [c \in Convs |-> IF \E i \in 1..Len(kept) : kept[i] = c
                              THEN [Nothing EXCEPT !.copy = "older"] ELSE Nothing]
        over == {kept[i] : i \in 1..(Len(kept) - ParkBudget)}
        spent == over
    IN  /\ ~Running
        /\ rec' = Trimmed(R, over)
        /\ used' = kept
        /\ sv' = [[t \in Threads |-> Resting] EXCEPT
                     ![Main] = IF spent = {} THEN Resting
                               ELSE [Resting EXCEPT !.pc = "drop", !.spent = spent]]
        /\ main' = [pc |-> "adopting", tried |-> {}]
        /\ quiet' = {}
        /\ UNCHANGED <<jobs, serve, disk, clean>>

\* Pool.adopt reads what there is, and lists what it will not keep.
Adopt ==
    LET kept == Pick(Vouched, {c \in Convs : file[c] # "none"})
        R == [c \in Convs |-> IF \E i \in 1..Len(kept) : kept[i] = c
                              THEN [Nothing EXCEPT !.copy = "older"] ELSE Nothing]
        over == {kept[i] : i \in 1..(Len(kept) - ParkBudget)}
        spent == {c \in Convs : file[c] # "none" /\ R[c].copy = "none"} \cup over
    IN  /\ ~Running
        /\ rec' = Trimmed(R, over)
        /\ used' = kept
        /\ sv' = [[t \in Threads |-> Resting] EXCEPT
                     ![Main] = IF spent = {} THEN Resting
                               ELSE [Resting EXCEPT !.pc = "drop", !.spent = spent]]
        /\ main' = [pc |-> "adopting", tried |-> {}]
        /\ quiet' = {}
        /\ UNCHANGED <<jobs, serve, disk, clean>>

Adopted == /\ main.pc = "adopting" /\ sv[Main].pc = "idle"
           /\ To("adopted")
           /\ UNCHANGED <<rec, used, jobs, serve, sv, disk, clean, quiet>>

Serve == /\ main.pc = "adopted" /\ To("serving")
         /\ UNCHANGED <<rec, used, jobs, serve, sv, disk, clean, quiet>>

Init ==
    /\ rec = [c \in Convs |-> Nothing]
    /\ used = <<>> /\ jobs = <<>>
    /\ serve = [h \in Handlers |-> Waiting]
    /\ sv = [t \in Threads |-> Resting]
    /\ main = [pc |-> "adopting", tried |-> {}]
    /\ file = [c \in Convs |-> "none"]
    /\ pins = Gone /\ spare = Gone
    /\ clean = TRUE /\ quiet = {}

MainStep == \/ Signal \/ Drained \/ ParkNext \/ ParkedAll \/ Exit
            \/ Adopt \/ Adopted \/ Serve

Next ==
    \/ \E h \in Handlers : Turn(h)
    \/ Running /\ \E t \in Threads : CopyStep(t)
    \/ TakeJob
    \/ MainStep
    \/ Die \/ LosePower

Spec == Init /\ [][Next]_vars

\* The main thread goes on whatever the others do: every call it makes to a
\* backend has a timeout, and so has its wait for the worker.  Nothing is
\* assumed of the handlers or of the worker.
FairSpec == /\ Spec
            /\ WF_vars(\/ Drained \/ ParkNext \/ ParkedAll \/ Exit
                       \/ Running /\ CopyStep(Main))

-------------------------------------------------------------------------------
\* The type invariant.
Records == [inflight : BOOLEAN, slot : Slots \cup {NoSlot}, using : Slots \cup {NoSlot},
            copy : {"none", "older", "latest"}, parking : BOOLEAN]
Sentences == [is : {"gone", "blank", "rows", "garbled"}, rows : Seq(Convs), synced : BOOLEAN]
Copies == [pc : {"idle", "claim", "save", "hold", "drop", "map", "open", "write", "rename", "end"},
           conv : Convs \cup {NoConv}, slot : Slots \cup {NoSlot}, mine : BOOLEAN,
           fresh : BOOLEAN, ok : BOOLEAN, spent : SUBSET Convs, rows : Seq(Convs),
           fd : {"none", "spare", "pins", "gone"}, alone : BOOLEAN]

\* Every variable has its type, and a thread that saves names the slot it reads.
TypeOK ==
    /\ rec \in [Convs -> Records]
    /\ used \in Seq(Convs)
    /\ jobs \in Seq([conv : Convs, slot : Slots])
    /\ serve \in [Handlers -> [pc : {"idle", "ensure", "taken", "forgot", "replied"},
                               conv : Convs \cup {NoConv}, tried : SUBSET Convs]]
    /\ sv \in [Threads -> Copies]
    /\ \A t \in Threads : sv[t].pc \in {"claim", "save"} => sv[t].slot # NoSlot
    /\ main \in [pc : {"adopting", "adopted", "serving", "draining", "parking",
                       "mapping", "stopped", "down"}, tried : SUBSET Convs]
    /\ file \in [Convs -> {"none", "older", "latest"}]
    /\ pins \in Sentences /\ spare \in Sentences
    /\ clean \in BOOLEAN /\ quiet \in SUBSET Convs

\* When the last save of the map had no other beside it, the map can be read:
\* at any moment, and after a death or a loss of power at any moment.
\* (store/files.py _write)
MapReadable == clean => pins.is \in {"gone", "rows"}

\* Every copy a record names is vouched for by the map, or a thread is on its
\* way to write a map that does.  So a death loses only those copies whose
\* writers it stopped.  (pool.py _park and save_pins)
RecordedIsVouched ==
    Running /\ clean =>
        \A c \in Parked(rec) \ ToSet(Vouched) :
            \E t \in Threads : \/ sv[t].pc \in {"drop", "map"}
                               \/ t \in Writing /\ c \in ToSet(sv[t].rows)

\* A start leaves no file behind that no record names, no record without its
\* file, and no more than the budget, wherever the runs before it stopped.
\* (pool.py adopt)
AdoptLeavesNoStray ==
    main.pc = "adopted" =>
        /\ \A c \in Convs : file[c] # "none" <=> rec[c].copy # "none"
        /\ Cardinality(Parked(rec)) <= ParkBudget

\* After an orderly stop, a conversation with a cache in a slot that no turn
\* has touched since the signal is in a file the map names, in the state of its
\* last turn: unless the budget swept its copy since the signal, its copy was
\* refused or out of time, a request was making it when park_all passed it
\* over, a turn that had been given its slot read there before the save
\* (LatestIsFiled), or a sweep from before the copy took the file it had filled
\* (SweepSparesTheWriter).  (__main__.py shut_down)
StopKeeps ==
    main.pc = "stopped" /\ clean =>
        \A c \in quiet :
            rec[c].slot # NoSlot => file[c] = "latest" /\ c \in ToSet(Vouched)

\* "half of one can never be read back": the map can always be read.
\* (store/files.py:160)
AlwaysReadable == pins.is \in {"gone", "rows"}

\* "a concurrent park sweeping it removed the file the writer was filling": a
\* sweep deletes no file that another thread has just filled and not recorded.
\* (pool.py:246 _trim_copies)
SweepSparesTheWriter ==
    [][\A u \in Threads : Drop(u) /\ sv[u].conv # NoConv =>
          \A t \in Threads : sv[t].pc = "hold" /\ sv[t].ok =>
              file'[sv[t].conv] = file[sv[t].conv]]_vars

\* "hold it still while it copies": what a record calls the copy of its last
\* turn is one, or a save of it is still to be recorded.
\* (pool.py:999 ensure_parked, pool.py:1459 park_all)
LatestIsFiled ==
    Running => \A c \in Convs : rec[c].copy = "latest" =>
        file[c] = "latest" \/ \E t \in Threads : sv[t].pc = "hold" /\ sv[t].conv = c

\* A stop ends, whatever the handlers and the backends do.
\* (__main__.py shut_down, pool.py park_all)
StopEnds == main.pc = "draining" ~> main.pc \in {"stopped", "down"}
===============================================================================
