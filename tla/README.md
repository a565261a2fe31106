# llama-arbiter in TLA+

llama-arbiter is a router in front of several `llama-server` processes. It gives
every conversation a prompt cache: it sends a turn to the slot that holds its
cache, copies caches to disk before anything displaces them, restores them when
the conversation comes back, and moves a turn from the backend that reads its
prompt to the one that writes its answer. All the state behind this is in one
object, `Pool` (`src/bin/router/pool/pool.py`), which one thread per request, a
worker, a poll, an operator and a signal handler share under one lock. Most of
what can go wrong goes wrong between two holds of that lock.

Around it stand what outlives the process (slot files and their map), what a
client reads while a turn goes on (one stream with several writers), and what
the router makes of texts it does not control (request bodies, backend logs).

This directory holds specifications of these parts, the TLC runs that check
them on small instances, and the theorems TLAPS proves for every instance.

    TurnOrder.tla            what the tickets promise: one turn of a conversation at a time
    Pool.tla                 the pool and the turns in it; also the properties and their mutants
    Openings.tla             the shared starts of prompts that the pool keeps as files
    Restart.tla              the copies and their map over stops, deaths and starts of the router
    Stream.tla               what the client of a streamed reply is promised
    Reply.tla                the handler's thread, two keep-alives and a splice that keep it
    Telemetry.tla            the router's event log, and the backend's log it follows
    Prompts.tla              what a request body names: its conversation and its shared cuts
    Queues.tla               what is left of a queue when some of it is taken out
    MC*.tla, *.cfg           instances for TLC
    TurnOrder_proofs.tla     TurnOrder keeps its promise
    Pool_proofs.tla          Pool's types, counts and marks; it implements TurnOrder; no slot
                             is two turns'
    Openings_proofs.tla      one reader of an opening, starts that are known, files that are kept
    Restart_proofs.tla       the map over deaths, what a start leaves, and what a stop keeps
    Reply_proofs.tla         whole events, nothing behind the end, and Reply implements Stream
    Telemetry_proofs.tla     what reaches the files, the dashboard and the sink
    Prompts_proofs.tla       names, hoisting, and what a later request finds of an earlier one
    Queues_proofs.tla        lemmas about queues, and induction over what they are made of
    PROJECT.json             components, runs, mutants, source map, findings, hazards, theorems

    tlc -workers 2 -config PoolCarry.cfg MCPool.tla
    for m in TurnOrder Pool Queues Openings Restart Reply Telemetry Prompts; do
        tlapm ${m}_proofs.tla
    done

## 1. The system

### Components

| component | state it keeps | operations | what makes it correct |
|---|---|---|---|
| **Pool** `pool/pool.py` | a record per conversation (`pins`, ordered), the ticket it is held by (`turns`), counters per backend (`up`, `misses`, `draining`, `busy`, `saving`, `handed`, `generation`), the queue of copies (`park_jobs`) | `claim_turn`, `acquire`, `pick_slot`, `_take`, `ensure_parked`, `take_slot`, `recall`, `hand_off`, `release`, `park_partial`, `park_later`, `_run_parks`, `_save_park`, `_watch`, `forget_slots`, `drain`, `park_all`, `resume` | a slot serves one turn; a conversation runs one turn; no counter drifts; a copy is of the conversation and the turn it is filed under; no cache worth keeping is lost; every turn ends |
| **Turn** `pool/turn.py` | locals of one request's thread | `run`: claim, take, spare the slot's cache, recall, read, hand over, relay, release, park, let go | every way out gives back the ticket, the count and the reservation |
| **Openings** `pool.py` `warm_prefix`…`_wait_for_opening`, `protocol/body.py`, `identity.py` | `openings` (ordered), `opening_bytes`, `starts`, `heads`, `loads`, `building` | decide a plan under the lock, then load, wait, read a base, or read on into a start | one request builds an opening and the others wait no longer than they must; the budget never drops a file somebody loads or builds; the index names files that are there |
| **Store** `store/files.py` | slot files, links to the faster disk, `pins.json`, `openings.json` | `drop`, `link_block`, `write_pins`, `write_openings`, `parked_names`, `adopt_files`, `trim_openings` | a restart keeps every copy that `pins.json` vouches for and no other; a half-written map is never read |
| **Shutdown** `__main__.py` | one `stopping` flag | at a signal: `drain_parks`, `park_all(budget)`, `save_pins`, flush | what the budget allows is saved and the map written last |
| **Identity** `identity.py` | none | `conversation_id`, `copy_is_current`, `worth_keeping` | a conversation keeps its name as it grows |
| **Request body** `protocol/body.py` | none | `prompt_cuts`, `deepest_shared`, `hoist_system`, `shared_start` | one name for one prompt before a cut; what two requests share is a cut of both |
| **Backend table** `backends.py`, `settings.py` | read once | `prefills`, `generates`, `pref`, `Tuning` | a table that cannot serve is refused at the start |
| **Watched calls** `transport.py`, `backend/link.py` | one connection | a call that is cut when the client leaves or a timeout passes | a call ends, and its ending is told from a failure |
| **Handler** `web/handler.py`, `server.py` | `body_held`, a lock and a keep-alive thread per stream | admission of bodies, opening a stream, pings, relay, error in a stream | one writer at a time, nothing after the terminator, bytes come back |
| **Splices** `protocol/splice.py`, `sse.py` | the partial event, the usage seen | `feed`, `tail` | the client sees one `message_start` and the backend's figures whatever the chunking |
| **Typed questions** `protocol/systemone.py` | a plan | build the bodies, read one token's probabilities | probabilities are of the letters asked |
| **Event log** `store/events.py` | a bounded queue | `write`, `flush` | never blocks a turn; a flush returns after what was queued |
| **Backend log, poll figures** `store/backendlog.py`, `backend/poll.py`, `since_reset` | offset and inode; counters at the last reset | `CacheWatch.poll`, `slot_state`, `since_reset` | a line is counted once; a restarted counter does not go negative |
| **History, machine, flow** `pool/machine.py` | buckets of a minute | `note`, `add` | time is charged to the bucket it was spent in |
| **Sizing** `sizing.py` | none | tokens of a body | never under what the backend will read |
| **restart-backend.sh** | none | drain, restart, wait, resume | a backend is restarted only when nothing is only in its slots |
| Web pages, launch scripts, tools, tests, `patches/` | | | outside the router |

### How they meet

    client -> Handler (thread per request) -> Pool.turn -> Turn.run
                                                | claim_turn        (waits on Pool.cv)
                                                | acquire           (waits on Pool.cv)
                                                | ensure_parked --> _save_park --> backend --> file
                                                | recall        --> restore   <-- backend <-- file
                                                | warm_prefix   --> Openings
                                                | prefill       --> backend
                                                | hand_off      --> generator (waits on Pool.cv)
                                                | relay         --> Splices --> client
                                                | release, park_partial, park_later --> park_jobs
    worker (one thread)     park_jobs --> _save_park, then gives the ticket back
    poll (_watch)           every 2 s: up and down, forget_slots, since_reset
    operator                drain --> park_all --> report; restart; resume
    signal handler          drain_parks --> park_all --> save_pins

A backend is reached by calls that take from milliseconds to an hour and hold no
lock. A call can fail, be cut when the backend dies, or be abandoned when the
client leaves.

### What is hard in it

`PROJECT.json` lists every hazard at its line. They group as follows.

* *Which slot is whose* is answered by four accounts that are written at
  different moments: the poll's view, `using` and `inflight` of a record,
  `saving` of a backend, `handed` of a backend.
* *Which cache a copy is of* is decided before the call that makes it, and the
  slot, the conversation's turn number or the process may change before it ends.
* *The reservation protocol* (`busy`, `inflight`, `parking`, the ticket) passes
  from a turn to a job to the worker and has a dozen early returns.
* *Restarts* of a backend empty its slots while records, queued copies and
  running calls still name them.
* *Budgets* (disk, pins, shelves) choose victims among things in use.
* *Liveness*: every wait is a loop on one condition variable; a turn waits for
  its predecessor, for a slot, for a conversation with a better claim on the
  slot (`_owed`), and for a generator.

## 2. What is modelled

### TurnOrder

The abstract promise of `claim_turn`, `finish_turn` and `park_later`. A turn is
waiting, serving, copying or over. It starts when no other turn of its
conversation is serving or copying, and the copy it leaves to the worker still
counts as part of it. Requests that name no conversation (`NoConv`) are free of
each other.

### Pool

One action is one hold of `Pool.cv`, or one call to a backend together with the
hold that follows it. A call that takes time begins in one action and ends in
another, so every other thread can act while it runs. Two holds with nothing
between them that another thread could tell apart are one action.

| variable | in the code |
|---|---|
| `turns` | `Pool.turns`: the ticket that holds each conversation |
| `pins`, `order` | `Pool.pins`, an `OrderedDict`: its records and its order |
| `used` | the conversations ordered by `record["last"]` |
| `be` | a backend's dict: `up`, `misses`, `draining`, `busy`, `saving`, `handed`, `generation` |
| `jobs`, `wk` | `park_jobs`, and the job the worker has taken |
| `at` | each request's thread: where `Turn.run` is, and its locals |
| `sub` | the `_save_park` call each thread is inside |
| `op` | the drain an operator has under way |
| `box`, `cache`, `file`, `cut` | the world: processes, slots, slot files, and calls a death cut off |

A turn goes through `pc`

    new -> claim -> acquire -> park -> stale -> recall -> restoring -> warm -> reading
        -> handoff -> genwait -> clear -> landing -> relay -> release -> partial -> later -> done

and skips what the code skips. Turn.run up to the slot is `Arrive`, `ClaimTurn`,
`LeaveQueue`, `Take`, `Spill`, `Refuse` and `LeaveAcquire`; the last two are the two
ways `acquire` gives up, nothing that may read being up, and the client gone. Sparing
the cache in the slot is `EnsureParked`, `TakeSlot`, `ForgetStalePark`; bringing the
turn's own back is `Recall`, `Recalled`, `RecallRejected`, `RecallLost`. A record
that no longer names its copy is cleared in a hold, and the file unlinked after it
(`UnlinkForgotten`, from `stale_file` or `refused_file`). `WarmPrefix` leaves an
opening in the slot or does not. `hand_off` is `Stay`, `CarrySave`, `CarrySaved`,
`CarryNotSaved`, `GenerateSlot`, `GenerateHere`, `GenerateElsewhere`,
`ClearTarget`, `TargetCleared`, `Land`, `LandFailed`, `LeaveReader`,
`LeaveParked`. The end is `Relay`, `Release`, `ParkPartial`, `PartialOver`,
`ParkLater`, `FinishTurn`.

`_save_park` is called from five places (`ensure_parked`, `hand_off`,
`park_partial`, the worker, `park_all`), so it is a small machine of its own,
`SaveStep(a)`, that the calling thread `a` waits for: count the slot as saving,
begin the write unless the job is stale, write, end, sweep the budget, answer. A
save that wrote nothing deletes its file (`SaveShort`) and says so in the hold
after (`SaveLost`).

Data is abstracted to what the properties tell apart:

* A cache is the conversation and the number of the turn that read it, an
  opening, or empty. A file is the same, absent, or `Torn`.
* Time is an order. `order` and `used` rank conversations by recency.
  Patience, deadlines and rates are choices that may come out either way
  (`Spill`, `DrainWaited`, `MayOwe`).
* Tokens are small numbers, and the disk budget counts copies.
* Openings have a name and no content. Which one lies in a slot is not kept.

Requests and the numbers `MaxDrains` and `MaxCrashes` are the only bounds of the
specification itself; the rest is bounded by them, because a turn runs once.
Code outside the repository (a llama-server, its disk) is marked external in the
map and modelled by what the router can observe of it.

### Openings

`warm_prefix` and what it calls, for the requests whose conversation has no cache
of its own. Pool keeps of it only that a slot may come to hold an opening
(`WarmPrefix`), so the two modules meet in one action and share no variable:
Openings says which files there are and who reads them, Pool says whose slot a
request holds while it does.

`openings`, `starts`, `heads` and `building` are the fields of Pool with these
names; `files` is the slot file of each key; `rq` is each request's thread. The
hold in which `warm_prefix` decides is one action per plan (`PlanLoadStart`,
`PlanStart`, `PlanLoadBase`, `PlanWait`, `PlanRead`, `PlanNone`, and `Skip`),
each with the code's condition. `_load_prefix` is three actions (the call, the
backend's verdict, the hold after it), because a verdict may be old when it is
acted on; `_drop_opening` is a hold and a later `Unlink`; reading an opening is
`Link`, then `ReadKept` or `ReadFailed`, then `Sweep` for each file dropped and
`Swept`, which is the `finally` that takes the key out of `building`.

A message is a sequence of lines, and a start is named by what comes before the
message and its first lines, as `start_key` hashes them. The budget counts
openings. A cut deeper than the first is measured by the code and never saved,
so only the first (`Base`) is kept here.

### Restart

What Pool takes as given at its start and leaves behind at its end. A copy is
written by whichever thread needs one, and every writer then writes the whole
map, so the module is about threads rather than turns: `sv[t]` is the copy that
thread `t` is making. `claim` stands for the first holds of `_save_park` and of
`_park`, which claim the slot and note the turn the copy is filed under; then come
`save` the call, `hold` the second hold of `_park`, `drop` the deletions, `map` the
rows taken by `save_pins`, `open`, `write` and `rename` of `Store._write`, and
`end`, the `finally` of `_save_park`. Between the hold that picked the copy and
`claim` another turn may be given the slot, so a copy carries two facts: `mine`, that
the turn noted for it is still the record's, and `fresh`, that the slot still holds
what it is for.

The router may be killed between any two of these (`Die`); the backend is another
process and may finish the saves it was asked for. It may lose power (`LosePower`),
and then what no fsync forced down is lost and what was renamed or unlinked last
may be as it was, because the directory is not synced: a copy is gone or an older one,
the map is an earlier one, and a text that was never synced is blank. One
thing is assumed of a backend that goes on saving for a dead router: it ends before
the next start lists the files.

`main` follows `__main__.py`: adopt, serve, and at a signal drain the worker, park
what is in the slots, save the map and exit. `pins` and `spare` are what
`pins.json` and `pins.json.new` hold, with two things a file system adds: text
written over longer text leaves the end of that behind (`Overlay`), and text that
no fsync forced down is lost with the power. An open file stays the same file
when it is renamed (`fd`).

Two history variables state the properties: `clean` is whether the save of the
map that was put in place ran alone, and `quiet` the conversations a stop has
reason to keep. A conversation leaves `quiet` when a turn of it begins, when the
budget sweeps its copy, when its copy is refused or out of time or left to a
request, and in two cases that configurations of their own show: a sweep from
before the copy took the file it had filled (RestartLateUnlink.cfg), or a turn that
had been given its slot read there before the save (RestartSlotTaken.cfg). It is
never in `quiet` if at the signal a turn has it, or a sweep has deleted the file its record names or
is about to. The turns are cut down to what moves records (`Place`, `Ensure`,
`Take`, `Forget`, `Release`, `Finish`); what a slot holds is Pool's subject.

An answer to a save that came too late leaves a file with no record until the
next start, which deletes it. The model has that step (the second disjunct of
`Save`), and `AdoptLeavesNoStray` is stated at the start for this reason.

### Stream and Reply

Stream is the promise: the events of the reply in order and each once, then one
end; an end that is no error comes after the last event. Reply is the handler:
its thread (`main`), the keep-alive before the backend answers (`_ping_until`)
and the one after it (`keep_alive` in `_forward`), the lock `sending`, the flags
`stop` and `done`, a splice, and the wire. A write is an action of its own, and
joining a keep-alive may time out while another thread's write is held up.

An event is two halves, so that a backend's pieces end inside one; which of the
kinds an event is decides what a splice does to it (`Passed`, `Noted`). The
refinement mapping reads off the wire what a client can: up to the first frame
that was cut short.

A reply the router did not open itself has no splice and goes out as it came,
so a keep-alive may stand inside an event there (`EventsStayWhole` is about
opened streams). An event the backend never ended goes out by `tail`, and a
keep-alive may follow it.

### Telemetry

`EventLog` and one `CacheWatch`, which meet in `sink`. The backend's log is a
sequence of lines of two bytes, so a line can be read when half of it is
written; `keep_log` and the shell's redirection are `MoveLog` and `NewLog`, which
may come at any moment: before the watch's first poll, and between the `stat` and the
`open` of one. `before` notes, for the property of the sink, how many lines the log
had when the router started and which log the first poll found. The event thread's
file is a buffer and a file, so a row whose flush failed stays behind for the next one;
a new day closes the old file first and may fail at either step.

Assumed here: every new log has an inode that was not used before; a log that
was moved between a poll's `stat` and its `open` is empty at that `open`; a
backend that is loading delays a poll as anything else may; `dropped += 1` is
not torn between two writers.

### Prompts

Pure functions over a body's messages, and the turns of a few clients that
apply them as `Turn.run` does: name the conversation, hoist late system
messages, cut. A hash is modelled as what was hashed, so two cuts have one name
when the same was fed to the hash in the same order.

A message is its role, its words, whether it leaves a tool call open, and the form
its content is written in: a string, a list of blocks, or a list with the
client's `cache_control` mark. A mark needs a block, so it turns a string into a
list; `content_size` counts its strings (`FormChars`), and `without_ignored` leaves
it out of what is hashed. The tools are hashed and measured as they are written,
marks and key order included, and `Rendered` says what a template makes of them. So
one prompt can be written in several ways, and only some of them have one name.

A client's next request is its last with messages added, with the marks left, or
taken off to blocks or to strings, and with its tools perhaps written another way.

## 3. The runs

Most runs set `CHECK_DEADLOCK FALSE`: when every turn is over, every row written
or every client answered the system has nothing to do, which is where each run
is meant to end. That it does not stop before is what the liveness property of
the run says. Restart checks for deadlock, since a stopped router is started
again.

| run | instance | what it shows |
|---|---|---|
| PoolCarry | 3 turns of 2 conversations; one reader with one slot, one generator with two; one unit of disk budget, one pin; restores may fail. 124,519 states | `OneTurnPerSlot`, `ParkingHasAWriter`, `ImplementsTurnOrder`, `EveryTurnEnds`: carries are given separate slots although a carry takes three holds to land, victims of the pin limit are never in use, and a sweep never drops a copy being made |
| PoolRestart | 2 turns of 1 conversation read on two readers; one reader and the generator die once each; clients may leave, which nothing forces; saves, restores and reads fail. 149,743 states | `TypeOK`, `BusyIsTurns`, `CurrentCopyIsCurrent`, `ParkedIsThere`, `EveryTurnEnds`: the counts come back on every way out, a record never names a file that is gone or calls an old one current, and a turn that waits in `acquire` gets a slot or an answer though its client stays |
| PoolOneBox | 4 turns on one slot, one of an unnamed conversation, one typed; the backend is drained and restarted once; reads may fail. 285,524 states | `NoForeignCopy`, `CacheNeverLost`: on one slot everybody overwrites everybody, and each cache worth keeping is saved first, under its own name, drain included |
| OpeningsShared | 3 requests of one system prompt whose messages share one or two lines, one of none, one with a cache of its own; room for two openings; the last run left one, good or unreadable; loads and reads fail, clients leave, patience runs out. 20,940 states | `TypeOK`, `OneReader`, `StartsAreKnown`, `NoStrayFile`, `EveryRequestEnds`: one request reads an opening at a time and its key comes out of `building` on every way out; a kept start can be found; no file is left that nobody will delete; nobody waits for a reader that is gone. Patience may run out but is not assumed to, so no wait needs it |
| Restart | 2 conversations that share one slot; one handler, the worker and the main thread; room for one copy; kills and power cuts at every step, any number of them; saves and writes of the main thread fail. 819,496 states | `TypeOK`, `MapReadable`, `RecordedIsVouched`, `AdoptLeavesNoStray`, `StopKeeps`, `StopEnds`: the map can be read after a death at any step, what it does not name yet has a writer on the way, a start leaves neither stray files nor records without a file, and an orderly stop ends, with every quiet cache on disk and named |
| Reply | both protocols, streams the router opened and not, with and without the usage chunk; two keep-alives in all; the client leaves, or stalls and reads on; the backend refuses or resets. 210,219 states | `TypeOK`, `EventsStayWhole`, `NothingAfterEnd`, `KeepsPromise`, `StreamEnds`: Reply implements Stream, wherever the pieces are cut, and a keep-alive never comes inside an event of an opened stream or after the end |
| Telemetry | one requester; a queue of one; two logs, of two lines and one; one midnight; the disk refuses twice. 443,352 states | `TypeOK`, `TotalsAreOfThisLog`, `SinkIsTold`, `RowsInOrder`, `FlushCovers`, `FlushEnds`, `LogIsReadUp`: totals never mix two logs, a line goes to the sink once, but for as many lines of the log the watch found first as its log had when the router started, a file's rows are in order and of its day, and a flush accounts for every row before it |
| Prompts | 2 clients with 2 turns each, over four heads, four first and four later sets of messages, with marks that are as long as a line; the bars at 2 and 4. 69,505 states | `TypeOK`, `NamesArePrompts`, `SharedPromptIsACut`, `NameIsKept`, `HoistKeepsThePrompt`, `NextTurnFindsTheLast`: two cuts have one name exactly when one prompt is rendered before them and it is written alike in its tools and in which messages are strings; and a client's next turn finds the deepest cut of its last, unless that is written another way now or falls under its bar without its marks |

Four runs state something a comment or a test says and find the code to do
otherwise. Each is short to read as a trace.

| run | property | the disagreement |
|---|---|---|
| PoolFirstTurns | `OneTurnPerSlot` | `pick_slot` notes `using` on a record that exists. `_take` makes the record of a first turn afterwards, without `using`, so `_turn_slots` does not list its slot. Two new conversations on a backend with two slots are both given the same one. `tests/test_migration.py:509` says two requests cannot. |
| PoolTwoWriters | `OneWriterPerFile` | `hand_off` saves its reader's slot without asking whether the conversation is `parking`, so two backends may write one file. `pool.py:1057` says every path refuses a copy already running. |
| RestartTwoSavers | `AlwaysReadable` | `save_pins` writes with no lock held, and all writers share one `pins.json.new`. A thread may write its text into the file another has just renamed into place. `files.py:156` says half a map can never be read back. `MapReadable` and its kin are stated for a map whose last save ran alone (`clean`). |
| ReplyHalfFrame | `NothingAfterHalf` | A write to a client that stopped reading times out as an `OSError`, which `_forward` takes for a backend that stopped: it sends an error event behind half a frame. `handler.py:463` says half a frame makes the rest of the stream unreadable. |

Ten configurations are kept beside the runs. Each ends in a counterexample, to be
read as an edge of what the passing runs show:

| configuration | property | what TLC finds |
|---|---|---|
| PoolLeftWaiting.cfg | `NothingLeftHeld` | A client leaves while its turn waits for a generator. `hand_off` answers None, `Turn.run` skips `release`, and the record stays `inflight` after the turn is over. `tests/test_turn.py:440` says what that costs. |
| PoolAbandonedCopy.cfg | `NoForeignCopy` | A client leaves in mid-read. `release` frees the slot, and `park_partial` copies it in a later hold; another turn may have read its prompt there in between. |
| PoolQueuedCopy.cfg | `NoForeignCopy` | The worker's job passes its check (`_save_park` with `claim`) while a carry has been handed the same slot and not landed. It lands before the worker's call reaches the backend, and the copy is of its prompt. `pool.py:1011` gives the check as what prevents this. |
| PoolLateTurnNumber.cfg | `CurrentCopyIsCurrent` | `_park` notes the turn number in a hold after the one that decided the copy; the conversation's next turn may begin elsewhere in between, and the older copy is filed under the newer number. |
| OpeningsRaised.cfg | `NeverRaises` | `_read_start` takes its base's name after the lock was let go. If the base was dropped meanwhile it restores `None`, and `_drop_opening` deletes a missing key. |
| OpeningsOverBudget.cfg | `BudgetKept` | A key stays in `building` while its own sweep runs, so two readers that end together spare each other's opening and both stay. |
| RestartLateUnlink.cfg | `SweepSparesTheWriter` | `_park` picks what its sweep spends under the lock and deletes it after. A copy of one of these that begins in between is unmarked when the victim is picked: its file is deleted when it is full, and the record names a file that is gone. `pool.py:246` gives the mark (`parking`) as what keeps a sweep from the file a writer is filling. |
| RestartSlotTaken.cfg | `LatestIsFiled` | `ensure_parked` and `park_all` pick a copy in one hold (`pool.py:999`, `pool.py:1459`), and `_save_park` claims its slot in a later one. A turn is given the slot in between and reads there: what is saved is its prompt, filed as the other conversation's latest copy. |
| TelemetryFirstPoll.cfg | `NewLogIsTold` | `CacheWatch` sizes the log when it is made and notes its inode at its first poll. A log replaced in between passes for the old one, and its first lines are kept from the sink. `SinkIsTold` says how many at most. |
| PromptsMovedMark.cfg | `MarksAreFree` | `content_size` counts a mark's own strings (`body.py:32`), and `prompt_cuts` measures the message as it came (`body.py:138`). A cut that reached its bar with a mark before it is none when the mark has moved on: the next turn does not find it. |

In the passing runs these cases are kept out by the instance and not by the
model: with two slots every turn but a first one has a record, and so on. Read a
passing property as "holds under the faults and the sizes of its run", and the
findings as its edges.

### Why the bounds are enough

Two conversations are what it takes to disagree over a slot, a budget or a pin;
two turns of one are what it takes to disagree over a ticket, a record or a file,
and a third party is what the budget and the eviction need. One slot makes every
meeting happen; two slots are needed for accounts that list slots. Two readers
and a generator are the smallest table in which a turn is read elsewhere than the
turn before it and still moves. One death per backend in PoolRestart lets a
process die under a save, a restore, a read and a relay, and return before or
after the poll has seen it go. All passing runs explore their
state space to the end; the tables above give their numbers of states.

For Openings, two requests contend for a key and a third comes after; messages
of three lines have starts of one and two; room for one or two openings makes
every kept one push another out. `MaxHeads` is the code's 8, which three
messages do not reach.

For Restart, one bound is on the steps: with `AnyLateTurn` FALSE a turn that begins
after the signal is the first since then of its conversation. The signal handler runs
on the main thread, inside `serve_forever`, so no connection is accepted any more,
and late turns come only on those that were open; each conversation may still
have one. RestartTwoSavers, RestartLateUnlink.cfg and RestartSlotTaken.cfg lift
it, and so does `StopKeepsQuiet`. One slot makes two conversations displace each other and one unit
of budget makes the second copy delete the first. One handler and the worker
already write the map at once; a second handler only adds writers, and
RestartTwoSavers has two. What more slots, caches and handlers could bring to a
stop is settled by `StopKeepsQuiet`. Deaths are not counted: the states after one are
states of a start.

For Reply, events of two halves let a piece end inside any event; two pings are
one before and one within, or two in one silence. For Telemetry, a log of two
lines and one of one tell a shorter log from a longer one, and a queue of one is
full as soon as two rows meet. For Prompts, two turns of two clients are what
two cuts need to be compared within a conversation and across; the lengths are such
that a line reaches the higher bar with its mark and not without it.

A larger instance is what the theorems are for.

### Fairness

`FairSpec` assumes weak fairness of

* each turn's own thread and each save: threads of the operating system, whose
  waits are `cv.wait(1.0)` in a loop that looks at the condition again each
  second, so a condition that stays true is seen without any `notify`;
* the worker: one thread in a loop on its queue;
* the steps of a drain already begun: `drain_deadline` bounds its wait;
* the poll of each backend: a loop that sleeps two seconds and catches what a
  poll raises;
* `Boot`: a dead backend is started again. This is the operator's, or the
  service manager's, part. Without it a turn may wait for a generator for ever, which
  the code intends ("parked until a generator is free").

Openings assumes weak fairness of its requests together: some thread that can
go on does. Each request takes finitely many steps, so that is enough for
`EveryRequestEnds`, and a thread that were starved for a while would not matter.

Restart assumes fairness of the main thread only, and only once a signal came: a
stop must end though a handler or the worker never moves again. Its calls to a
backend carry a timeout, and `drain_parks` a deadline.

Reply assumes strong fairness of the handler's steps and weak fairness of each
keep-alive's. Strong, because `Lock` is enabled again and again but not
continuously while a keep-alive takes and returns the lock; the operating
system's mutex is not unfair for ever, and pings are a second or more apart. A
write that a stalled client holds up ends by the socket's timeout, so its step
is forced; the client itself owes nothing, neither to leave nor to read on.

Telemetry assumes weak fairness of the router's own threads (the poll, the event
thread, a flush that may return, each requester) and nothing of the backend, of
the script or of the clock. Prompts needs none.

A client leaving, a call failing, a death and a new drain are never forced. The
five ways a client leaves a turn are `ClientLeaves`, apart from `TurnStep`, so
`EveryTurnEnds` counts no turn as ended because its client gave up waiting in
`acquire`, which has no deadline.
`Recall`, `Take` and the rest share one weak-fairness condition per thread,
`TurnStep(t)`, since a thread is at one place at a time. `EveryTurnEnds` needs no
strong fairness because a waiter whose turn keeps losing a slot loses it to other
turns, of which there are finitely many.

## 4. The proofs

| theorem | of | property | under |
|---|---|---|---|
| `TypeCorrect` | Pool | `TypeOK` | |
| `BusyIsExact` | Pool | `BusyIsTurns` | |
| `ParkingIsWritten` | Pool | `ParkingHasAWriter` | |
| `ClaimsHold`, `Implements`, `OneTurnOfAConversation` | Pool | `ImplementsTurnOrder` | |
| `NoSharedSlot` | Pool | `OneTurnPerSlot` | `OneSlotReaders` |
| `OneTurn` | TurnOrder | `OneTurnAtATime` | |
| `OpeningsTyped`, `OneReaderHolds`, `StartsStayKnown`, `NoFileIsStray` | Openings | `TypeOK`, `OneReader`, `StartsAreKnown`, `NoStrayFile` | |
| `RestartTyped`, `LoneMapIsReadable`, `CopiesAreVouched`, `NoStrayIsLeft` | Restart | `TypeOK`, `MapReadable`, `RecordedIsVouched`, `AdoptLeavesNoStray` | |
| `StopKeepsQuiet` | Restart | `StopKeeps` | |
| `ReplyTyped`, `EventsWhole`, `NothingFollowsTheEnd` | Reply | `TypeOK`, `EventsStayWhole`, `NothingAfterEnd` | |
| `KeepsItsPromise` | Reply | `KeepsPromise` | |
| `TelemetryTyped`, `FlushesCover`, `RowsKeepOrder`, `TotalsOfThisLog` | Telemetry | `TypeOK`, `FlushCovers`, `RowsInOrder`, `TotalsAreOfThisLog` | |
| `SinkIsGiven` | Telemetry | `SinkIsTold` | |
| `PromptsTyped`, `NamesOfPrompts`, `Hoisting`, `SharedPrompts`, `NextTurn` | Prompts | `TypeOK`, `NamesArePrompts`, `HoistKeepsThePrompt`, `SharedPromptIsACut`, `NextTurnFindsTheLast` | |
| `NamesAreKept` | Prompts | `NameIsKept` | `ToolsFollow` |

All assume what their module's ASSUME says of its constants and nothing else:
that they are functions, sequences, sets or numbers of the kinds their comments give,
that the sentinels (`NoSlot`, `NoRow`, `None`, ...) are none of the real values, and
that what is counted is finite. There is no bound on turns, backends, slots,
drains or deaths; on requests, keys or files; on keep-alives; on lines, rows or
days; on clients or the length of a conversation. Two theorems have hypotheses of
their own, named in the last column and explained below: conditions on the constants,
which the instance of the run that checks the property meets.

### TurnOrder and Pool

`TurnOrder_proofs` proves `OneTurn`: the promise of TurnOrder is inductive as it
stands, since a turn enters only when nobody else holds its conversation.

`Pool_proofs` proves `TypeCorrect == Spec => []TypeOK`. TypeOK is not inductive:
a step that fills a slot needs a slot and a backend, and those are in locals of
a thread that may also be `NoBackend` and `NoSlot`. The strengthening is

    IInv == TypeOK /\ TurnsPlaced /\ SavesPlaced /\ DrainPlaced

a turn past `acquire` has a backend and a slot, one that is being carried has a
destination and a slot there, a save that is under way reads a slot of a
backend, a drain that is under way is of a backend. The proof has a lemma per
helper (`TouchTyped`, `TakenTyped`, `TrimmedTyped`, ...), one for each kind of
thread (`TypeTurn`, `TypeSave`, `TypeWorker`, `TypeOperator`, `TypeBackend`) with
a step per action, and the theorem puts them together.

`BusyIsExact` needs `ServesWhereItReads` beside it: until it is handed over, a
turn is counted where it reads. Each step moves one turn, and `Followed` says
that it changes each backend's `busy` by as much as that turn's share; that the
sum follows is one lemma on cardinalities. A carry that fails to land is the case
in which two counts move at once.

`ParkingIsWritten` needs `WorkerRests` (a worker with no job is in no save).
A mark is set by the hold that queues a copy or begins one, and the proof follows
who has it: a job, the worker, the turn in `ensure_parked`, or the operator's
`park_all`.

The second part of `Pool_proofs` proves that Pool implements TurnOrder, under the
refinement mapping `StageOf` that counts a turn as copying while its ticket is in the queue
or with the worker. The invariant the mapping needs is

    Claims == TicketHeld /\ CopyLast /\ OneJobEach

whoever serves or copies a conversation holds its ticket; a copy is queued only
by a turn that is over; a ticket is in one job at most. `ClaimsHold` proves it,
`Implements` maps each step to a step of TurnOrder or to a stutter, and
`OneTurnOfAConversation` carries `OneTurn` back to Pool.

`NoSharedSlot` needs all of these and the four accounts of a slot:

    Accounts == IInv /\ Claims /\ ServesWhereItReads /\ BusyCounts
                /\ RecordsServe /\ UsingNoted /\ HandedOver /\ ReadsWhereItMay
                /\ NoOtherClaims /\ OneOwner

`OneOwner` says that a slot is claimed by one turn at most: it reads there, was
handed it, or noted it in its record. On a reader nothing but `busy` keeps a
second turn away, because the record of a first turn does not name its slot;
hence `OneSlotReaders`, that a backend that reads has one slot. It is what
`docs/LAYOUT.md:31` says of every backend and what the launch scripts of the
readers pass (`common.sh:136`, `cpu-prefill.sh:26`; `qwen-mtp-cpu.sh:37` unless
`SLOTS` is set), and what PoolCarry has. Without it the property is false:
PoolFirstTurns is the counterexample.

What the slots and the files hold is not proved. `NoForeignCopy`,
`CurrentCopyIsCurrent`, `ParkedIsThere` and `CacheNeverLost` are true of the
instances their runs check and false of others: a client that leaves
(PoolAbandonedCopy.cfg), a carry beside a queued copy (PoolQueuedCopy.cfg), a turn
number noted late (PoolLateTurnNumber.cfg), a late unlink (RestartLateUnlink.cfg)
and a slot taken before it is claimed (RestartSlotTaken.cfg) each break one. A
theorem would need conditions that rule out these races, which are what the code is
exposed to, so there is none.

### Openings

    IInv == TypeOK /\ Plans /\ OneReader /\ StartsAreKnown /\ FilesAccounted

`Plans` ties where a request's thread is to what it was planned for; without it
`StartsAreKnown` is not inductive, since a reader puts its own start back.
`FilesAccounted` is `NoStrayFile` with a key that is being read counted only once
its link was made.

### Restart

    IInv == Control /\ Mapping /\ Adopting

`Control` holds the types, that what a record says is in the order of last use,
and that a router that does not serve has one thread at work. `Adopting` is about
a start: the files there are those of the records and those the main thread has
still to delete, so none is left when it has deleted them.

`Mapping` is the argument about the map. A thread notes when it takes its rows
whether it writes alone (`alone`), and loses the note when another takes rows.
Who has it is the only writer, and the spare holds its rows and nothing else once
it has written (`AloneWrites`); so the map it puts in place is whole and forced
down, and no thread has it open (`CleanMap`). No death undoes that, and a power cut
leaves an earlier map of which the same is true, or one that two threads wrote, and
then it is not `clean`. That it names enough takes two more facts: what a lone writer took is
every copy recorded, unless a thread has rows yet to take (`AloneCovers`), and a
record made since is of a thread that has (`Covered`).

`StopKeepsQuiet` needs a second invariant, beside the first:

    SInv == Owners /\ (\A c \in quiet : Still(c)) /\ Kept

`Owners` is who copies whom: a record marked `parking` has one job or one thread
and no more, one marked `inflight` has a handler, a copy begun for an earlier
turn is of a record with no later copy, and the main thread copies in `park_all`
only. `Still(c)` is what the stop relies on: no turn has c, no thread is to
delete its file, the file is there when the record says so or a thread that saved it
has yet to record it (`Filing`), the worker has no copy of it once it was waited
for, no handler has one once `park_all` is over, the main thread's own copy of it is
of its last turn, and what `park_all` tried is copied or is being copied. When `park_all` ends, a quiet cache is thus neither served nor
being copied nor refused: `ensure_parked`'s own test for a cache at risk
(`AtRisk`) is then false of it only because its copy is of the last turn. From
there `Kept` carries it: every lone writer that took rows since then took its
row, and the map the exit leaves, if it is a lone writer's, has it. Two steps were
not as expected: a copy that the main thread has just made may be deleted by a
sweep from before it (RestartLateUnlink.cfg), and may be of a slot that a turn has
read into since it was picked (RestartSlotTaken.cfg). `quiet` leaves out such
conversations.

### Reply

    IInv == Control /\ EndIsLast /\ HalfIsLast

`Control` ties the lock, the two flags and the places of the three threads: who
writes has the lock, both keep-alives are told to stop (or were never started)
before the handler may write an end, and what waits in a splice is at most half
an event. `EndIsLast` and `HalfIsLast` are the two properties over the whole
wire; `EventsWhole` and `NothingFollowsTheEnd` read them off what a client can
see of it.

`KeepsItsPromise` is the refinement of Stream. Its invariant is

    PInv == IInv /\ ErrorIsLast /\ Telling

`Told(u)` is the part of the reply that is out when the backend has sent u
halves, and `RestAt(u)`, `UsageAt(u)` where a splice is then. `Telling` says: while the
handler waits for the backend the client has `Told(up)`; while it has a piece in
its hands the client will have it once that is out; when the reply is over it has
all of it; or what it can read was cut. `FedTells` is the heart: however a piece
is cut, what `Splice.feed` passes on brings `Told(m)` to `Told(n)`, and the
splice from where m halves leave it to where n do. It goes by induction along the
events of the piece, `OneEvent` being what the two splices do to one. `WriteShows`
says what one write does to what can be read: nothing, half a frame that hides
what follows, or its items behind the rest. The step lemmas (`OpenKeeps`,
`PutPieceKeeps`, `PutEndKeeps`, ...) put the two together.

The proof of `Sends` found two overlapping guards in a CASE of the model (an
openai stream that is opened and asked for), where TLC takes the first: the
guards are exclusive now.

### Telemetry

    IInv == Watching /\ Offering /\ Sinking /\ Writing

`Watching` says where the poll is in which log, and that its totals are of the
lines it has counted; `Writing` that the files, the open handle, the row in hand
and the queue, in this order, hold rows in the order they were offered, and that
what is in none of them was counted as dropped. `Offering` and `Sinking` say which
lines were offered, and that of the log the watch found first those passed over are
at most as many as its log had when the router started: none of any other log, and
none past them. It holds for a log replaced before the watch's first poll, which
passes for the old one (TelemetryFirstPoll.cfg).

### Prompts

Four of the theorems rest on

    IInv == BodyTyped /\ KnownAreCuts /\ LastIsKnown /\ FoundOfClients

every cut known was a cut of some request under its name, and those of each
client's last request are known. Three lemmas carry the argument: `LeadingEnds`
(the leading system messages of a list end somewhere, from the least-element
property of the naturals), `SamePromptIsACut` (whether a cut is one is decided
by its size as it is written, marks included, by its bar, and by whether a tool call
is open; of two requests with one prompt the bar and the call are the same) and
`CutsStay` (hoisting a longer request treats the messages of the shorter one as
it did). No step needs what the sum of the sizes is, only that equal messages
have equal sums.

`NamesOfPrompts` shows that what is hashed can be taken apart again: the template
version first, then system and tools, then the messages (`SameHead`, `SameSplit`,
`SameName`); the other way, prompts that are the same and written alike have one
name, is `SameSpelling`. `PromptsTyped` adds `Counted`, that a client has a name for each turn.

`NamesAreKept` adds `Named`: each name a client's turns had is that of its
messages now, or of system messages that still begin them. A tool message with no
call before it breaks this (a first turn of it alone is named after it, the next
turn by what follows), so the theorem supposes `ToolsFollow` of what clients
send, which is what the two protocols prescribe.

### Lemmas on data

`Queues_proofs` proves, of Queues' `Pick` and `Without`, that they keep order and
members, and `SetInduction` and `RecursionExists`: induction over a set of
naturals and the existence of a recursively defined function, stated without an
operator parameter so that this prover can use them. With these, what
`Splice.feed` and `EventsOf` compute can be proved for every input. `SelectSeq` of
the standard library cannot be unfolded by the prover, which is why Restart uses
`Pick`, and `EventsOf` is a recursive function.

### What stays with TLC

* Every liveness property: fairness and ENABLED are out of the prover's reach.
* `NoForeignCopy`, `CurrentCopyIsCurrent`, `ParkedIsThere` and `CacheNeverLost` of
  Pool, for the reason given there.

For whoever changes a proof: keep `TypeOK` unexpanded in the leaves of a step and
use the facts drawn from it; prove a record's type in a leaf of its own and lift
it to the function; a nested EXCEPT goes to Zenon, arithmetic to SMT; name the
length of a sequence by a PICK before arithmetic on it.

## 5. Plan

Done: TurnOrder, Pool, Openings, Restart, Stream and Reply, Telemetry and
Prompts, and the proofs of all of them. Next, in this order.

1. More of Pool: a queued copy whose backend restarts; a turn read on a draining
   backend; what a recall makes of a file that a late unlink took
   (RestartLateUnlink.cfg has the unlink, Pool the recall).
2. The figures: `slot_state`, `since_reset` and the buckets of History.

## 6. Not modelled

* HTTP, sockets, TLS, JSON and the wording of answers: dispatch and formats.
* The estimate of tokens and the rates that weigh a wait: the model takes sizes
  as constants and leaves open what rates decide.
* Two conversations that are named alike: in Pool each is a value of its own, and
  the keys clients send (`session_key`, `prompt_key`) are taken as they are.
* `body_total` (one `finally` around one read), and replies with a length.
* `stop_parks`, which only tests call.
* `since_reset`, `slot_state`, History, Machine and Flow: figures for a dashboard
  over real-valued time. A counter that restarted and passed its old baseline
  reads too small there (`pool.py:412`); nothing the router decides reads it.
* `openings.json`: it keeps the order of the shelf, the load counts and the
  starts inside messages. Openings takes up from base openings only.
* An exception between the claim and the slot of a turn.
* Typed questions beyond staying where they are read.
* The pages, tools, launch scripts and patches, which keep no state the router
  depends on.
* TLC does not explore several faults together with several drains; each run
  switches on the faults its question is about.
