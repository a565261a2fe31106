----------------------------- MODULE Telemetry -----------------------------
(***************************************************************************)
(* What the router writes down of itself and of one backend's log.         *)
(*                                                                         *)
(* EventLog (store/events.py) is a bounded queue that request threads and  *)
(* the poll write to, and one thread that appends its rows to a file of    *)
(* the day.  CacheWatch (store/backendlog.py) follows the log of a backend *)
(* that restart-backend.sh may move aside at any moment, totals what it    *)
(* says, and offers the lines that are new to the EventLog.                *)
(*                                                                         *)
(* A line of the backend's log has two bytes, so that one can be read half *)
(* written, and a kind: "evicted" stands for the four kinds that are sunk, *)
(* "state" for those that are only totalled.  A row is what offered it and *)
(* its number, with the day of its time stamp.                             *)
(***************************************************************************)
EXTENDS Integers, FiniteSets, Sequences, SequencesExt

CONSTANTS
    Requesters,     \* request threads that write events
    MaxQueue,       \* EventLog.maxsize
    Prints,         \* the kinds of the lines each run of the backend prints
    MaxDays,        \* days the clock passes through
    FaultBudget     \* how often the disk refuses the event thread

ASSUME TelemetryAssumption ==
    /\ MaxQueue \in Nat \ {0} /\ MaxDays \in Nat \ {0}
    /\ "watch" \notin Requesters
    /\ Prints \in Seq(Seq({"evicted", "state"})) /\ Prints # <<>>
    /\ FaultBudget \in Nat

VARIABLES
    log,            \* the lines of the file at the log's path, by kind
    half,           \* its last line has no end yet
    there,          \* a file is at that path
    ino,            \* its inode, a number of its own for every log
    watch,          \* the CacheWatch, and where _watch is in its poll
    shown,          \* be["cache"], which the dashboard reads
    before,         \* the log and the lines in it when the router started, and
                    \* the log the watch found first, for the properties
    today,          \* the date
    stamp,          \* the day a requester's row is stamped with, or NoDay
    queue, hand,    \* the queued rows, and the one the thread took
    files,          \* the file of each day
    handle, day,    \* EventLog.handle and EventLog.day
    buffer,         \* rows a failed flush left in the handle
    dropped,        \* EventLog.dropped
    flusher,        \* a thread in flush, and the rows written before it
    offered,        \* every row in the order of its write, for the properties
    faults

backendVars == <<log, half, there, ino>>
watchVars   == <<watch, shown, before>>
fileVars    == <<files, handle, day, buffer>>
vars == <<backendVars, watchVars, today, stamp, queue, hand, fileVars, dropped,
          flusher, offered, faults>>

Days  == 1..MaxDays
NoDay == 0
NoRow == [by |-> "nobody", n |-> <<>>, day |-> NoDay]
Zero  == [evictions |-> 0, prompts |-> 0]

\* A line is named by its log and its number.
Lines      == UNION {{g} \X (1..Len(Prints[g])) : g \in 1..Len(Prints)}
LineRow(l) == [by |-> "watch", n |-> l, day |-> today]

Size     == 2 * Len(log) - (IF half THEN 1 ELSE 0)
Complete == Len(log) - (IF half THEN 1 ELSE 0)

Init ==
    /\ log = <<>> /\ half = FALSE /\ there = TRUE /\ ino = 1
    /\ watch = [pc |-> "off", offset |-> 0, inode |-> 0, replay |-> 0,
                stats |-> Zero, fresh |-> <<>>]
    /\ shown = Zero /\ before = [ino |-> 0, lines |-> 0, found |-> 0]
    /\ today = 1 /\ stamp = [r \in Requesters |-> NoDay]
    /\ queue = <<>> /\ hand = NoRow
    /\ files = [d \in Days |-> <<>>]
    /\ handle = "none" /\ day = NoDay /\ buffer = <<>> /\ dropped = 0
    /\ flusher = [pc |-> "out", rows |-> {}]
    /\ offered = <<>> /\ faults = 0

-----------------------------------------------------------------------------
(* The backend and the script that restarts it *)

\* A poll holds the size of a log that was moved meanwhile.
Overtaken == watch.pc = "open" /\ watch.inode # ino

\* A server prints nothing in the instant between a stat and the open after it.
BeginLine ==
    /\ there /\ ~half /\ Len(log) < Len(Prints[ino]) /\ ~Overtaken
    /\ log' = Append(log, Prints[ino][Len(log) + 1]) /\ half' = TRUE
    /\ UNCHANGED <<there, ino>>

EndLine ==
    /\ there /\ half /\ half' = FALSE
    /\ UNCHANGED <<log, there, ino>>

\* keep_log, after the server was stopped.
MoveLog ==
    /\ there /\ ino < Len(Prints)
    /\ there' = FALSE
    /\ log' = <<>> /\ half' = FALSE
    /\ UNCHANGED ino

NewLog ==
    /\ ~there /\ there' = TRUE /\ ino' = ino + 1
    /\ UNCHANGED <<log, half>>

Backend ==
    /\ \/ BeginLine
       \/ EndLine
       \/ MoveLog
       \/ NewLog
    /\ UNCHANGED <<watchVars, today, stamp, queue, hand, fileVars, dropped,
                   flusher, offered, faults>>

-----------------------------------------------------------------------------
(* EventLog.write: never blocks, never raises *)

Offer(row) ==
    /\ offered' = Append(offered, row)
    /\ IF Len(queue) < MaxQueue
       THEN queue' = Append(queue, row) /\ UNCHANGED dropped
       ELSE dropped' = dropped + 1 /\ UNCHANGED queue

HasWritten(r) == \E i \in 1..Len(offered) : offered[i].by = r

\* The row is stamped first, so midnight and other writers may come between.
Stamp(r) ==
    /\ stamp[r] = NoDay /\ ~HasWritten(r)
    /\ stamp' = [stamp EXCEPT ![r] = today]
    /\ UNCHANGED <<queue, dropped, offered>>

Put(r) ==
    /\ stamp[r] # NoDay
    /\ Offer([by |-> r, n |-> <<>>, day |-> stamp[r]])
    /\ stamp' = [stamp EXCEPT ![r] = NoDay]

Requester(r) ==
    /\ Stamp(r) \/ Put(r)
    /\ UNCHANGED <<backendVars, watchVars, today, hand, fileVars, flusher, faults>>

-----------------------------------------------------------------------------
(* CacheWatch: the router's start, and poll between stat, read and lines *)

StartReplaying ==
    /\ watch.pc = "off"
    /\ watch' = [watch EXCEPT !.pc = "idle"]
    /\ before' = IF there THEN [before EXCEPT !.ino = ino, !.lines = Complete] ELSE before
    /\ UNCHANGED <<shown, queue, dropped, offered>>

\* The bytes already in the log are in the totals and not in the sink.
Start ==
    /\ watch.pc = "off"
    /\ watch' = [watch EXCEPT !.pc = "idle", !.replay = IF there THEN Size ELSE 0]
    /\ before' = IF there THEN [before EXCEPT !.ino = ino, !.lines = Complete] ELSE before
    /\ UNCHANGED <<shown, queue, dropped, offered>>

\* _watch reaches the log of a backend that has just answered.  How long a
\* backend loads before it answers is the delay any poll may have.
Ask ==
    /\ watch.pc = "idle" /\ there
    /\ watch' = [watch EXCEPT !.pc = "asked"]
    /\ UNCHANGED <<shown, before, queue, dropped, offered>>

StatMissing ==
    /\ watch.pc = "asked" /\ ~there
    /\ watch' = [watch EXCEPT !.pc = "idle"]
    /\ shown' = watch.stats
    /\ UNCHANGED <<before, queue, dropped, offered>>

ReplacedBySize == Size < watch.offset

\* Smaller, or a different inode: a new log.
Replaced == Size < watch.offset \/ (watch.inode # 0 /\ ino # watch.inode)

StatKeepingPlace ==
    /\ watch.pc = "asked" /\ there
    /\ watch' = IF Replaced
                THEN [watch EXCEPT !.pc = "open", !.inode = ino,
                                   !.replay = 0, !.stats = Zero]
                ELSE [watch EXCEPT !.pc = "open", !.inode = ino]
    /\ before' = [before EXCEPT !.found = IF watch.inode = 0 THEN ino ELSE @]
    /\ UNCHANGED <<shown, queue, dropped, offered>>

Stat ==
    /\ watch.pc = "asked" /\ there
    /\ watch' = IF Replaced
                THEN [watch EXCEPT !.pc = "open", !.inode = ino, !.offset = 0,
                                   !.replay = 0, !.stats = Zero]
                ELSE [watch EXCEPT !.pc = "open", !.inode = ino]
    /\ before' = [before EXCEPT !.found = IF watch.inode = 0 THEN ino ELSE @]
    /\ UNCHANGED <<shown, queue, dropped, offered>>

OpenMissing ==
    /\ watch.pc = "open" /\ ~there
    /\ watch' = [watch EXCEPT !.pc = "idle"]
    /\ shown' = watch.stats
    /\ UNCHANGED <<before, queue, dropped, offered>>

ReadHalfLines ==
    /\ watch.pc = "open" /\ there
    /\ watch' = [watch EXCEPT !.pc = "lines",
                     !.offset = IF Size > @ THEN Size ELSE @,
                     !.fresh = [i \in 1..(IF Size > watch.offset
                                          THEN Complete - watch.offset \div 2
                                          ELSE 0) |->
                                [line |-> <<ino, watch.offset \div 2 + i>>,
                                 kind |-> log[watch.offset \div 2 + i]]]]
    /\ UNCHANGED <<shown, before, queue, dropped, offered>>

\* Whole lines only: half a line waits for the next poll.  A seek past the
\* end of a log that took this one's place reads nothing.
Read ==
    /\ watch.pc = "open" /\ there
    /\ watch' = [watch EXCEPT !.pc = "lines",
                     !.offset = IF 2 * Complete > @ THEN 2 * Complete ELSE @,
                     !.fresh = [i \in 1..(IF 2 * Complete > watch.offset
                                          THEN Complete - watch.offset \div 2
                                          ELSE 0) |->
                                [line |-> <<ino, watch.offset \div 2 + i>>,
                                 kind |-> log[watch.offset \div 2 + i]]]]
    /\ UNCHANGED <<shown, before, queue, dropped, offered>>

Counted(stats, l) ==
    IF l.kind = "evicted" THEN [stats EXCEPT !.evictions = @ + 1]
                          ELSE [stats EXCEPT !.prompts = l.line[2]]

\* `at` is where the line ends.
Line ==
    /\ watch.pc = "lines" /\ watch.fresh # <<>>
    /\ LET l  == Head(watch.fresh)
           at == 2 * l.line[2]
       IN  /\ IF l.kind = "evicted" /\ at > watch.replay
              THEN Offer(LineRow(l.line))
              ELSE UNCHANGED <<queue, dropped, offered>>
           /\ watch' = [watch EXCEPT !.stats = Counted(@, l), !.fresh = Tail(@)]
    /\ UNCHANGED <<shown, before>>

EndPoll ==
    /\ watch.pc = "lines" /\ watch.fresh = <<>>
    /\ watch' = [watch EXCEPT !.pc = "idle"]
    /\ shown' = watch.stats
    /\ UNCHANGED <<before, queue, dropped, offered>>

PollStep == Ask \/ StatMissing \/ Stat \/ OpenMissing \/ Read \/ Line \/ EndPoll

Watcher ==
    /\ Start \/ PollStep
    /\ UNCHANGED <<backendVars, today, stamp, hand, fileVars, flusher, faults>>

-----------------------------------------------------------------------------
(* EventLog._run and _emit *)

Get ==
    /\ hand = NoRow /\ queue # <<>>
    /\ hand' = Head(queue) /\ queue' = Tail(queue)
    /\ UNCHANGED <<fileVars, dropped, faults>>

SwitchingOnce == handle = "none"

\* The row is of another day than the file, or there is no file yet.
Switching == hand.day # day \/ handle = "none"

\* The file that is left, closed: what its buffer held is in it.
Flushed == IF handle = "open" THEN [files EXCEPT ![day] = @ \o buffer] ELSE files

Emitted ==
    /\ Switching \/ handle = "open"
    /\ handle' = "open" /\ buffer' = <<>>
    /\ IF Switching THEN day' = hand.day ELSE UNCHANGED day
    /\ files' = [Flushed EXCEPT ![IF Switching THEN hand.day ELSE day] =
                     Append(@, hand)]
    /\ UNCHANGED <<dropped, faults>>

Fault == faults < FaultBudget /\ faults' = faults + 1

\* A new day's file cannot be made.  The old one is closed and still held.
OpenFails ==
    /\ Switching /\ Fault
    /\ files' = Flushed /\ buffer' = <<>>
    /\ handle' = IF handle = "none" THEN "none" ELSE "closed"
    /\ dropped' = dropped + 1
    /\ UNCHANGED day

\* The old file cannot take what its buffer held, and is closed without it.
CloseFails ==
    /\ Switching /\ handle = "open" /\ buffer # <<>> /\ Fault
    /\ handle' = "closed" /\ buffer' = <<>>
    /\ dropped' = dropped + 1
    /\ UNCHANGED <<files, day>>

\* The row stays in the handle's buffer, and goes with the next one.
FlushFails ==
    /\ Fault
    /\ IF Switching
       THEN files' = Flushed /\ buffer' = <<hand>> /\ day' = hand.day
       ELSE handle = "open" /\ buffer' = Append(buffer, hand) /\ UNCHANGED <<files, day>>
    /\ handle' = "open"
    /\ dropped' = dropped + 1

\* A row of the day whose file is closed already.
WriteRefused ==
    /\ ~Switching /\ handle = "closed"
    /\ dropped' = dropped + 1
    /\ UNCHANGED <<fileVars, faults>>

\* The first bad row ends the thread, with the row in hand never done.
EmitOrDie ==
    /\ hand # NoRow /\ faults = 0
    /\ \/ Emitted /\ hand' = NoRow
       \/ (OpenFails \/ CloseFails \/ FlushFails \/ WriteRefused) /\ UNCHANGED hand
    /\ UNCHANGED queue

Emit ==
    /\ hand # NoRow /\ hand' = NoRow
    /\ Emitted \/ OpenFails \/ CloseFails \/ FlushFails \/ WriteRefused
    /\ UNCHANGED queue

Writer ==
    /\ Get \/ Emit
    /\ UNCHANGED <<backendVars, watchVars, today, stamp, flusher, offered>>

Midnight ==
    /\ today < MaxDays /\ today' = today + 1
    /\ UNCHANGED <<backendVars, watchVars, stamp, queue, hand, fileVars, dropped,
                   flusher, offered, faults>>

-----------------------------------------------------------------------------
(* EventLog.flush: queue.join *)

UndoneQueued == queue # <<>>

Undone == queue # <<>> \/ hand # NoRow

FlushCall ==
    /\ flusher.pc = "out"
    /\ flusher' = [pc |-> "in", rows |-> Range(offered)]

FlushReturn ==
    /\ flusher.pc = "in" /\ ~Undone
    /\ flusher' = [flusher EXCEPT !.pc = "back"]

Flush ==
    /\ FlushCall \/ FlushReturn
    /\ UNCHANGED <<backendVars, watchVars, today, stamp, queue, hand, fileVars,
                   dropped, offered, faults>>

-----------------------------------------------------------------------------

Next ==
    \/ Backend
    \/ Midnight
    \/ \E r \in Requesters : Requester(r)
    \/ Watcher
    \/ Writer
    \/ Flush

Spec == Init /\ [][Next]_vars

\* Threads go on.  Nothing is assumed of the backend, of the script that
\* restarts it, or of the clock.
FairSpec ==
    /\ Spec
    /\ WF_vars(Watcher)
    /\ WF_vars(Writer)
    /\ WF_vars(FlushReturn /\ Flush)
    /\ \A r \in Requesters : WF_vars(Requester(r))

-----------------------------------------------------------------------------
(* Properties *)

Rows == {[by |-> r, n |-> <<>>, day |-> d] : r \in Requesters, d \in Days}
        \cup {[by |-> "watch", n |-> l, day |-> d] : l \in Lines, d \in Days}

\* Types: nothing is queued past maxsize, the watch's place is the end of a
\* line, and what a failed flush left belongs to a file that is open.
TypeOK ==
    /\ IsPrefix(log, Prints[ino]) /\ (~there => log = <<>>)
    /\ half \in BOOLEAN /\ there \in BOOLEAN
    /\ half => log # <<>>
    /\ ino \in DOMAIN Prints
    /\ watch.pc \in {"off", "idle", "asked", "open", "lines"}
    /\ watch.offset \in Nat /\ watch.offset % 2 = 0
    /\ watch.inode \in 0..Len(Prints) /\ watch.replay \in Nat
    /\ queue \in Seq(Rows) /\ Len(queue) <= MaxQueue
    /\ hand \in Rows \cup {NoRow}
    /\ files \in [Days -> Seq(Rows)] /\ buffer \in Seq(Rows)
    /\ handle \in {"none", "open", "closed"} /\ day \in Days \cup {NoDay}
    /\ (buffer # <<>> => handle = "open") /\ (handle = "open" => day # NoDay)
    /\ dropped \in Nat /\ today \in Days
    /\ flusher.pc \in {"out", "in", "back"} /\ offered \in Seq(Rows)

InFiles == UNION {Range(files[d]) : d \in Days}

\* What the totals should be after the first n lines of the log.
Totals(n) ==
    LET evicted == {i \in 1..n : log[i] = "evicted"}
        states  == {i \in 1..n : log[i] = "state"}
    IN  [evictions |-> Cardinality(evicted),
         prompts   |-> IF states = {} THEN 0
                       ELSE CHOOSE i \in states : \A j \in states : j <= i]

\* The poll is between two reads, and knows the log that is at the path.
Settled == watch.pc \in {"idle", "asked"} /\ there /\ watch.inode = ino

\* "The totals cover the life of that backend": the dashboard's figures are
\* those of the lines read so far of the log now at the path, and of no line
\* of the log before it, wherever in a poll the log was moved.
TotalsAreOfThisLog ==
    Settled => /\ watch.offset <= Size
               /\ shown = Totals(watch.offset \div 2)

Given == {i \in 1..Len(offered) : offered[i].by = "watch" /\ offered[i].n[1] = ino}

SunkBut(kept) ==
    {offered[i].n[2] : i \in Given} =
        {n \in 1..(watch.offset \div 2) : log[n] = "evicted" /\ n \notin kept}

\* Of the lines read so far of this log, the sink was given the per-request
\* ones, each once.  Kept from it are as many lines of the log the watch found
\* first as there were when the router started: it sizes the log as it is made
\* and learns which one it is at its first poll, so a log that took its place
\* in between passes for it.  Nothing is kept of any later log.
SinkIsTold ==
    /\ \A i, j \in Given : offered[i].n = offered[j].n => i = j
    /\ Settled => SunkBut(IF ino = before.found THEN 1..before.lines ELSE {})

\* "None of it predates this run": nothing is kept of a log that was not there
\* when the router started.  A log moved before the first poll refutes it.
NewLogIsTold ==
    Settled /\ ino # before.ino => SunkBut({})

\* The files hold rows in the order they were written, each once and under
\* its own day, though stamps and writes interleave around midnight and a
\* failed flush leaves rows behind for a later one.
RowsInOrder ==
    \A d \in Days :
        LET at == [i \in 1..Len(files[d]) |->
                      CHOOSE j \in 1..Len(offered) : offered[j] = files[d][i]]
        IN  /\ \A i \in 1..Len(files[d]) : files[d][i].day = d
            /\ \A i, j \in 1..Len(files[d]) : i < j => at[i] < at[j]

\* "Wait until everything written so far has reached the file": when flush
\* returns, each row written before the call is in a file or was counted.
FlushCovers ==
    flusher.pc = "back" => Cardinality(flusher.rows \ InFiles) <= dropped

\* A flush returns, though the disk refuses rows and others go on writing.
FlushEnds == flusher.pc = "in" ~> flusher.pc = "back"

\* A log that stays in its place is read to its end, whatever the polls before
\* were cut by.
LogIsReadUp == <>[]there => <>[](watch.inode = ino /\ watch.offset = 2 * Complete)

=============================================================================
