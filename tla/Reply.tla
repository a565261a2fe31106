--------------------------------- MODULE Reply ---------------------------------
(***************************************************************************)
(* One streamed reply on its way to a client (src/bin/router/web/          *)
(* handler.py): the handler's thread, which relays what a backend sends    *)
(* through a splice (protocol/splice.py), the keep-alive that fills the    *)
(* silence before the reply, and the one that fills the silences in it.    *)
(*                                                                         *)
(* The three write the frames of one chunked stream.  A lock, `sending`,   *)
(* is meant to keep the frames whole, and the flags that stop the          *)
(* keep-alives are meant to keep them before its end.  A write is an       *)
(* action of its own, because a client that stops reading can hold one for *)
(* a minute, which is longer than anybody waits for a keep-alive to stop.  *)
(*                                                                         *)
(* An event is two halves here, so that the backend's pieces may end       *)
(* inside one; what else an event says is left out.                        *)
(***************************************************************************)
EXTENDS Integers, FiniteSets, Sequences, SequencesExt

CONSTANTS
    Asks,       \* what clients ask: [api, opened, asked]
    Faults,     \* SUBSET {"leave", "stall", "reset", "refuse"}
    MaxPings    \* bound: keep-alives on one stream

ASSUME Parameters ==
    /\ Asks \subseteq [api : {"anthropic", "openai"}, opened : BOOLEAN, asked : BOOLEAN]
    /\ MaxPings \in Nat

Pingers == {"before", "within"}   \* _ping_until's thread, and _forward's

VARIABLES
    ask,      \* this request: its api, whether open() began the stream, and
              \* whether the client asked for the usage chunk
    main,     \* the handler's thread: where it is, where it goes next, and
              \* what it is about to put
    up,       \* external: what the backend has sent, in halves of events
    rest,     \* Splice.rest: halves of an event that is not whole yet
    usage,    \* AnthropicSplice.usage: "none", "held" or "moved"
    ping,     \* where each keep-alive thread is
    halt,     \* `stop` of the first keep-alive, and `done` of the second
    lock,     \* who holds `sending`
    client,   \* external: "there", "stalled" or "gone"
    wire      \* what went out

vars == <<ask, main, up, rest, usage, ping, halt, lock, client, wire>>

-------------------------------------------------------------------------------
\* What a backend sends, and what the splices make of it.

\* A message_start carries the prompt's figures.  An openai reply carries a
\* usage chunk when the client or, for a stream it opened, the router asked.
Sends ==
    CASE ask.api = "anthropic"                           -> <<"start", "text", "delta", "stop">>
      [] ask.api = "openai" /\ (ask.opened \/ ask.asked) -> <<"text", "usage", "done">>
      [] OTHER                                           -> <<"text", "done">>

Halves == [i \in 1..(2 * Len(Sends)) |->
              [ev |-> Sends[(i + 1) \div 2], part |-> IF i % 2 = 1 THEN "first" ELSE "second"]]

Item(ev) == [ev |-> ev, part |-> "whole"]

\* Mutant of Spliced: an openai stream is passed on as it comes.
SplicedAnthropic == ask.opened /\ ask.api = "anthropic"

\* AnthropicSplice or OaiUsageSplice: only a stream the router opened has one.
Spliced == ask.opened

\* Mutant of Passed: the backend's message_start goes out after the router's.
PassedBoth(ev, u) ==
    CASE ev = "delta" /\ u = "held" -> <<Item("delta and usage")>>
      [] OTHER -> <<Item(ev)>>

\* AnthropicSplice._one and OaiUsageSplice._one: what one event becomes, when
\* the splice's usage is u.
Passed(ev, u) ==
    CASE ask.api = "anthropic" /\ ev = "start"                -> <<>>
      [] ask.api = "anthropic" /\ ev = "delta" /\ u = "held"  -> <<Item("delta and usage")>>
      [] ask.api = "openai" /\ ev = "usage" /\ ~ask.asked     -> <<>>
      [] OTHER                                                -> <<Item(ev)>>

\* The usage a splice holds after the event.
Noted(ev, u) ==
    CASE ask.api = "anthropic" /\ ev = "start" /\ u = "none" -> "held"
      [] ask.api = "anthropic" /\ ev = "delta" /\ u = "held" -> "moved"
      [] OTHER -> u

\* Mutant of Fed: one event of each piece.
FedOnce(piece) ==
    LET all == rest \o piece
    IN  IF Len(all) < 2 THEN [out |-> <<>>, usage |-> usage, rest |-> all]
        ELSE [out |-> Passed(all[1].ev, usage), usage |-> Noted(all[1].ev, usage),
              rest |-> SubSeq(all, 3, Len(all))]

\* Splice.feed: every event the piece completes.
Fed(piece) ==
    LET all == rest \o piece
        events == [i \in 1..(Len(all) \div 2) |-> all[2 * i - 1].ev]
        held[i \in 0..Len(events)] ==
            IF i = 0 THEN usage ELSE Noted(events[i], held[i - 1])
    IN  [out |-> FlattenSeq([i \in 1..Len(events) |-> Passed(events[i], held[i - 1])]),
         usage |-> held[Len(events)],
         rest |-> SubSeq(all, 2 * Len(events) + 1, Len(all))]

-------------------------------------------------------------------------------
\* A write, by whoever holds the lock.  A client that is gone breaks the pipe,
\* and one that reads no more holds the write until the socket's timeout, with
\* part of the frame sent.

Written(items) ==
    CASE client = "there"   -> wire \o items
      [] client = "stalled" -> Append(wire, Item("half a frame"))
      [] client = "gone"    -> wire

Goto(pc) == main' = [main EXCEPT !.pc = pc]

\* The handler ends by waiting for a keep-alive, and then goes to `next`.
Await(p, next) == main' = [pc |-> "join", next |-> next, out |-> <<>>, waits |-> p]

Ended == main.pc \in {"closed", "left"}

\* The request, and the stream's opening event, before any keep-alive.
Open ==
    /\ main.pc = "begin" /\ ask.opened
    /\ wire' = Written(IF ask.api = "anthropic" THEN <<Item("open")>> ELSE <<>>)
    /\ IF client = "there"
       THEN Goto("working") /\ ping' = [ping EXCEPT !["before"] = "waiting"]
       ELSE Goto("left") /\ UNCHANGED ping
    /\ UNCHANGED <<ask, up, rest, usage, halt, lock, client>>

\* A reply that is not opened first goes out when the backend answers.
NotOpened ==
    /\ main.pc = "begin" /\ ~ask.opened
    /\ Goto("connect")
    /\ UNCHANGED <<ask, up, rest, usage, ping, halt, lock, client, wire>>

\* The turn: it reads, and then relays; it fails; or the client left it
\* (turn.py).  Each way out settles the keep-alive first.
Work ==
    /\ main.pc = "working"
    /\ halt' = [halt EXCEPT !["before"] = TRUE]
    /\ \E next \in {"connect", "say"} \cup (IF client = "gone" THEN {"left"} ELSE {}) :
         Await("before", next)
    /\ UNCHANGED <<ask, up, rest, usage, ping, lock, client, wire>>

\* thread.join(5) and pinger.join(2): a keep-alive that a write holds up, its
\* own or another thread's, is not waited for.
Joined ==
    /\ main.pc = "join"
    /\ ping[main.waits] \in {"off", "dead"} \/ lock # "free"
    /\ Goto(main.next)
    /\ UNCHANGED <<ask, up, rest, usage, ping, halt, lock, client, wire>>

\* _forward opens the backend.  A refusal has no status line left to go in.
Connect ==
    /\ main.pc = "connect"
    /\ \/ /\ Goto("reading")
          /\ ping' = [ping EXCEPT !["within"] = "waiting"]
          /\ UNCHANGED wire
       \/ /\ "refuse" \in Faults
          /\ IF ask.opened THEN Goto("say") /\ UNCHANGED wire
             ELSE Goto("closed") /\ wire' = Written(<<Item("error"), Item("end")>>)
          /\ UNCHANGED ping
    /\ UNCHANGED <<ask, up, rest, usage, halt, lock, client>>

\* A piece from the backend, cut anywhere.
Read ==
    /\ main.pc = "reading"
    /\ \E n \in (up + 1)..Len(Halves) :
         LET piece == SubSeq(Halves, up + 1, n)
             fed == Fed(piece)
             out == IF Spliced THEN fed.out ELSE piece
         IN  /\ up' = n
             /\ IF Spliced THEN rest' = fed.rest /\ usage' = fed.usage
                ELSE UNCHANGED <<rest, usage>>
             /\ main' = [main EXCEPT !.out = out, !.next = "reading",
                                     !.pc = IF out = <<>> THEN "reading" ELSE "put"]
    /\ UNCHANGED <<ask, ping, halt, lock, client, wire>>

\* The backend's stream ends, with its last blank line or without it, and what
\* is left of it goes out.
ReadEnd ==
    /\ main.pc = "reading" /\ up >= Len(Halves) - 1
    /\ rest' = <<>>
    /\ IF rest # <<>>
       THEN main' = [main EXCEPT !.pc = "put", !.next = "done",
                                 !.out = [i \in 1..Len(rest) |-> rest[i]]]
       ELSE Goto("done")
    /\ UNCHANGED <<ask, up, usage, ping, halt, lock, client, wire>>

\* The backend goes away in the middle of its reply.
Reset ==
    /\ main.pc = "reading" /\ "reset" \in Faults
    /\ halt' = [halt EXCEPT !["within"] = TRUE]
    /\ Await("within", "say")
    /\ UNCHANGED <<ask, up, rest, usage, ping, lock, client, wire>>

\* The lock, for what the handler is about to write.
Lock ==
    /\ main.pc \in {"put", "end", "say"} /\ lock = "free"
    /\ lock' = "main"
    /\ main' = [main EXCEPT !.pc = CASE main.pc = "put" -> "putting"
                                     [] main.pc = "end" -> "ending"
                                     [] main.pc = "say" -> "saying"]
    /\ UNCHANGED <<ask, up, rest, usage, ping, halt, client, wire>>

\* After a write of the relay: on, or out when the client left.  A write that
\* timed out is taken for a backend that stopped.
Put(items, next) ==
    /\ wire' = Written(items)
    /\ lock' = "free"
    /\ CASE client = "there"   -> Goto(next) /\ UNCHANGED halt
         [] client = "gone"    -> Goto("left") /\ halt' = [halt EXCEPT !["within"] = TRUE]
         [] client = "stalled" -> /\ Await("within", "say")
                                  /\ halt' = [halt EXCEPT !["within"] = TRUE]
    /\ UNCHANGED <<ask, up, rest, usage, ping, client>>

PutPiece == main.pc = "putting" /\ Put(main.out, main.next)

\* The keep-alive is stopped before the terminator goes out.
Done ==
    /\ main.pc = "done"
    /\ halt' = [halt EXCEPT !["within"] = TRUE]
    /\ Await("within", "end")
    /\ UNCHANGED <<ask, up, rest, usage, ping, lock, client, wire>>

PutEnd == main.pc = "ending" /\ Put(<<Item("end")>>, "closed")

\* _say_and_end: an error event and the terminator, and no error of theirs
\* matters.  Every way here has settled the first keep-alive.
SayAndEnd ==
    /\ main.pc = "saying"
    /\ wire' = Written(<<Item("error"), Item("end")>>)
    /\ lock' = "free"
    /\ Goto("closed")
    /\ UNCHANGED <<ask, up, rest, usage, ping, halt, client>>

MainStep == \/ Open \/ NotOpened \/ Work \/ Joined \/ Connect \/ Read \/ ReadEnd
            \/ Reset \/ Lock \/ PutPiece \/ Done \/ PutEnd \/ SayAndEnd

-------------------------------------------------------------------------------
\* The keep-alives.

\* The wait is over, and the flag was not set while it lasted.
Wake(p) ==
    /\ ping[p] = "waiting" /\ ~halt[p]
    /\ Cardinality({i \in 1..Len(wire) : wire[i].ev = "ping"}) < MaxPings
    /\ ping' = [ping EXCEPT ![p] = "awake"]
    /\ UNCHANGED <<ask, main, up, rest, usage, halt, lock, client, wire>>

Stop(p) ==
    /\ ping[p] = "waiting" /\ halt[p]
    /\ ping' = [ping EXCEPT ![p] = "dead"]
    /\ UNCHANGED <<ask, main, up, rest, usage, halt, lock, client, wire>>

\* Mutant of Claim: the flag is not asked again under the lock.
ClaimUnasked(p) ==
    /\ ping[p] = "awake" /\ lock = "free"
    /\ ping' = [ping EXCEPT ![p] = "writing"]
    /\ lock' = p
    /\ UNCHANGED <<ask, main, up, rest, usage, halt, client, wire>>

\* The lock, and the flag asked again under it.
Claim(p) ==
    /\ ping[p] = "awake" /\ lock = "free"
    /\ IF halt[p] THEN ping' = [ping EXCEPT ![p] = "dead"] /\ UNCHANGED lock
       ELSE ping' = [ping EXCEPT ![p] = "writing"] /\ lock' = p
    /\ UNCHANGED <<ask, main, up, rest, usage, halt, client, wire>>

\* Mutant of Beat: a thread that ends so keeps the lock.
BeatHolding(p) ==
    /\ ping[p] = "writing"
    /\ wire' = Written(<<Item("ping")>>)
    /\ lock' = IF client = "there" THEN "free" ELSE p
    /\ ping' = [ping EXCEPT ![p] = IF client = "there" THEN "waiting" ELSE "dead"]
    /\ UNCHANGED <<ask, main, up, rest, usage, halt, client>>

\* A keep-alive that cannot be written ends its thread, and says nothing.
Beat(p) ==
    /\ ping[p] = "writing"
    /\ wire' = Written(<<Item("ping")>>)
    /\ lock' = "free"
    /\ ping' = [ping EXCEPT ![p] = IF client = "there" THEN "waiting" ELSE "dead"]
    /\ UNCHANGED <<ask, main, up, rest, usage, halt, client>>

PingStep(p) == Wake(p) \/ Stop(p) \/ Claim(p) \/ Beat(p)

-------------------------------------------------------------------------------
\* The client, which may leave, or stop reading and go on later.
Leave ==
    /\ "leave" \in Faults /\ ~Ended /\ client # "gone"
    /\ client' = "gone"
    /\ UNCHANGED <<ask, main, up, rest, usage, ping, halt, lock, wire>>

Stall ==
    /\ "stall" \in Faults /\ ~Ended /\ client = "there"
    /\ client' = "stalled"
    /\ UNCHANGED <<ask, main, up, rest, usage, ping, halt, lock, wire>>

Resume ==
    /\ client = "stalled"
    /\ client' = "there"
    /\ UNCHANGED <<ask, main, up, rest, usage, ping, halt, lock, wire>>

Init ==
    /\ ask \in Asks
    /\ main = [pc |-> "begin", next |-> "", out |-> <<>>, waits |-> "before"]
    /\ up = 0 /\ rest = <<>> /\ usage = "none"
    /\ ping = [p \in Pingers |-> "off"] /\ halt = [p \in Pingers |-> FALSE]
    /\ lock = "free" /\ client = "there" /\ wire = <<>>

Next == \/ MainStep
        \/ \E p \in Pingers : PingStep(p)
        \/ Leave \/ Stall \/ Resume

Spec == Init /\ [][Next]_vars

\* The threads go on: a write ends or times out, a backend answers, ends or is
\* given up on (forward_timeout), and a lock that is free again and again is
\* taken in the end.  The client owes nothing.
FairSpec == /\ Spec
            /\ SF_vars(MainStep)
            /\ \A p \in Pingers : WF_vars(PingStep(p))

-------------------------------------------------------------------------------
\* The type invariant.
Names == {"open", "start", "text", "delta", "delta and usage", "stop", "usage", "done",
          "error", "end", "ping", "half a frame"}
Items == [ev : Names, part : {"whole", "first", "second"}]

\* Every variable has its type, and no event stays in the splice once it is
\* whole. (splice.py Splice.feed)
TypeOK ==
    /\ ask \in Asks
    /\ main \in [pc : {"begin", "working", "join", "connect", "reading", "put", "putting",
                       "done", "end", "ending", "say", "saying", "closed", "left"},
                 next : {"", "connect", "say", "left", "reading", "done", "end"},
                 out : Seq(Items), waits : Pingers]
    /\ up \in 0..Len(Halves)
    /\ rest \in Seq(Items) /\ Len(rest) <= 1
    /\ usage \in {"none", "held", "moved"}
    /\ ping \in [Pingers -> {"off", "waiting", "awake", "writing", "dead"}]
    /\ halt \in [Pingers -> BOOLEAN]
    /\ lock \in Pingers \cup {"free", "main"}
    /\ client \in {"there", "stalled", "gone"}
    /\ wire \in Seq(Items)

\* What a client can read of the wire: up to the first frame cut short.
Readable == IF \E i \in 1..Len(wire) : wire[i].ev = "half a frame"
            THEN SubSeq(wire, 1, SelectInSeq(wire, LAMBDA w : w.ev = "half a frame") - 1)
            ELSE wire

\* On a stream the router opened, every event goes out whole, so no keep-alive
\* and no error comes inside one, however the backend's pieces cut it.  The one
\* exception is an event the backend never ended, and it is the reply's last.
\* (handler.py _forward, splice.py Splice.feed)
EventsStayWhole ==
    ask.opened => \A i \in 1..Len(Readable) :
                     Readable[i].part # "whole" =>
                         \A j \in (i + 1)..Len(Readable) : Readable[j].ev \in {"ping", "end"}

\* After the stream's end nothing more is written: what came would be read as
\* part of the connection's next reply, or as no frame at all.
\* (handler.py _ping_until, _forward and _say_and_end)
NothingAfterEnd ==
    \A i \in 1..Len(Readable) : Readable[i].ev = "end" => i = Len(wire)

\* "a chunk frame carries its own length, so half a frame makes the rest of the
\* stream unreadable": so none is written after half of one.
\* (handler.py:472, _ping_until)
NothingAfterHalf ==
    \A i \in 1..Len(wire) : wire[i].ev = "half a frame" => i = Len(wire)

\* The whole reply this request should get.
Reply ==
    CASE ask.api = "anthropic" /\ ask.opened -> <<"open", "text", "delta and usage", "stop">>
      [] ask.api = "openai" /\ ask.opened /\ ~ask.asked -> <<"text", "done">>
      [] OTHER -> Sends

\* An event counts from its first half on; keep-alives and the end are none.
EventOf(w) == IF w.part # "second" /\ w.ev \notin {"ping", "error", "end"} THEN <<w.ev>> ELSE <<>>

EventsOf(items) ==
    LET events[n \in 0..Len(items)] ==
            IF n = 0 THEN <<>> ELSE events[n - 1] \o EventOf(items[n])
    IN  events[Len(items)]

Shows(ev) == \E i \in 1..Len(Readable) : Readable[i].ev = ev

\* The connection is lost once what the client can read ends early.
Over == CASE Shows("error") -> "failed"
          [] Shows("end") /\ ~Shows("error") -> "ended"
          [] ~Shows("end") /\ ~Shows("error") ->
                 IF Readable # wire \/ main.pc = "left" THEN "cut" ELSE "no"

\* The stream is what Stream promises.  What counts is what the client can read.
Promise ==
    INSTANCE Stream WITH
        Whole <- {<<"open", "text", "delta and usage", "stop">>, <<"text", "done">>,
                  <<"text", "usage", "done">>, <<"start", "text", "delta", "stop">>},
        reply <- Reply,
        said <- EventsOf(Readable),
        over <- Over

\* Each event of the reply reaches the client once, in order, with one opening
\* and the usage where it belongs, before one end. (handler.py, splice.py)
KeepsPromise == Promise!Spec

\* A stream ends, whatever the client and the backend do.  (handler.py _forward
\* and _say_and_end, turn.py)
StreamEnds == <>Ended
===============================================================================
