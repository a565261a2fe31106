------------------------------ MODULE Prompts ------------------------------
(***************************************************************************)
(* How the router reads a request body (protocol/body.py, identity.py):    *)
(* what names its conversation, where a late system message goes, and at   *)
(* which cuts another request could share its prompt.                      *)
(*                                                                         *)
(* A message is a record: its role, its words, whether it leaves a tool    *)
(* call open, and the form it is written in.  Its content is a string, or  *)
(* a list of blocks, or a list with a cache_control mark, which only a     *)
(* block can carry.  All three render as one prompt, but they are measured *)
(* as they are written, and a string is not hashed as a list is.  The      *)
(* tools are hashed and measured as they are written, marks and all.  The  *)
(* hash of a cut is modelled as what was hashed; a role "none" stands for  *)
(* a message that is no object.                                            *)
(***************************************************************************)
EXTENDS Integers, FiniteSets, Sequences, SequencesExt

CONSTANTS
    Clients,        \* who sends requests
    Heads,          \* what comes before the messages: [template, system, tools]
    Firsts, Mores,  \* the messages of a first turn, and those a later one adds
    MaxTurns,       \* turns of one client
    Chars,          \* how long content_size finds each of the words
    FormChars,      \* what it adds for the form: a block's type, a mark's strings
    Rendered,       \* what a template makes of tools that are written so
    Said,           \* the text text_of finds in them
    SystemMin,      \* Tuning.system_min_chars
    PrefixMin       \* Tuning.prefix_min_chars

ASSUME PromptsAssumption ==
    /\ MaxTurns \in Nat /\ {SystemMin, PrefixMin} \subseteq Nat
    /\ \A w \in DOMAIN Chars : Chars[w] \in Nat
    /\ DOMAIN Said = DOMAIN Chars
    /\ Rendered \in [DOMAIN Chars -> DOMAIN Chars]

Empty   == ""
Roles   == {"system", "developer", "user", "assistant", "tool", "none"}
Forms   == {"text", "blocks", "marked"}
Message == [role : Roles, words : DOMAIN Chars, call : BOOLEAN, form : Forms]
HeadFields == [template : Nat, system : DOMAIN Chars, tools : DOMAIN Chars]

ASSUME MessagesAssumption ==
    /\ Firsts \cup Mores \subseteq Seq(Message) /\ <<>> \notin Firsts \cup Mores
    /\ Heads \subseteq HeadFields /\ FormChars \in [Forms -> Nat]
    /\ Empty \in DOMAIN Chars /\ Chars[Empty] = 0

VARIABLES
    body,       \* the last request of each client
    turns,      \* how many it has sent
    name,       \* what the router called its conversation, turn by turn
    known,      \* the cuts of every request so far: CutsOf
    found       \* the deepest cut of the last request that was known already

vars == <<body, turns, name, known, found>>

NoBody == [head |-> [template |-> 0, system |-> Empty, tools |-> Empty],
           messages |-> <<>>]

-----------------------------------------------------------------------------
(* identity.conversation_id *)

Object(m) == m.role # "none"

OpeningUpToReply(ms) ==
    LET ends == {i \in 1..Len(ms) : ms[i].role \in {"assistant", "none"}}
    IN  IF ends = {} THEN ms
        ELSE SubSeq(ms, 1, (CHOOSE i \in ends : \A j \in ends : i <= j) - 1)

\* The messages up to the first user message, the reply or what is no object.
Opening(ms) ==
    LET ends == {i \in 1..Len(ms) : ms[i].role \in {"user", "assistant", "none"}}
        last == IF ends = {} THEN Len(ms) ELSE CHOOSE i \in ends : \A j \in ends : i <= j
    IN  IF last > 0 /\ ms[last].role \in {"assistant", "none"}
        THEN SubSeq(ms, 1, last - 1)
        ELSE SubSeq(ms, 1, last)

\* <<>> is a request that names no conversation.
ConversationId(ms) ==
    [i \in 1..Len(Opening(ms)) |-> <<ms[i].role, Said[ms[i].words]>>]

-----------------------------------------------------------------------------
(* hoist_system *)

SystemRoles == {"system", "developer"}
IsSystem(m) == m.role \in SystemRoles

LeadingSystem(ms) ==
    CHOOSE n \in 0..Len(ms) :
        /\ \A i \in 1..n : IsSystem(ms[i])
        /\ n < Len(ms) => ~IsSystem(ms[n + 1])

HoistToFront(ms) == SelectSeq(ms, IsSystem) \o SelectSeq(ms, LAMBDA m : ~IsSystem(m))

HoistSystem(ms) ==
    [i \in 1..Len(ms) |->
        IF i > LeadingSystem(ms) /\ IsSystem(ms[i])
        THEN [ms[i] EXCEPT !.role = "user"]
        ELSE ms[i]]

-----------------------------------------------------------------------------
(* prompt_cuts *)

ShapeWithMarks(m) == <<m.role, m.words, m.call, m.form>>

\* What a later request must match of a message: cache_control is ignored, but
\* a string and a list with the same words differ.
Shape(m) == <<m.role, m.words, m.call, m.form = "text">>

\* False after a tool call that nothing has answered yet.
Closes(m) == m.role # "assistant" \/ ~m.call

HashedWithoutTools(h) ==
    (IF h.template # 0 THEN << <<"template", h.template>> >> ELSE <<>>)
    \o (IF h.system # Empty \/ h.tools # Empty
        THEN << <<"system", h.system>> >>
        ELSE <<>>)

Hashed(h) ==
    (IF h.template # 0 THEN << <<"template", h.template>> >> ELSE <<>>)
    \o (IF h.system # Empty \/ h.tools # Empty
        THEN << <<"system", h.system>>, <<"tools", h.tools>> >>
        ELSE <<>>)

\* The name of the cut after the first n messages.
CutName(b, n) == Hashed(b.head) \o [i \in 1..n |-> Shape(b.messages[i])]

Total(sizes) == FoldLeft(+, 0, sizes)

\* Every string of a message's content, at any depth: a mark's are among them.
ContentSize(m) == Chars[m.words] + FormChars[m.form]

SizeBefore(b, n) ==
    Chars[b.head.system] + Chars[b.head.tools]
    + Total([i \in 1..n |-> ContentSize(b.messages[i])])

\* The messages before the first that is no object.
Readable(ms) ==
    {n \in 1..Len(ms) : \A i \in 1..n : Object(ms[i])}

Bar(b, n) == IF n <= LeadingSystem(b.messages) THEN SystemMin ELSE PrefixMin

PromptCutsAndTheEnd(b) ==
    {n \in {0} : b.head.system # Empty /\ SizeBefore(b, 0) >= SystemMin}
    \cup {n \in Readable(b.messages) :
             SizeBefore(b, n) >= Bar(b, n)
             /\ (Closes(b.messages[n]) \/ n = Len(b.messages))}

\* Tools alone are not a prompt.
PromptCuts(b) ==
    {n \in {0} : b.head.system # Empty /\ SizeBefore(b, 0) >= SystemMin}
    \cup {n \in Readable(b.messages) :
             SizeBefore(b, n) >= Bar(b, n) /\ Closes(b.messages[n])}

DeepestSharedIndex(b, names) ==
    LET shared == {n \in PromptCuts(b) : CutName(b, n) \in names}
    IN  IF shared = {} THEN -1 ELSE (CHOOSE n \in shared : \A m \in shared : m <= n) - 1

\* deepest_shared: the furthest cut whose name is among these, or -1.
DeepestShared(b, names) ==
    LET shared == {n \in PromptCuts(b) : CutName(b, n) \in names}
    IN  IF shared = {} THEN -1 ELSE CHOOSE n \in shared : \A m \in shared : m <= n

-----------------------------------------------------------------------------
(* A request comes in: Turn.run up to its cuts *)

\* What the template renders before the cut, however the request is written.
Prompt(b, n) ==
    [template |-> b.head.template, system |-> b.head.system,
     tools    |-> Rendered[b.head.tools],
     messages |-> [i \in 1..n |->
                     <<b.messages[i].role, b.messages[i].words, b.messages[i].call>>]]

\* How it is written: the tools, and which messages are strings.
Spelling(b, n) ==
    [tools |-> b.head.tools, text |-> [i \in 1..n |-> b.messages[i].form = "text"]]

Hoisted(b) == [b EXCEPT !.messages = HoistSystem(@)]

Cut(b, n) == [name |-> CutName(b, n), prompt |-> Prompt(b, n),
              spelling |-> Spelling(b, n), bar |-> Bar(b, n)]

CutsOf(b) == {Cut(b, n) : n \in PromptCuts(b)}

Names(cuts) == {c.name : c \in cuts}

Send(c, b) ==
    /\ turns[c] < MaxTurns
    /\ turns' = [turns EXCEPT ![c] = @ + 1]
    /\ body' = [body EXCEPT ![c] = b]
    /\ name' = [name EXCEPT ![c] = Append(@, ConversationId(b.messages))]
    /\ found' = [found EXCEPT ![c] = DeepestShared(Hoisted(b), Names(known))]
    /\ known' = known \cup CutsOf(Hoisted(b))

First(c) ==
    /\ turns[c] = 0
    /\ \E h \in Heads, ms \in Firsts : Send(c, [head |-> h, messages |-> ms])

\* A client that moves its marks on writes the messages it marked as plain
\* blocks, or as strings again, or leaves the marks it has.
Unmarked(ms, form) ==
    [i \in 1..Len(ms) |-> IF ms[i].form = "marked" THEN [ms[i] EXCEPT !.form = form]
                                                   ELSE ms[i]]

Grown(b, tools, form, ms) ==
    [head     |-> [b.head EXCEPT !.tools = tools],
     messages |-> Unmarked(b.messages, form) \o ms]

\* The next turn adds messages.  The same tools may be written another way, with
\* a mark or without it.
Later(c) ==
    /\ turns[c] > 0
    /\ \E ms \in Mores, form \in Forms, tools \in DOMAIN Rendered :
           /\ Rendered[tools] = Rendered[body[c].head.tools]
           /\ Send(c, Grown(body[c], tools, form, ms))

Init ==
    /\ body = [c \in Clients |-> NoBody] /\ turns = [c \in Clients |-> 0]
    /\ name = [c \in Clients |-> <<>>]
    /\ known = {} /\ found = [c \in Clients |-> -1]

Next == \E c \in Clients : First(c) \/ Later(c)

Spec == Init /\ [][Next]_vars

-----------------------------------------------------------------------------
(* Properties *)

\* Types: a cut that was found is one of the request's cuts, and its name is
\* of as many messages as it says.
TypeOK ==
    \A c \in Clients :
        /\ turns[c] \in 0..MaxTurns /\ Len(name[c]) = turns[c]
        /\ body[c].messages \in Seq(Message)
        /\ found[c] \in {-1} \cup PromptCuts(Hoisted(body[c]))

\* A name that two prompts shared would restore one as the other, and one
\* prompt with two names is read twice.  Two cuts have one name exactly when
\* the template renders one prompt before them, the tools are written alike and
\* the same messages are strings; the marks in the messages make no difference.
NamesArePrompts ==
    \A p, q \in known :
        (p.name = q.name) <=> (p.prompt = q.prompt /\ p.spelling = q.spelling)

\* A prompt that is a cut of one request is one of every request that begins
\* with it and measures up to the bar the first was held to, wherever its own
\* leading system messages end and however it is written.
SharedPromptIsACut ==
    \A c \in Clients :
        LET b == Hoisted(body[c])
        IN  \A k \in known : \A n \in {0} \cup Readable(b.messages) :
                Prompt(b, n) = k.prompt /\ SizeBefore(b, n) >= k.bar
                    => n \in PromptCuts(b)

\* A later turn finds all its client could reuse of the turn before, but for
\* two losses the code accepts.  A cut of the last request is found again, or a
\* deeper one is, whatever marks moved, unless what stands before it was a
\* string and is a list now, or the reverse, or its tools are written another
\* way; or unless it measures less than its bar without the marks it had.
NextTurnFindsTheLast ==
    [][\A c \in Clients : Later(c) =>
          LET old == Hoisted(body[c])
              new == Hoisted(body'[c])
          IN  \A n \in PromptCuts(old) :
                  Spelling(new, n) = Spelling(old, n) /\ SizeBefore(new, n) >= Bar(old, n)
                      => found'[c] >= n]_vars

\* What the code would do if marks were not measured: a cut of the last request
\* is found again whatever marks moved.  A mark taken off a message near the
\* bar refutes it.
MarksAreFree ==
    [][\A c \in Clients : Later(c) =>
          LET old == Hoisted(body[c])
              new == Hoisted(body'[c])
          IN  \A n \in PromptCuts(old) :
                  Spelling(new, n) = Spelling(old, n) => found'[c] >= n]_vars

\* A conversation keeps the name of its first turn, once that turn had a user
\* message or a reply: its pin, its ticket and its copy on disk are under it.
NameIsKept ==
    \A c \in Clients :
        LET ms == body[c].messages
        IN  \A i \in 1..turns[c] :
                name[c][i] # ConversationId(ms) =>
                    \A m \in Range(SubSeq(ms, 1, Len(name[c][i]))) : IsSystem(m)

\* The template accepts what is sent on: no system message stands behind
\* another, every message keeps its place, its words and its form, and doing
\* it again changes nothing.
HoistKeepsThePrompt ==
    \A c \in Clients :
        LET ms  == body[c].messages
            out == HoistSystem(ms)
        IN  /\ Len(out) = Len(ms)
            /\ \A i \in 1..Len(ms) : [out[i] EXCEPT !.role = ms[i].role] = ms[i]
            /\ \A i, j \in 1..Len(ms) : i < j /\ IsSystem(out[j]) => IsSystem(out[i])
            /\ HoistSystem(out) = out

=============================================================================
