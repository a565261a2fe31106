--------------------------- MODULE Prompts_proofs ---------------------------
(***************************************************************************)
(* What hoist_system does to every list of messages, however long; which   *)
(* cuts a later request shares; and what the names of cuts and of          *)
(* conversations stand for.                                                *)
(***************************************************************************)
EXTENDS Prompts, Queues_proofs

\* The leading system messages of a list end somewhere: what LeadingSystem
\* chooses is there to be chosen.
LEMMA LeadingEnds ==
  ASSUME NEW ms \in Seq(Message)
  PROVE  /\ LeadingSystem(ms) \in 0..Len(ms)
         /\ \A i \in 1..LeadingSystem(ms) : IsSystem(ms[i])
         /\ LeadingSystem(ms) < Len(ms) => ~IsSystem(ms[LeadingSystem(ms) + 1])
<1> DEFINE Ends(n) == /\ \A i \in 1..n : IsSystem(ms[i])
                      /\ n < Len(ms) => ~IsSystem(ms[n + 1])
           Others  == {i \in 1..Len(ms) : ~IsSystem(ms[i])}
<1>1. \E n \in 0..Len(ms) : Ends(n)
  <2>1. CASE Others = {}
    <3>1. Len(ms) \in 0..Len(ms) /\ Ends(Len(ms))
      BY <2>1
    <3> QED
      BY <3>1
  <2>2. CASE Others # {}
    <3>1. Others \in SUBSET Nat
      OBVIOUS
    <3>2. PICK n \in Others : \A m \in Others : n <= m
      <4> HIDE DEF Others
      <4> QED
        BY <2>2, <3>1, LeastOf
    <3>3. n - 1 \in 0..Len(ms) /\ Ends(n - 1)
      BY <3>2
    <3> QED
      BY <3>3
  <2> QED
    BY <2>1, <2>2
<1> HIDE DEF Ends
<1>2. LeadingSystem(ms) = CHOOSE n \in 0..Len(ms) : Ends(n)
  BY DEF LeadingSystem, Ends
<1>3. LeadingSystem(ms) \in 0..Len(ms) /\ Ends(LeadingSystem(ms))
  BY <1>1, <1>2
<1> QED
  BY <1>3 DEF Ends

\* The end of the leading system messages is one number.
LEMMA LeadingIs ==
  ASSUME NEW ms \in Seq(Message), NEW n \in 0..Len(ms),
         \A i \in 1..n : IsSystem(ms[i]),
         n < Len(ms) => ~IsSystem(ms[n + 1])
  PROVE  LeadingSystem(ms) = n
<1> DEFINE k == LeadingSystem(ms)
<1>1. /\ k \in 0..Len(ms)
      /\ \A i \in 1..k : IsSystem(ms[i])
      /\ k < Len(ms) => ~IsSystem(ms[k + 1])
  BY LeadingEnds
<1> HIDE DEF k
<1>2. ~(k < n)
  BY <1>1
<1>3. ~(n < k)
  BY <1>1
<1>4. k = n
  BY <1>1, <1>2, <1>3
<1> QED
  BY <1>4 DEF k

\* What hoist_system returns: messages, as many as it was given.
LEMMA HoistTyped ==
  ASSUME NEW ms \in Seq(Message)
  PROVE  /\ HoistSystem(ms) \in Seq(Message)
         /\ Len(HoistSystem(ms)) = Len(ms)
         /\ \A i \in 1..Len(ms) :
              HoistSystem(ms)[i] = IF i > LeadingSystem(ms) /\ IsSystem(ms[i])
                                   THEN [ms[i] EXCEPT !.role = "user"]
                                   ELSE ms[i]
<1> DEFINE Kept(i) == IF i > LeadingSystem(ms) /\ IsSystem(ms[i])
                      THEN [ms[i] EXCEPT !.role = "user"]
                      ELSE ms[i]
<1>1. ASSUME NEW i \in 1..Len(ms) PROVE Kept(i) \in Message
  <2>1. ms[i] \in Message
    OBVIOUS
  <2>2. [ms[i] EXCEPT !.role = "user"] \in Message
    BY <2>1 DEF Message, Roles
  <2> QED
    BY <2>1, <2>2
<1>2. HoistSystem(ms) = [i \in 1..Len(ms) |-> Kept(i)]
  BY DEF HoistSystem
<1> HIDE DEF Kept
<1>3. /\ HoistSystem(ms) \in Seq(Message)
      /\ Len(HoistSystem(ms)) = Len(ms)
      /\ \A i \in 1..Len(ms) : HoistSystem(ms)[i] = Kept(i)
  BY <1>1, <1>2
<1> QED
  BY <1>3 DEF Kept

\* After it, the system messages are the leading ones of what came in.
LEMMA HoistedSystem ==
  ASSUME NEW ms \in Seq(Message), NEW i \in 1..Len(ms)
  PROVE  IsSystem(HoistSystem(ms)[i]) <=> i <= LeadingSystem(ms)
<1>1. ms[i] \in Message /\ LeadingSystem(ms) \in 0..Len(ms)
  BY LeadingEnds
<1>2. CASE i <= LeadingSystem(ms)
  <2>1. ~(i > LeadingSystem(ms))
    BY <1>1, <1>2
  <2>2. HoistSystem(ms)[i] = ms[i]
    BY <2>1, HoistTyped, Zenon
  <2>3. i \in 1..LeadingSystem(ms)
    BY <1>1, <1>2
  <2>4. IsSystem(ms[i])
    BY <2>3, LeadingEnds, Zenon
  <2> QED
    BY <1>2, <2>2, <2>4, Zenon
<1>3. CASE i > LeadingSystem(ms) /\ IsSystem(ms[i])
  <2>1. HoistSystem(ms)[i] = [ms[i] EXCEPT !.role = "user"]
    BY <1>3, HoistTyped, Zenon
  <2>2. HoistSystem(ms)[i].role = "user"
    BY <1>1, <2>1 DEF Message
  <2>3. ~IsSystem(HoistSystem(ms)[i])
    BY <2>2 DEF IsSystem, SystemRoles
  <2> QED
    BY <1>1, <1>3, <2>3
<1>4. CASE i > LeadingSystem(ms) /\ ~IsSystem(ms[i])
  <2>1. HoistSystem(ms)[i] = ms[i]
    BY <1>4, HoistTyped, Zenon
  <2> QED
    BY <1>1, <1>4, <2>1
<1> QED
  BY <1>1, <1>2, <1>3, <1>4

\* Hoisting keeps the end of the leading system messages.
LEMMA HoistKeepsTheEnd ==
  ASSUME NEW ms \in Seq(Message)
  PROVE  LeadingSystem(HoistSystem(ms)) = LeadingSystem(ms)
<1> DEFINE out == HoistSystem(ms)
           k   == LeadingSystem(ms)
<1>1. out \in Seq(Message) /\ Len(out) = Len(ms) /\ k \in 0..Len(ms)
  BY HoistTyped, LeadingEnds
<1>2. \A i \in 1..Len(ms) : IsSystem(out[i]) <=> i <= k
  BY HoistedSystem
<1> HIDE DEF out, k
<1>3. \A i \in 1..k : IsSystem(out[i])
  BY <1>1, <1>2
<1>4. k < Len(out) => ~IsSystem(out[k + 1])
  BY <1>1, <1>2
<1>5. LeadingSystem(out) = k
  BY <1>1, <1>3, <1>4, LeadingIs
<1> QED
  BY <1>5 DEF out, k

\* HoistKeepsThePrompt of one list of messages.
LEMMA HoistOfOne ==
  ASSUME NEW ms \in Seq(Message)
  PROVE  LET out == HoistSystem(ms)
         IN  /\ Len(out) = Len(ms)
             /\ \A i \in 1..Len(ms) : [out[i] EXCEPT !.role = ms[i].role] = ms[i]
             /\ \A i, j \in 1..Len(ms) : i < j /\ IsSystem(out[j]) => IsSystem(out[i])
             /\ HoistSystem(out) = out
<1> DEFINE out == HoistSystem(ms)
<1>1. out \in Seq(Message) /\ Len(out) = Len(ms) /\ LeadingSystem(ms) \in 0..Len(ms)
  BY HoistTyped, LeadingEnds
<1>2. ASSUME NEW i \in 1..Len(ms) PROVE [out[i] EXCEPT !.role = ms[i].role] = ms[i]
  <2>1. ms[i] \in Message
    OBVIOUS
  <2>2. out[i] = ms[i] \/ out[i] = [ms[i] EXCEPT !.role = "user"]
    BY HoistTyped
  <2> HIDE DEF out
  <2> QED
    BY <2>1, <2>2 DEF Message
<1>3. ASSUME NEW i \in 1..Len(ms), NEW j \in 1..Len(ms), i < j, IsSystem(out[j])
      PROVE  IsSystem(out[i])
  <2>1. j <= LeadingSystem(ms)
    BY <1>3, HoistedSystem
  <2>2. i <= LeadingSystem(ms)
    BY <1>1, <1>3, <2>1
  <2> QED
    BY <2>2, HoistedSystem
<1>4. HoistSystem(out) = out
  <2>1. ASSUME NEW i \in 1..Len(out) PROVE HoistSystem(out)[i] = out[i]
    <3>1. LeadingSystem(out) = LeadingSystem(ms)
      BY HoistKeepsTheEnd
    <3>2. ~(i > LeadingSystem(out) /\ IsSystem(out[i]))
      BY <1>1, <2>1, <3>1, HoistedSystem
    <3> HIDE DEF out
    <3> QED
      BY <1>1, <2>1, <3>2, HoistTyped
  <2>2. HoistSystem(out) \in Seq(Message) /\ Len(HoistSystem(out)) = Len(out)
    BY <1>1, HoistTyped
  <2> HIDE DEF out
  <2> QED
    BY <1>1, <2>1, <2>2
<1> QED
  BY <1>1, <1>2, <1>3, <1>4

-----------------------------------------------------------------------------
\* What a request can be, and where it has a cut.

Bodies == [head : HeadFields, messages : Seq(Message)]

\* What a template renders of a message, however it is written.
Told(m) == <<m.role, m.words, m.call>>

\* Hoisting leaves a request a request, with the head it had.
LEMMA HoistedTyped ==
  ASSUME NEW b \in Bodies
  PROVE  /\ Hoisted(b) \in Bodies
         /\ Hoisted(b).head = b.head
         /\ Hoisted(b).messages = HoistSystem(b.messages)
  BY HoistTyped DEF Hoisted, Bodies

\* The messages before a cut are all system messages, or not all are: only the
\* messages before it tell.
LEMMA LeadingBefore ==
  ASSUME NEW ms \in Seq(Message), NEW n \in 1..Len(ms)
  PROVE  n <= LeadingSystem(ms) <=> \A i \in 1..n : IsSystem(ms[i])
<1> DEFINE k == LeadingSystem(ms)
<1>1. /\ k \in 0..Len(ms)
      /\ \A i \in 1..k : IsSystem(ms[i])
      /\ k < Len(ms) => ~IsSystem(ms[k + 1])
  BY LeadingEnds
<1> HIDE DEF k
<1>2. n <= k <=> \A i \in 1..n : IsSystem(ms[i])
  BY <1>1
<1> QED
  BY <1>2 DEF k

\* A cut is a number of messages.
LEMMA CutTyped ==
  ASSUME NEW b \in Bodies, NEW n \in PromptCuts(b)
  PROVE  n \in 0..Len(b.messages)
  BY DEF PromptCuts, Readable, Bodies

\* Two prompts that are the same have as many messages, and render the same of
\* each and of the head.
LEMMA SamePrompt ==
  ASSUME NEW b \in Bodies, NEW d \in Bodies, NEW n \in Nat, NEW m \in Nat,
         Prompt(b, n) = Prompt(d, m)
  PROVE  /\ n = m
         /\ b.head.template = d.head.template /\ b.head.system = d.head.system
         /\ \A i \in 1..n : Told(b.messages[i]) = Told(d.messages[i])
<1> DEFINE f == [i \in 1..n |-> Told(b.messages[i])]
           g == [i \in 1..m |-> Told(d.messages[i])]
<1>1. /\ b.head.template = d.head.template /\ b.head.system = d.head.system
      /\ f = g
  BY DEF Prompt, Told
<1>2. 1..n = 1..m
  BY <1>1
<1>3. n = m
  BY <1>2
<1>4. \A i \in 1..n : Told(b.messages[i]) = Told(d.messages[i])
  <2> SUFFICES ASSUME NEW i \in 1..n PROVE Told(b.messages[i]) = Told(d.messages[i])
    OBVIOUS
  <2>1. f[i] = Told(b.messages[i])
    OBVIOUS
  <2>2. g[i] = Told(d.messages[i])
    BY <1>2
  <2> HIDE DEF f, g
  <2> QED
    BY <1>1, <2>1, <2>2
<1> QED
  BY <1>1, <1>3, <1>4

\* Prompts that are the same and written alike have one name.
LEMMA SameSpelling ==
  ASSUME NEW b \in Bodies, NEW d \in Bodies, NEW n \in Nat, NEW m \in Nat,
         Prompt(b, n) = Prompt(d, m), Spelling(b, n) = Spelling(d, m)
  PROVE  CutName(b, n) = CutName(d, m)
<1>1. /\ n = m
      /\ b.head.template = d.head.template /\ b.head.system = d.head.system
      /\ \A i \in 1..n : Told(b.messages[i]) = Told(d.messages[i])
  BY SamePrompt
<1> DEFINE f == [i \in 1..n |-> b.messages[i].form = "text"]
           g == [i \in 1..n |-> d.messages[i].form = "text"]
<1>2. b.head.tools = d.head.tools /\ f = g
  BY <1>1 DEF Spelling
<1>3. ASSUME NEW i \in 1..n PROVE Shape(b.messages[i]) = Shape(d.messages[i])
  <2>1. f[i] = (b.messages[i].form = "text") /\ g[i] = (d.messages[i].form = "text")
    BY Zenon
  <2> HIDE DEF f, g
  <2>2. (b.messages[i].form = "text") = (d.messages[i].form = "text")
    BY <1>2, <2>1, Zenon
  <2>3. /\ b.messages[i].role = d.messages[i].role
        /\ b.messages[i].words = d.messages[i].words
        /\ b.messages[i].call = d.messages[i].call
    BY <1>1 DEF Told
  <2> QED
    BY <2>2, <2>3, Zenon DEF Shape
<1>4. Hashed(b.head) = Hashed(d.head)
  BY <1>1, <1>2, Zenon DEF Hashed
<1>5. [i \in 1..n |-> Shape(b.messages[i])] = [i \in 1..n |-> Shape(d.messages[i])]
  BY <1>3, Zenon
<1> QED
  BY <1>1, <1>4, <1>5, Zenon DEF CutName

\* A prompt that is a cut of one request is a cut of any other that begins with
\* it and measures up to its bar: what else decides is in the prompt.
LEMMA SamePromptIsACut ==
  ASSUME NEW b \in Bodies, NEW d \in Bodies,
         NEW n \in {0} \cup Readable(b.messages), NEW m \in PromptCuts(d),
         Prompt(b, n) = Prompt(d, m), SizeBefore(b, n) >= Bar(d, m)
  PROVE  n \in PromptCuts(b)
<1>1. /\ b.messages \in Seq(Message) /\ d.messages \in Seq(Message)
      /\ n \in 0..Len(b.messages) /\ m \in 0..Len(d.messages)
  BY CutTyped DEF Bodies, Readable
<1>2. /\ n = m /\ b.head.system = d.head.system
      /\ \A i \in 1..n : Told(b.messages[i]) = Told(d.messages[i])
  <2>1. n \in Nat /\ m \in Nat
    BY <1>1
  <2> QED
    BY <2>1, SamePrompt
<1>3. \A i \in 1..n : /\ b.messages[i].role = d.messages[i].role
                      /\ b.messages[i].call = d.messages[i].call
  BY <1>2 DEF Told
<1>4. CASE n = 0
  <2>1. Bar(d, 0) = SystemMin
    <3>1. LeadingSystem(d.messages) \in 0..Len(d.messages)
      BY <1>1, LeadingEnds
    <3>2. 0 <= LeadingSystem(d.messages)
      BY <1>1, <3>1
    <3> QED
      BY <3>2 DEF Bar
  <2>2. b.head.system # Empty
    BY <1>2, <1>4 DEF PromptCuts, Readable
  <2>3. SizeBefore(b, 0) >= SystemMin
    BY <1>2, <1>4, <2>1
  <2> QED
    BY <1>4, <2>2, <2>3 DEF PromptCuts
<1>5. CASE n # 0
  <2>1. n \in 1..Len(b.messages) /\ n \in 1..Len(d.messages) /\ n \in Readable(b.messages)
    BY <1>1, <1>2, <1>5
  <2>2. Bar(b, n) = Bar(d, n)
    <3>1. \A i \in 1..n : IsSystem(b.messages[i]) <=> IsSystem(d.messages[i])
      BY <1>3 DEF IsSystem
    <3>2. n <= LeadingSystem(b.messages) <=> \A i \in 1..n : IsSystem(b.messages[i])
      BY <1>1, <2>1, LeadingBefore
    <3>3. n <= LeadingSystem(d.messages) <=> \A i \in 1..n : IsSystem(d.messages[i])
      BY <1>1, <2>1, LeadingBefore
    <3> QED
      BY <3>1, <3>2, <3>3, Zenon DEF Bar
  <2>3. Closes(d.messages[n])
    BY <1>2, <1>5 DEF PromptCuts
  <2>4. Closes(b.messages[n])
    BY <1>3, <2>1, <2>3 DEF Closes
  <2>5. SizeBefore(b, n) >= Bar(b, n)
    BY <1>2, <2>2
  <2> QED
    BY <2>1, <2>4, <2>5 DEF PromptCuts
<1> QED
  BY <1>4, <1>5

-----------------------------------------------------------------------------
\* The invariant of the requests, the cuts they left and the cut each found.

\* What a client last sent is a request.
BodyTyped == body \in [Clients -> Bodies]

\* Every cut known is a cut of some request, under its name.
KnownAreCuts ==
    \A k \in known : \E b \in Bodies : \E n \in PromptCuts(b) :
        k = Cut(b, n)

\* The cuts of each client's last request are known.
LastIsKnown == \A c \in Clients : CutsOf(Hoisted(body[c])) \subseteq known

\* There is a cut, or none, for each client.
FoundOfClients == DOMAIN found = Clients

IInv == BodyTyped /\ KnownAreCuts /\ LastIsKnown /\ FoundOfClients

\* A first request of a client is a request, and so is a later one.
LEMMA FirstTyped ==
  ASSUME NEW h \in Heads, NEW ms \in Firsts
  PROVE  [head |-> h, messages |-> ms] \in Bodies
  BY MessagesAssumption DEF Bodies

\* Where the elements of two sequences are in one that joins them.
Joins(c, p, q) ==
    /\ Len(c) = Len(p) + Len(q)
    /\ \A i \in 1..Len(p) : c[i] = p[i]
    /\ \A i \in 1..Len(q) : c[Len(p) + i] = q[i]

\* One sequence behind the other joins them.
LEMMA ConcatJoins ==
  ASSUME NEW S, NEW p \in Seq(S), NEW q \in Seq(S)
  PROVE  Joins(p \o q, p, q)
  BY DEF Joins

\* A message without its marks is a message, and renders the same.
LEMMA UnmarkedTyped ==
  ASSUME NEW ms \in Seq(Message), NEW form \in Forms
  PROVE  /\ Unmarked(ms, form) \in Seq(Message)
         /\ Len(Unmarked(ms, form)) = Len(ms)
         /\ \A i \in 1..Len(ms) : Told(Unmarked(ms, form)[i]) = Told(ms[i])
<1> DEFINE Kept(i) == IF ms[i].form = "marked" THEN [ms[i] EXCEPT !.form = form] ELSE ms[i]
<1>1. ASSUME NEW i \in 1..Len(ms)
      PROVE  Kept(i) \in Message /\ Told(Kept(i)) = Told(ms[i])
  <2>1. ms[i] \in Message
    OBVIOUS
  <2>2. /\ [ms[i] EXCEPT !.form = form] \in Message
        /\ Told([ms[i] EXCEPT !.form = form]) = Told(ms[i])
    BY <2>1 DEF Message, Told
  <2> QED
    BY <2>1, <2>2
<1>2. Unmarked(ms, form) = [i \in 1..Len(ms) |-> Kept(i)]
  BY DEF Unmarked
<1> HIDE DEF Kept
<1>3. /\ Unmarked(ms, form) \in Seq(Message) /\ Len(Unmarked(ms, form)) = Len(ms)
      /\ \A i \in 1..Len(ms) : Unmarked(ms, form)[i] = Kept(i)
  BY <1>1, <1>2
<1> QED
  BY <1>1, <1>3

\* What a next turn's request is: its messages and its tools are those of the
\* last one, as far as a template tells, and more messages.
IsGrown(d, b, ms) ==
    \E form \in Forms, tools \in DOMAIN Rendered :
        /\ Rendered[tools] = Rendered[b.head.tools]
        /\ d = Grown(b, tools, form, ms)

\* A later turn sends such a request.
LEMMA LaterGrows ==
  ASSUME NEW c \in Clients, Later(c)
  PROVE  \E ms \in Mores : \E g : Send(c, g) /\ turns[c] > 0 /\ IsGrown(g, body[c], ms)
<1>1. PICK ms \in Mores, form \in Forms, tools \in DOMAIN Rendered :
          /\ turns[c] > 0
          /\ Rendered[tools] = Rendered[body[c].head.tools]
          /\ Send(c, Grown(body[c], tools, form, ms))
  BY DEF Later
<1>2. IsGrown(Grown(body[c], tools, form, ms), body[c], ms)
  BY <1>1, Zenon DEF IsGrown
<1> QED
  BY <1>1, <1>2

\* The next turn's request is a request.
LEMMA GrownTyped ==
  ASSUME NEW b \in Bodies, NEW ms \in Mores, NEW d, IsGrown(d, b, ms)
  PROVE  /\ d \in Bodies
         /\ d.head.template = b.head.template /\ d.head.system = b.head.system
         /\ Rendered[d.head.tools] = Rendered[b.head.tools]
         /\ Len(d.messages) = Len(b.messages) + Len(ms)
         /\ \A i \in 1..Len(b.messages) : Told(d.messages[i]) = Told(b.messages[i])
         /\ \A i \in 1..Len(ms) : d.messages[Len(b.messages) + i] = ms[i]
<1>1. PICK form \in Forms, tools \in DOMAIN Rendered :
          /\ Rendered[tools] = Rendered[b.head.tools]
          /\ d = Grown(b, tools, form, ms)
  BY DEF IsGrown
<1>2. b.messages \in Seq(Message) /\ ms \in Seq(Message) /\ b.head \in HeadFields
  BY MessagesAssumption DEF Bodies
<1>3. tools \in DOMAIN Chars
  BY PromptsAssumption
<1> DEFINE h == [b.head EXCEPT !.tools = tools]
           u == Unmarked(b.messages, form)
<1>4. h \in HeadFields /\ h.template = b.head.template /\ h.system = b.head.system
                      /\ h.tools = tools
  BY <1>2, <1>3 DEF HeadFields
<1>5. /\ u \in Seq(Message) /\ Len(u) = Len(b.messages)
      /\ \A i \in 1..Len(b.messages) : Told(u[i]) = Told(b.messages[i])
  BY <1>2, UnmarkedTyped
<1>6. d = [head |-> h, messages |-> u \o ms]
  BY <1>1 DEF Grown
<1> HIDE DEF h, u
<1>7. /\ u \o ms \in Seq(Message) /\ Len(u \o ms) = Len(u) + Len(ms)
      /\ \A i \in 1..Len(u) : (u \o ms)[i] = u[i]
      /\ \A i \in 1..Len(ms) : (u \o ms)[Len(u) + i] = ms[i]
  <2>1. Joins(u \o ms, u, ms)
    BY <1>2, <1>5, ConcatJoins
  <2>2. u \o ms \in Seq(Message)
    BY <1>2, <1>5
  <2> QED
    BY <2>1, <2>2, Zenon DEF Joins
<1>8. d.head = h /\ d.messages = u \o ms /\ d \in Bodies
  BY <1>4, <1>6, <1>7 DEF Bodies
<1> QED
  BY <1>1, <1>4, <1>5, <1>7, <1>8

\* It has at least the messages the last one had.
LEMMA GrownIsLonger ==
  ASSUME NEW b \in Bodies, NEW ms \in Mores, NEW d, IsGrown(d, b, ms)
  PROVE  /\ Len(d.messages) >= Len(b.messages)
         /\ \A i \in 1..Len(b.messages) : Told(d.messages[i]) = Told(b.messages[i])
<1>1. b.messages \in Seq(Message) /\ ms \in Seq(Message)
  BY MessagesAssumption DEF Bodies
<1>2. Len(d.messages) = Len(b.messages) + Len(ms)
  BY GrownTyped
<1>3. \A i \in 1..Len(b.messages) : Told(d.messages[i]) = Told(b.messages[i])
  BY GrownTyped
<1> QED
  BY <1>1, <1>2, <1>3

\* A request with nothing in it has no cut.
LEMMA NoBodyCut == NoBody \in Bodies /\ CutsOf(Hoisted(NoBody)) = {}
<1>1. NoBody \in Bodies
  BY MessagesAssumption DEF NoBody, Bodies, HeadFields
<1>2. /\ Hoisted(NoBody).head.system = Empty
      /\ Hoisted(NoBody).messages \in Seq(Message)
      /\ Len(Hoisted(NoBody).messages) = 0
  <2>1. NoBody.messages \in Seq(Message) /\ Len(NoBody.messages) = 0 /\ NoBody.head.system = Empty
    BY DEF NoBody
  <2> QED
    BY <1>1, <2>1, HoistedTyped, HoistTyped
<1>3. PromptCuts(Hoisted(NoBody)) = {}
  BY <1>2 DEF PromptCuts, Readable
<1> QED
  BY <1>1, <1>3 DEF CutsOf

\* The invariant holds before any request came.
LEMMA InitIInv == Init => IInv
<1> SUFFICES ASSUME Init PROVE IInv
  OBVIOUS
<1>1. \A c \in Clients : body[c] = NoBody
  BY DEF Init
<1> QED
  BY <1>1, NoBodyCut DEF Init, IInv, BodyTyped, KnownAreCuts, LastIsKnown, FoundOfClients

\* A request keeps the invariant: its cuts are among the known ones after it.
LEMMA SendIInv ==
  ASSUME IInv, NEW c \in Clients, NEW b \in Bodies, Send(c, b)
  PROVE  IInv'
<1>1. body' = [body EXCEPT ![c] = b] /\ known' = known \cup CutsOf(Hoisted(b))
  BY DEF Send
<1>2. BodyTyped'
  BY <1>1 DEF IInv, BodyTyped
<1>3. KnownAreCuts'
  <2> SUFFICES ASSUME NEW k \in known'
               PROVE  \E d \in Bodies : \E n \in PromptCuts(d) :
                        k = Cut(d, n)
    BY DEF KnownAreCuts
  <2>1. CASE k \in known
    BY <2>1 DEF IInv, KnownAreCuts
  <2>2. CASE k \in CutsOf(Hoisted(b))
    BY <2>2, HoistedTyped DEF CutsOf
  <2> QED
    BY <1>1, <2>1, <2>2
<1>4. LastIsKnown'
  <2> SUFFICES ASSUME NEW d \in Clients PROVE CutsOf(Hoisted(body'[d])) \subseteq known'
    BY DEF LastIsKnown, CutsOf, Hoisted
  <2>1. CASE d = c
    <3>1. body'[d] = b
      BY <1>1, <2>1 DEF IInv, BodyTyped
    <3> QED
      BY <1>1, <3>1
  <2>2. CASE d # c
    <3>1. body'[d] = body[d]
      BY <1>1, <2>2 DEF IInv, BodyTyped
    <3> QED
      BY <1>1, <3>1 DEF IInv, LastIsKnown
  <2> QED
    BY <2>1, <2>2
<1>5. FoundOfClients'
  BY DEF Send, IInv, FoundOfClients
<1> QED
  BY <1>2, <1>3, <1>4, <1>5 DEF IInv

\* Each request that comes keeps it.
LEMMA NextIInv == IInv /\ [Next]_vars => IInv'
<1> SUFFICES ASSUME IInv, [Next]_vars PROVE IInv'
  OBVIOUS
<1>1. ASSUME NEW c \in Clients, First(c) PROVE IInv'
  <2>1. PICK h \in Heads, ms \in Firsts : Send(c, [head |-> h, messages |-> ms])
    BY <1>1 DEF First
  <2> QED
    BY <2>1, FirstTyped, SendIInv
<1>2. ASSUME NEW c \in Clients, Later(c) PROVE IInv'
  <2>1. PICK ms \in Mores : \E g : Send(c, g) /\ IsGrown(g, body[c], ms)
    BY <1>2, LaterGrows
  <2>2. PICK d : Send(c, d) /\ IsGrown(d, body[c], ms)
    BY <2>1
  <2>3. d \in Bodies
    BY <2>2, GrownTyped DEF IInv, BodyTyped
  <2> QED
    BY <2>2, <2>3, SendIInv
<1>3. CASE UNCHANGED vars
  BY <1>3 DEF IInv, BodyTyped, KnownAreCuts, LastIsKnown, FoundOfClients, vars
<1> QED
  BY <1>1, <1>2, <1>3 DEF Next

-----------------------------------------------------------------------------
\* What the template is sent: every message in its place with its words, no
\* system message behind another one, and nothing left to hoist.
THEOREM Hoisting == Spec => []HoistKeepsThePrompt
<1>1. IInv => HoistKeepsThePrompt
  <2> SUFFICES ASSUME IInv, NEW c \in Clients
               PROVE  LET ms  == body[c].messages
                          out == HoistSystem(ms)
                      IN  /\ Len(out) = Len(ms)
                          /\ \A i \in 1..Len(ms) : [out[i] EXCEPT !.role = ms[i].role] = ms[i]
                          /\ \A i, j \in 1..Len(ms) : i < j /\ IsSystem(out[j]) => IsSystem(out[i])
                          /\ HoistSystem(out) = out
    BY DEF HoistKeepsThePrompt
  <2>1. body[c].messages \in Seq(Message)
    BY DEF IInv, BodyTyped, Bodies
  <2> QED
    BY <2>1, HoistOfOne
<1> QED
  BY <1>1, InitIInv, NextIInv, PTL DEF Spec

\* A prompt one request was cut after is cut after in every request that begins
\* with it and measures up to the same bar.
THEOREM SharedPrompts == Spec => []SharedPromptIsACut
<1>1. IInv => SharedPromptIsACut
  <2> SUFFICES ASSUME IInv, NEW c \in Clients, NEW k \in known,
                      NEW n \in {0} \cup Readable(Hoisted(body[c]).messages),
                      Prompt(Hoisted(body[c]), n) = k.prompt,
                      SizeBefore(Hoisted(body[c]), n) >= k.bar
               PROVE  n \in PromptCuts(Hoisted(body[c]))
    BY DEF SharedPromptIsACut
  <2>1. Hoisted(body[c]) \in Bodies
    BY HoistedTyped DEF IInv, BodyTyped
  <2>2. PICK d \in Bodies : \E m \in PromptCuts(d) : k = Cut(d, m)
    BY DEF IInv, KnownAreCuts
  <2>3. PICK m \in PromptCuts(d) : k.prompt = Prompt(d, m) /\ k.bar = Bar(d, m)
    BY <2>2 DEF Cut
  <2> QED
    BY <2>1, <2>3, SamePromptIsACut
<1> QED
  BY <1>1, InitIInv, NextIInv, PTL DEF Spec
-----------------------------------------------------------------------------
\* What a later turn finds of the one before it.

\* deepest_shared goes no less far than any cut whose name it is given.
LEMMA DeepestReaches ==
  ASSUME NEW b \in Bodies, NEW names, NEW n \in PromptCuts(b), CutName(b, n) \in names
  PROVE  DeepestShared(b, names) >= n
<1> DEFINE shared == {m \in PromptCuts(b) : CutName(b, m) \in names}
<1>1. n \in shared /\ Len(b.messages) \in Nat
  BY DEF Bodies
<1>2. shared \in SUBSET (0..Len(b.messages))
  BY CutTyped
<1>3. DeepestShared(b, names) = CHOOSE k \in shared : \A m \in shared : m <= k
  BY <1>1, Zenon DEF DeepestShared
<1> HIDE DEF shared
<1>4. \E k \in shared : \A m \in shared : m <= k
  BY <1>1, <1>2, GreatestOf
<1>5. /\ DeepestShared(b, names) \in shared
      /\ \A m \in shared : m <= DeepestShared(b, names)
  BY <1>3, <1>4
<1> QED
  BY <1>1, <1>2, <1>5

\* Hoisting a longer request treats the messages of the shorter one as it did.
LEMMA HoistOfMore ==
  ASSUME NEW ms \in Seq(Message), NEW more \in Seq(Message),
         Len(more) >= Len(ms),
         \A i \in 1..Len(ms) : Told(more[i]) = Told(ms[i])
  PROVE  \A i \in 1..Len(ms) : Told(HoistSystem(more)[i]) = Told(HoistSystem(ms)[i])
<1> SUFFICES ASSUME NEW i \in 1..Len(ms)
             PROVE  Told(HoistSystem(more)[i]) = Told(HoistSystem(ms)[i])
  OBVIOUS
<1>1. i \in 1..Len(more) /\ ms[i] \in Message /\ more[i] \in Message
  OBVIOUS
<1>2. \A j \in 1..Len(ms) : IsSystem(more[j]) <=> IsSystem(ms[j])
  BY DEF Told, IsSystem
<1>3. i > LeadingSystem(more) <=> i > LeadingSystem(ms)
  <2>1. i <= LeadingSystem(ms) <=> \A j \in 1..i : IsSystem(ms[j])
    BY LeadingBefore
  <2>2. i <= LeadingSystem(more) <=> \A j \in 1..i : IsSystem(more[j])
    BY <1>1, LeadingBefore
  <2>3. LeadingSystem(ms) \in Nat /\ LeadingSystem(more) \in Nat
    BY LeadingEnds
  <2> QED
    BY <1>2, <2>1, <2>2, <2>3
<1>4. CASE i > LeadingSystem(ms) /\ IsSystem(ms[i])
  <2>1. /\ HoistSystem(ms)[i] = [ms[i] EXCEPT !.role = "user"]
        /\ HoistSystem(more)[i] = [more[i] EXCEPT !.role = "user"]
    BY <1>1, <1>2, <1>3, <1>4, HoistTyped, Zenon
  <2> QED
    BY <1>1, <2>1 DEF Told, Message
<1>5. CASE ~(i > LeadingSystem(ms) /\ IsSystem(ms[i]))
  <2>1. HoistSystem(ms)[i] = ms[i] /\ HoistSystem(more)[i] = more[i]
    BY <1>1, <1>2, <1>3, <1>5, HoistTyped, Zenon
  <2> QED
    BY <2>1, Zenon
<1> QED
  BY <1>4, <1>5

\* A cut of a request is one of the next, under the same name, if the next is
\* written like it as far as that and measures up to the bar.
LEMMA CutsStay ==
  ASSUME NEW b \in Bodies, NEW ms \in Mores, NEW g, IsGrown(g, b, ms),
         NEW n \in PromptCuts(Hoisted(b)),
         Spelling(Hoisted(g), n) = Spelling(Hoisted(b), n),
         SizeBefore(Hoisted(g), n) >= Bar(Hoisted(b), n)
  PROVE  /\ n \in PromptCuts(Hoisted(g))
         /\ CutName(Hoisted(g), n) = CutName(Hoisted(b), n)
<1> DEFINE h == Hoisted(b)
           d == Hoisted(g)
<1>1. /\ h \in Bodies /\ d \in Bodies /\ g \in Bodies
      /\ d.head.template = h.head.template /\ d.head.system = h.head.system
      /\ Rendered[d.head.tools] = Rendered[h.head.tools]
  BY HoistedTyped, GrownTyped
<1>2. n \in 0..Len(h.messages) /\ n \in Nat
  <2>1. n \in PromptCuts(h)
    OBVIOUS
  <2> HIDE DEF h
  <2> QED
    BY <1>1, <2>1, CutTyped DEF Bodies
<1>3. /\ Len(h.messages) = Len(b.messages)
      /\ Len(d.messages) >= Len(b.messages)
      /\ \A i \in 1..Len(b.messages) : Told(d.messages[i]) = Told(h.messages[i])
  <2>1. b.messages \in Seq(Message) /\ g.messages \in Seq(Message) /\ ms \in Seq(Message)
    BY <1>1, MessagesAssumption DEF Bodies
  <2>2. /\ Len(g.messages) >= Len(b.messages)
        /\ \A i \in 1..Len(b.messages) : Told(g.messages[i]) = Told(b.messages[i])
    BY GrownIsLonger
  <2>3. h.messages = HoistSystem(b.messages) /\ d.messages = HoistSystem(g.messages)
    BY <1>1, HoistedTyped
  <2>4. /\ Len(HoistSystem(b.messages)) = Len(b.messages)
        /\ Len(HoistSystem(g.messages)) = Len(g.messages)
    BY <2>1, HoistTyped
  <2>5. \A i \in 1..Len(b.messages) :
          Told(HoistSystem(g.messages)[i]) = Told(HoistSystem(b.messages)[i])
    BY <2>1, <2>2, HoistOfMore
  <2> HIDE DEF h, d
  <2> QED
    BY <2>2, <2>3, <2>4, <2>5
<1>4. n \in PromptCuts(h) /\ Spelling(d, n) = Spelling(h, n) /\ SizeBefore(d, n) >= Bar(h, n)
  OBVIOUS
<1> HIDE DEF h, d
<1>5. \A i \in 1..n : i \in 1..Len(b.messages) /\ Told(d.messages[i]) = Told(h.messages[i])
  BY <1>1, <1>2, <1>3 DEF Bodies
<1>6. Prompt(d, n) = Prompt(h, n)
  BY <1>1, <1>5 DEF Prompt, Told
<1>7. CutName(d, n) = CutName(h, n)
  BY <1>1, <1>2, <1>4, <1>6, SameSpelling
<1>8. n \in {0} \cup Readable(d.messages)
  <2> SUFFICES ASSUME n # 0 PROVE n \in Readable(d.messages)
    OBVIOUS
  <2>1. n \in Readable(h.messages)
    BY <1>4 DEF PromptCuts
  <2>2. n \in 1..Len(d.messages)
    BY <1>1, <1>2, <1>3 DEF Bodies
  <2>3. \A i \in 1..n : d.messages[i].role = h.messages[i].role
    BY <1>5 DEF Told
  <2> QED
    BY <2>1, <2>2, <2>3 DEF Readable, Object
<1>9. n \in PromptCuts(d)
  BY <1>1, <1>4, <1>6, <1>8, SamePromptIsACut
<1> QED
  BY <1>7, <1>9 DEF h, d

\* A later turn of a conversation finds at least as far as the one before was
\* cut, whatever was added, unless what stands before the cut is written another
\* way or measures less than the bar without its marks.
THEOREM NextTurn == Spec => NextTurnFindsTheLast
<1> DEFINE Finds == \A c \in Clients : Later(c) =>
                      LET old == Hoisted(body[c])
                          new == Hoisted(body'[c])
                      IN  \A n \in PromptCuts(old) :
                            Spelling(new, n) = Spelling(old, n)
                            /\ SizeBefore(new, n) >= Bar(old, n)
                                => found'[c] >= n
<1>1. IInv /\ [Next]_vars => [Finds]_vars
  <2> SUFFICES ASSUME IInv, NEW c \in Clients, Later(c),
                      NEW n \in PromptCuts(Hoisted(body[c])),
                      Spelling(Hoisted(body'[c]), n) = Spelling(Hoisted(body[c]), n),
                      SizeBefore(Hoisted(body'[c]), n) >= Bar(Hoisted(body[c]), n)
               PROVE  found'[c] >= n
    OBVIOUS
  <2>0. PICK ms \in Mores : \E g : Send(c, g) /\ IsGrown(g, body[c], ms)
    BY LaterGrows
  <2>1. PICK g : Send(c, g) /\ IsGrown(g, body[c], ms)
    BY <2>0
  <2>2. body[c] \in Bodies /\ g \in Bodies /\ body'[c] = g
    BY <2>1, GrownTyped DEF IInv, BodyTyped, Send
  <2>3. n \in PromptCuts(Hoisted(g)) /\ CutName(Hoisted(g), n) = CutName(Hoisted(body[c]), n)
    BY <2>1, <2>2, CutsStay
  <2>4. CutName(Hoisted(g), n) \in Names(known)
    <3>1. Cut(Hoisted(body[c]), n) \in CutsOf(Hoisted(body[c]))
      BY DEF CutsOf
    <3>2. Cut(Hoisted(body[c]), n) \in known
      BY <3>1 DEF IInv, LastIsKnown
    <3>3. Cut(Hoisted(body[c]), n).name = CutName(Hoisted(body[c]), n)
      BY DEF Cut
    <3>4. CutName(Hoisted(body[c]), n) \in Names(known)
      BY <3>2, <3>3 DEF Names
    <3> QED
      BY <2>3, <3>4
  <2>5. DeepestShared(Hoisted(g), Names(known)) >= n
    <3>1. Hoisted(g) \in Bodies
      BY <2>2, HoistedTyped
    <3> QED
      BY <2>3, <2>4, <3>1, DeepestReaches
  <2>6. found'[c] = DeepestShared(Hoisted(g), Names(known))
    BY <2>1 DEF Send, IInv, FoundOfClients
  <2> QED
    BY <2>5, <2>6
<1> QED
  BY <1>1, InitIInv, NextIInv, PTL DEF Spec, NextTurnFindsTheLast

-----------------------------------------------------------------------------
\* What each client has sent, and what was found of it.

\* What a request can be called.
Called == {ConversationId(ms) : ms \in Seq(Message)}

\* One name for each turn; a cut that was found is one of the request's.
Counted ==
    /\ turns \in [Clients -> 0..MaxTurns]
    /\ name \in [Clients -> Seq(Called)]
    /\ \A c \in Clients :
          /\ Len(name[c]) = turns[c]
          /\ found[c] \in {-1} \cup PromptCuts(Hoisted(body[c]))

\* deepest_shared answers a cut of the request, or none.
LEMMA DeepestIsACut ==
  ASSUME NEW b \in Bodies, NEW names
  PROVE  DeepestShared(b, names) \in {-1} \cup PromptCuts(b)
<1> DEFINE shared == {m \in PromptCuts(b) : CutName(b, m) \in names}
<1>1. shared \subseteq PromptCuts(b) /\ Len(b.messages) \in Nat
  BY DEF Bodies
<1>2. shared \in SUBSET (0..Len(b.messages))
  BY CutTyped
<1>3. DeepestShared(b, names) = IF shared = {} THEN -1
                                ELSE CHOOSE k \in shared : \A m \in shared : m <= k
  BY Zenon DEF DeepestShared
<1> HIDE DEF shared
<1>4. shared # {} => \E k \in shared : \A m \in shared : m <= k
  BY <1>1, <1>2, GreatestOf
<1>5. shared # {} => (CHOOSE k \in shared : \A m \in shared : m <= k) \in shared
  BY <1>4
<1> QED
  BY <1>1, <1>3, <1>5

\* The cuts of the requests after a step are what PromptCuts makes of them.
LEMMA CutsLater ==
  \A c \in Clients : PromptCuts(Hoisted(body[c]))' = PromptCuts(Hoisted(body'[c]))
  BY DEF PromptCuts, Hoisted, Readable, SizeBefore, Bar, HoistSystem, Closes, LeadingSystem,
     IsSystem, Object, ContentSize

\* A request is counted, named and looked up once.
LEMMA SendCounted ==
  ASSUME IInv, Counted, NEW c \in Clients, NEW b \in Bodies, Send(c, b)
  PROVE  Counted'
<1>1. /\ turns[c] < MaxTurns /\ turns' = [turns EXCEPT ![c] = @ + 1]
      /\ body' = [body EXCEPT ![c] = b]
      /\ name' = [name EXCEPT ![c] = Append(@, ConversationId(b.messages))]
      /\ found' = [found EXCEPT ![c] = DeepestShared(Hoisted(b), Names(known))]
  BY DEF Send
<1>2. turns' \in [Clients -> 0..MaxTurns]
  BY <1>1, PromptsAssumption DEF Counted
<1>3. ConversationId(b.messages) \in Called
  BY DEF Called, Bodies
<1>4. /\ name[c] \in Seq(Called)
      /\ Append(name[c], ConversationId(b.messages)) \in Seq(Called)
      /\ Len(Append(name[c], ConversationId(b.messages))) = Len(name[c]) + 1
  BY <1>3 DEF Counted
<1>5. name' \in [Clients -> Seq(Called)]
  BY <1>1, <1>4 DEF Counted
<1>6. DeepestShared(Hoisted(b), Names(known)) \in {-1} \cup PromptCuts(Hoisted(b))
  BY DeepestIsACut, HoistedTyped
<1>7. ASSUME NEW d \in Clients
      PROVE  /\ Len(name'[d]) = turns'[d]
             /\ found'[d] \in {-1} \cup PromptCuts(Hoisted(body'[d]))
  <2>1. CASE d = c
    <3>1. /\ name'[c] = Append(name[c], ConversationId(b.messages))
          /\ turns'[c] = turns[c] + 1 /\ body'[c] = b
          /\ found'[c] = DeepestShared(Hoisted(b), Names(known))
      BY <1>1 DEF Counted, IInv, BodyTyped, FoundOfClients
    <3> QED
      BY <1>4, <1>6, <2>1, <3>1 DEF Counted
  <2>2. CASE d # c
    <3>1. name'[d] = name[d] /\ turns'[d] = turns[d] /\ body'[d] = body[d] /\ found'[d] = found[d]
      BY <1>1, <2>2 DEF Counted, IInv, BodyTyped, FoundOfClients
    <3> QED
      BY <3>1 DEF Counted
  <2> QED
    BY <2>1, <2>2
<1> QED
  BY <1>2, <1>5, <1>7, CutsLater DEF Counted

\* The requests that are sent: a first one, or the last with more messages.
LEMMA Requests ==
  ASSUME IInv, Next
  PROVE  \E c \in Clients, b \in Bodies :
             /\ Send(c, b)
             /\ \/ turns[c] = 0 /\ b.messages \in Firsts
                \/ turns[c] > 0 /\ \E ms \in Mores : IsGrown(b, body[c], ms)
<1>1. ASSUME NEW c \in Clients, First(c)
      PROVE  \E b \in Bodies : Send(c, b) /\ turns[c] = 0 /\ b.messages \in Firsts
  <2>1. PICK h \in Heads, ms \in Firsts : Send(c, [head |-> h, messages |-> ms]) /\ turns[c] = 0
    BY <1>1 DEF First
  <2>2. [head |-> h, messages |-> ms].messages \in Firsts
    OBVIOUS
  <2> QED
    BY <2>1, <2>2, FirstTyped
<1>2. ASSUME NEW c \in Clients, Later(c)
      PROVE  \E b \in Bodies : Send(c, b) /\ turns[c] > 0
                               /\ \E ms \in Mores : IsGrown(b, body[c], ms)
  <2>0. PICK ms \in Mores : \E g : Send(c, g) /\ turns[c] > 0 /\ IsGrown(g, body[c], ms)
    BY <1>2, LaterGrows
  <2>1. PICK g : Send(c, g) /\ turns[c] > 0 /\ IsGrown(g, body[c], ms)
    BY <2>0
  <2>2. g \in Bodies
    BY <2>1, GrownTyped DEF IInv, BodyTyped
  <2> QED
    BY <2>1, <2>2
<1> QED
  BY <1>1, <1>2 DEF Next

\* A cut that was found is one of the request's, and each turn has its name.
THEOREM PromptsTyped == Spec => []TypeOK
<1>1. Init => Counted
  <2> SUFFICES ASSUME Init PROVE Counted
    OBVIOUS
  <2>1. 0 \in 0..MaxTurns /\ <<>> \in Seq(Called) /\ Len(<<>>) = 0
    BY PromptsAssumption
  <2> QED
    BY <2>1 DEF Init, Counted
<1>2. IInv /\ Counted /\ [Next]_vars => Counted'
  <2> SUFFICES ASSUME IInv, Counted, [Next]_vars PROVE Counted'
    OBVIOUS
  <2>1. CASE UNCHANGED vars
    BY <2>1, CutsLater DEF vars, Counted
  <2>2. CASE Next
    BY <2>2, Requests, SendCounted
  <2> QED
    BY <2>1, <2>2
<1>3. IInv /\ Counted => TypeOK
  <2> SUFFICES ASSUME IInv, Counted PROVE TypeOK
    OBVIOUS
  <2>1. \A c \in Clients : body[c].messages \in Seq(Message)
    BY DEF IInv, BodyTyped, Bodies
  <2> QED
    BY <2>1 DEF Counted, TypeOK
<1> QED
  BY <1>1, <1>2, <1>3, InitIInv, NextIInv, PTL DEF Spec

-----------------------------------------------------------------------------
\* Names and prompts.

\* One element before two.
LEMMA OneAndTwo ==
  ASSUME NEW x, NEW y, NEW z
  PROVE  <<x>> \o <<y, z>> = <<x, y, z>>
<1> DEFINE S == {x, y, z}
           s == <<x>> \o <<y, z>>
<1>1. <<x>> \in Seq(S) /\ <<y, z>> \in Seq(S) /\ <<x, y, z>> \in Seq(S)
  OBVIOUS
<1>2. s \in Seq(S) /\ Len(s) = 3 /\ s[1] = x /\ s[2] = y /\ s[3] = z
  BY <1>1
<1> HIDE DEF s
<1>3. s = <<x, y, z>>
  BY <1>2
<1> QED
  BY <1>3 DEF s

\* What is hashed of a head, and how much of it is: it tells which parts the
\* head has.
LEMMA HashedIs ==
  ASSUME NEW h \in HeadFields
  PROVE  \/ /\ h.template # 0 /\ (h.system # Empty \/ h.tools # Empty)
            /\ Hashed(h) = << <<"template", h.template>>,
                              <<"system", h.system>>, <<"tools", h.tools>> >>
         \/ /\ h.template # 0 /\ h.system = Empty /\ h.tools = Empty
            /\ Hashed(h) = << <<"template", h.template>> >>
         \/ /\ h.template = 0 /\ (h.system # Empty \/ h.tools # Empty)
            /\ Hashed(h) = << <<"system", h.system>>, <<"tools", h.tools>> >>
         \/ /\ h.template = 0 /\ h.system = Empty /\ h.tools = Empty
            /\ Hashed(h) = <<>>
<1>1. CASE h.template # 0 /\ (h.system # Empty \/ h.tools # Empty)
  <2>1. Hashed(h) = << <<"template", h.template>> >>
                    \o << <<"system", h.system>>, <<"tools", h.tools>> >>
    BY <1>1 DEF Hashed
  <2> QED
    BY <1>1, <2>1, OneAndTwo
<1>2. CASE h.template # 0 /\ h.system = Empty /\ h.tools = Empty
  BY <1>2 DEF Hashed
<1>3. CASE h.template = 0 /\ (h.system # Empty \/ h.tools # Empty)
  BY <1>3 DEF Hashed
<1>4. CASE h.template = 0 /\ h.system = Empty /\ h.tools = Empty
  BY <1>4 DEF Hashed
<1> QED
  BY <1>1, <1>2, <1>3, <1>4

\* The parts of a head.
Parts == {<<"template", n>> : n \in Nat} \cup {<<"system", w>> : w \in DOMAIN Chars}
                                         \cup {<<"tools", w>> : w \in DOMAIN Chars}

\* What a message is hashed as.
Shapes == {Shape(m) : m \in Message}

\* A part of a head is no message.
LEMMA PartIsNoShape ==
  ASSUME NEW p \in Parts PROVE p \notin Shapes
<1>1. Len(p) = 2
  BY DEF Parts
<1>2. \A q \in Shapes : Len(q) = 4
  BY DEF Shapes, Shape
<1> QED
  BY <1>1, <1>2

\* The head's parts are a sequence of them.
LEMMA HashedTyped ==
  ASSUME NEW h \in HeadFields PROVE Hashed(h) \in Seq(Parts)
<1>1. h.template \in Nat /\ h.system \in DOMAIN Chars /\ h.tools \in DOMAIN Chars
  BY DEF HeadFields
<1>2. <<"template", h.template>> \in Parts /\ <<"system", h.system>> \in Parts
                                           /\ <<"tools", h.tools>> \in Parts
  BY <1>1 DEF Parts
<1> DEFINE t == <<"template", h.template>>
           s == <<"system", h.system>>
           o == <<"tools", h.tools>>
<1> HIDE DEF t, s, o
<1>3. <<t, s, o>> \in Seq({t, s, o}) /\ <<t>> \in Seq({t, s, o}) /\ <<s, o>> \in Seq({t, s, o})
      /\ <<>> \in Seq({t, s, o})
  OBVIOUS
<1>4. Hashed(h) \in {<<t, s, o>>, <<t>>, <<s, o>>, <<>>}
  BY HashedIs DEF t, s, o
<1>5. {t, s, o} \subseteq Parts
  BY <1>2 DEF t, s, o
<1>6. Hashed(h) \in Seq({t, s, o})
  BY <1>3, <1>4
<1> QED
  BY <1>5, <1>6

\* Heads that are hashed alike are alike.
LEMMA SameHead ==
  ASSUME NEW h \in HeadFields, NEW g \in HeadFields, Hashed(h) = Hashed(g)
  PROVE  h = g
<1>1. h.template = g.template /\ h.system = g.system /\ h.tools = g.tools
  <2>1. CASE h.template # 0 /\ (h.system # Empty \/ h.tools # Empty)
    <3>1. Len(Hashed(h)) = 3 /\ Hashed(h)[1] = <<"template", h.template>>
          /\ Hashed(h)[2] = <<"system", h.system>> /\ Hashed(h)[3] = <<"tools", h.tools>>
      BY <2>1, HashedIs
    <3>2. Hashed(g)[1] = <<"template", g.template>>
          /\ Hashed(g)[2] = <<"system", g.system>> /\ Hashed(g)[3] = <<"tools", g.tools>>
      BY <3>1, HashedIs
    <3> QED
      BY <3>1, <3>2
  <2>2. CASE h.template # 0 /\ h.system = Empty /\ h.tools = Empty
    <3>1. Len(Hashed(h)) = 1 /\ Hashed(h)[1] = <<"template", h.template>>
      BY <2>2, HashedIs
    <3>2. Hashed(g)[1] = <<"template", g.template>> /\ g.system = Empty /\ g.tools = Empty
      BY <3>1, HashedIs
    <3> QED
      BY <2>2, <3>1, <3>2
  <2>3. CASE h.template = 0 /\ (h.system # Empty \/ h.tools # Empty)
    <3>1. Len(Hashed(h)) = 2
          /\ Hashed(h)[1] = <<"system", h.system>> /\ Hashed(h)[2] = <<"tools", h.tools>>
      BY <2>3, HashedIs
    <3>2. g.template = 0
          /\ Hashed(g)[1] = <<"system", g.system>> /\ Hashed(g)[2] = <<"tools", g.tools>>
      BY <3>1, HashedIs
    <3> QED
      BY <2>3, <3>1, <3>2
  <2>4. CASE h.template = 0 /\ h.system = Empty /\ h.tools = Empty
    <3>1. Hashed(g) = <<>> /\ \A x, y, z : <<>> \notin {<<x>>, <<x, y>>, <<x, y, z>>}
      BY <2>4, HashedIs
    <3>2. g.template = 0 /\ g.system = Empty /\ g.tools = Empty
      BY <3>1, HashedIs
    <3> QED
      BY <2>4, <3>2
  <2> QED
    BY <2>1, <2>2, <2>3, <2>4
<1> QED
  BY <1>1 DEF HeadFields

\* Sequences with the same elements are the same.
LEMMA SameElements ==
  ASSUME NEW S, NEW p \in Seq(S), NEW q \in Seq(S), Len(p) = Len(q),
         \A i \in 1..Len(p) : p[i] = q[i]
  PROVE  p = q
  OBVIOUS

\* Two sequences that are the same, each of parts and then of shapes, have the
\* same parts and the same shapes.
LEMMA SameSplit ==
  ASSUME NEW p \in Seq(Parts), NEW q \in Seq(Parts), NEW x \in Seq(Shapes), NEW y \in Seq(Shapes),
         p \o x = q \o y
  PROVE  p = q /\ x = y
<1> DEFINE U == Parts \cup Shapes
<1>1. p \in Seq(U) /\ q \in Seq(U) /\ x \in Seq(U) /\ y \in Seq(U)
  OBVIOUS
<1> HIDE DEF U
<1>2. Joins(p \o x, p, x) /\ Joins(q \o y, q, y)
  BY <1>1, ConcatJoins
<1>3. PICK c : Joins(c, p, x) /\ Joins(c, q, y)
  BY <1>2
<1>4. /\ Len(p) \in Nat /\ Len(q) \in Nat /\ Len(x) \in Nat /\ Len(y) \in Nat
      /\ \A i \in 1..Len(p) : p[i] \in Parts
      /\ \A i \in 1..Len(q) : q[i] \in Parts
      /\ \A i \in 1..Len(x) : x[i] \in Shapes
      /\ \A i \in 1..Len(y) : y[i] \in Shapes
  OBVIOUS
<1>5. ~(Len(p) < Len(q))
  <2> SUFFICES ASSUME Len(p) < Len(q) PROVE FALSE
    OBVIOUS
  <2>1. Len(p) + 1 \in 1..Len(q) /\ 1 \in 1..Len(x)
    BY <1>3, <1>4 DEF Joins
  <2>2. c[Len(p) + 1] = q[Len(p) + 1] /\ c[Len(p) + 1] = x[1]
    BY <1>3, <2>1 DEF Joins
  <2>3. c[Len(p) + 1] \in Parts /\ c[Len(p) + 1] \in Shapes
    BY <1>4, <2>1, <2>2
  <2> QED
    BY <2>3, PartIsNoShape
<1>6. ~(Len(q) < Len(p))
  <2> SUFFICES ASSUME Len(q) < Len(p) PROVE FALSE
    OBVIOUS
  <2>1. Len(q) + 1 \in 1..Len(p) /\ 1 \in 1..Len(y)
    BY <1>3, <1>4 DEF Joins
  <2>2. c[Len(q) + 1] = p[Len(q) + 1] /\ c[Len(q) + 1] = y[1]
    BY <1>3, <2>1 DEF Joins
  <2>3. c[Len(q) + 1] \in Parts /\ c[Len(q) + 1] \in Shapes
    BY <1>4, <2>1, <2>2
  <2> QED
    BY <2>3, PartIsNoShape
<1>7. Len(p) = Len(q) /\ Len(x) = Len(y)
  BY <1>3, <1>4, <1>5, <1>6 DEF Joins
<1>8. \A i \in 1..Len(p) : p[i] = q[i]
  BY <1>3, <1>7 DEF Joins
<1>9. \A i \in 1..Len(x) : x[i] = y[i]
  BY <1>3, <1>7 DEF Joins
<1>10. p = q
  BY <1>7, <1>8, SameElements
<1>11. x = y
  BY <1>7, <1>9, SameElements
<1> QED
  BY <1>10, <1>11

\* Cuts of one name are after one prompt, written alike.
LEMMA SameName ==
  ASSUME NEW b \in Bodies, NEW d \in Bodies, NEW n \in 0..Len(b.messages),
         NEW m \in 0..Len(d.messages), CutName(b, n) = CutName(d, m)
  PROVE  Prompt(b, n) = Prompt(d, m) /\ Spelling(b, n) = Spelling(d, m)
<1> DEFINE f == [i \in 1..n |-> Shape(b.messages[i])]
           g == [i \in 1..m |-> Shape(d.messages[i])]
<1>1. f \in Seq(Shapes) /\ g \in Seq(Shapes)
  <2>1. b.messages \in Seq(Message) /\ d.messages \in Seq(Message)
    BY DEF Bodies
  <2>2. \A i \in 1..n : Shape(b.messages[i]) \in Shapes
    BY <2>1 DEF Shapes
  <2>3. \A i \in 1..m : Shape(d.messages[i]) \in Shapes
    BY <2>1 DEF Shapes
  <2>4. n \in Nat /\ m \in Nat
    BY <2>1
  <2> QED
    BY <2>2, <2>3, <2>4
<1>2. Hashed(b.head) \o f = Hashed(d.head) \o g
  BY DEF CutName
<1>3. b.head \in HeadFields /\ d.head \in HeadFields
  BY DEF Bodies
<1>4. \A i \in 1..n : f[i] = Shape(b.messages[i])
  OBVIOUS
<1>5. \A i \in 1..m : g[i] = Shape(d.messages[i])
  OBVIOUS
<1>6. DOMAIN f = 1..n /\ DOMAIN g = 1..m /\ n \in Nat /\ m \in Nat
  BY DEF Bodies
<1> HIDE DEF f, g
<1>7. Hashed(b.head) = Hashed(d.head) /\ f = g
  BY <1>1, <1>2, <1>3, HashedTyped, SameSplit
<1>8. b.head = d.head
  BY <1>3, <1>7, SameHead
<1>9. 1..n = 1..m
  BY <1>6, <1>7
<1>10. n = m
  BY <1>6, <1>9
<1>11. ASSUME NEW i \in 1..n
       PROVE  /\ Told(b.messages[i]) = Told(d.messages[i])
              /\ (b.messages[i].form = "text") = (d.messages[i].form = "text")
  <2>1. Shape(b.messages[i]) = Shape(d.messages[i])
    BY <1>4, <1>5, <1>7, <1>10, Zenon
  <2>2. Shape(b.messages[i])[4] = Shape(d.messages[i])[4]
    BY <2>1, Zenon
  <2>3. (b.messages[i].form = "text") = (d.messages[i].form = "text")
    BY <2>2 DEF Shape
  <2> QED
    BY <2>1, <2>3 DEF Shape, Told
<1>12. Prompt(b, n) = Prompt(d, m)
  BY <1>8, <1>10, <1>11 DEF Prompt, Told
<1>13. Spelling(b, n) = Spelling(d, m)
  <2>1. [i \in 1..n |-> b.messages[i].form = "text"] = [i \in 1..n |-> d.messages[i].form = "text"]
    BY <1>11, Zenon
  <2> QED
    BY <1>8, <1>10, <2>1, Zenon DEF Spelling
<1> QED
  BY <1>12, <1>13

\* Two cuts have one name exactly when one prompt is before them and it is
\* written alike in its tools and in which messages are strings: what one request
\* left under a name is never taken for another's, and marks do not hide it.
THEOREM NamesOfPrompts == Spec => []NamesArePrompts
<1>1. IInv => NamesArePrompts
  <2> SUFFICES ASSUME IInv, NEW p \in known, NEW q \in known
               PROVE  (p.name = q.name) <=> (p.prompt = q.prompt /\ p.spelling = q.spelling)
    BY DEF NamesArePrompts
  <2>1. PICK b \in Bodies : \E n \in PromptCuts(b) : p = Cut(b, n)
    BY DEF IInv, KnownAreCuts
  <2>2. PICK n \in PromptCuts(b) : p.name = CutName(b, n) /\ p.prompt = Prompt(b, n)
                                  /\ p.spelling = Spelling(b, n)
    BY <2>1 DEF Cut
  <2>3. PICK d \in Bodies : \E m \in PromptCuts(d) : q = Cut(d, m)
    BY DEF IInv, KnownAreCuts
  <2>4. PICK m \in PromptCuts(d) : q.name = CutName(d, m) /\ q.prompt = Prompt(d, m)
                                  /\ q.spelling = Spelling(d, m)
    BY <2>3 DEF Cut
  <2>5. n \in 0..Len(b.messages) /\ m \in 0..Len(d.messages)
    BY CutTyped
  <2>6. n \in Nat /\ m \in Nat
    BY <2>5 DEF Bodies
  <2> QED
    BY <2>2, <2>4, <2>5, <2>6, SameSpelling, SameName
<1> QED
  BY <1>1, InitIInv, NextIInv, PTL DEF Spec

-----------------------------------------------------------------------------
\* The name of a conversation.

\* What ends the opening of a conversation.
Ends(m) == m.role \in {"user", "assistant", "none"}

\* A tool message has a call, or at least a turn, before it.
ToolsFollow(ms) ==
    \A i \in 1..Len(ms) : ms[i].role = "tool" => \E j \in 1..Len(ms) : j < i /\ Ends(ms[j])

\* Where the opening ends: at the first user message, before the first reply,
\* or with the messages.
LEMMA OpeningIs ==
  ASSUME NEW ms \in Seq(Message)
  PROVE  /\ Len(Opening(ms)) \in 0..Len(ms)
         /\ \A l \in 1..Len(ms) :
              Ends(ms[l]) /\ (\A j \in 1..Len(ms) : Ends(ms[j]) => l <= j) =>
                  Len(Opening(ms)) = IF ms[l].role = "user" THEN l ELSE l - 1
<1> DEFINE ends == {i \in 1..Len(ms) : ms[i].role \in {"user", "assistant", "none"}}
           last == IF ends = {} THEN Len(ms) ELSE CHOOSE i \in ends : \A j \in ends : i <= j
<1>1. Opening(ms) = IF last > 0 /\ ms[last].role \in {"assistant", "none"}
                    THEN SubSeq(ms, 1, last - 1)
                    ELSE SubSeq(ms, 1, last)
  BY DEF Opening
<1>2. ends \in SUBSET Nat /\ ends \subseteq 1..Len(ms) /\ Len(ms) \in Nat
  OBVIOUS
<1>3. \A l \in 1..Len(ms) : Ends(ms[l]) <=> l \in ends
  BY DEF Ends
<1>4. \A l \in ends : ms[l].role = "user" <=> ms[l].role \notin {"assistant", "none"}
  OBVIOUS
<1> HIDE DEF ends
<1>5. ends # {} => \E i \in ends : \A j \in ends : i <= j
  BY <1>2, LeastOf
<1>6. ends # {} => last \in ends /\ \A j \in ends : last <= j
  BY <1>5
<1>7. ends = {} => last = Len(ms)
  OBVIOUS
<1> HIDE DEF last
<1>8. last \in 0..Len(ms)
  <2>1. CASE ends = {}
    BY <1>2, <1>7, <2>1
  <2>2. CASE ends # {}
    <3>1. last \in 1..Len(ms)
      BY <1>2, <1>6, <2>2
    <3> QED
      BY <1>2, <3>1
  <2> QED
    BY <2>1, <2>2
<1>9. /\ Len(SubSeq(ms, 1, last)) = last
      /\ last > 0 => Len(SubSeq(ms, 1, last - 1)) = last - 1
  BY <1>8
<1>10. Len(Opening(ms)) = IF last > 0 /\ ms[last].role \in {"assistant", "none"}
                          THEN last - 1 ELSE last
  BY <1>1, <1>9
<1>11. ASSUME NEW l \in 1..Len(ms), Ends(ms[l]), \A j \in 1..Len(ms) : Ends(ms[j]) => l <= j
       PROVE  Len(Opening(ms)) = IF ms[l].role = "user" THEN l ELSE l - 1
  <2>1. l \in ends /\ \A j \in ends : l <= j
    BY <1>2, <1>3, <1>11
  <2>2. last \in 1..Len(ms) /\ last <= l /\ l <= last
    BY <1>2, <1>6, <2>1
  <2>3. last = l /\ last > 0
    BY <2>2
  <2> QED
    BY <1>4, <1>10, <2>1, <2>3
<1> QED
  BY <1>8, <1>10, <1>11

\* The name is of as many messages as the opening has.
LEMMA NameIs ==
  ASSUME NEW ms \in Seq(Message)
  PROVE  /\ ConversationId(ms) = [i \in 1..Len(Opening(ms)) |-> <<ms[i].role, Said[ms[i].words]>>]
         /\ Len(ConversationId(ms)) = Len(Opening(ms))
         /\ Len(ConversationId(ms)) \in 0..Len(ms)
<1>1. Len(Opening(ms)) \in 0..Len(ms) /\ Len(ms) \in Nat
  BY OpeningIs
<1>2. ConversationId(ms) = [i \in 1..Len(Opening(ms)) |-> <<ms[i].role, Said[ms[i].words]>>]
  BY DEF ConversationId
<1>3. Len(ConversationId(ms)) = Len(Opening(ms))
  BY <1>1, <1>2
<1> QED
  BY <1>1, <1>2, <1>3

\* Once the opening has ended, more messages leave the name as it is.
LEMMA NameStays ==
  ASSUME NEW ms \in Seq(Message), NEW more \in Seq(Message), Len(more) >= Len(ms),
         \A i \in 1..Len(ms) : Told(more[i]) = Told(ms[i]),
         NEW e \in 1..Len(ms), Ends(ms[e])
  PROVE  ConversationId(more) = ConversationId(ms)
<1>1. Len(ms) \in Nat /\ Len(more) \in Nat
  OBVIOUS
<1>2. \A i \in 1..Len(ms) : more[i].role = ms[i].role /\ more[i].words = ms[i].words
  BY DEF Told
<1>3. PICK l \in 1..Len(ms) : Ends(ms[l]) /\ \A j \in 1..Len(ms) : Ends(ms[j]) => l <= j
  <2> DEFINE all == {i \in 1..Len(ms) : Ends(ms[i])}
  <2>1. all \in SUBSET Nat /\ all # {} /\ \A i : i \in all <=> i \in 1..Len(ms) /\ Ends(ms[i])
    OBVIOUS
  <2> HIDE DEF all
  <2>2. PICK l \in all : \A j \in all : l <= j
    BY <2>1, LeastOf
  <2> QED
    BY <2>1, <2>2
<1>4. l \in 1..Len(more) /\ Ends(more[l]) /\ more[l].role = ms[l].role
  BY <1>1, <1>2, <1>3 DEF Ends
<1>5. ASSUME NEW j \in 1..Len(more), Ends(more[j]) PROVE l <= j
  <2>1. CASE j \in 1..Len(ms)
    BY <1>2, <1>3, <1>5, <2>1 DEF Ends
  <2>2. CASE j \notin 1..Len(ms)
    BY <1>1, <1>3, <2>2
  <2> QED
    BY <2>1, <2>2
<1>6. Len(Opening(more)) = Len(Opening(ms))
  BY <1>3, <1>4, <1>5, OpeningIs
<1>7. \A i \in 1..Len(Opening(ms)) : i \in 1..Len(ms)
  BY <1>1, OpeningIs
<1>8. \A i \in 1..Len(Opening(ms)) :
        <<more[i].role, Said[more[i].words]>> = <<ms[i].role, Said[ms[i].words]>>
  BY <1>2, <1>7
<1> QED
  BY <1>6, <1>8, NameIs

\* A name is that of the messages now, or of system messages that still begin
\* them.
NameHeld(id, ms) ==
    /\ Len(id) \in 0..Len(ms)
    /\ \/ id = ConversationId(ms)
       \/ \A i \in 1..Len(id) : IsSystem(ms[i])

\* What each turn of a client was called, and that its tool messages follow.
Named ==
    \A c \in Clients :
        /\ ToolsFollow(body[c].messages)
        /\ \A i \in 1..turns[c] : NameHeld(name[c][i], body[c].messages)

\* A name that held still holds when messages come behind.
LEMMA NameHoldsOn ==
  ASSUME NEW ms \in Seq(Message), NEW more \in Seq(Message), Len(more) >= Len(ms),
         \A i \in 1..Len(ms) : Told(more[i]) = Told(ms[i]),
         ToolsFollow(ms), NEW id, NameHeld(id, ms)
  PROVE  NameHeld(id, more)
<1>1. Len(ms) \in Nat /\ Len(more) \in Nat /\ Len(id) \in 0..Len(more) /\ Len(id) \in 0..Len(ms)
  BY DEF NameHeld
<1>2. CASE \E e \in 1..Len(ms) : Ends(ms[e])
  <2>1. ConversationId(more) = ConversationId(ms)
    BY <1>2, NameStays
  <2>2. \A i \in 1..Len(id) : IsSystem(ms[i]) => IsSystem(more[i])
    BY <1>1 DEF Told, IsSystem
  <2> QED
    BY <1>1, <2>1, <2>2 DEF NameHeld
<1>3. CASE \A e \in 1..Len(ms) : ~Ends(ms[e])
  <2>1. ASSUME NEW i \in 1..Len(ms) PROVE IsSystem(ms[i])
    <3>1. ms[i] \in Message /\ ms[i].role \in Roles
      <4>1. ms[i] \in Message
        OBVIOUS
      <4> QED
        BY <4>1 DEF Message
    <3>2. ms[i].role # "tool"
      BY <1>3 DEF ToolsFollow
    <3>3. ~Ends(ms[i])
      BY <1>3
    <3> QED
      BY <3>1, <3>2, <3>3 DEF Roles, Ends, IsSystem, SystemRoles
  <2>2. \A i \in 1..Len(ms) : IsSystem(more[i])
    BY <2>1 DEF Told, IsSystem
  <2>3. \A i \in 1..Len(id) : IsSystem(more[i])
    BY <1>1, <2>2
  <2> QED
    BY <1>1, <2>3 DEF NameHeld
<1> QED
  BY <1>2, <1>3

\* Tool messages follow in a longer list if they do in both its parts.
LEMMA ToolsFollowOn ==
  ASSUME NEW b \in Bodies, NEW ms \in Mores, NEW g, IsGrown(g, b, ms),
         ToolsFollow(b.messages), ToolsFollow(ms)
  PROVE  ToolsFollow(g.messages)
<1> DEFINE u   == b.messages
           out == g.messages
<1>1. /\ u \in Seq(Message) /\ ms \in Seq(Message) /\ out \in Seq(Message)
      /\ Len(u) \in Nat /\ Len(ms) \in Nat
  <2>1. g \in Bodies
    BY GrownTyped
  <2> QED
    BY <2>1, MessagesAssumption DEF Bodies
<1>2. /\ Len(out) = Len(u) + Len(ms)
      /\ \A i \in 1..Len(u) : Told(out[i]) = Told(u[i])
      /\ \A i \in 1..Len(ms) : out[Len(u) + i] = ms[i]
  BY GrownTyped
<1>3. ToolsFollow(u)
  OBVIOUS
<1> HIDE DEF u, out
<1>4. ASSUME NEW i \in 1..Len(out), out[i].role = "tool"
      PROVE  \E j \in 1..Len(out) : j < i /\ Ends(out[j])
  <2>1. CASE i \in 1..Len(u)
    <3>1. u[i].role = "tool"
      BY <1>2, <1>4, <2>1 DEF Told
    <3>2. PICK j \in 1..Len(u) : j < i /\ Ends(u[j])
      BY <1>3, <2>1, <3>1 DEF ToolsFollow
    <3>3. Ends(out[j])
      BY <1>2, <3>2 DEF Told, Ends
    <3> QED
      BY <1>1, <1>2, <3>2, <3>3
  <2>2. CASE i \notin 1..Len(u)
    <3>1. i - Len(u) \in 1..Len(ms) /\ Len(u) + (i - Len(u)) = i
      BY <1>1, <1>2, <2>2
    <3>2. ms[i - Len(u)].role = "tool"
      BY <1>2, <1>4, <3>1
    <3>3. PICK j \in 1..Len(ms) : j < i - Len(u) /\ Ends(ms[j])
      BY <3>1, <3>2 DEF ToolsFollow
    <3>4. Ends(out[Len(u) + j]) /\ Len(u) + j \in 1..Len(out) /\ Len(u) + j < i
      BY <1>1, <1>2, <3>1, <3>3
    <3> QED
      BY <3>4
  <2> QED
    BY <2>1, <2>2
<1>5. ToolsFollow(out)
  BY <1>4 DEF ToolsFollow
<1> QED
  BY <1>5 DEF out

\* A request keeps every name its client has.
LEMMA SendNamed ==
  ASSUME IInv, Counted, Named, NEW c \in Clients, NEW b \in Bodies, Send(c, b),
         ToolsFollow(b.messages),
         \A i \in 1..turns[c] : NameHeld(name[c][i], b.messages)
  PROVE  Named'
<1>1. /\ turns' = [turns EXCEPT ![c] = @ + 1]
      /\ body' = [body EXCEPT ![c] = b]
      /\ name' = [name EXCEPT ![c] = Append(@, ConversationId(b.messages))]
  BY DEF Send
<1>2. ASSUME NEW d \in Clients
      PROVE  /\ ToolsFollow(body'[d].messages)
             /\ \A i \in 1..turns'[d] : NameHeld(name'[d][i], body'[d].messages)
  <2>1. CASE d = c
    <3> DEFINE id == ConversationId(b.messages)
    <3>1. name'[c] = Append(name[c], id) /\ turns'[c] = turns[c] + 1 /\ body'[c] = b
      BY <1>1 DEF Counted, IInv, BodyTyped
    <3>2. NameHeld(id, b.messages)
      BY NameIs DEF NameHeld, Bodies
    <3> HIDE DEF id
    <3>3. name[c] \in Seq(Called) /\ Len(name[c]) = turns[c] /\ turns[c] \in Nat
      BY PromptsAssumption DEF Counted
    <3>4. /\ \A i \in 1..turns[c] : name'[c][i] = name[c][i]
          /\ name'[c][turns[c] + 1] = id
      BY <3>1, <3>3
    <3>5. ASSUME NEW i \in 1..turns'[c] PROVE NameHeld(name'[c][i], b.messages)
      <4>1. i \in 1..turns[c] \/ i = turns[c] + 1
        BY <3>1, <3>3
      <4> QED
        BY <3>2, <3>4, <4>1
    <3> QED
      BY <2>1, <3>1, <3>5
  <2>2. CASE d # c
    <3>1. name'[d] = name[d] /\ turns'[d] = turns[d] /\ body'[d] = body[d]
      BY <1>1, <2>2 DEF Counted, IInv, BodyTyped
    <3> QED
      BY <3>1 DEF Named
  <2> QED
    BY <2>1, <2>2
<1> QED
  BY <1>2 DEF Named, ToolsFollow, NameHeld, Ends, ConversationId, Opening, IsSystem

\* A conversation keeps the name of its first turn once that turn had a user
\* message or a reply, when no client sends a tool message with no call before it in
\* what it adds.  Without that a first turn of a tool message alone is named after
\* it, and the second turn otherwise.
THEOREM NamesAreKept ==
  ASSUME \A ms \in Firsts \cup Mores : ToolsFollow(ms)
  PROVE  Spec => []NameIsKept
<1>1. Init => Counted /\ Named
  <2> SUFFICES ASSUME Init PROVE Counted /\ Named
    OBVIOUS
  <2>1. 0 \in 0..MaxTurns /\ <<>> \in Seq(Called) /\ Len(<<>>) = 0
    BY PromptsAssumption
  <2>2. ToolsFollow(NoBody.messages)
    BY DEF ToolsFollow, NoBody
  <2> QED
    BY <2>1, <2>2 DEF Init, Counted, Named
<1>2. IInv /\ Counted /\ Named /\ [Next]_vars => Counted' /\ Named'
  <2> SUFFICES ASSUME IInv, Counted, Named, [Next]_vars PROVE Counted' /\ Named'
    OBVIOUS
  <2>1. CASE UNCHANGED vars
    <3>1. Counted'
      BY <2>1, CutsLater DEF vars, Counted
    <3>2. ASSUME NEW c \in Clients
          PROVE  /\ ToolsFollow(body'[c].messages)
                 /\ \A i \in 1..turns'[c] : NameHeld(name'[c][i], body'[c].messages)
      BY <2>1 DEF vars, Named
    <3>3. Named'
      BY <3>2 DEF Named, ToolsFollow, NameHeld, Ends, ConversationId, Opening, IsSystem
    <3> QED
      BY <3>1, <3>3
  <2>2. CASE Next
    <3>1. PICK c \in Clients, b \in Bodies :
              /\ Send(c, b)
              /\ \/ turns[c] = 0 /\ b.messages \in Firsts
                 \/ turns[c] > 0 /\ \E ms \in Mores : IsGrown(b, body[c], ms)
      BY <2>2, Requests
    <3>2. Counted'
      BY <3>1, SendCounted
    <3>3. ToolsFollow(b.messages) /\ \A i \in 1..turns[c] : NameHeld(name[c][i], b.messages)
      <4>1. CASE turns[c] = 0 /\ b.messages \in Firsts
        BY <4>1
      <4>2. CASE turns[c] > 0 /\ \E ms \in Mores : IsGrown(b, body[c], ms)
        <5>1. PICK ms \in Mores : IsGrown(b, body[c], ms)
          BY <4>2
        <5>2. body[c] \in Bodies /\ ToolsFollow(body[c].messages) /\ ToolsFollow(ms)
          BY DEF IInv, BodyTyped, Named
        <5>3. ToolsFollow(b.messages)
          BY <5>1, <5>2, ToolsFollowOn
        <5>4. body[c].messages \in Seq(Message) /\ b.messages \in Seq(Message)
          BY <5>2 DEF Bodies
        <5>5. /\ Len(b.messages) >= Len(body[c].messages)
              /\ \A i \in 1..Len(body[c].messages) :
                   Told(b.messages[i]) = Told(body[c].messages[i])
          BY <5>1, <5>2, GrownIsLonger
        <5>6. \A i \in 1..turns[c] : NameHeld(name[c][i], body[c].messages)
          BY DEF Named
        <5> QED
          BY <5>2, <5>3, <5>4, <5>5, <5>6, NameHoldsOn
      <4> QED
        BY <3>1, <4>1, <4>2
    <3>4. Named'
      BY <3>1, <3>3, SendNamed
    <3> QED
      BY <3>2, <3>4
  <2> QED
    BY <2>1, <2>2
<1>3. IInv /\ Counted /\ Named => NameIsKept
  <2> SUFFICES ASSUME IInv, Counted, Named, NEW c \in Clients, NEW i \in 1..turns[c],
                      name[c][i] # ConversationId(body[c].messages),
                      NEW m \in Range(SubSeq(body[c].messages, 1, Len(name[c][i])))
               PROVE  IsSystem(m)
    BY DEF NameIsKept
  <2> DEFINE ms == body[c].messages
             n  == Len(name[c][i])
  <2>1. ms \in Seq(Message) /\ NameHeld(name[c][i], ms)
    BY DEF IInv, BodyTyped, Bodies, Named
  <2>2. n \in 0..Len(ms) /\ \A j \in 1..n : IsSystem(ms[j])
    BY <2>1 DEF NameHeld
  <2>3. m \in Range(SubSeq(ms, 1, n))
    OBVIOUS
  <2> HIDE DEF ms, n
  <2>4. PICK j \in 1..n : m = ms[j]
    <3>1. Len(SubSeq(ms, 1, n)) = n /\ \A j \in 1..n : SubSeq(ms, 1, n)[j] = ms[j]
      BY <2>1, <2>2
    <3>2. DOMAIN SubSeq(ms, 1, n) = 1..n
      BY <2>1, <2>2
    <3> QED
      BY <2>3, <3>1, <3>2 DEF Range
  <2> QED
    BY <2>2, <2>4
<1> QED
  BY <1>1, <1>2, <1>3, InitIInv, NextIInv, PTL DEF Spec

=============================================================================
