----------------------------- MODULE MCPrompts -----------------------------
(* Instances of Prompts for TLC. *)
EXTENDS Prompts, TLC

\* "image" has a size and a text of nothing, and is still part of the prompt.
Lengths == ("" :> 0) @@ ("image" :> 0) @@ ("line" :> 1) @@ ("page" :> 3)
           @@ ("tool" :> 1) @@ ("marked tool" :> 2)
Texts   == ("" :> "") @@ ("image" :> "") @@ ("line" :> "line") @@ ("page" :> "page")
           @@ ("tool" :> "") @@ ("marked tool" :> "")

\* A mark is as long as a line, and a cut may stand or fall with it.
LengthOfForms == ("text" :> 0) @@ ("blocks" :> 1) @@ ("marked" :> 2)

AsTemplatesSee == [w \in DOMAIN Lengths |-> IF w = "marked tool" THEN "tool" ELSE w]

M(role, words) == [role |-> role, words |-> words, call |-> FALSE, form |-> "text"]
Blocks(m)      == [m EXCEPT !.form = "blocks"]
Marked(m)      == [m EXCEPT !.form = "marked"]
Call           == [M("assistant", "line") EXCEPT !.call = TRUE]

AllHeads == {[template |-> 0, system |-> "", tools |-> ""],
             [template |-> 0, system |-> "page", tools |-> "tool"],
             [template |-> 0, system |-> "", tools |-> "marked tool"],
             [template |-> 1, system |-> "page", tools |-> ""]}

\* A user's line reaches the bar of four only with its mark and another line.
AllFirsts == {
    <<Marked(M("user", "page"))>>,
    <<M("user", "line"), Marked(M("system", "line"))>>,
    <<M("system", "page"), Blocks(M("user", "line"))>>,
    <<M("system", "line"), M("developer", "line"), Marked(M("user", "image"))>>}

AllMores == {
    <<M("assistant", "line"), Blocks(M("system", "line")), Marked(M("user", "line"))>>,
    <<Marked(Call)>>,
    <<Marked(Call), M("tool", "line")>>,
    <<M("user", "page"), M("none", ""), M("user", "line")>>}

=============================================================================
