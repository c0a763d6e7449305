--------------------------- MODULE MCWorkflowExecute ---------------------------
(***************************************************************************)
(* Small workflows.                                                        *)
(***************************************************************************)
EXTENDS WorkflowExecute

Connection(from, output, to, input) ==
    [from |-> from, output |-> output, to |-> to, input |-> input]

\* A workflow that sets nothing but its connections.
Plain(connections) ==
    LET nodes == UNION { {c.from, c.to} : c \in ToSet(connections) }
    IN  [nodes |-> nodes, start |-> "start", connections |-> connections,
         required |-> [n \in nodes |-> {}],
         atLeast |-> [n \in nodes |-> 0],
         maxTries |-> [n \in nodes |-> 1],
         continues |-> {},
         errorOutput |-> [n \in nodes |-> 0],
         alwaysOutput |-> {}, waits |-> {}, quiet |-> {}]

\* Two branches that meet.
Diamond ==
    [Plain(<<Connection("start", 2, "b", 1), Connection("start", 1, "a", 1),
             Connection("a", 1, "merge", 1), Connection("b", 1, "merge", 2),
             Connection("merge", 1, "end", 1)>>)
        EXCEPT !.maxTries["a"] = 2, !.continues = {"b"}, !.errorOutput["a"] = 1,
               !.waits = {"b"}]

\* The same where the merge requires both.
StrictDiamond == [Diamond EXCEPT !.required["merge"] = {1, 2}, !.alwaysOutput = {"a"},
                                 !.maxTries["b"] = 3, !.errorOutput["b"] = 1]

\* A merge that gets two batches on each input, one of which may be missing.
Pairs ==
    Plain(<<Connection("start", 1, "d", 1), Connection("start", 1, "c", 1),
            Connection("start", 1, "b", 1), Connection("start", 1, "a", 1),
            Connection("a", 1, "merge", 1), Connection("b", 1, "merge", 1),
            Connection("c", 1, "merge", 2), Connection("d", 1, "merge", 2)>>)

\* Merges one after the other, the later of which waits first or last.
Chain(first, second) ==
    [Plain(<<Connection("start", 1, first, 1), Connection("start", 1, second, 1),
             Connection("start", 2, "a", 1), Connection("a", 1, "m1", 2),
             Connection("m1", 1, "m2", 2), Connection("m2", 1, "end", 1)>>)
        EXCEPT !.waits = {"a"}]

\* Three inputs, of which the first is required.
Three ==
    [Plain(<<Connection("start", 3, "c", 1), Connection("start", 2, "b", 1),
             Connection("start", 1, "merge", 1), Connection("b", 1, "merge", 2),
             Connection("c", 1, "merge", 3)>>)
        EXCEPT !.required["merge"] = {1}]

\* A merge of three inputs, two of which must have data, and the second of which is
\* connected to nothing; and a node that is connected at its second input only.
Gap ==
    [Plain(<<Connection("start", 2, "b", 1), Connection("start", 1, "a", 1),
             Connection("a", 1, "merge", 1), Connection("b", 1, "merge", 3),
             Connection("a", 2, "end", 2)>>)
        EXCEPT !.atLeast["merge"] = 2, !.maxTries["a"] = 2, !.errorOutput["a"] = 2,
               !.alwaysOutput = {"a"}]

\* A loop over batches, whose node returns null in the end.
Loop ==
    [Plain(<<Connection("start", 1, "loop", 1), Connection("loop", 1, "body", 1),
             Connection("loop", 1, "merge", 2), Connection("body", 1, "merge", 1),
             Connection("merge", 1, "loop", 1), Connection("loop", 2, "end", 1)>>)
        EXCEPT !.quiet = {"loop"}, !.waits = {"body"}]

Small == {Diamond, StrictDiamond, Pairs, Chain("m1", "m2"), Chain("m2", "m1"), Three, Gap,
          Loop}

\* Three batches for the first input of a merge, and one for the second after two.
Lopsided ==
    Plain(<<Connection("start", 1, "d", 1), Connection("start", 1, "c", 1),
            Connection("start", 1, "b", 1), Connection("start", 1, "a", 1),
            Connection("a", 1, "merge", 1), Connection("b", 1, "merge", 1),
            Connection("c", 1, "merge", 2), Connection("d", 1, "merge", 1)>>)

OnlyLopsided == {Lopsided}

\* A merge of three inputs that gets three batches for the first, three for the
\* second, two for the third and then another one for the first.
Crowded ==
    Plain(<<Connection("start", 1, "merge", 1), Connection("start", 2, "merge", 1),
            Connection("start", 3, "merge", 1), Connection("start", 4, "merge", 2),
            Connection("start", 5, "merge", 2), Connection("start", 6, "merge", 2),
            Connection("start", 7, "c", 1), Connection("start", 7, "b", 1),
            Connection("start", 7, "a", 1), Connection("a", 1, "merge", 3),
            Connection("b", 1, "merge", 3), Connection("c", 1, "merge", 1)>>)

OnlyCrowded == {Crowded}
===============================================================================
