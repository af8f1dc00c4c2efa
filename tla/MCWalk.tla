------------------------------- MODULE MCWalk -------------------------------
(***************************************************************************)
(* Three rooms in a row, south to north, with no exit south of the first   *)
(* and one north of the last that leads back into it, tiles in the second, *)
(* and walks of one and of two steps, typed and clicked.                   *)
(***************************************************************************)
EXTENDS Walk

MCExit ==
    [e \in {1, 2, 3} \X {"n", "s"} |->
        IF e[2] = "n" THEN (IF e[1] < 3 THEN e[1] + 1 ELSE 3) ELSE e[1] - 1]

Typed(steps, rest) == [steps |-> steps, start |-> 0, rooms |-> <<>>, rest |-> rest]
Clicked(steps, start, rooms) ==
    [steps |-> steps, start |-> start, rooms |-> rooms, rest |-> FALSE]

MCPlans == {Typed(<<"n", "n">>, TRUE), Typed(<<"s">>, FALSE),
            Clicked(<<"n", "n">>, 1, <<2, 3>>)}
=============================================================================
