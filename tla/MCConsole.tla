----------------------------- MODULE MCConsole -----------------------------
(* A window with and without the soft keyboard, two faces.               *)
EXTENDS Console

MCGrid == [p \in {"tall", "short"} \X (13..14) |->
    <<IF p[1] = "tall" THEN 40 ELSE 20, IF p[2] = 14 THEN 43 ELSE 50>>]
MCTyped == {<<97>>, <<97, 98>>}
MCUnits == {"m1", "m2", "."}
MCMarker == <<"m1", "m2">>
MCChunks == {<<".">>, <<".", ".">>}
=============================================================================
