----------------------------- MODULE MCNarFetch -----------------------------
(* One boot that downloads two at a time, one whose archive is not           *)
(* compressed, or two boots, one worker each, whose closures share a path,   *)
(* in two tabs or one after the other in one.                                *)
EXTENDS NarFetch, TLC

CONSTANTS tab, window, first, again, other, lone, one, two, plain

MCPageOf == [b \in Boots |-> IF b = other THEN window ELSE tab]
MCArchives ==
    [b \in Boots |-> CASE b = first -> <<one, two>> [] b = lone -> <<plain>> [] OTHER -> <<one>>]
Crew(sizes) == [b \in Boots |-> IF b \in DOMAIN sizes THEN sizes[b] ELSE 0]
MCCrews ==
    {Crew(first :> 2), Crew(lone :> 1), Crew(again :> 1 @@ other :> 1), Crew(first :> 1 @@ again :> 1)}
\* Nothing from earlier visits, or a bad copy of everything.
MCEarlier == {[i \in Items |-> copy] : copy \in {"none", "bad"}}
MCCompression == [i \in Items |-> IF i = plain THEN "none" ELSE "xz"]
=============================================================================
