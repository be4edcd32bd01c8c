----------------------------- MODULE GuestNames -----------------------------
(***************************************************************************)
(* What a guest that mounts the share with cache=loose (nix/guest/init)    *)
(* finds under a program's name.  A name it resolved once stays in its     *)
(* dentry cache as it was; a name that was missing is looked up again.     *)
(***************************************************************************)
EXTENDS StoreShare

VARIABLE cached  \* the link the guest holds for each name, or NoPath

nameVars == <<vars, cached>>

NamesInit == Init /\ cached = [n \in Names |-> NoPath]

\* The shell resolves a name: from the cache, or through 9p.
Resolve(n) ==
    /\ phase = "running"
    /\ cached' = [cached EXCEPT ![n] = OrElse(cached[n], farm[n])]
    /\ UNCHANGED vars

NamesNext ==
    \/ Next /\ UNCHANGED cached
    \/ \E n \in Names : Resolve(n)

NamesSpec == NamesInit /\ [][NamesNext]_nameVars
-----------------------------------------------------------------------------
\* Whatever the guest still holds runs: a link the page replaced under the
\* guest's feet leads to a path that is still in the share.
CachedStillRuns ==
    \A n \in Names : cached[n] # NoPath =>
        cached[n] \in written /\ n \in Programs[cached[n]]
=============================================================================
