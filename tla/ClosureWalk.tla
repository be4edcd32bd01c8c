----------------------------- MODULE ClosureWalk -----------------------------
(***************************************************************************)
(* walkRoots (site/js/app.js) over walkClosure (site/js/closure.js), as    *)
(* run by addToRunningVM: several adds may be under way at once, because   *)
(* any change of the selection enables the button again.  All of them      *)
(* share the page's map of mounted paths.                                  *)
(*                                                                         *)
(* A frontier is a set: the order of References only decides which digests *)
(* share a batch, and every choice of batch is explored.                   *)
(***************************************************************************)
EXTENDS Integers, FiniteSets

CONSTANTS
    Digests,
    Refs,
    Calls,
    Selections,       \* the sets of roots a call may be given
    FetchConcurrency  \* FETCH_CONCURRENCY: narinfos in flight at a time

ASSUME WalkAssumption ==
    /\ Refs \in [Digests -> SUBSET Digests]
    /\ Selections \subseteq SUBSET Digests
    /\ FetchConcurrency \in Nat \ {0}

VARIABLES
    mounted,   \* the page's map of what the guest has (its keys)
    pc,        \* where each call is
    roots,     \* the digests walkRoots was given
    todo,      \* those it has still to walk
    closure,   \* walkRoots' map: a copy of mounted, and what it added
    found,     \* walkClosure's map for the current root
    enqueued,  \* walkClosure's set of digests ever queued
    frontier,  \* what is left of the current level
    batch,     \* the slice whose narinfos are in flight
    next,      \* the level after it
    fresh      \* what walkRoots returned

walkVars == <<found, enqueued, frontier, batch, next>>
vars == <<mounted, pc, roots, todo, closure, fresh, walkVars>>

Init ==
    /\ mounted \in {S \in SUBSET Digests : \A d \in S : Refs[d] \subseteq S}
    /\ pc = [c \in Calls |-> "idle"]
    /\ roots = [c \in Calls |-> {}]
    /\ todo = [c \in Calls |-> {}]
    /\ closure = [c \in Calls |-> {}]
    /\ found = [c \in Calls |-> {}]
    /\ enqueued = [c \in Calls |-> {}]
    /\ frontier = [c \in Calls |-> {}]
    /\ batch = [c \in Calls |-> {}]
    /\ next = [c \in Calls |-> {}]
    /\ fresh = [c \in Calls |-> {}]

\* The call ends: nothing of it survives but what it mounted.
Forget(c) ==
    /\ pc' = [pc EXCEPT ![c] = "idle"]
    /\ roots' = [roots EXCEPT ![c] = {}]
    /\ todo' = [todo EXCEPT ![c] = {}]
    /\ closure' = [closure EXCEPT ![c] = {}]
    /\ found' = [found EXCEPT ![c] = {}]
    /\ enqueued' = [enqueued EXCEPT ![c] = {}]
    /\ frontier' = [frontier EXCEPT ![c] = {}]
    /\ batch' = [batch EXCEPT ![c] = {}]
    /\ next' = [next EXCEPT ![c] = {}]
    /\ fresh' = [fresh EXCEPT ![c] = {}]

\* walkRoots starts from a copy of what is mounted now.
Start(c, S) ==
    /\ pc[c] = "idle"
    /\ pc' = [pc EXCEPT ![c] = "roots"]
    /\ roots' = [roots EXCEPT ![c] = S]
    /\ todo' = [todo EXCEPT ![c] = S]
    /\ closure' = [closure EXCEPT ![c] = mounted]
    /\ UNCHANGED <<mounted, fresh, walkVars>>

\* walkClosure is called for the next root; a known one costs nothing.
NextRoot(c, d) ==
    /\ pc[c] = "roots"
    /\ d \in todo[c]
    /\ todo' = [todo EXCEPT ![c] = @ \ {d}]
    /\ \/ /\ d \in closure[c]
          /\ UNCHANGED <<pc, walkVars>>
       \/ /\ d \notin closure[c]
          /\ pc' = [pc EXCEPT ![c] = "walking"]
          /\ found' = [found EXCEPT ![c] = {}]
          /\ enqueued' = [enqueued EXCEPT ![c] = {d} \cup closure[c]]
          /\ frontier' = [frontier EXCEPT ![c] = {d}]
          /\ UNCHANGED <<batch, next>>
    /\ UNCHANGED <<mounted, roots, closure, fresh>>

\* A slice of the frontier is asked for: a full one, or all that is left.
Request(c, b) ==
    /\ pc[c] = "walking"
    /\ batch[c] = {}
    /\ b # {}
    /\ b \subseteq frontier[c]
    /\ \/ Cardinality(b) = FetchConcurrency
       \/ b = frontier[c] /\ Cardinality(b) < FetchConcurrency
    /\ batch' = [batch EXCEPT ![c] = b]
    /\ frontier' = [frontier EXCEPT ![c] = @ \ b]
    /\ UNCHANGED <<mounted, pc, roots, todo, closure, found, enqueued, next, fresh>>

\* Mutant: references are queued again each time they are met.
UnseenAgain(c) == UNION {Refs[d] : d \in batch[c]}

\* References of the batch that the walk has not queued yet.
Unseen(c) == (UNION {Refs[d] : d \in batch[c]}) \ enqueued[c]

\* Promise.all resolves: the batch is recorded and its references queued.
Answer(c) ==
    /\ pc[c] = "walking"
    /\ batch[c] # {}
    /\ found' = [found EXCEPT ![c] = @ \cup batch[c]]
    /\ enqueued' = [enqueued EXCEPT ![c] = @ \cup Unseen(c)]
    /\ next' = [next EXCEPT ![c] = @ \cup Unseen(c)]
    /\ batch' = [batch EXCEPT ![c] = {}]
    /\ UNCHANGED <<mounted, pc, roots, todo, closure, frontier, fresh>>

\* One narinfo of the batch is nowhere, or unreadable: the walk throws.
Refused(c) ==
    /\ pc[c] = "walking"
    /\ batch[c] # {}
    /\ Forget(c)
    /\ UNCHANGED mounted

NextLevel(c) ==
    /\ pc[c] = "walking"
    /\ batch[c] = {}
    /\ frontier[c] = {}
    /\ next[c] # {}
    /\ frontier' = [frontier EXCEPT ![c] = next[c]]
    /\ next' = [next EXCEPT ![c] = {}]
    /\ UNCHANGED <<mounted, pc, roots, todo, closure, found, enqueued, batch, fresh>>

\* Mutant: the map of the last root replaces those of the roots before it.
EndRootReplaces(c) ==
    /\ pc[c] = "walking"
    /\ batch[c] = {} /\ frontier[c] = {} /\ next[c] = {}
    /\ closure' = [closure EXCEPT ![c] = found[c]]
    /\ found' = [found EXCEPT ![c] = {}]
    /\ enqueued' = [enqueued EXCEPT ![c] = {}]
    /\ pc' = [pc EXCEPT ![c] = "roots"]
    /\ UNCHANGED <<mounted, roots, todo, fresh, frontier, batch, next>>

\* walkClosure returns, and walkRoots merges its map; the walk's own
\* variables go out of scope.
EndRoot(c) ==
    /\ pc[c] = "walking"
    /\ batch[c] = {} /\ frontier[c] = {} /\ next[c] = {}
    /\ closure' = [closure EXCEPT ![c] = @ \cup found[c]]
    /\ found' = [found EXCEPT ![c] = {}]
    /\ enqueued' = [enqueued EXCEPT ![c] = {}]
    /\ pc' = [pc EXCEPT ![c] = "roots"]
    /\ UNCHANGED <<mounted, roots, todo, fresh, frontier, batch, next>>

\* Mutant: what the guest has is returned along with the rest.
ReturnAll(c) ==
    /\ pc[c] = "roots"
    /\ todo[c] = {}
    /\ fresh' = [fresh EXCEPT ![c] = closure[c]]
    /\ pc' = [pc EXCEPT ![c] = "unpacking"]
    /\ UNCHANGED <<mounted, roots, todo, closure, walkVars>>

\* walkRoots returns what the guest lacks, as the guest is by now.
Return(c) ==
    /\ pc[c] = "roots"
    /\ todo[c] = {}
    /\ fresh' = [fresh EXCEPT ![c] = closure[c] \ mounted]
    /\ pc' = [pc EXCEPT ![c] = "unpacking"]
    /\ UNCHANGED <<mounted, roots, todo, closure, walkVars>>

\* Every archive is in the share: the map of mounted paths takes them in.
Unpacked(c) ==
    /\ pc[c] = "unpacking"
    /\ mounted' = mounted \cup fresh[c]
    /\ Forget(c)

\* An archive failed: the add reports it and mounts nothing.
UnpackFails(c) ==
    /\ pc[c] = "unpacking"
    /\ fresh[c] # {}
    /\ Forget(c)
    /\ UNCHANGED mounted

Walk(c) ==
    \/ \E d \in Digests : NextRoot(c, d)
    \/ \E b \in SUBSET Digests : Request(c, b)
    \/ Answer(c)
    \/ Refused(c)
    \/ NextLevel(c)
    \/ EndRoot(c)
    \/ Return(c)
    \/ Unpacked(c)
    \/ UnpackFails(c)

Next ==
    \E c \in Calls :
        \/ \E S \in Selections : Start(c, S)
        \/ Walk(c)

Spec == Init /\ [][Next]_vars
FairSpec == Spec /\ \A c \in Calls : WF_vars(Walk(c))
-----------------------------------------------------------------------------
TypeOK ==
    /\ mounted \in SUBSET Digests
    /\ pc \in [Calls -> {"idle", "roots", "walking", "unpacking"}]
    /\ roots \in [Calls -> SUBSET Digests]
    /\ todo \in [Calls -> SUBSET Digests]
    /\ closure \in [Calls -> SUBSET Digests]
    /\ found \in [Calls -> SUBSET Digests]
    /\ enqueued \in [Calls -> SUBSET Digests]
    /\ frontier \in [Calls -> SUBSET Digests]
    /\ batch \in [Calls -> SUBSET Digests]
    /\ next \in [Calls -> SUBSET Digests]
    /\ fresh \in [Calls -> SUBSET Digests]

\* What the page is asked to reach, stated over the abstract specification.
Phase == [c \in Calls |-> IF pc[c] \in {"roots", "walking"} THEN "walking" ELSE pc[c]]
Abs == INSTANCE Closure WITH phase <- Phase

\* The paths the guest has are closed under references at every moment,
\* whatever adds overlap: no program is ever mounted without a library it
\* needs (mounted.set in addToRunningVM).
MountedClosed == Abs!Closed(mounted)

\* No call asks twice for a narinfo, and none for a path it knew: what is
\* in flight was never recorded, and is not still waiting in the walk.
AskedOnce ==
    \A c \in Calls :
        batch[c] \cap (found[c] \cup closure[c] \cup frontier[c] \cup next[c]) = {}

\* A call that returned and has not failed can be unpacked on its own: its
\* paths, with what the guest has by now, close around the roots.
FreshCompletes ==
    \A c \in Calls : pc[c] = "unpacking" =>
        /\ Abs!Closed(mounted \cup fresh[c])
        /\ roots[c] \subseteq mounted \cup fresh[c]

\* The batched walk implements the one-step closure.
Implements == Abs!AbsSpec

\* Every call ends, once each fetch it waits for is answered or refused.
WalkEnds == \A c \in Calls : pc[c] # "idle" ~> pc[c] = "idle"
=============================================================================
