------------------------------- MODULE Closure -------------------------------
(***************************************************************************)
(* What a closure walk promises: the runtime closures a page adds to its   *)
(* guest are exactly what the selected roots reach, less what the guest    *)
(* already has.  ClosureWalk implements this with batched narinfo fetches. *)
(***************************************************************************)

CONSTANTS
    Digests,  \* store path digests
    Refs,     \* Refs[d]: digests in the References line of d's narinfo
    Calls     \* concurrent calls of walkRoots

VARIABLES
    mounted,  \* digests the running guest has
    roots,    \* the digests each call was asked for
    fresh,    \* what each call returned: the paths to download
    phase     \* "idle", "walking" or "unpacking", for each call

absVars == <<mounted, roots, fresh, phase>>

\* A set of paths is closed when it holds whatever its members reference.
Closed(S) == \A d \in S : Refs[d] \subseteq S

\* The runtime closure of S: the least closed set around it.
Reach(S) ==
    {d \in Digests : \A C \in SUBSET Digests : S \subseteq C /\ Closed(C) => d \in C}

AbsInit ==
    /\ mounted \in {Reach(S) : S \in SUBSET Digests}
    /\ roots = [c \in Calls |-> {}]
    /\ fresh = [c \in Calls |-> {}]
    /\ phase = [c \in Calls |-> "idle"]

Begin(c, S) ==
    /\ phase[c] = "idle"
    /\ roots' = [roots EXCEPT ![c] = S]
    /\ phase' = [phase EXCEPT ![c] = "walking"]
    /\ UNCHANGED <<mounted, fresh>>

Deliver(c) ==
    /\ phase[c] = "walking"
    /\ fresh' = [fresh EXCEPT ![c] = Reach(roots[c]) \ mounted]
    /\ phase' = [phase EXCEPT ![c] = "unpacking"]
    /\ UNCHANGED <<mounted, roots>>

Mount(c) ==
    /\ phase[c] = "unpacking"
    /\ mounted' = mounted \cup fresh[c]
    /\ phase' = [phase EXCEPT ![c] = "idle"]
    /\ roots' = [roots EXCEPT ![c] = {}]
    /\ fresh' = [fresh EXCEPT ![c] = {}]

GiveUp(c) ==
    /\ phase[c] \in {"walking", "unpacking"}
    /\ phase' = [phase EXCEPT ![c] = "idle"]
    /\ roots' = [roots EXCEPT ![c] = {}]
    /\ fresh' = [fresh EXCEPT ![c] = {}]
    /\ UNCHANGED mounted

AbsNext ==
    \E c \in Calls :
        \/ \E S \in SUBSET Digests : Begin(c, S)
        \/ Deliver(c)
        \/ Mount(c)
        \/ GiveUp(c)

AbsSpec == AbsInit /\ [][AbsNext]_absVars
=============================================================================
