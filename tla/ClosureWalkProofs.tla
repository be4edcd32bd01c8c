-------------------------- MODULE ClosureWalkProofs --------------------------
(***************************************************************************)
(* For every reference graph, every batch width and any number of          *)
(* overlapping calls: the walk is type correct, never asks twice, keeps    *)
(* the mounted paths closed, and implements Closure.                       *)
(***************************************************************************)
EXTENDS ClosureWalk, TLAPS

Closed(S) == Abs!Closed(S)
Reach(S) == Abs!Reach(S)

\* What a call holds queued or recorded for its current root.
Held(c) == found[c] \cup batch[c] \cup frontier[c] \cup next[c]

\* The walk of one root is under way.
WalkingInv(c) ==
    /\ enqueued[c] = closure[c] \cup Held(c)
    /\ Held(c) \subseteq Reach(roots[c])
    /\ \A d \in found[c] : Refs[d] \subseteq enqueued[c]
    /\ closure[c] \cap Held(c) = {}
    /\ batch[c] \cap (found[c] \cup frontier[c] \cup next[c]) = {}
    /\ frontier[c] \cap (found[c] \cup next[c]) = {}
    /\ found[c] \cap next[c] = {}

\* A call between its start and its return.
StartedInv(c) ==
    /\ todo[c] \subseteq roots[c]
    /\ Closed(closure[c])
    /\ closure[c] \subseteq mounted \cup Reach(roots[c])
    /\ roots[c] \subseteq todo[c] \cup closure[c] \cup Held(c)
    /\ fresh[c] = {}

\* A call that walks nothing holds nothing.
Empty(c) == found[c] = {} /\ batch[c] = {} /\ frontier[c] = {} /\ next[c] = {}

CallInv(c) ==
    /\ pc[c] \in {"roots", "walking"} => StartedInv(c)
    /\ pc[c] = "walking" => WalkingInv(c)
    /\ pc[c] # "walking" => Empty(c)
    /\ pc[c] = "idle" => roots[c] = {} /\ fresh[c] = {}
    /\ pc[c] = "unpacking" =>
        /\ Closed(mounted \cup fresh[c])
        /\ roots[c] \subseteq mounted \cup fresh[c]

\* The inductive invariant.
IInv == Closed(mounted) /\ \A c \in Calls : CallInv(c)

-----------------------------------------------------------------------------
\* The closure contains its roots and lies among the digests.
LEMMA ReachContains ==
    ASSUME NEW S \in SUBSET Digests
    PROVE  S \subseteq Reach(S) /\ Reach(S) \in SUBSET Digests
BY DEF Reach, Abs!Reach

\* The closure is closed.
LEMMA ReachClosed ==
    ASSUME NEW S \in SUBSET Digests
    PROVE  Closed(Reach(S))
<1> SUFFICES ASSUME NEW d \in Reach(S), NEW e \in Refs[d]
             PROVE  e \in Reach(S)
    BY DEF Closed, Abs!Closed
<1>1. d \in Digests /\ e \in Digests
    BY WalkAssumption DEF Reach, Abs!Reach
<1>2. ASSUME NEW C \in SUBSET Digests, S \subseteq C, Abs!Closed(C)
      PROVE  e \in C
    BY <1>2 DEF Reach, Abs!Reach, Abs!Closed
<1> QED BY <1>1, <1>2 DEF Reach, Abs!Reach

\* The closure is the least closed set around its roots.
LEMMA ReachLeast ==
    ASSUME NEW S, NEW C \in SUBSET Digests, S \subseteq C, Closed(C)
    PROVE  Reach(S) \subseteq C
BY DEF Reach, Closed, Abs!Reach

\* Two closed sets make a closed set.
LEMMA ClosedUnion ==
    ASSUME NEW S, NEW T, Closed(S), Closed(T)
    PROVE  Closed(S \cup T)
BY DEF Closed, Abs!Closed

-----------------------------------------------------------------------------
\* Every variable keeps its type.
THEOREM TypeCorrect == Spec => []TypeOK
<1>1. Init => TypeOK
    BY DEF Init, TypeOK
<1>2. TypeOK /\ [Next]_vars => TypeOK'
    <2> SUFFICES ASSUME TypeOK, [Next]_vars PROVE TypeOK'
        OBVIOUS
    <2> USE DEF TypeOK, walkVars
    <2>1. ASSUME NEW c \in Calls, NEW S \in Selections, Start(c, S)
          PROVE  TypeOK'
        BY <2>1, WalkAssumption DEF Start
    <2>2. ASSUME NEW c \in Calls, NEW d \in Digests, NextRoot(c, d)
          PROVE  TypeOK'
        BY <2>2 DEF NextRoot
    <2>3. ASSUME NEW c \in Calls, NEW b \in SUBSET Digests, Request(c, b)
          PROVE  TypeOK'
        BY <2>3 DEF Request
    <2>4. ASSUME NEW c \in Calls, Answer(c)
          PROVE  TypeOK'
        <3>1. Unseen(c) \in SUBSET Digests
            BY WalkAssumption DEF Unseen
        <3> QED BY <2>4, <3>1 DEF Answer
    <2>5. ASSUME NEW c \in Calls, Refused(c)
          PROVE  TypeOK'
        BY <2>5 DEF Refused, Forget
    <2>6. ASSUME NEW c \in Calls, NextLevel(c)
          PROVE  TypeOK'
        BY <2>6 DEF NextLevel
    <2>7. ASSUME NEW c \in Calls, EndRoot(c)
          PROVE  TypeOK'
        BY <2>7 DEF EndRoot
    <2>8. ASSUME NEW c \in Calls, Return(c)
          PROVE  TypeOK'
        BY <2>8 DEF Return
    <2>9. ASSUME NEW c \in Calls, Unpacked(c)
          PROVE  TypeOK'
        BY <2>9 DEF Unpacked, Forget
    <2>10. ASSUME NEW c \in Calls, UnpackFails(c)
           PROVE  TypeOK'
        BY <2>10 DEF UnpackFails, Forget
    <2>11. CASE UNCHANGED vars
        BY <2>11 DEF vars
    <2> QED
        BY <2>1, <2>2, <2>3, <2>4, <2>5, <2>6, <2>7, <2>8, <2>9, <2>10, <2>11
        DEF Next, Walk
<1> QED BY <1>1, <1>2, PTL DEF Spec


-----------------------------------------------------------------------------
\* A call is not disturbed by the steps of another, which only ever add
\* closed sets to what is mounted.
LEMMA OtherCall ==
    ASSUME TypeOK, NEW k \in Calls, CallInv(k),
           mounted \subseteq mounted', Closed(mounted'),
           pc'[k] = pc[k], roots'[k] = roots[k], todo'[k] = todo[k],
           closure'[k] = closure[k], found'[k] = found[k],
           enqueued'[k] = enqueued[k], frontier'[k] = frontier[k],
           batch'[k] = batch[k], next'[k] = next[k], fresh'[k] = fresh[k]
    PROVE  CallInv(k)'
<1>1. Held(k)' = Held(k)
    BY DEF Held
<1>2. StartedInv(k) => StartedInv(k)'
    BY <1>1 DEF StartedInv, Closed, Reach, Abs!Closed, Abs!Reach
<1>3. WalkingInv(k) => WalkingInv(k)'
    BY <1>1 DEF WalkingInv, Reach, Abs!Reach
<1>4. Empty(k) => Empty(k)'
    BY DEF Empty
<1>5. Closed(mounted \cup fresh[k]) => Closed(mounted' \cup fresh'[k])
    BY DEF Closed, Abs!Closed
<1> QED
    BY <1>2, <1>3, <1>4, <1>5 DEF CallInv, Closed

\* The invariant is inductive: one step per action.
LEMMA Inductive == TypeOK /\ TypeOK' /\ IInv /\ [Next]_vars => IInv'
<1> SUFFICES ASSUME TypeOK, TypeOK', IInv, [Next]_vars PROVE IInv'
    OBVIOUS
<1>a. ASSUME NEW c \in Calls, CallInv(c)',
             mounted \subseteq mounted', Closed(mounted'),
             \A k \in Calls \ {c} :
                /\ pc'[k] = pc[k] /\ roots'[k] = roots[k]
                /\ todo'[k] = todo[k] /\ closure'[k] = closure[k]
                /\ found'[k] = found[k] /\ enqueued'[k] = enqueued[k]
                /\ frontier'[k] = frontier[k] /\ batch'[k] = batch[k]
                /\ next'[k] = next[k] /\ fresh'[k] = fresh[k]
      PROVE  IInv'
    <2>1. ASSUME NEW k \in Calls \ {c} PROVE CallInv(k)'
        BY <1>a, OtherCall DEF IInv
    <2> QED BY <1>a, <2>1 DEF IInv, Closed
<1>1. ASSUME NEW c \in Calls, NEW S \in Selections, Start(c, S)
      PROVE  IInv'
    <2>1. pc'[c] = "roots" /\ closure'[c] = mounted /\ todo'[c] = S /\ roots'[c] = S
        BY <1>1 DEF Start, TypeOK
    <2>2. Empty(c)' /\ fresh'[c] = {}
        BY <1>1 DEF Start, walkVars, IInv, CallInv, Empty
    <2>3. CallInv(c)'
        BY <1>1, <2>1, <2>2 DEF Start, IInv, CallInv, StartedInv, Closed
    <2> QED BY <1>1, <2>3, <1>a DEF Start, walkVars, TypeOK, IInv
<1>2. ASSUME NEW c \in Calls, NEW d \in Digests, NextRoot(c, d)
      PROVE  IInv'
    <2>1. StartedInv(c) /\ Empty(c) /\ d \in roots[c]
        BY <1>2 DEF NextRoot, IInv, CallInv, StartedInv
    <2>2. d \in Reach(roots[c])
        BY <2>1, ReachContains DEF TypeOK
    <2>3. CASE d \in closure[c]
        <3>1. StartedInv(c)' /\ Empty(c)' /\ pc'[c] = "roots"
            BY <1>2, <2>1, <2>3
            DEF NextRoot, StartedInv, Empty, Held, TypeOK, walkVars, Closed, Reach
        <3>2. CallInv(c)'
            BY <3>1 DEF CallInv
        <3> QED BY <1>2, <3>2, <1>a, <2>3 DEF NextRoot, walkVars, TypeOK, IInv
    <2>4. CASE d \notin closure[c]
        <3>1. /\ pc'[c] = "walking" /\ todo'[c] = todo[c] \ {d}
              /\ found'[c] = {} /\ frontier'[c] = {d} /\ batch'[c] = {} /\ next'[c] = {}
              /\ enqueued'[c] = {d} \cup closure[c] /\ closure'[c] = closure[c]
              /\ fresh'[c] = fresh[c] /\ roots'[c] = roots[c]
            BY <1>2, <2>1, <2>4 DEF NextRoot, Empty, TypeOK
        <3>2. Held(c)' = {d}
            BY <3>1 DEF Held
        <3>3. StartedInv(c)'
            BY <1>2, <2>1, <3>1, <3>2 DEF NextRoot, StartedInv, Held, Empty, Closed, Reach
        <3>4. WalkingInv(c)'
            BY <2>2, <2>4, <3>1, <3>2 DEF WalkingInv, Reach
        <3>5. CallInv(c)'
            BY <3>1, <3>3, <3>4 DEF CallInv
        <3> QED BY <1>2, <3>5, <1>a, <2>4 DEF NextRoot, walkVars, TypeOK, IInv
    <2> QED BY <2>3, <2>4
<1>3. ASSUME NEW c \in Calls, NEW b \in SUBSET Digests, Request(c, b)
      PROVE  IInv'
    <2>1. StartedInv(c) /\ WalkingInv(c)
        BY <1>3 DEF Request, IInv, CallInv
    <2>2. batch'[c] = b /\ frontier'[c] = frontier[c] \ b /\ pc'[c] = "walking"
        BY <1>3 DEF Request, TypeOK
    <2>3. Held(c)' = Held(c)
        BY <1>3, <2>2 DEF Request, Held
    <2>4. StartedInv(c)'
        BY <1>3, <2>1, <2>3 DEF Request, StartedInv, Closed, Reach
    <2>5. WalkingInv(c)'
        BY <1>3, <2>1, <2>2, <2>3 DEF Request, WalkingInv, Reach
    <2>6. CallInv(c)'
        BY <2>2, <2>4, <2>5 DEF CallInv
    <2> QED BY <1>3, <2>6, <1>a DEF Request, TypeOK, IInv
<1>4. ASSUME NEW c \in Calls, Answer(c)
      PROVE  IInv'
    <2>1. StartedInv(c) /\ WalkingInv(c)
        BY <1>4 DEF Answer, IInv, CallInv
    <2>2. /\ found'[c] = found[c] \cup batch[c] /\ batch'[c] = {} /\ pc'[c] = "walking"
          /\ next'[c] = next[c] \cup Unseen(c)
          /\ enqueued'[c] = enqueued[c] \cup Unseen(c)
        BY <1>4 DEF Answer, TypeOK
    <2>3. Held(c)' = Held(c) \cup Unseen(c)
        BY <1>4, <2>2 DEF Answer, Held
    <2>4. Unseen(c) \subseteq Reach(roots[c])
        <3>1. batch[c] \subseteq Reach(roots[c])
            BY <2>1 DEF WalkingInv, Held
        <3>2. Closed(Reach(roots[c]))
            BY ReachClosed DEF TypeOK
        <3> QED BY <3>1, <3>2 DEF Unseen, Closed, Abs!Closed
    <2>5. StartedInv(c)'
        BY <1>4, <2>1, <2>3 DEF Answer, StartedInv, Closed, Reach
    <2>6. \A d \in found'[c] : Refs[d] \subseteq enqueued'[c]
        <3>1. ASSUME NEW d \in batch[c] PROVE Refs[d] \subseteq enqueued[c] \cup Unseen(c)
            BY <3>1 DEF Unseen
        <3>2. ASSUME NEW d \in found[c] PROVE Refs[d] \subseteq enqueued[c]
            BY <2>1, <3>2 DEF WalkingInv
        <3> QED BY <2>2, <3>1, <3>2
    <2>7. Unseen(c) \cap (closure[c] \cup Held(c)) = {}
        <3>1. Unseen(c) \cap enqueued[c] = {}
            BY DEF Unseen
        <3>2. enqueued[c] = closure[c] \cup Held(c)
            BY <2>1 DEF WalkingInv
        <3> QED BY <3>1, <3>2
    <2>8. WalkingInv(c)'
        BY <1>4, <2>1, <2>2, <2>3, <2>4, <2>6, <2>7 DEF Answer, WalkingInv, Held, Reach
    <2>9. CallInv(c)'
        BY <2>2, <2>5, <2>8 DEF CallInv
    <2> QED BY <1>4, <2>9, <1>a DEF Answer, TypeOK, IInv
<1>b. ASSUME NEW c \in Calls, Forget(c), mounted \subseteq mounted', Closed(mounted')
      PROVE  IInv'
    <2>1. CallInv(c)'
        BY <1>b DEF Forget, CallInv, Empty, TypeOK
    <2> QED BY <1>b, <2>1, <1>a DEF Forget, TypeOK
<1>5. ASSUME NEW c \in Calls, Refused(c)
      PROVE  IInv'
    BY <1>5, <1>b DEF Refused, IInv
<1>6. ASSUME NEW c \in Calls, NextLevel(c)
      PROVE  IInv'
    <2>1. StartedInv(c) /\ WalkingInv(c)
        BY <1>6 DEF NextLevel, IInv, CallInv
    <2>2. frontier'[c] = next[c] /\ next'[c] = {} /\ pc'[c] = "walking"
        BY <1>6 DEF NextLevel, TypeOK
    <2>3. Held(c)' = Held(c)
        BY <1>6, <2>2 DEF NextLevel, Held
    <2>4. StartedInv(c)'
        BY <1>6, <2>1, <2>3 DEF NextLevel, StartedInv, Closed, Reach
    <2>5. WalkingInv(c)'
        BY <1>6, <2>1, <2>2, <2>3 DEF NextLevel, WalkingInv, Reach
    <2>6. CallInv(c)'
        BY <2>2, <2>4, <2>5 DEF CallInv
    <2> QED BY <1>6, <2>6, <1>a DEF NextLevel, TypeOK, IInv
<1>7. ASSUME NEW c \in Calls, EndRoot(c)
      PROVE  IInv'
    <2>1. StartedInv(c) /\ WalkingInv(c) /\ Held(c) = found[c]
        BY <1>7 DEF EndRoot, IInv, CallInv, Held
    <2>2. /\ closure'[c] = closure[c] \cup found[c] /\ pc'[c] = "roots"
          /\ Empty(c)'
        BY <1>7 DEF EndRoot, Empty, TypeOK
    <2>3. Closed(closure'[c])
        BY <2>1, <2>2 DEF StartedInv, WalkingInv, Closed, Abs!Closed
    <2>4. StartedInv(c)'
        BY <1>7, <2>1, <2>2, <2>3
        DEF EndRoot, StartedInv, WalkingInv, Empty, Held, Closed, Reach
    <2>5. CallInv(c)'
        BY <2>2, <2>4 DEF CallInv
    <2> QED BY <1>7, <2>5, <1>a DEF EndRoot, TypeOK, IInv
<1>8. ASSUME NEW c \in Calls, Return(c)
      PROVE  IInv'
    <2>1. StartedInv(c) /\ Empty(c)
        BY <1>8 DEF Return, IInv, CallInv
    <2>2. fresh'[c] = closure[c] \ mounted /\ pc'[c] = "unpacking"
        BY <1>8 DEF Return, TypeOK
    <2>3. mounted' \cup fresh'[c] = mounted \cup closure[c]
        BY <1>8, <2>2 DEF Return
    <2>4. Closed(mounted' \cup fresh'[c])
        BY <2>1, <2>3 DEF IInv, StartedInv, Closed, Abs!Closed
    <2>5. roots'[c] \subseteq mounted' \cup fresh'[c]
        BY <1>8, <2>1, <2>3 DEF Return, StartedInv, Empty, Held
    <2>6. CallInv(c)'
        BY <1>8, <2>1, <2>2, <2>4, <2>5 DEF Return, CallInv, Empty, walkVars, Closed
    <2> QED BY <1>8, <2>6, <1>a DEF Return, walkVars, TypeOK, IInv
<1>9. ASSUME NEW c \in Calls, Unpacked(c)
      PROVE  IInv'
    <2>1. Closed(mounted')
        BY <1>9 DEF Unpacked, IInv, CallInv
    <2> QED BY <1>9, <2>1, <1>b DEF Unpacked
<1>10. ASSUME NEW c \in Calls, UnpackFails(c)
       PROVE  IInv'
    BY <1>10, <1>b DEF UnpackFails, IInv
<1>11. CASE UNCHANGED vars
    <2>1. ASSUME NEW k \in Calls PROVE CallInv(k)'
        BY <1>11, OtherCall DEF vars, walkVars, IInv
    <2> QED BY <1>11, <2>1 DEF vars, IInv, Closed
<1> QED
    BY <1>1, <1>2, <1>3, <1>4, <1>5, <1>6, <1>7, <1>8, <1>9, <1>10, <1>11
    DEF Next, Walk

-----------------------------------------------------------------------------
\* The invariant holds at every moment of every behaviour.
LEMMA InvariantHolds == Spec => []IInv
<1>1. Init => IInv
    BY DEF Init, IInv, CallInv, Empty, Closed, Abs!Closed
<1> QED BY <1>1, Inductive, TypeCorrect, PTL DEF Spec

\* What the guest has mounted is always closed under references, whatever
\* adds overlap (addToRunningVM).
THEOREM MountedAlwaysClosed == Spec => []MountedClosed
<1>1. IInv => MountedClosed
    BY DEF IInv, MountedClosed, Closed
<1> QED BY <1>1, InvariantHolds, PTL

\* No narinfo is asked for twice in a call, nor for a path the call knew
\* (the enqueued set of walkClosure).
THEOREM NeverAskedTwice == Spec => []AskedOnce
<1>1. TypeOK /\ IInv => AskedOnce
    <2> SUFFICES ASSUME TypeOK, IInv, NEW c \in Calls
                 PROVE  batch[c] \cap (found[c] \cup closure[c] \cup frontier[c] \cup next[c]) = {}
        BY DEF AskedOnce
    <2>1. CASE pc[c] = "walking"
        BY <2>1 DEF IInv, CallInv, WalkingInv, Held
    <2>2. CASE pc[c] # "walking"
        BY <2>2 DEF IInv, CallInv, Empty
    <2> QED BY <2>1, <2>2
<1> QED BY <1>1, InvariantHolds, TypeCorrect, PTL

\* A call that returned completes the guest: its paths and the mounted ones
\* close around its roots, however many adds finished meanwhile.
THEOREM FreshAlwaysCompletes == Spec => []FreshCompletes
<1>1. IInv => FreshCompletes
    BY DEF IInv, CallInv, FreshCompletes, Closed
<1> QED BY <1>1, InvariantHolds, PTL

-----------------------------------------------------------------------------
\* When the last root is walked, what walkRoots returns is the closure of
\* its roots, less what is mounted.
LEMMA ReturnIsReach ==
    ASSUME TypeOK, IInv, NEW c \in Calls, Return(c)
    PROVE  closure[c] \ mounted = Reach(roots[c]) \ mounted
<1>1. StartedInv(c) /\ Empty(c) /\ todo[c] = {}
    BY DEF Return, IInv, CallInv
<1>2. roots[c] \subseteq closure[c]
    BY <1>1 DEF StartedInv, Empty, Held
<1>3. Reach(roots[c]) \subseteq closure[c]
    BY <1>1, <1>2, ReachLeast DEF StartedInv, TypeOK
<1> QED BY <1>1, <1>3 DEF StartedInv

\* Every step of the walk is a step of Closure, or changes nothing there.
LEMMA StepRefines ==
    ASSUME TypeOK, IInv, [Next]_vars
    PROVE  [Abs!AbsNext]_(Abs!absVars)
<1> USE DEF TypeOK, Phase, Abs!absVars
<1>1. ASSUME NEW c \in Calls, NEW S \in Selections, Start(c, S)
      PROVE  Abs!Begin(c, S)
    BY <1>1 DEF Start, Abs!Begin
<1>2. ASSUME NEW c \in Calls, NEW d \in Digests, NextRoot(c, d)
      PROVE  UNCHANGED Abs!absVars
    BY <1>2 DEF NextRoot
<1>3. ASSUME NEW c \in Calls, NEW b \in SUBSET Digests, Request(c, b)
      PROVE  UNCHANGED Abs!absVars
    BY <1>3 DEF Request
<1>4. ASSUME NEW c \in Calls, Answer(c)
      PROVE  UNCHANGED Abs!absVars
    BY <1>4 DEF Answer
<1>5. ASSUME NEW c \in Calls, Refused(c)
      PROVE  Abs!GiveUp(c)
    BY <1>5 DEF Refused, Forget, Abs!GiveUp
<1>6. ASSUME NEW c \in Calls, NextLevel(c)
      PROVE  UNCHANGED Abs!absVars
    BY <1>6 DEF NextLevel
<1>7. ASSUME NEW c \in Calls, EndRoot(c)
      PROVE  UNCHANGED Abs!absVars
    BY <1>7 DEF EndRoot
<1>8. ASSUME NEW c \in Calls, Return(c)
      PROVE  Abs!Deliver(c)
    BY <1>8, ReturnIsReach DEF Return, Abs!Deliver, Reach
<1>9. ASSUME NEW c \in Calls, Unpacked(c)
      PROVE  Abs!Mount(c)
    BY <1>9 DEF Unpacked, Forget, Abs!Mount
<1>10. ASSUME NEW c \in Calls, UnpackFails(c)
       PROVE  Abs!GiveUp(c)
    BY <1>10 DEF UnpackFails, Forget, Abs!GiveUp
<1>11. CASE UNCHANGED vars
    BY <1>11 DEF vars
<1> QED
    BY <1>1, <1>2, <1>3, <1>4, <1>5, <1>6, <1>7, <1>8, <1>9, <1>10, <1>11,
       WalkAssumption
    DEF Next, Walk, Abs!AbsNext

\* The batched, overlapping walks implement the one-step closure.
THEOREM WalkImplementsClosure == Spec => Implements
<1>1. Init => Abs!AbsInit
    <2> SUFFICES ASSUME Init PROVE mounted \in {Reach(S) : S \in SUBSET Digests}
        BY DEF Init, Abs!AbsInit, Phase, Reach
    <2>1. mounted \in SUBSET Digests /\ Closed(mounted)
        BY DEF Init, Closed, Abs!Closed
    <2>2. mounted = Reach(mounted)
        BY <2>1, ReachContains, ReachLeast
    <2> QED BY <2>1, <2>2
<1>2. TypeOK /\ IInv /\ [Next]_vars => [Abs!AbsNext]_(Abs!absVars)
    BY StepRefines
<1> QED BY <1>1, <1>2, InvariantHolds, TypeCorrect, PTL DEF Spec, Implements, Abs!AbsSpec
=============================================================================
