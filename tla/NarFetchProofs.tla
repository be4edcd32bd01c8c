---------------------------- MODULE NarFetchProofs ----------------------------
(***************************************************************************)
(* For every number of tabs, boots, workers, archives, attempts and        *)
(* reloads: what the workers of a boot promise when they return, who owns  *)
(* a bad copy in the cache, and when an archive may be refused.            *)
(***************************************************************************)
EXTENDS NarFetch, TLAPS

LEMMA PageType == \A w \in Workers : Boot(w) \in Boots /\ Page(w) \in Pages
BY NarAssumption DEF Workers, Boot, Page

LEMMA SetOfAppend ==
    ASSUME NEW S, NEW q \in Seq(S), NEW x \in S
    PROVE  ToSet(Append(q, x)) = ToSet(q) \cup {x}
<1>1. /\ DOMAIN Append(q, x) = 1..(Len(q) + 1)
      /\ \A i \in 1..Len(q) : Append(q, x)[i] = q[i]
      /\ Append(q, x)[Len(q) + 1] = x
      /\ DOMAIN q = 1..Len(q) /\ Len(q) \in Nat
    OBVIOUS
<1> HIDE DEF Append
<1> QED BY <1>1 DEF ToSet

LEMMA SetOfTail ==
    ASSUME NEW S, NEW q \in Seq(S), q # <<>>
    PROVE  Tail(q) \in Seq(S) /\ ToSet(q) \subseteq ToSet(Tail(q)) \cup {Head(q)}
<1>1. /\ DOMAIN Tail(q) = 1..(Len(q) - 1)
      /\ \A i \in 1..(Len(q) - 1) : Tail(q)[i] = q[i + 1]
      /\ Head(q) = q[1]
      /\ DOMAIN q = 1..Len(q) /\ Len(q) \in Nat \ {0}
      /\ Tail(q) \in Seq(S)
    OBVIOUS
<1>2. \A i \in 2..Len(q) : i - 1 \in 1..(Len(q) - 1) /\ Tail(q)[i - 1] = q[i]
    BY <1>1
<1>3. ASSUME NEW i \in 1..Len(q) PROVE q[i] \in ToSet(Tail(q)) \cup {Head(q)}
    <2>1. CASE i = 1
        BY <1>1, <2>1
    <2>2. CASE i # 1
        <3>1. i - 1 \in DOMAIN Tail(q) /\ Tail(q)[i - 1] = q[i]
            BY <1>1, <1>2, <2>2
        <3> QED BY <3>1 DEF ToSet
    <2> QED BY <2>1, <2>2
<1> QED BY <1>1, <1>3 DEF ToSet

-----------------------------------------------------------------------------
Fetching == {"lookup", "store", "decoding", "plain", "evict", "unpacked"}
Holding == {"store", "decoding", "plain", "evict"}

\* What a worker is on, and with what.
WorkerInv(w) ==
    /\ pc[w] \in Fetching \cup {"refused"} =>
        /\ item[w] \in ToSet(Archives[Boot(w)])
        /\ item[w] \in Items
        /\ attempt[w] \in 1..NarAttempts
    /\ pc[w] \in Holding => body[w] \in {"good", "bad"}

\* A decode that was asked for is in the chain of its page.
QueueInv(w) == pc[w] = "decoding" => w \in ToSet(decoding[Page(w)])

TypeInv == TypeOK /\ \A w \in Workers : WorkerInv(w) /\ QueueInv(w)

\* Entering the decoder, or not needing it.
LEMMA EnterDecodingTypes ==
    ASSUME decoding \in [Pages -> Seq(Workers)], pc \in [Workers -> Labels],
           \A v \in Workers : QueueInv(v),
           NEW w \in Workers, item[w] \in Items, EnterDecoding(w)
    PROVE  /\ decoding' \in [Pages -> Seq(Workers)]
           /\ pc' \in [Workers -> Labels]
           /\ pc'[w] \in {"decoding", "plain"}
           /\ \A v \in Workers : v # w => pc'[v] = pc[v]
           /\ \A v \in Workers : QueueInv(v)'
<1>1. CASE Compression[item[w]] = "xz"
    <2>1. /\ decoding' = [decoding EXCEPT ![Page(w)] = Append(@, w)]
          /\ pc' = [pc EXCEPT ![w] = "decoding"]
        BY <1>1 DEF EnterDecoding, Goto
    <2>2. decoding' \in [Pages -> Seq(Workers)]
        <3>1. Append(decoding[Page(w)], w) \in Seq(Workers)
            BY PageType
        <3> QED BY <2>1, <3>1
    <2>3. /\ ToSet(decoding'[Page(w)]) = ToSet(decoding[Page(w)]) \cup {w}
          /\ \A p \in Pages : p # Page(w) => decoding'[p] = decoding[p]
        BY <2>1, PageType, SetOfAppend
    <2>4. ASSUME NEW v \in Workers PROVE QueueInv(v)'
        BY <2>1, <2>3, PageType DEF QueueInv
    <2> QED BY <2>1, <2>2, <2>4 DEF Labels
<1>2. CASE Compression[item[w]] = "none"
    <2>1. decoding' = decoding /\ pc' = [pc EXCEPT ![w] = "plain"]
        BY <1>2 DEF EnterDecoding, Goto
    <2> QED BY <2>1 DEF QueueInv, Labels
<1>3. Compression[item[w]] \in {"xz", "none"}
    BY NarAssumption
<1> QED BY <1>1, <1>2, <1>3

SameWorker(v) ==
    /\ pc'[v] = pc[v] /\ item'[v] = item[v]
    /\ attempt'[v] = attempt[v] /\ body'[v] = body[v]

SamePlace(v) ==
    v \in ToSet(decoding[Page(v)]) => v \in ToSet(decoding'[Page(v)])

LEMMA LeaveTypes ==
    ASSUME TypeOK, NEW w \in Workers, NEW l \in Labels, Leave(w, l)
    PROVE  /\ pc' \in [Workers -> Labels]
           /\ item' \in [Workers -> Items \cup {NoItem}]
           /\ attempt' \in [Workers -> 0..NarAttempts]
           /\ body' \in [Workers -> {"none", "good", "bad"}]
           /\ pc'[w] = l
           /\ \A v \in Workers : v # w => SameWorker(v)
BY NarAssumption DEF Leave, Goto, TypeOK, SameWorker

\* A step of one worker leaves the others as they were, their place in the
\* chain included.
LEMMA StepOfOne ==
    ASSUME TypeInv, TypeOK', NEW w \in Workers, WorkerInv(w)', QueueInv(w)',
           \A v \in Workers : v # w => SameWorker(v) /\ SamePlace(v)
    PROVE  TypeInv'
BY DEF TypeInv, WorkerInv, QueueInv, SameWorker, SamePlace

LEMMA GotoTypes ==
    ASSUME TypeOK, NEW w \in Workers, NEW l \in Labels, Goto(w, l)
    PROVE  /\ pc' \in [Workers -> Labels]
           /\ pc'[w] = l
           /\ \A v \in Workers : v # w => pc'[v] = pc[v]
BY DEF Goto, TypeOK

LEMMA BusyWorker ==
    ASSUME TypeInv, NEW w \in Workers
    PROVE  /\ TypeOK /\ Boot(w) \in Boots /\ Page(w) \in Pages /\ WorkerInv(w) /\ QueueInv(w)
           /\ pc[w] \in Fetching => item[w] \in Items /\ item[w] \in ToSet(Archives[Boot(w)])
                                    /\ attempt[w] \in 1..NarAttempts
           /\ pc[w] \in Holding => body[w] \in {"good", "bad"}
BY PageType DEF TypeInv, WorkerInv

\* A worker that leaves fetchNar.
LEMMA LeavesWell ==
    ASSUME TypeInv, TypeOK', NEW w \in Workers, NEW l \in {"next", "thrown"}, Leave(w, l),
           \A v \in Workers : v # w => SamePlace(v)
    PROVE  TypeInv'
<1>1. l \in Labels /\ TypeOK
    BY DEF Labels, TypeInv
<1>2. pc'[w] = l /\ \A v \in Workers : v # w => SameWorker(v)
    BY <1>1, LeaveTypes
<1>3. WorkerInv(w)' /\ QueueInv(w)'
    BY <1>2 DEF WorkerInv, QueueInv, Fetching, Holding
<1> QED BY <1>2, <1>3, StepOfOne

\* A worker that goes on from one label of fetchNar to another, with the
\* same archive, attempt and body.
LEMMA GoesOnWell ==
    ASSUME TypeInv, TypeOK', NEW w \in Workers, pc[w] \in Holding, UNCHANGED fetchVars,
           NEW l \in {"store", "plain", "evict"}, Goto(w, l),
           \A v \in Workers : v # w => SamePlace(v)
    PROVE  TypeInv'
<1>1. l \in Labels /\ TypeOK
    BY DEF Labels, TypeInv
<1>2. pc'[w] = l /\ \A v \in Workers : v # w => SameWorker(v)
    BY <1>1, GotoTypes DEF SameWorker, fetchVars
<1>3. WorkerInv(w)' /\ QueueInv(w)'
    BY <1>2, BusyWorker DEF WorkerInv, QueueInv, Fetching, Holding, fetchVars
<1> QED BY <1>2, <1>3, StepOfOne

\* What became of a body that was looked at.
LEMMA JudgesWell ==
    ASSUME TypeInv, NEW w \in Workers, pc[w] \in {"decoding", "plain"}, Judge(w),
           decoding' \in [Pages -> Seq(Workers)], blamed' \in SUBSET Items,
           UNCHANGED <<cache, orphaned, next, share, engine, reloads>>,
           \A v \in Workers : v # w => SamePlace(v)
    PROVE  TypeInv'
<1>1. TypeOK /\ {"thrown", "unpacked", "evict"} \subseteq Labels
    BY DEF TypeInv, Labels
<1>2. CASE Leave(w, "thrown")
    <2>1. TypeOK'
        BY <1>1, <1>2, LeaveTypes DEF TypeOK
    <2> QED BY <1>2, <2>1, LeavesWell
<1>3. CASE Goto(w, "evict") /\ UNCHANGED fetchVars
    <2>1. TypeOK'
        BY <1>1, <1>3, GotoTypes DEF TypeOK, fetchVars
    <2> QED BY <1>3, <2>1, GoesOnWell DEF Holding
<1>4. CASE Goto(w, "unpacked") /\ body' = [body EXCEPT ![w] = "none"] /\ UNCHANGED <<item, attempt>>
    <2>1. TypeOK'
        BY <1>1, <1>4, GotoTypes DEF TypeOK
    <2>2. pc'[w] = "unpacked" /\ \A v \in Workers : v # w => SameWorker(v)
        BY <1>1, <1>4, GotoTypes DEF SameWorker, TypeOK
    <2>3. WorkerInv(w)' /\ QueueInv(w)'
        BY <1>4, <2>2, BusyWorker DEF WorkerInv, QueueInv, Fetching, Holding
    <2> QED BY <2>1, <2>2, <2>3, StepOfOne
<1> QED BY <1>2, <1>3, <1>4 DEF Judge, Parse

LEMMA TypeInvInductive == TypeInv /\ [Next]_vars => TypeInv'
<1> SUFFICES ASSUME TypeInv, [Next]_vars PROVE TypeInv'
    OBVIOUS
<1>0. TypeOK
    BY DEF TypeInv
<1>1. ASSUME NEW w \in Workers, Take(w) PROVE TypeInv'
    <2>1. /\ Archives[Boot(w)] \in Seq(Items)
          /\ next[Boot(w)] \in Nat
          /\ {"lookup", "done"} \subseteq Labels
        BY <1>0, PageType, NarAssumption DEF TypeOK, Labels
    <2>2. next' \in [Boots -> Nat]
        BY <1>0, <1>1, <2>1, PageType DEF TypeOK, Take
    <2>3. \A v \in Workers : v # w => SamePlace(v)
        BY <1>1 DEF Take, SamePlace
    <2>4. CASE next[Boot(w)] < Len(Archives[Boot(w)])
        <3> DEFINE i == Archives[Boot(w)][next[Boot(w)] + 1]
        <3>1. i \in Items /\ i \in ToSet(Archives[Boot(w)])
            BY <2>1, <2>4 DEF ToSet
        <3>2. /\ item' = [item EXCEPT ![w] = i]
              /\ attempt' = [attempt EXCEPT ![w] = 1]
              /\ Goto(w, "lookup")
              /\ UNCHANGED body
            BY <1>1, <2>1, <2>4 DEF Take
        <3> HIDE DEF i
        <3>3. TypeOK'
            BY <1>0, <1>1, <2>1, <2>2, <3>1, <3>2, GotoTypes, NarAssumption DEF Take, TypeOK
        <3>4. pc'[w] = "lookup" /\ \A v \in Workers : v # w => SameWorker(v)
            BY <1>0, <2>1, <3>2, GotoTypes DEF SameWorker, TypeOK
        <3>5. WorkerInv(w)' /\ QueueInv(w)'
            BY <1>0, <3>1, <3>2, <3>4, NarAssumption
            DEF TypeOK, WorkerInv, QueueInv, Fetching, Holding
        <3> QED BY <2>3, <3>3, <3>4, <3>5, StepOfOne
    <2>5. CASE next[Boot(w)] >= Len(Archives[Boot(w)])
        <3>1. Goto(w, "done") /\ UNCHANGED <<item, attempt, body>>
            BY <1>1, <2>1, <2>5 DEF Take
        <3>2. TypeOK'
            BY <1>0, <1>1, <2>1, <2>2, <3>1, GotoTypes DEF Take, TypeOK
        <3>3. pc'[w] = "done" /\ \A v \in Workers : v # w => SameWorker(v)
            BY <1>0, <2>1, <3>1, GotoTypes DEF SameWorker
        <3>4. WorkerInv(w)' /\ QueueInv(w)'
            BY <3>3 DEF WorkerInv, QueueInv, Fetching, Holding
        <3> QED BY <2>3, <3>2, <3>3, <3>4, StepOfOne
    <2> QED BY <2>1, <2>4, <2>5
<1>2. ASSUME NEW w \in Workers, Unsupported(w) \/ HitBreaks(w) PROVE TypeInv'
    <2>1. TypeOK'
        BY <1>0, <1>2, LeaveTypes DEF Labels, Unsupported, HitBreaks, TypeOK
    <2> QED BY <1>2, <2>1, LeavesWell DEF Unsupported, HitBreaks, SamePlace
<1>3. ASSUME NEW w \in Workers, Hit(w) PROVE TypeInv'
    <2>1. item[w] \in Items /\ pc[w] \in Fetching /\ cache[item[w]] \in {"good", "bad"}
        BY <1>0, <1>3, BusyWorker DEF Hit, Fetching, TypeOK
    <2>2. /\ decoding' \in [Pages -> Seq(Workers)]
          /\ pc' \in [Workers -> Labels]
          /\ pc'[w] \in {"decoding", "plain"}
          /\ \A v \in Workers : v # w => pc'[v] = pc[v]
          /\ \A v \in Workers : QueueInv(v)'
        BY <1>0, <1>3, <2>1, EnterDecodingTypes DEF Hit, TypeInv, TypeOK
    <2>3. TypeOK'
        BY <1>0, <1>3, <2>1, <2>2 DEF Hit, TypeOK
    <2>4. ASSUME NEW v \in Workers PROVE WorkerInv(v)'
        BY <1>0, <1>3, <2>1, <2>2, BusyWorker
        DEF Hit, TypeOK, WorkerInv, Fetching, Holding
    <2> QED BY <2>2, <2>3, <2>4 DEF TypeInv
<1>4. ASSUME NEW w \in Workers, Download(w) PROVE TypeInv'
    <2>1. /\ item[w] \in Items /\ pc[w] \in Fetching
          /\ \A v \in Workers : v # w => SamePlace(v)
        BY <1>0, <1>4, BusyWorker DEF Download, Fetching, SamePlace
    <2>2. CASE Leave(w, "thrown") /\ UNCHANGED blamed
        <3>1. TypeOK'
            BY <1>0, <1>4, <2>2, LeaveTypes DEF Labels, Download, TypeOK
        <3> QED BY <2>1, <2>2, <3>1, LeavesWell
    <2>3. ASSUME NEW b \in {"good", "bad"}, body' = [body EXCEPT ![w] = b],
                 blamed' = IF b = "bad" THEN blamed \cup {item[w]} ELSE blamed,
                 Goto(w, "store"), UNCHANGED <<item, attempt>>
          PROVE  TypeInv'
        <3>1. "store" \in Labels
            BY DEF Labels
        <3>2. TypeOK'
            BY <1>0, <1>4, <2>1, <2>3, <3>1, GotoTypes DEF Download, TypeOK
        <3>3. pc'[w] = "store" /\ \A v \in Workers : v # w => SameWorker(v)
            BY <1>0, <2>3, <3>1, GotoTypes DEF SameWorker, TypeOK
        <3>4. WorkerInv(w)' /\ QueueInv(w)'
            BY <1>0, <2>1, <2>3, <3>3, BusyWorker
            DEF TypeOK, WorkerInv, QueueInv, Fetching, Holding
        <3> QED BY <2>1, <3>2, <3>3, <3>4, StepOfOne
    <2> QED BY <1>4, <2>2, <2>3 DEF Download
<1>5. ASSUME NEW w \in Workers, Store(w) PROVE TypeInv'
    <2>1. item[w] \in Items /\ pc[w] \in Fetching /\ body[w] \in {"good", "bad"}
        BY <1>5, BusyWorker DEF Store, Fetching, Holding
    <2>2. /\ decoding' \in [Pages -> Seq(Workers)]
          /\ pc' \in [Workers -> Labels]
          /\ pc'[w] \in {"decoding", "plain"}
          /\ \A v \in Workers : v # w => pc'[v] = pc[v]
          /\ \A v \in Workers : QueueInv(v)'
        BY <1>0, <1>5, <2>1, EnterDecodingTypes DEF Store, TypeInv, TypeOK
    <2>3. cache' \in [Items -> {"none", "good", "bad"}] /\ orphaned' \in SUBSET Items
        BY <1>0, <1>5, <2>1 DEF Store, TypeOK
    <2>4. TypeOK'
        BY <1>0, <1>5, <2>2, <2>3 DEF Store, TypeOK, fetchVars
    <2>5. ASSUME NEW v \in Workers PROVE WorkerInv(v)'
        BY <1>0, <1>5, <2>1, <2>2, BusyWorker
        DEF Store, TypeOK, WorkerInv, Fetching, Holding, fetchVars
    <2> QED BY <2>2, <2>4, <2>5 DEF TypeInv
<1>6. ASSUME NEW w \in Workers, Decode(w) PROVE TypeInv'
    <2> DEFINE p == Page(w)
    <2>1. w \in ToSet(decoding[p]) /\ decoding[p] \in Seq(Workers) /\ p \in Pages
        BY <1>0, <1>6, BusyWorker DEF Decode, QueueInv, TypeOK
    <2>2. decoding[p] # <<>>
        BY <2>1 DEF ToSet
    <2>3. /\ decoding' = [decoding EXCEPT ![p] = Tail(@)]
          /\ Head(decoding[p]) = w
        BY <1>6 DEF Decode, Release
    <2>4. Tail(decoding[p]) \in Seq(Workers)
          /\ ToSet(decoding[p]) \subseteq ToSet(Tail(decoding[p])) \cup {w}
        BY <2>1, <2>2, <2>3, SetOfTail
    <2>5. decoding' \in [Pages -> Seq(Workers)]
        BY <1>0, <2>1, <2>3, <2>4 DEF TypeOK
    <2>6. \A v \in Workers : v # w => SamePlace(v)
        BY <1>0, <2>1, <2>3, <2>4, PageType DEF TypeOK, SamePlace
    <2>7. item[w] \in Items
        BY <1>6, BusyWorker DEF Decode, Fetching
    <2>8. CASE Judge(w) /\ UNCHANGED blamed
        BY <1>0, <1>6, <2>5, <2>6, <2>8, JudgesWell DEF Decode, TypeOK
    <2>9. CASE blamed' = blamed \cup {item[w]} /\ Goto(w, "evict") /\ UNCHANGED fetchVars
        <3>1. TypeOK'
            BY <1>0, <1>6, <2>5, <2>7, <2>9, GotoTypes DEF Decode, TypeOK, Labels, fetchVars
        <3> QED BY <1>6, <2>6, <2>9, <3>1, GoesOnWell DEF Decode, Holding
    <2> QED BY <1>6, <2>8, <2>9 DEF Decode
<1>7. ASSUME NEW w \in Workers, CheckPlain(w) PROVE TypeInv'
    BY <1>0, <1>7, JudgesWell DEF CheckPlain, TypeOK, SamePlace
<1>8. ASSUME NEW w \in Workers, Evict(w) PROVE TypeInv'
    <2>1. item[w] \in Items /\ attempt[w] \in 1..NarAttempts
        BY <1>8, BusyWorker DEF Evict, Fetching
    <2>2. /\ cache' \in [Items -> {"none", "good", "bad"}]
          /\ orphaned' \in SUBSET Items
          /\ blamed' \in SUBSET Items
        BY <1>0, <1>8, <2>1 DEF Evict, Uncache, TypeOK
    <2>3. ASSUME NEW l \in {"lookup", "refused"}, Goto(w, l),
                 attempt' \in [Workers -> 0..NarAttempts],
                 attempt'[w] \in 1..NarAttempts,
                 \A v \in Workers : v # w => attempt'[v] = attempt[v]
          PROVE  TypeInv'
        <3>1. l \in Labels
            BY DEF Labels
        <3>2. TypeOK'
            BY <1>0, <1>8, <2>2, <2>3, <3>1, GotoTypes DEF Evict, TypeOK
        <3>3. pc'[w] = l /\ \A v \in Workers : v # w => SameWorker(v)
            BY <1>0, <1>8, <2>3, <3>1, GotoTypes DEF Evict, SameWorker, TypeOK
        <3>4. WorkerInv(w)' /\ QueueInv(w)'
            BY <1>8, <2>3, <3>3, BusyWorker
            DEF Evict, WorkerInv, QueueInv, Fetching, Holding
        <3>5. \A v \in Workers : SamePlace(v)
            BY <1>8 DEF Evict, SamePlace
        <3> QED BY <3>2, <3>3, <3>4, <3>5, StepOfOne
    <2>4. CASE MayRetry(w) /\ attempt' = [attempt EXCEPT ![w] = @ + 1] /\ Goto(w, "lookup")
        <3>1. attempt[w] + 1 \in 1..NarAttempts
            BY <2>1, <2>4, NarAssumption DEF MayRetry
        <3>2. /\ attempt' \in [Workers -> 0..NarAttempts]
              /\ attempt'[w] \in 1..NarAttempts
              /\ \A v \in Workers : v # w => attempt'[v] = attempt[v]
            BY <1>0, <2>4, <3>1 DEF TypeOK
        <3> QED BY <2>3, <2>4, <3>2
    <2>5. CASE Goto(w, "refused") /\ UNCHANGED attempt
        BY <1>0, <2>1, <2>3, <2>5 DEF TypeOK
    <2> QED BY <1>8, <2>4, <2>5 DEF Evict
<1>9. ASSUME NEW w \in Workers, Write(w) PROVE TypeInv'
    <2>1. item[w] \in Items /\ Boot(w) \in Boots /\ {"next", "thrown"} \subseteq Labels
        BY <1>9, BusyWorker DEF Write, Fetching, Labels
    <2>2. CASE Leave(w, "next") /\ share' = [share EXCEPT ![Boot(w)] = @ \cup {item[w]}]
        <3>1. TypeOK'
            BY <1>0, <1>9, <2>1, <2>2, LeaveTypes DEF Write, TypeOK
        <3> QED BY <1>9, <2>2, <3>1, LeavesWell DEF Write, SamePlace
    <2>3. CASE Leave(w, "thrown") /\ UNCHANGED share
        <3>1. TypeOK'
            BY <1>0, <1>9, <2>1, <2>3, LeaveTypes DEF Write, TypeOK
        <3> QED BY <1>9, <2>3, <3>1, LeavesWell DEF Write, SamePlace
    <2> QED BY <1>9, <2>2, <2>3 DEF Write
<1>10. ASSUME NEW b \in Boots, EngineSettles(b) PROVE TypeInv'
    BY <1>0, <1>10 DEF EngineSettles, TypeInv, TypeOK, WorkerInv, QueueInv, fetchVars
<1>11. ASSUME NEW p \in Pages, Reload(p) PROVE TypeInv'
    <2>1. TypeOK'
        BY <1>0, <1>11, NarAssumption DEF Reload, TypeOK, Labels
    <2>2. ASSUME NEW v \in Workers PROVE WorkerInv(v)' /\ QueueInv(v)'
        <3>1. CASE Page(v) = p
            BY <1>0, <1>11, <3>1, BusyWorker
            DEF Reload, TypeOK, WorkerInv, QueueInv, Fetching, Holding, Labels
        <3>2. CASE Page(v) # p
            <4>1. SameWorker(v) /\ decoding'[Page(v)] = decoding[Page(v)]
                BY <1>0, <1>11, <3>2, PageType DEF Reload, SameWorker, TypeOK
            <4> QED BY <4>1, BusyWorker DEF SameWorker, WorkerInv, QueueInv
        <3> QED BY <3>1, <3>2
    <2> QED BY <2>1, <2>2 DEF TypeInv
<1>12. CASE UNCHANGED vars
    BY <1>12 DEF vars, fetchVars, TypeInv, TypeOK, WorkerInv, QueueInv
<1> QED
    BY <1>1, <1>2, <1>3, <1>4, <1>5, <1>6, <1>7, <1>8, <1>9, <1>10, <1>11, <1>12
    DEF Next, Work

LEMMA TypeInvHolds == Spec => []TypeInv
<1>1. Init => TypeInv
    <2> SUFFICES ASSUME Init PROVE TypeInv
        OBVIOUS
    <2>1. TypeOK
        BY NarAssumption DEF Init, TypeOK, Labels
    <2>2. ASSUME NEW w \in Workers PROVE pc[w] \in {"next", "absent"}
        BY <2>2 DEF Init
    <2> QED BY <2>1, <2>2 DEF TypeInv, WorkerInv, QueueInv, Fetching, Holding
<1> QED BY <1>1, TypeInvInductive, PTL DEF Spec

\* Every variable keeps its type; no worker goes past its last attempt.
THEOREM TypeCorrect == Spec => []TypeOK
BY TypeInvHolds, PTL DEF TypeInv

-----------------------------------------------------------------------------
\* What a step of a worker that is on an archive does to that archive, and
\* to everybody else's.
Progress(w) ==
    /\ pc[w] \in Fetching
    /\ \/ pc'[w] = "thrown"
       \/ pc'[w] \in Fetching \cup {"refused"} /\ item'[w] = item[w]
       \/ pc'[w] = "next" /\ item[w] \in share'[Boot(w)]
    /\ \A v \in Workers : v # w => SameWorker(v)
    /\ UNCHANGED <<next, engine, reloads>>
    /\ \/ UNCHANGED share
       \/ share' = [share EXCEPT ![Boot(w)] = @ \cup {item[w]}]

FetchStep(w) ==
    \/ Unsupported(w) \/ Hit(w) \/ HitBreaks(w) \/ Download(w)
    \/ Store(w) \/ Decode(w) \/ CheckPlain(w) \/ Evict(w) \/ Write(w)

LEMMA LeavingIsProgress ==
    ASSUME TypeInv, NEW w \in Workers, pc[w] \in Fetching,
           Leave(w, "thrown"), UNCHANGED <<next, engine, reloads, share>>
    PROVE  Progress(w)
<1>1. "thrown" \in Labels
    BY DEF Labels
<1> QED BY <1>1, BusyWorker, LeaveTypes DEF Progress

LEMMA GoingOnIsProgress ==
    ASSUME TypeInv, NEW w \in Workers, pc[w] \in Fetching,
           NEW l \in Fetching \cup {"refused"}, Goto(w, l),
           UNCHANGED <<next, engine, reloads, share, item>>,
           \A v \in Workers : v # w => attempt'[v] = attempt[v] /\ body'[v] = body[v]
    PROVE  Progress(w)
<1>1. l \in Labels
    BY DEF Labels, Fetching
<1> QED BY <1>1, BusyWorker, GotoTypes DEF Progress, SameWorker

LEMMA FetchStepProgresses ==
    ASSUME TypeInv, NEW w \in Workers, FetchStep(w)
    PROVE  Progress(w)
<1>0. TypeOK
    BY DEF TypeInv
<1>1. CASE Unsupported(w) \/ HitBreaks(w)
    BY <1>1, LeavingIsProgress DEF Unsupported, HitBreaks, Fetching
<1>2. CASE Hit(w)
    <2>1. PICK l \in {"decoding", "plain"} : Goto(w, l)
        BY <1>2 DEF Hit, EnterDecoding
    <2> QED BY <1>0, <1>2, <2>1, GoingOnIsProgress DEF Hit, Fetching, TypeOK
<1>3. CASE Download(w)
    <2>1. CASE Leave(w, "thrown")
        BY <1>3, <2>1, LeavingIsProgress DEF Download, Fetching
    <2>2. ASSUME NEW b \in {"good", "bad"}, body' = [body EXCEPT ![w] = b],
                 Goto(w, "store"), UNCHANGED <<item, attempt>>
          PROVE  Progress(w)
        BY <1>0, <1>3, <2>2, GoingOnIsProgress DEF Download, Fetching, TypeOK
    <2> QED BY <1>3, <2>1, <2>2 DEF Download
<1>4. CASE Store(w)
    <2>1. PICK l \in {"decoding", "plain"} : Goto(w, l)
        BY <1>4 DEF Store, EnterDecoding
    <2> QED BY <1>4, <2>1, GoingOnIsProgress DEF Store, Fetching, fetchVars
<1>5. ASSUME Judge(w), pc[w] \in {"decoding", "plain"}, UNCHANGED <<next, engine, reloads, share>>
      PROVE  Progress(w)
    <2>1. CASE Leave(w, "thrown")
        BY <1>5, <2>1, LeavingIsProgress DEF Fetching
    <2>2. CASE Goto(w, "evict") /\ UNCHANGED fetchVars
        BY <1>5, <2>2, GoingOnIsProgress DEF Fetching, fetchVars
    <2>3. CASE /\ Goto(w, "unpacked") /\ UNCHANGED <<item, attempt>>
               /\ body' = [body EXCEPT ![w] = "none"]
        BY <1>0, <1>5, <2>3, GoingOnIsProgress DEF Fetching, TypeOK
    <2> QED BY <1>5, <2>1, <2>2, <2>3 DEF Judge, Parse
<1>6. CASE Decode(w)
    <2>1. CASE Judge(w)
        BY <1>5, <1>6, <2>1 DEF Decode
    <2>2. CASE Goto(w, "evict") /\ UNCHANGED fetchVars
        BY <1>6, <2>2, GoingOnIsProgress DEF Decode, Fetching, fetchVars
    <2> QED BY <1>6, <2>1, <2>2 DEF Decode
<1>7. CASE CheckPlain(w)
    BY <1>5, <1>7 DEF CheckPlain
<1>8. CASE Evict(w)
    <2>1. PICK l \in {"lookup", "refused"} : Goto(w, l)
        BY <1>8 DEF Evict
    <2>2. \A v \in Workers : v # w => attempt'[v] = attempt[v] /\ body'[v] = body[v]
        BY <1>0, <1>8 DEF Evict, TypeOK
    <2> QED BY <1>8, <2>1, <2>2, GoingOnIsProgress DEF Evict, Fetching
<1>9. CASE Write(w)
    <2>1. CASE Leave(w, "next") /\ share' = [share EXCEPT ![Boot(w)] = @ \cup {item[w]}]
        <3>1. "next" \in Labels
            BY DEF Labels
        <3>2. pc[w] \in Fetching /\ item[w] \in share'[Boot(w)]
            BY <1>0, <1>9, <2>1, PageType DEF Write, TypeOK, Fetching
        <3> QED BY <1>0, <1>9, <2>1, <3>1, <3>2, LeaveTypes DEF Progress, Write
    <2>2. CASE Leave(w, "thrown") /\ UNCHANGED share
        BY <1>9, <2>2, LeavingIsProgress DEF Write, Fetching
    <2> QED BY <1>9, <2>1, <2>2 DEF Write
<1> QED BY <1>1, <1>2, <1>3, <1>4, <1>6, <1>7, <1>8, <1>9 DEF FetchStep

\* An index that was taken is that of an archive in the share, or of one some
\* worker is on, or its boot has a worker that threw.
Accounted(b, i) ==
    \/ i \in share[b]
    \/ \E w \in Workers : /\ Boot(w) = b
                         /\ \/ pc[w] = "thrown"
                            \/ pc[w] \in Fetching \cup {"refused"} /\ item[w] = i

CoverInv ==
    /\ \A b \in Boots :
        /\ share[b] \subseteq ToSet(Archives[b])
        /\ \A k \in 1..Len(Archives[b]) : k <= next[b] => Accounted(b, Archives[b][k])
    /\ \A w \in Workers : pc[w] = "done" => next[Boot(w)] >= Len(Archives[Boot(w)])

LEMMA ProgressKeepsCover ==
    ASSUME TypeInv, CoverInv, NEW w \in Workers, Progress(w)
    PROVE  CoverInv'
<1>1. /\ item[w] \in ToSet(Archives[Boot(w)])
      /\ TypeOK /\ Boot(w) \in Boots
    BY BusyWorker DEF Progress
<1>2. \A b \in Boots : share[b] \subseteq share'[b] /\ share'[b] \subseteq ToSet(Archives[b])
    <2>1. \A b \in Boots : share[b] \subseteq ToSet(Archives[b]) /\ share[b] \in SUBSET Items
        BY <1>1 DEF CoverInv, TypeOK
    <2>2. CASE UNCHANGED share
        BY <2>1, <2>2
    <2>3. CASE share' = [share EXCEPT ![Boot(w)] = @ \cup {item[w]}]
        <3>1. share'[Boot(w)] = share[Boot(w)] \cup {item[w]}
            BY <1>1, <2>3 DEF TypeOK
        <3>2. \A b \in Boots : b # Boot(w) => share'[b] = share[b]
            BY <1>1, <2>3 DEF TypeOK
        <3> QED BY <1>1, <2>1, <3>1, <3>2
    <2> QED BY <2>2, <2>3 DEF Progress
<1>3. ASSUME NEW b \in Boots, NEW i, Accounted(b, i) PROVE Accounted(b, i)'
    <2>1. CASE i \in share[b]
        BY <1>2, <2>1 DEF Accounted
    <2>2. ASSUME NEW v \in Workers, Boot(v) = b,
                 \/ pc[v] = "thrown"
                 \/ pc[v] \in Fetching \cup {"refused"} /\ item[v] = i
          PROVE  Accounted(b, i)'
        <3>1. CASE v = w
            BY <2>2, <3>1 DEF Progress, Accounted, Fetching
        <3>2. CASE v # w
            BY <2>2, <3>2 DEF Progress, Accounted, SameWorker
        <3> QED BY <3>1, <3>2
    <2> QED BY <1>3, <2>1, <2>2 DEF Accounted
<1>4. \A v \in Workers : pc'[v] = "done" => pc[v] = "done"
    BY DEF Progress, SameWorker, Fetching
<1> QED BY <1>2, <1>3, <1>4 DEF CoverInv, Progress

LEMMA CoverInductive == TypeInv /\ CoverInv /\ [Next]_vars => CoverInv'
<1> SUFFICES ASSUME TypeInv, CoverInv, [Next]_vars PROVE CoverInv'
    OBVIOUS
<1>0. TypeOK
    BY DEF TypeInv
<1>1. ASSUME NEW w \in Workers, Take(w) PROVE CoverInv'
    <2>0. PICK q : q = Boot(w)
        OBVIOUS
    <2>1. /\ q \in Boots /\ next[q] \in Nat /\ Len(Archives[q]) \in Nat
          /\ next' = [next EXCEPT ![q] = @ + 1]
          /\ UNCHANGED share
        BY <1>0, <1>1, <2>0, PageType, NarAssumption DEF TypeOK, Take
    <2>2. \A v \in Workers : v # w => pc'[v] = pc[v] /\ item'[v] = item[v]
        BY <1>0, <1>1 DEF Take, Goto, TypeOK
    <2>3. \A b \in Boots : \A i : Accounted(b, i) => Accounted(b, i)'
        BY <1>1, <2>1, <2>2 DEF Take, Accounted, Fetching
    <2>4. ASSUME NEW k \in 1..Len(Archives[q]), k = next[q] + 1
          PROVE  Accounted(q, Archives[q][k])'
        <3>1. pc'[w] = "lookup" /\ item'[w] = Archives[q][k]
            BY <1>0, <1>1, <2>0, <2>1, <2>4 DEF Take, Goto, TypeOK
        <3> QED BY <2>0, <3>1 DEF Accounted, Fetching
    <2>5. ASSUME NEW b \in Boots, NEW k \in 1..Len(Archives[b]), k <= next'[b]
          PROVE  Accounted(b, Archives[b][k])'
        <3>1. CASE b = q /\ k = next[q] + 1
            BY <2>4, <3>1
        <3>2. CASE ~(b = q /\ k = next[q] + 1)
            <4>1. next'[b] = IF b = q THEN next[q] + 1 ELSE next[b]
                BY <1>0, <2>1 DEF TypeOK
            <4>2. k \in Nat /\ next[q] \in Nat
                BY <2>1, <2>5
            <4>3. k <= next[b]
                BY <2>5, <3>2, <4>1, <4>2
            <4> QED BY <2>3, <2>5, <4>3 DEF CoverInv
        <3> QED BY <3>1, <3>2
    <2>6. ASSUME NEW v \in Workers, pc'[v] = "done"
          PROVE  next'[Boot(v)] >= Len(Archives[Boot(v)])
        <3>1. next[Boot(v)] >= Len(Archives[Boot(v)])
            <4>1. CASE v = w
                BY <1>0, <1>1, <2>0, <2>1, <2>6, <4>1 DEF Take, Goto, TypeOK
            <4>2. CASE v # w
                BY <2>2, <2>6, <4>2 DEF CoverInv
            <4> QED BY <4>1, <4>2
        <3>2. Boot(v) \in Boots /\ next[Boot(v)] \in Nat /\ Len(Archives[Boot(v)]) \in Nat
            BY <1>0, PageType, NarAssumption DEF TypeOK
        <3> QED BY <1>0, <2>1, <3>1, <3>2 DEF TypeOK
    <2> QED BY <2>1, <2>5, <2>6 DEF CoverInv
<1>2. ASSUME NEW w \in Workers, FetchStep(w) PROVE CoverInv'
    BY <1>2, FetchStepProgresses, ProgressKeepsCover
<1>3. ASSUME NEW b \in Boots, EngineSettles(b) PROVE CoverInv'
    BY <1>3 DEF EngineSettles, CoverInv, Accounted, fetchVars
<1>4. ASSUME NEW p \in Pages, Reload(p) PROVE CoverInv'
    <2>1. /\ \A b \in Boots : PageOf[b] = p => next'[b] = 0 /\ share'[b] = {}
          /\ \A b \in Boots : PageOf[b] # p => next'[b] = next[b] /\ share'[b] = share[b]
        BY <1>4 DEF Reload
    <2>2. \A w \in Workers : Page(w) # p => pc'[w] = pc[w] /\ item'[w] = item[w]
        BY <1>4 DEF Reload
    <2>3. \A w \in Workers : Page(w) = p => pc'[w] # "done"
        BY <1>4 DEF Reload
    <2>4. \A b \in Boots : \A i : PageOf[b] # p /\ Accounted(b, i) => Accounted(b, i)'
        BY <2>1, <2>2 DEF Accounted, Page
    <2>5. \A b \in Boots : Len(Archives[b]) \in Nat
        BY NarAssumption
    <2> QED BY <2>1, <2>2, <2>3, <2>4, <2>5, PageType DEF CoverInv, Page
<1>5. CASE UNCHANGED vars
    BY <1>5 DEF vars, fetchVars, CoverInv, Accounted
<1> QED BY <1>1, <1>2, <1>3, <1>4, <1>5 DEF Next, Work, FetchStep

\* When every worker of a boot has returned, the whole closure is in its
\* share: mapConcurrent resolves for a complete share only.
THEOREM ResolvedAlwaysComplete == Spec => []ResolvedIsComplete
<1>1. Init => CoverInv
    <2> SUFFICES ASSUME Init PROVE CoverInv
        OBVIOUS
    <2>1. \A b \in Boots : next[b] = 0 /\ share[b] = {}
        BY DEF Init
    <2>2. \A w \in Workers : pc[w] # "done"
        BY DEF Init
    <2> QED BY <2>1, <2>2 DEF CoverInv
<1>2. TypeInv /\ CoverInv => ResolvedIsComplete
    <2> SUFFICES ASSUME TypeInv, CoverInv, NEW b \in Boots,
                        NEW w \in Workers, Boot(w) = b, pc[w] = "done",
                        \A v \in Workers : Boot(v) = b => pc[v] \in {"done", "absent"}
                 PROVE  share[b] = ToSet(Archives[b])
        BY DEF ResolvedIsComplete
    <2>1. next[b] >= Len(Archives[b]) /\ next[b] \in Nat /\ Archives[b] \in Seq(Items)
        BY NarAssumption DEF CoverInv, TypeInv, TypeOK
    <2>2. ASSUME NEW k \in 1..Len(Archives[b]) PROVE Archives[b][k] \in share[b]
        <3>1. k <= next[b]
            BY <2>1
        <3> QED BY <3>1 DEF CoverInv, Accounted, Fetching
    <2> QED BY <2>1, <2>2 DEF CoverInv, ToSet
<1> QED BY <1>1, <1>2, TypeInvHolds, CoverInductive, PTL DEF Spec
-----------------------------------------------------------------------------
\* An archive over which nothing has gone wrong: what an attempt after the
\* first may find, and how a worker may have come to evict it.
Earned(w) ==
    item[w] \notin blamed =>
        /\ pc[w] # "refused"
        /\ pc[w] \in Fetching /\ attempt[w] # 1 => cache[item[w]] # "bad"
        /\ pc[w] = "store" => body[w] # "bad"
        /\ pc[w] \in {"decoding", "plain", "evict"} /\ body[w] = "bad" => attempt[w] = 1
        /\ pc[w] = "evict" => body[w] = "bad"

EarnInv == \A w \in Workers : Earned(w)

\* No step forgives, and none makes a copy bad but one over an archive that
\* the network got wrong.
Blaming ==
    /\ blamed \subseteq blamed'
    /\ \A i \in Items : cache'[i] = "bad" => cache[i] = "bad" \/ i \in blamed'

LEMMA EarnedStays ==
    ASSUME TypeInv, NEW w \in Workers, Earned(w), SameWorker(w), Blaming
    PROVE  Earned(w)'
<1>1. pc[w] \in Fetching => item[w] \in Items
    BY BusyWorker
<1> QED BY <1>1 DEF Earned, SameWorker, Blaming

LEMMA EveryStepBlames == TypeInv /\ EarnInv /\ [Next]_vars => Blaming
<1> SUFFICES ASSUME TypeInv, EarnInv, [Next]_vars PROVE Blaming
    OBVIOUS
<1>0. TypeOK
    BY DEF TypeInv
<1>1. ASSUME NEW w \in Workers, Store(w) PROVE Blaming
    <2>1. item[w] \in Items /\ (body[w] = "bad" => item[w] \in blamed)
        BY <1>1, BusyWorker DEF Store, EarnInv, Earned, Fetching
    <2>2. CASE cache' = [cache EXCEPT ![item[w]] = body[w]]
        BY <1>0, <1>1, <2>1, <2>2 DEF Store, Blaming, TypeOK
    <2> QED BY <1>1, <2>2 DEF Store, Blaming
<1>2. ASSUME NEW w \in Workers, Evict(w) PROVE Blaming
    <2>1. Uncache(item[w]) /\ item[w] \in Items
        BY <1>2, BusyWorker DEF Evict, Fetching
    <2> QED BY <1>0, <2>1 DEF Uncache, Blaming, TypeOK
<1>3. ASSUME NEW w \in Workers,
             Take(w) \/ Unsupported(w) \/ Hit(w) \/ HitBreaks(w) \/ Download(w)
                \/ Decode(w) \/ CheckPlain(w) \/ Write(w)
      PROVE  Blaming
    <2>1. UNCHANGED cache /\ blamed \subseteq blamed'
        BY <1>3 DEF Take, Unsupported, Hit, HitBreaks, Download, Decode, CheckPlain, Write
    <2> QED BY <2>1 DEF Blaming
<1>4. ASSUME NEW b \in Boots, EngineSettles(b) PROVE Blaming
    BY <1>4 DEF EngineSettles, Blaming
<1>5. ASSUME NEW p \in Pages, Reload(p) PROVE Blaming
    BY <1>5 DEF Reload, Blaming
<1>6. CASE UNCHANGED vars
    BY <1>6 DEF vars, Blaming
<1> QED BY <1>1, <1>2, <1>3, <1>4, <1>5, <1>6 DEF Next, Work

LEMMA EarnInductive ==
    ASSUME NarAttempts > 1
    PROVE  TypeInv /\ EarnInv /\ [Next]_vars => EarnInv'
<1> SUFFICES ASSUME TypeInv, EarnInv, [Next]_vars PROVE EarnInv'
    OBVIOUS
<1>0. TypeOK /\ Blaming
    BY EveryStepBlames DEF TypeInv
<1>1. ASSUME NEW w \in Workers, Take(w) PROVE EarnInv'
    <2>1. Earned(w)'
        <3>1. CASE Goto(w, "done")
            BY <1>0, <3>1 DEF Goto, TypeOK, Earned, Fetching
        <3>2. CASE Goto(w, "lookup") /\ attempt' = [attempt EXCEPT ![w] = 1]
            <4>1. pc'[w] = "lookup" /\ attempt'[w] = 1
                BY <1>0, <3>2 DEF Goto, TypeOK
            <4> QED BY <4>1 DEF Earned
        <3> QED BY <1>1, <3>1, <3>2 DEF Take
    <2>2. \A v \in Workers : v # w => SameWorker(v)
        BY <1>0, <1>1 DEF Take, Goto, TypeOK, SameWorker
    <2> QED BY <1>0, <2>1, <2>2, EarnedStays DEF EarnInv
<1>2. ASSUME NEW w \in Workers, FetchStep(w) PROVE EarnInv'
    <2>0. /\ Earned(w) /\ item[w] \in Items /\ attempt[w] \in 1..NarAttempts
          /\ pc[w] \in Fetching /\ WorkerInv(w)
          /\ \A v \in Workers : v # w => SameWorker(v)
        BY <1>2, FetchStepProgresses, BusyWorker DEF Progress, EarnInv
    <2> SUFFICES Earned(w)'
        BY <1>0, <2>0, EarnedStays DEF EarnInv
    <2>1. ASSUME NEW l \in {"next", "thrown"}, Leave(w, l) PROVE Earned(w)'
        <3>1. l \in Labels
            BY DEF Labels
        <3> QED BY <1>0, <2>1, <3>1, LeaveTypes DEF Earned, Fetching
    <2>2. ASSUME Judge(w), pc[w] \in {"decoding", "plain"}, blamed \subseteq blamed', UNCHANGED cache
          PROVE  Earned(w)'
        <3>1. CASE Goto(w, "unpacked") /\ body' = [body EXCEPT ![w] = "none"]
                   /\ UNCHANGED <<item, attempt>>
            BY <1>0, <2>0, <2>2, <3>1 DEF Goto, Earned, TypeOK, Fetching
        <3>2. CASE body[w] # "good" /\ Goto(w, "evict") /\ UNCHANGED fetchVars
            <4>1. body[w] = "bad" /\ UNCHANGED <<item, attempt, body>> /\ pc'[w] = "evict"
                BY <1>0, <2>0, <2>2, <3>2 DEF Goto, TypeOK, fetchVars, WorkerInv, Holding
            <4> QED BY <2>0, <2>2, <4>1 DEF Earned, Fetching
        <3> QED BY <2>1, <2>2, <3>1, <3>2 DEF Judge, Parse
    <2>3. ASSUME NEW b \in {"good", "bad"}, body'[w] = b, UNCHANGED <<item, attempt>>,
                 pc'[w] \in {"decoding", "plain"}, blamed \subseteq blamed',
                 item[w] \notin blamed => /\ b = "bad" => attempt[w] = 1
                                          /\ attempt[w] # 1 => cache'[item[w]] # "bad"
          PROVE  Earned(w)'
        BY <2>0, <2>3 DEF Earned, Fetching
    <2>4. CASE Unsupported(w) \/ HitBreaks(w)
        BY <2>1, <2>4 DEF Unsupported, HitBreaks
    <2>5. CASE Hit(w)
        <3>1. pc'[w] \in {"decoding", "plain"}
            BY <1>0, <2>5 DEF Hit, EnterDecoding, Goto, TypeOK
        <3>2. cache[item[w]] \in {"good", "bad"} /\ body'[w] = cache[item[w]]
            BY <1>0, <2>0, <2>5 DEF Hit, TypeOK
        <3>3. UNCHANGED <<item, attempt, blamed, cache>>
            BY <2>5 DEF Hit
        <3>4. item[w] \notin blamed /\ attempt[w] # 1 => cache[item[w]] # "bad"
            BY <2>0 DEF Earned
        <3> QED BY <2>3, <3>1, <3>2, <3>3, <3>4
    <2>6. CASE Download(w)
        <3>1. CASE Leave(w, "thrown")
            BY <2>1, <3>1
        <3>2. ASSUME NEW b \in {"good", "bad"}, body' = [body EXCEPT ![w] = b],
                     blamed' = IF b = "bad" THEN blamed \cup {item[w]} ELSE blamed,
                     Goto(w, "store"), UNCHANGED <<item, attempt>>
              PROVE  Earned(w)'
            <4>1. pc'[w] = "store" /\ body'[w] = b /\ UNCHANGED cache
                BY <1>0, <2>6, <3>2 DEF Download, Goto, TypeOK
            <4> QED BY <2>0, <3>2, <4>1 DEF Earned, Fetching
        <3> QED BY <2>6, <3>1, <3>2 DEF Download
    <2>7. CASE Store(w)
        <3>1. pc'[w] \in {"decoding", "plain"}
            BY <1>0, <2>7 DEF Store, EnterDecoding, Goto, TypeOK
        <3>2. UNCHANGED <<item, attempt, body, blamed>> /\ body[w] \in {"good", "bad"}
            BY <2>0, <2>7 DEF Store, fetchVars, WorkerInv, Holding
        <3>3. item[w] \notin blamed => body[w] # "bad" /\ (attempt[w] # 1 => cache[item[w]] # "bad")
            BY <2>0, <2>7 DEF Store, Earned
        <3>4. cache'[item[w]] \in {body[w], cache[item[w]]}
            BY <1>0, <2>0, <2>7 DEF Store, TypeOK
        <3> QED BY <2>3, <3>1, <3>2, <3>3, <3>4
    <2>8. CASE Decode(w)
        <3>1. CASE Judge(w) /\ UNCHANGED blamed
            BY <2>2, <2>8, <3>1 DEF Decode
        <3>2. CASE blamed' = blamed \cup {item[w]} /\ Goto(w, "evict") /\ UNCHANGED fetchVars
            BY <3>2 DEF Earned, fetchVars
        <3> QED BY <2>8, <3>1, <3>2 DEF Decode
    <2>9. CASE CheckPlain(w)
        BY <2>2, <2>9 DEF CheckPlain
    <2>10. CASE Evict(w)
        <3>1. /\ item' = item /\ pc[w] = "evict" /\ pc'[w] \in {"lookup", "refused"}
              /\ pc'[w] = "refused" => attempt[w] >= NarAttempts
            BY <1>0, <2>0, <2>10, NarAssumption DEF Evict, MayRetry, Goto, TypeOK
        <3>2. item[w] \notin blamed => attempt[w] = 1
            BY <2>0, <3>1 DEF Earned
        <3>3. item[w] \notin blamed' => item[w] \notin blamed /\ cache'[item[w]] = "none"
            BY <1>0, <2>0, <2>10 DEF Evict, Uncache, TypeOK
        <3> QED BY <3>1, <3>2, <3>3, NarAssumption DEF Earned
    <2>11. CASE Write(w)
        BY <2>1, <2>11 DEF Write
    <2> QED BY <1>2, <2>4, <2>5, <2>6, <2>7, <2>8, <2>9, <2>10, <2>11 DEF FetchStep
<1>3. ASSUME NEW b \in Boots, EngineSettles(b) PROVE EarnInv'
    BY <1>0, <1>3, EarnedStays DEF EngineSettles, EarnInv, SameWorker, fetchVars
<1>4. ASSUME NEW p \in Pages, Reload(p) PROVE EarnInv'
    <2>1. ASSUME NEW v \in Workers, Page(v) = p PROVE Earned(v)'
        BY <1>4, <2>1 DEF Reload, Earned, Fetching
    <2>2. ASSUME NEW v \in Workers, Page(v) # p PROVE SameWorker(v)
        BY <1>4, <2>2 DEF Reload, SameWorker
    <2> QED BY <1>0, <2>1, <2>2, EarnedStays DEF EarnInv
<1>5. CASE UNCHANGED vars
    BY <1>5 DEF vars, fetchVars, EarnInv, Earned
<1> QED BY <1>1, <1>2, <1>3, <1>4, <1>5 DEF Next, Work, FetchStep

\* With a second attempt, no archive is refused for what an earlier visit
\* left in the cache: the network, a decoder or a browser that does not
\* forget has gone wrong over it since (fetchNar's evict and retry).
THEOREM RefusalAlwaysEarned ==
    ASSUME NarAttempts > 1
    PROVE  Spec => []RefusalIsEarned
<1>1. Init => EarnInv
    BY DEF Init, EarnInv, Earned, Fetching
<1>2. EarnInv => RefusalIsEarned
    BY DEF EarnInv, Earned, RefusalIsEarned
<1>3. TypeInv /\ EarnInv /\ [Next]_vars => EarnInv'
    BY EarnInductive
<1> QED BY <1>1, <1>2, <1>3, TypeInvHolds, PTL DEF Spec

-----------------------------------------------------------------------------
Owner(w, i) == item[w] = i /\ body[w] = "bad" /\ pc[w] \in {"decoding", "plain", "evict"}

\* A bad copy loses its owner only to the step that clears or orphans it.
LEMMA BadHasAnOwnerInductive == TypeInv /\ BadHasAnOwner /\ [Next]_vars => BadHasAnOwner'
<1> SUFFICES ASSUME TypeInv, BadHasAnOwner, [Next]_vars,
                    NEW i \in Items, cache'[i] = "bad"
             PROVE  i \in orphaned' \/ \E w \in Workers : Owner(w, i)'
    BY DEF BadHasAnOwner, Owner
<1>0. TypeOK
    BY DEF TypeInv
<1>1. ASSUME cache[i] = "bad", orphaned \subseteq orphaned',
             \A w \in Workers : Owner(w, i) => Owner(w, i)'
      PROVE  i \in orphaned' \/ \E w \in Workers : Owner(w, i)'
    BY <1>1 DEF BadHasAnOwner, Owner
<1>2. ASSUME NEW w \in Workers, Take(w)
      PROVE  i \in orphaned' \/ \E v \in Workers : Owner(v, i)'
    BY <1>0, <1>1, <1>2 DEF Take, Goto, TypeOK, Owner
<1>3. ASSUME NEW w \in Workers, FetchStep(w)
      PROVE  i \in orphaned' \/ \E v \in Workers : Owner(v, i)'
    <2>1. /\ \A v \in Workers : v # w => (Owner(v, i) => Owner(v, i)')
          /\ item[w] \in Items
        BY <1>3, FetchStepProgresses, BusyWorker DEF Progress, SameWorker, Owner
    <2>2. ASSUME cache' = cache, orphaned' = orphaned, Owner(w, i) => Owner(w, i)'
          PROVE  i \in orphaned' \/ \E v \in Workers : Owner(v, i)'
        BY <1>1, <2>1, <2>2
    <2>3. CASE Unsupported(w) \/ Hit(w) \/ HitBreaks(w) \/ Download(w) \/ Write(w)
        BY <2>2, <2>3 DEF Unsupported, Hit, HitBreaks, Download, Write, Owner
    <2>4. CASE Store(w)
        <3>1. pc'[w] \in {"decoding", "plain"} /\ ~Owner(w, i) /\ UNCHANGED <<item, body>>
            BY <1>0, <2>4 DEF Store, EnterDecoding, Goto, TypeOK, Owner, fetchVars
        <3>2. CASE cache' = cache /\ orphaned' = orphaned
            BY <2>2, <3>1, <3>2
        <3>3. CASE cache' = [cache EXCEPT ![item[w]] = body[w]]
                   /\ orphaned' = orphaned \ {item[w]}
            <4>1. CASE i = item[w]
                <5>1. body[w] = "bad"
                    BY <1>0, <2>1, <3>3, <4>1 DEF TypeOK
                <5> QED BY <3>1, <4>1, <5>1 DEF Owner
            <4>2. CASE i # item[w]
                <5>1. cache[i] = "bad" /\ (i \in orphaned => i \in orphaned')
                    BY <1>0, <2>1, <3>3, <4>2 DEF TypeOK
                <5> QED BY <2>1, <3>1, <5>1 DEF BadHasAnOwner, Owner
            <4> QED BY <4>1, <4>2
        <3> QED BY <2>4, <3>2, <3>3 DEF Store
    <2>5. CASE Decode(w) \/ CheckPlain(w)
        <3>1. ASSUME Owner(w, i) PROVE Owner(w, i)'
            BY <1>0, <2>5, <3>1 DEF Decode, CheckPlain, Judge, Goto, Owner, TypeOK, fetchVars
        <3> QED BY <2>2, <2>5, <3>1 DEF Decode, CheckPlain
    <2>6. CASE Evict(w)
        <3>1. CASE cache' = [cache EXCEPT ![item[w]] = "none"]
                   /\ orphaned' = orphaned \ {item[w]}
            <4>1. i # item[w] /\ cache[i] = "bad" /\ (i \in orphaned => i \in orphaned')
                BY <1>0, <2>1, <3>1 DEF TypeOK
            <4> QED BY <2>1, <4>1 DEF BadHasAnOwner, Owner
        <3>2. CASE cache' = cache
                   /\ orphaned' = IF cache[item[w]] = "bad" THEN orphaned \cup {item[w]}
                                                            ELSE orphaned
            <4>1. CASE i = item[w]
                BY <3>2, <4>1
            <4>2. CASE i # item[w]
                BY <2>1, <3>2, <4>2 DEF BadHasAnOwner, Owner
            <4> QED BY <4>1, <4>2
        <3> QED BY <2>6, <3>1, <3>2 DEF Evict, Uncache
    <2> QED BY <1>3, <2>3, <2>4, <2>5, <2>6 DEF FetchStep
<1>4. ASSUME NEW b \in Boots, EngineSettles(b)
      PROVE  i \in orphaned' \/ \E v \in Workers : Owner(v, i)'
    BY <1>1, <1>4 DEF EngineSettles, Owner, fetchVars
<1>5. ASSUME NEW p \in Pages, Reload(p) PROVE i \in orphaned'
    BY <1>5 DEF Reload
<1>6. CASE UNCHANGED vars
    BY <1>1, <1>6 DEF vars, fetchVars, Owner
<1> QED BY <1>2, <1>3, <1>4, <1>5, <1>6 DEF Next, Work, FetchStep

\* A bad copy in the cache is one that some fetch under way is about to
\* evict, unless its page was closed or the browser would not forget it.
THEOREM BadAlwaysHasAnOwner == Spec => []BadHasAnOwner
<1>1. Init => BadHasAnOwner
    BY DEF Init, BadHasAnOwner
<1> QED BY <1>1, TypeInvHolds, BadHasAnOwnerInductive, PTL DEF Spec
=============================================================================
