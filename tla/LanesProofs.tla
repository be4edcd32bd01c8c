----------------------------- MODULE LanesProofs -----------------------------
(***************************************************************************)
(* For every index, every line and text the reader may enter and however   *)
(* many handlers await at once: a box shows the answer to its latest       *)
(* request, and a line is selected whole.  And, of an index no three of    *)
(* whose versions compare in a circle: with the highest it admits.         *)
(***************************************************************************)
EXTENDS Lanes, SequenceTheorems, FiniteSetTheorems, TLAPS

-----------------------------------------------------------------------------
(* Queues and tasks.                                                       *)

\* What an element at the end of a queue, and taking its head, change.
LEMMA QueueAppend ==
    ASSUME NEW S, NEW s \in Seq(S), NEW x \in S
    PROVE  /\ Append(s, x) \in Seq(S) /\ Len(Append(s, x)) = Len(s) + 1
           /\ Len(s) \in Nat
           /\ \A i \in 1..Len(s) : Append(s, x)[i] = s[i]
           /\ Append(s, x)[Len(s) + 1] = x
BY AppendProperties

LEMMA QueueHead ==
    ASSUME NEW S, NEW s \in Seq(S), s # <<>>
    PROVE  /\ Head(s) \in S /\ Head(s) = s[1] /\ Tail(s) \in Seq(S)
           /\ Len(s) \in Nat \ {0} /\ Len(Tail(s)) = Len(s) - 1
           /\ \A i \in 1..(Len(s) - 1) : Tail(s)[i] = s[i + 1]
BY HeadTailProperties

LEMMA InQueue ==
    ASSUME NEW S, NEW s \in Seq(S)
    PROVE  /\ ToSet(s) \subseteq S
           /\ \A x : x \in ToSet(s) <=> \E i \in 1..Len(s) : s[i] = x
BY DEF ToSet

LEMMA AppendSet ==
    ASSUME NEW S, NEW s \in Seq(S), NEW x \in S
    PROVE  ToSet(Append(s, x)) = ToSet(s) \cup {x}
<1> DEFINE t == Append(s, x)
<1>1. /\ t \in Seq(S) /\ Len(t) = Len(s) + 1 /\ Len(s) \in Nat
      /\ \A i \in 1..Len(s) : t[i] = s[i]
      /\ t[Len(s) + 1] = x
    BY QueueAppend
<1> HIDE DEF t
<1>2. ASSUME NEW y PROVE y \in ToSet(t) <=> y \in ToSet(s) \cup {x}
    <2>1. y \in ToSet(t) <=> \E i \in 1..(Len(s) + 1) : t[i] = y
        BY <1>1, InQueue
    <2>2. y \in ToSet(s) <=> \E i \in 1..Len(s) : s[i] = y
        BY InQueue
    <2>3. (\E i \in 1..(Len(s) + 1) : t[i] = y) <=> ((\E i \in 1..Len(s) : t[i] = y) \/ t[Len(s) + 1] = y)
        BY <1>1
    <2> QED BY <1>1, <2>1, <2>2, <2>3
<1> QED BY <1>2 DEF t

LEMMA TailSet ==
    ASSUME NEW S, NEW s \in Seq(S), s # <<>>
    PROVE  ToSet(Tail(s)) \subseteq ToSet(s) /\ Head(s) \in ToSet(s)
<1> DEFINE r == Tail(s)
<1>1. /\ r \in Seq(S) /\ Len(s) \in Nat \ {0} /\ Len(r) = Len(s) - 1
      /\ \A i \in 1..(Len(s) - 1) : r[i] = s[i + 1]
      /\ Head(s) = s[1]
    BY QueueHead
<1> HIDE DEF r
<1>2. ASSUME NEW x \in ToSet(r) PROVE x \in ToSet(s)
    <2>1. PICK i \in 1..Len(r) : r[i] = x
        BY <1>1, <1>2, InQueue
    <2>2. i + 1 \in 1..Len(s) /\ s[i + 1] = x
        BY <1>1, <2>1
    <2> QED BY <2>2, InQueue
<1>3. 1 \in 1..Len(s)
    BY <1>1
<1> QED BY <1>1, <1>2, <1>3, InQueue DEF r

LEMMA KeyTypes == Names \in Keys /\ \A a \in Attrs : Meta(a) \in Keys
BY DEF Keys

LEMMA RequestTypes ==
    ASSUME NEW t \in Requests
    PROVE  /\ t.box \in {"range", "pane", "line"}
           /\ t.keys \in Seq(Keys) /\ t.keys # <<>> /\ Head(t.keys) \in Keys
           /\ t.box = "range" => t.what \in Fragments
           /\ t.box = "pane" => t.what \in Results
           /\ t.box = "line" => t.what \in [line : Lines]
<1>1. t.keys \in Seq(Keys) /\ t.keys # <<>>
    BY DEF Requests
<1>2. Head(t.keys) \in Keys
    BY <1>1, QueueHead
<1> QED BY <1>1, <1>2 DEF Requests

\* What a line awaits.
LEMMA LineKeys ==
    ASSUME NEW line \in Lines,
           NEW keys, keys = [i \in DOMAIN line |-> Meta(line[i].attr)]
    PROVE  /\ keys \in Seq(Keys) \ {<<>>} /\ DOMAIN line = 1..Len(line)
           /\ Len(keys) = Len(line) /\ \A i \in DOMAIN line : keys[i] = Meta(line[i].attr)
<1>1. line \in Seq(ToSet(line)) /\ line # <<>> /\ \A i \in DOMAIN line : line[i].attr \in Attrs
    BY LanesAssumption
<1>2. DOMAIN line = 1..Len(line) /\ Len(line) \in Nat \ {0}
    BY <1>1, EmptySeq
<1>3. \A i \in 1..Len(line) : keys[i] \in Keys
    BY <1>1, <1>2, KeyTypes
<1>4. keys = [i \in 1..Len(line) |-> keys[i]]
    BY <1>2
<1>5. keys \in [1..Len(line) -> Keys]
    BY <1>3, <1>4
<1>6. keys \in Seq(Keys) /\ Len(keys) = Len(line)
    BY <1>2, <1>5
<1>7. keys # <<>>
    BY <1>2, <1>6
<1> QED BY <1>2, <1>6, <1>7

\* A task that goes on to its next key.
LEMMA NextKey ==
    ASSUME NEW t \in Requests, Tail(t.keys) # <<>>,
           NEW u, u = [t EXCEPT !.keys = Tail(t.keys)]
    PROVE  /\ u \in Requests /\ u.box = t.box /\ u.what = t.what /\ u.keys = Tail(t.keys)
<1>1. Tail(t.keys) \in Seq(Keys)
    BY RequestTypes, QueueHead
<1> QED BY <1>1 DEF Requests

-----------------------------------------------------------------------------
(* Types.                                                                  *)

LEMMA AwaitTypes ==
    ASSUME TypeOK, NEW t \in Requests, NEW queue \in Seq(Requests), Await(t, queue)
    PROVE  /\ promise' \in [Keys -> {"unasked", "pending", "ok", "empty", "failed"}]
           /\ waiting' \in [Keys -> Seq(Requests)]
           /\ turn' \in Seq(Requests)
<1> DEFINE k == Head(t.keys)
<1>1. k \in Keys
    BY RequestTypes
<1>2. waiting[k] \in Seq(Requests)
    BY <1>1 DEF TypeOK
<1>3. Append(waiting[k], t) \in Seq(Requests) /\ Append(queue, t) \in Seq(Requests)
    BY <1>2, QueueAppend
<1>4. \/ /\ promise' = [promise EXCEPT ![k] = "pending"]
         /\ waiting' = [waiting EXCEPT ![k] = Append(waiting[k], t)]
         /\ turn' = queue
      \/ turn' = Append(queue, t) /\ promise' = promise /\ waiting' = waiting
    BY DEF Await
<1> HIDE DEF k
<1>5. /\ promise \in [Keys -> {"unasked", "pending", "ok", "empty", "failed"}]
      /\ waiting \in [Keys -> Seq(Requests)]
    BY DEF TypeOK
<1>6. CASE turn' = queue /\ promise' = [promise EXCEPT ![k] = "pending"]
           /\ waiting' = [waiting EXCEPT ![k] = Append(waiting[k], t)]
    BY <1>1, <1>3, <1>5, <1>6
<1>7. CASE turn' = Append(queue, t) /\ promise' = promise /\ waiting' = waiting
    BY <1>3, <1>5, <1>7
<1> QED BY <1>4, <1>6, <1>7

WantedTypes ==
    /\ wanted["range"] \in Fragments \cup {NoFragment}
    /\ wanted["pane"] \in Results \cup {Clear}
    /\ DOMAIN wanted = Boxes /\ answered \subseteq Boxes /\ overtaken \subseteq Boxes

LEMMA WantTypes ==
    ASSUME WantedTypes, NEW b \in Boxes, NEW what, NEW keys, Want(b, what, keys),
           b = "range" => what \in Fragments \cup {NoFragment},
           b = "pane" => what \in Results \cup {Clear}
    PROVE  WantedTypes'
<1>1. /\ wanted' = [wanted EXCEPT ![b] = what]
      /\ answered' \in {answered \cup {b}, answered \ {b}}
      /\ overtaken' \in {overtaken \cup {b}, overtaken \ {b}}
    BY DEF Want
<1>2. DOMAIN wanted' = Boxes /\ \A c \in Boxes : wanted'[c] = IF c = b THEN what ELSE wanted[c]
    BY <1>1 DEF WantedTypes
<1> QED BY <1>1, <1>2 DEF WantedTypes, Boxes

LEMMA StartTypes ==
    ASSUME TypeOK, NEW t \in Requests, Start(t)
    PROVE  /\ promise' \in [Keys -> {"unasked", "pending", "ok", "empty", "failed"}]
           /\ waiting' \in [Keys -> Seq(Requests)]
           /\ turn' \in Seq(Requests)
           /\ WantedTypes'
<1>1. <<>> \in Seq(Requests) /\ Await(t, <<>>)
    BY EmptySeq DEF Start
<1>2. WantedTypes
    BY DEF TypeOK, WantedTypes
<1>3. CASE t.box \in Boxes
    <2>1. Want(t.box, t.what, t.keys)
        BY <1>3 DEF Start
    <2> QED BY <1>1, <1>2, <1>3, <2>1, AwaitTypes, WantTypes, RequestTypes
<1>4. CASE t.box \notin Boxes
    <2>1. UNCHANGED requests
        BY <1>4 DEF Start
    <2>2. WantedTypes'
        BY <1>2, <2>1 DEF WantedTypes, requests
    <2> QED BY <1>1, <2>2, AwaitTypes
<1> QED BY <1>3, <1>4

\* The dropdown and the selection.
OfferTypes ==
    /\ offer \in [for : Fragments \cup {NoFragment}, texts : Seq(STRING), at : Int]
    /\ offer.at \in -1..(Len(offer.texts) - 1)
    /\ Len(offer.texts) <= Completions

LEMMA HiddenTypes == ASSUME offer' = Hidden PROVE OfferTypes'
<1>1. <<>> \in Seq(STRING) /\ Len(<<>>) = 0
    BY EmptySeq
<1> QED BY <1>1, LanesAssumption DEF Hidden, OfferTypes

LEMMA OfferForTypes ==
    ASSUME NEW f \in Fragments, offer' = OfferFor(f)
    PROVE  OfferTypes'
<1> DEFINE k == IF f.mode = "attr" THEN Names ELSE Meta(f.attr)
           texts == IF promise[k] = "ok" THEN Offers[f] ELSE <<>>
           n == IF Len(texts) < Completions THEN Len(texts) ELSE Completions
           few == SubSeq(texts, 1, n)
<1>1. CASE texts = <<>>
    BY <1>1, HiddenTypes DEF OfferFor
<1>2. CASE texts # <<>>
    <2>1. texts \in Seq(STRING) /\ Completions \in Nat \ {0}
        BY <1>2, LanesAssumption
    <2>2. OfferFor(f) = [for |-> f, at |-> -1, texts |-> few]
        BY <1>2 DEF OfferFor
    <2> HIDE DEF texts
    <2>3. Len(texts) \in Nat \ {0} /\ n \in 1..Len(texts) /\ n <= Completions
        BY <1>2, <2>1
    <2> HIDE DEF n
    <2>4. ASSUME NEW i \in 1..n PROVE texts[i] \in STRING
        <3>1. i \in 1..Len(texts)
            BY <2>3
        <3> QED BY <2>1, <3>1, ElementOfSeq
    <2>5. few \in Seq(STRING) /\ Len(few) = n
        BY <2>3, <2>4, SubSeqProperties
    <2> HIDE DEF few
    <2>6. offer' = [for |-> f, at |-> -1, texts |-> few]
        BY <2>2
    <2> QED BY <2>3, <2>5, <2>6 DEF OfferTypes
<1> QED BY <1>1, <1>2

PickTypes == \A p \in picked : p.line \in Lines \cup {<<>>}

LEMMA SelectAllLines ==
    ASSUME NEW chosen, NEW line, NEW e \in SelectAll(chosen, line)
    PROVE  e \in chosen \/ e.line = line
BY DEF SelectAll

LoopTypes ==
    /\ promise \in [Keys -> {"unasked", "pending", "ok", "empty", "failed"}]
    /\ waiting \in [Keys -> Seq(Requests)]
    /\ turn \in Seq(Requests)

PaneTypes ==
    pane \in [kind : {"clear", "found", "loading", "versions"}, of : Queries \cup Attrs \cup {""}]

LaneTypes == lane \in [shown : {"search", "ranges"}, switches : 0..MaxSwitches]

LEMMA TypeParts ==
    /\ TypeOK <=> LoopTypes /\ OfferTypes /\ PaneTypes /\ LaneTypes /\ PickTypes /\ WantedTypes
    /\ TypeOK' <=>
        LoopTypes' /\ OfferTypes' /\ PaneTypes' /\ LaneTypes' /\ PickTypes' /\ WantedTypes'
BY DEF TypeOK, LoopTypes, OfferTypes, PaneTypes, LaneTypes, PickTypes, WantedTypes

\* What an action leaves alone keeps its type.
LEMMA Untouched ==
    ASSUME TypeOK
    PROVE  /\ UNCHANGED loop => LoopTypes'
           /\ UNCHANGED offer => OfferTypes'
           /\ UNCHANGED pane => PaneTypes'
           /\ UNCHANGED lane => LaneTypes'
           /\ UNCHANGED picked => PickTypes'
           /\ UNCHANGED requests => WantedTypes'
<1> USE TypeParts
<1>1. UNCHANGED loop => LoopTypes'
    BY DEF LoopTypes, loop
<1>2. UNCHANGED offer => OfferTypes'
    BY DEF OfferTypes
<1>3. UNCHANGED pane => PaneTypes'
    BY DEF PaneTypes
<1>4. UNCHANGED lane => LaneTypes'
    BY DEF LaneTypes
<1>5. UNCHANGED picked => PickTypes'
    BY DEF PickTypes
<1>6. UNCHANGED requests => WantedTypes'
    BY DEF WantedTypes, requests
<1> QED BY <1>1, <1>2, <1>3, <1>4, <1>5, <1>6

LEMMA TypeInductive == TypeOK /\ [Next]_vars => TypeOK'
<1> SUFFICES ASSUME TypeOK, [Next]_vars PROVE TypeOK'
    OBVIOUS
<1> USE TypeParts DEF screen
<1>1. ASSUME NEW f \in Fragments, Type(f) PROVE TypeOK'
    <2>1. CASE f \in Short
        <3>1. Want("range", f, <<>>) /\ offer' = Hidden /\ UNCHANGED <<loop, pane, picked, lane>>
            BY <1>1, <2>1 DEF Type, Refresh, RefreshShort
        <3>2. WantedTypes'
            BY <3>1, WantTypes DEF Boxes
        <3> QED BY <3>1, <3>2, HiddenTypes, Untouched
    <2>2. CASE f \notin Short
        <3> DEFINE t == [box |-> "range", what |-> f,
                         keys |-> <<IF f.mode = "attr" THEN Names ELSE Meta(f.attr)>>]
        <3>1. Start(t) /\ UNCHANGED <<screen, lane>>
            BY <1>1, <2>2 DEF Type, Refresh
        <3>2. (IF f.mode = "attr" THEN Names ELSE Meta(f.attr)) \in Keys
            BY KeyTypes, LanesAssumption
        <3>3. t \in Requests
            BY <3>2 DEF Requests
        <3> HIDE DEF t
        <3>4. LoopTypes' /\ WantedTypes'
            BY <3>1, <3>3, StartTypes DEF LoopTypes
        <3> QED BY <3>1, <3>4, Untouched
    <2> QED BY <2>1, <2>2
<1>2. ASSUME NEW delta \in {1, -1}, Arrow(delta) PROVE TypeOK'
    <2>1. offer.texts # <<>> /\ offer' = Move(delta)
          /\ UNCHANGED <<loop, pane, picked, lane, requests>>
        BY <1>2 DEF Arrow
    <2>2. /\ offer.texts \in Seq(STRING) /\ offer.at \in -1..(Len(offer.texts) - 1)
          /\ Len(offer.texts) <= Completions /\ offer.for \in Fragments \cup {NoFragment}
        BY DEF OfferTypes
    <2>3. Len(offer.texts) \in Nat \ {0}
        BY <2>1, <2>2, EmptySeq
    <2>4. (offer.at + delta + Len(offer.texts)) % Len(offer.texts) \in 0..(Len(offer.texts) - 1)
        <3>1. ASSUME NEW m \in Nat \ {0}, NEW i \in Int PROVE i % m \in 0..(m - 1)
            OBVIOUS
        <3>2. offer.at + delta + Len(offer.texts) \in Int
            BY <2>2, <2>3
        <3> QED BY <2>3, <3>1, <3>2
    <2>5. offer' = [for |-> offer.for, texts |-> offer.texts,
                    at |-> (offer.at + delta + Len(offer.texts)) % Len(offer.texts)]
        BY <2>1 DEF Move, OfferTypes
    <2>6. OfferTypes'
        BY <2>2, <2>3, <2>4, <2>5 DEF OfferTypes
    <2> QED BY <2>1, <2>6, Untouched
<1>3. CASE Hide
    <2>1. offer' = Hidden /\ UNCHANGED <<loop, pane, picked, lane, requests>>
        BY <1>3 DEF Hide
    <2> QED BY <2>1, HiddenTypes, Untouched
<1>4. ASSUME NEW i, Accept(i) PROVE TypeOK'
    <2>1. /\ offer' = Hidden /\ Want("range", NoFragment, <<>>)
          /\ UNCHANGED <<loop, pane, picked, lane>>
        BY <1>4 DEF Accept
    <2>2. WantedTypes'
        BY <2>1, WantTypes DEF Boxes
    <2> QED BY <2>1, <2>2, HiddenTypes, Untouched
<1>5. ASSUME NEW line \in Lines, SubmitLine(line) PROVE TypeOK'
    <2> DEFINE t == [box |-> "line", what |-> [line |-> line],
                     keys |-> [i \in DOMAIN line |-> Meta(line[i].attr)]]
    <2>1. Start(t) /\ UNCHANGED <<screen, lane>>
        BY <1>5 DEF SubmitLine
    <2>2. t \in Requests
        BY LineKeys DEF Requests
    <2> HIDE DEF t
    <2>3. LoopTypes' /\ WantedTypes'
        BY <2>1, <2>2, StartTypes DEF LoopTypes
    <2> QED BY <2>1, <2>3, Untouched
<1>6. CASE Search("")
    <2>1. /\ pane' = Clear /\ Want("pane", Clear, <<>>)
          /\ UNCHANGED <<loop, offer, picked, lane>>
        BY <1>6 DEF Search, ClearPane
    <2>2. WantedTypes'
        BY <2>1, WantTypes DEF Boxes
    <2>3. PaneTypes'
        BY <2>1 DEF PaneTypes, Clear
    <2> QED BY <2>1, <2>2, <2>3, Untouched
<1>7. ASSUME NEW q \in Queries, q # "", Search(q) PROVE TypeOK'
    <2> DEFINE t == [box |-> "pane", what |-> [kind |-> "found", of |-> q], keys |-> <<Names>>]
    <2>1. Start(t) /\ UNCHANGED <<screen, lane>>
        BY <1>7 DEF Search
    <2>2. t \in Requests
        BY KeyTypes DEF Requests, Results
    <2> HIDE DEF t
    <2>3. LoopTypes' /\ WantedTypes'
        BY <2>1, <2>2, StartTypes DEF LoopTypes
    <2> QED BY <2>1, <2>3, Untouched
<1>8. ASSUME NEW a \in Attrs, Expand(a) PROVE TypeOK'
    <2> DEFINE t == [box |-> "pane", what |-> [kind |-> "versions", of |-> a],
                     keys |-> <<Meta(a)>>]
    <2>1. Start(t) /\ pane' = [kind |-> "loading", of |-> a] /\ UNCHANGED <<offer, picked, lane>>
        BY <1>8 DEF Expand
    <2>2. t \in Requests
        BY KeyTypes DEF Requests, Results
    <2> HIDE DEF t
    <2>3. LoopTypes' /\ WantedTypes'
        BY <2>1, <2>2, StartTypes DEF LoopTypes
    <2>4. PaneTypes'
        BY <2>1 DEF PaneTypes
    <2> QED BY <2>1, <2>3, <2>4, Untouched
<1>9. ASSUME NEW r \in AllReleases, Pick(r) PROVE TypeOK'
    <2>1. picked' = Select(picked, [release |-> r, line |-> <<>>])
          /\ UNCHANGED <<loop, offer, pane, lane, requests>>
        BY <1>9 DEF Pick
    <2>2. PickTypes'
        BY <2>1 DEF PickTypes, Select
    <2> QED BY <2>1, <2>2, Untouched
<1>10. ASSUME NEW l \in {"search", "ranges"}, Switch(l) PROVE TypeOK'
    <2>1. LaneTypes'
        BY <1>10, LanesAssumption DEF Switch, LaneTypes
    <2>2. UNCHANGED <<loop, screen, requests>>
        BY <1>10 DEF Switch
    <2> QED BY <2>1, <2>2, Untouched
<1>11. ASSUME NEW k \in Keys, Settle(k) PROVE TypeOK'
    <2>1. waiting' = [waiting EXCEPT ![k] = <<>>] /\ turn' = waiting[k]
          /\ UNCHANGED <<screen, lane, requests>>
        BY <1>11 DEF Settle
    <2>2. PICK outcome \in {"ok", "empty", "failed"} : promise' = [promise EXCEPT ![k] = outcome]
        BY <1>11 DEF Settle, Deliver, Outcomes
    <2>3. LoopTypes'
        BY <2>1, <2>2, EmptySeq DEF LoopTypes
    <2> QED BY <2>1, <2>3, Untouched
<1>12. CASE Resume
    <2> DEFINE t == Head(turn)
    <2>1. t \in Requests /\ Tail(turn) \in Seq(Requests) /\ UNCHANGED lane
        BY <1>12, QueueHead DEF Resume, LoopTypes
    <2>2. CASE turn' = Tail(turn) /\ UNCHANGED <<promise, waiting, screen, requests>>
        <3>1. LoopTypes'
            BY <2>1, <2>2 DEF LoopTypes
        <3> QED BY <2>1, <2>2, <3>1, Untouched
    <2>3. CASE /\ Tail(t.keys) # <<>>
               /\ Await([t EXCEPT !.keys = Tail(t.keys)], Tail(turn))
               /\ UNCHANGED <<screen, requests>>
        <3>1. [t EXCEPT !.keys = Tail(t.keys)] \in Requests
            BY <2>1, <2>3, NextKey
        <3>2. LoopTypes'
            BY <2>1, <2>3, <3>1, AwaitTypes DEF LoopTypes
        <3> QED BY <2>1, <2>3, <3>2, Untouched
    <2>4. CASE Finish(t) /\ turn' = Tail(turn) /\ UNCHANGED <<promise, waiting>>
        <3>1. LoopTypes'
            BY <2>1, <2>4 DEF LoopTypes
        <3>2. OfferTypes'
            <4>1. CASE t.box = "range"
                BY <2>1, <2>4, <4>1, RequestTypes, OfferForTypes DEF Finish, Show
            <4>2. CASE t.box # "range"
                BY <2>4, <4>2, Untouched DEF Finish, Show
            <4> QED BY <4>1, <4>2
        <3>3. PaneTypes'
            BY <2>1, <2>4, RequestTypes DEF Finish, Show, PaneTypes, Results
        <3>4. PickTypes'
            <4>1. CASE t.box = "line"
                <5>1. t.what.line \in Lines
                    BY <2>1, <4>1, RequestTypes
                <5>2. picked' = SelectAll(picked, t.what.line)
                    BY <2>4, <4>1 DEF Finish, Show
                <5> QED BY <5>1, <5>2, SelectAllLines DEF PickTypes
            <4>2. CASE t.box # "line"
                BY <2>4, <4>2, Untouched DEF Finish, Show
            <4> QED BY <4>1, <4>2
        <3>5. WantedTypes'
            BY <2>4 DEF Finish, WantedTypes
        <3> QED BY <2>1, <3>1, <3>2, <3>3, <3>4, <3>5, Untouched
    <2> QED BY <1>12, <2>2, <2>3, <2>4 DEF Resume
<1>13. CASE UNCHANGED vars
    BY <1>13, Untouched DEF vars
<1> QED
    BY <1>1, <1>2, <1>3, <1>4, <1>5, <1>6, <1>7, <1>8, <1>9, <1>10, <1>11, <1>12, <1>13
    DEF Next, Reader, Tab, Enter, ClickItem

\* Every variable keeps its type: what Enter and Tab accept exists.
THEOREM TypeCorrect == Spec => []TypeOK
<1>1. Init => TypeOK
    <2> SUFFICES ASSUME Init PROVE TypeOK
        OBVIOUS
    <2>1. <<>> \in Seq(Requests) /\ <<>> \in Seq(STRING) /\ Len(<<>>) = 0
        BY EmptySeq
    <2>2. LoopTypes
        BY <2>1 DEF Init, LoopTypes
    <2>3. OfferTypes
        BY <2>1, LanesAssumption DEF Init, OfferTypes, Hidden
    <2>4. PaneTypes /\ PickTypes
        BY DEF Init, PaneTypes, PickTypes, Clear
    <2>5. LaneTypes
        BY LanesAssumption DEF Init, LaneTypes
    <2>6. WantedTypes
        BY DEF Init, WantedTypes, Boxes
    <2> QED BY <2>2, <2>3, <2>4, <2>5, <2>6, TypeParts
<1> QED BY <1>1, TypeInductive, PTL DEF Spec

-----------------------------------------------------------------------------
(* The queues: what waits for a promise waits for a pending one, what is   *)
(* to be resumed had its own settled, and only a line awaits several.      *)

Tasks == ToSet(turn) \cup UNION {ToSet(waiting[k]) : k \in Keys}

QueueInv ==
    /\ \A k \in Keys : \A t \in ToSet(waiting[k]) : Head(t.keys) = k /\ promise[k] = "pending"
    /\ \A t \in ToSet(turn) : promise[Head(t.keys)] \in {"ok", "empty", "failed"}
    /\ \A t \in Tasks : t.box \in Boxes => Tail(t.keys) = <<>>

LEMMA EmptySet == ToSet(<<>>) = {}
BY EmptySeq DEF ToSet

LEMMA TasksAreRequests ==
    ASSUME TypeOK
    PROVE  /\ Tasks \subseteq Requests /\ turn \in Seq(Requests)
           /\ \A k \in Keys : waiting[k] \in Seq(Requests)
<1>1. turn \in Seq(Requests) /\ \A k \in Keys : waiting[k] \in Seq(Requests)
    BY DEF TypeOK
<1>2. ToSet(turn) \subseteq Requests
    BY <1>1, InQueue
<1>3. ASSUME NEW k \in Keys PROVE ToSet(waiting[k]) \subseteq Requests
    <2>1. waiting[k] \in Seq(Requests)
        BY <1>1
    <2> QED BY <2>1, InQueue
<1> QED BY <1>1, <1>2, <1>3 DEF Tasks

\* The two ways of an await.
Parked(t, queue) ==
    /\ promise[Head(t.keys)] \in {"unasked", "pending"} /\ promise'[Head(t.keys)] = "pending"
    /\ \A k \in Keys : k # Head(t.keys) => promise'[k] = promise[k] /\ waiting'[k] = waiting[k]
    /\ waiting'[Head(t.keys)] = Append(waiting[Head(t.keys)], t)
    /\ ToSet(waiting'[Head(t.keys)]) = ToSet(waiting[Head(t.keys)]) \cup {t}
    /\ turn' = queue

Queued(t, queue) ==
    /\ promise[Head(t.keys)] \in {"ok", "empty", "failed"}
    /\ turn' = Append(queue, t) /\ ToSet(turn') = ToSet(queue) \cup {t}
    /\ promise' = promise /\ waiting' = waiting

LEMMA AwaitSteps ==
    ASSUME TypeOK, NEW t \in Requests, NEW queue \in Seq(Requests), Await(t, queue)
    PROVE  Parked(t, queue) \/ Queued(t, queue)
<1> DEFINE k == Head(t.keys)
<1>1. k \in Keys
    BY RequestTypes
<1>2. /\ promise \in [Keys -> {"unasked", "pending", "ok", "empty", "failed"}]
      /\ waiting \in [Keys -> Seq(Requests)]
    BY DEF TypeOK
<1>3. /\ ToSet(Append(waiting[k], t)) = ToSet(waiting[k]) \cup {t}
      /\ ToSet(Append(queue, t)) = ToSet(queue) \cup {t}
    <2>1. waiting[k] \in Seq(Requests)
        BY <1>1, <1>2
    <2> QED BY <2>1, AppendSet
<1>4. CASE promise[k] \in {"unasked", "pending"}
    <2>1. /\ promise' = [promise EXCEPT ![k] = "pending"]
          /\ waiting' = [waiting EXCEPT ![k] = Append(waiting[k], t)]
          /\ turn' = queue
        BY <1>4 DEF Await
    <2> HIDE DEF k
    <2>2. /\ promise'[k] = "pending" /\ waiting'[k] = Append(waiting[k], t)
          /\ \A l \in Keys : l # k => promise'[l] = promise[l] /\ waiting'[l] = waiting[l]
        BY <1>1, <1>2, <2>1
    <2> QED BY <1>3, <1>4, <2>1, <2>2 DEF Parked, k
<1>5. CASE promise[k] \notin {"unasked", "pending"}
    <2>1. turn' = Append(queue, t) /\ promise' = promise /\ waiting' = waiting
        BY <1>5 DEF Await
    <2>2. promise[k] \in {"ok", "empty", "failed"}
        BY <1>1, <1>2, <1>5
    <2> QED BY <1>3, <2>1, <2>2 DEF Queued
<1> QED BY <1>4, <1>5

LEMMA InTasks ==
    /\ \A u : u \in Tasks <=> u \in ToSet(turn) \/ \E k \in Keys : u \in ToSet(waiting[k])
    /\ \A u : u \in Tasks' <=> u \in ToSet(turn') \/ \E k \in Keys : u \in ToSet(waiting'[k])
BY DEF Tasks

LEMMA AwaitTasks ==
    ASSUME NEW t \in Requests, NEW queue, Parked(t, queue) \/ Queued(t, queue)
    PROVE  \A u \in Tasks' :
              u = t \/ u \in ToSet(queue) \/ \E k \in Keys : u \in ToSet(waiting[k])
<1>1. Head(t.keys) \in Keys
    BY RequestTypes
<1>2. ASSUME NEW u \in ToSet(turn') PROVE u \in ToSet(queue) \cup {t}
    BY <1>2 DEF Parked, Queued
<1>3. ASSUME NEW k \in Keys, NEW u \in ToSet(waiting'[k])
      PROVE  u \in ToSet(waiting[k]) \cup {t}
    BY <1>1, <1>3 DEF Parked, Queued
<1> QED BY <1>2, <1>3, InTasks

LEMMA AwaitAdds ==
    ASSUME NEW t \in Requests, NEW queue, Parked(t, queue) \/ Queued(t, queue),
           ToSet(queue) \subseteq ToSet(turn)
    PROVE  Tasks' \subseteq Tasks \cup {t}
<1>1. ASSUME NEW u \in Tasks' PROVE u = t \/ u \in Tasks
    <2>1. u = t \/ u \in ToSet(turn) \/ \E k \in Keys : u \in ToSet(waiting[k])
        BY AwaitTasks
    <2> QED BY <2>1, InTasks
<1> QED BY <1>1

\* What an await does to the queues.
LEMMA AwaitQueues ==
    ASSUME TypeOK, QueueInv, NEW t \in Requests, NEW queue \in Seq(Requests),
           Parked(t, queue) \/ Queued(t, queue), ToSet(queue) \subseteq ToSet(turn),
           t.box \in Boxes => Tail(t.keys) = <<>>
    PROVE  QueueInv'
<1>0. Head(t.keys) \in Keys
    BY RequestTypes
<1>1. CASE Parked(t, queue)
    <2>1. ASSUME NEW k \in Keys, NEW u \in ToSet(waiting'[k])
          PROVE  Head(u.keys) = k /\ promise'[k] = "pending"
        BY <1>0, <1>1, <2>1 DEF Parked, QueueInv
    <2>2. ASSUME NEW u \in ToSet(turn') PROVE promise'[Head(u.keys)] \in {"ok", "empty", "failed"}
        <3>1. u \in ToSet(turn) /\ promise[Head(u.keys)] \in {"ok", "empty", "failed"}
            BY <1>1, <2>2 DEF Parked, QueueInv
        <3>2. Head(u.keys) \in Keys
            BY <3>1, TasksAreRequests, RequestTypes DEF Tasks
        <3> QED BY <1>1, <3>1, <3>2 DEF Parked
    <2>3. Tasks' \subseteq Tasks \cup {t}
        BY <1>1, AwaitAdds
    <2> QED BY <2>1, <2>2, <2>3 DEF QueueInv
<1>2. CASE Queued(t, queue)
    <2>1. Tasks' \subseteq Tasks \cup {t}
        BY <1>2, AwaitAdds
    <2>2. ASSUME NEW u \in ToSet(turn') PROVE promise'[Head(u.keys)] \in {"ok", "empty", "failed"}
        BY <1>2, <2>2 DEF Queued, QueueInv
    <2> QED BY <1>2, <2>1, <2>2 DEF Queued, QueueInv
<1> QED BY <1>1, <1>2

\* What a handler leaves to await, or picks by hand.
LineAwaited(t) ==
    \A i \in DOMAIN t.what.line : \E n \in 1..Len(t.keys) : t.keys[n] = Meta(t.what.line[i].attr)

LEMMA OneKeyList == \A x \in Keys : <<x>> \in Seq(Keys) /\ <<x>> # <<>> /\ Tail(<<x>>) = <<>>
    /\ Head(<<x>>) = x
OBVIOUS

LEMMA Handlers ==
    ASSUME TypeOK, Reader
    PROVE  \/ /\ UNCHANGED loop
              /\ \A e \in picked' : e \in picked \/ e.line = <<>>
           \/ \E t \in Requests :
                /\ Start(t) /\ UNCHANGED picked
                /\ t.box \in Boxes => Tail(t.keys) = <<>>
                /\ t.box = "line" => LineAwaited(t)
<1> DEFINE Quiet == UNCHANGED loop /\ \A e \in picked' : e \in picked \/ e.line = <<>>
           Begin == \E t \in Requests :
                /\ Start(t) /\ UNCHANGED picked
                /\ t.box \in Boxes => Tail(t.keys) = <<>>
                /\ t.box = "line" => LineAwaited(t)
<1>1. ASSUME NEW f \in Fragments, Type(f) PROVE Quiet \/ Begin
    <2>1. CASE f \in Short
        BY <1>1, <2>1 DEF Type, Refresh, RefreshShort
    <2>2. CASE f \notin Short
        <3> DEFINE k == IF f.mode = "attr" THEN Names ELSE Meta(f.attr)
                   t == [box |-> "range", what |-> f, keys |-> <<k>>]
        <3>1. Start(t) /\ UNCHANGED picked
            BY <1>1, <2>2 DEF Type, Refresh, screen
        <3>2. k \in Keys
            BY KeyTypes, LanesAssumption
        <3>3. t \in Requests /\ t.box = "range" /\ Tail(t.keys) = <<>>
            BY <3>2, OneKeyList DEF Requests
        <3> HIDE DEF t
        <3> QED BY <3>1, <3>3
    <2> QED BY <2>1, <2>2
<1>2. ASSUME \/ \E delta \in {1, -1} : Arrow(delta)
             \/ Hide \/ (\E i : Accept(i)) \/ Search("")
             \/ \E l \in {"search", "ranges"} : Switch(l)
      PROVE  Quiet
    BY <1>2 DEF Arrow, Hide, Accept, Search, ClearPane, Switch, screen
<1>3. ASSUME NEW line \in Lines, SubmitLine(line) PROVE Begin
    <2> DEFINE keys == [i \in DOMAIN line |-> Meta(line[i].attr)]
               t == [box |-> "line", what |-> [line |-> line], keys |-> keys]
    <2>1. Start(t) /\ UNCHANGED picked
        BY <1>3 DEF SubmitLine, screen
    <2>2. /\ keys \in Seq(Keys) \ {<<>>} /\ DOMAIN line = 1..Len(line)
          /\ Len(keys) = Len(line) /\ \A i \in DOMAIN line : keys[i] = Meta(line[i].attr)
        BY LineKeys
    <2> HIDE DEF keys
    <2>3. t \in Requests /\ t.box = "line" /\ t.what.line = line /\ t.keys = keys
        BY <2>2 DEF Requests
    <2> HIDE DEF t
    <2>4. LineAwaited(t)
        BY <2>2, <2>3 DEF LineAwaited
    <2> QED BY <2>1, <2>3, <2>4 DEF Boxes
<1>4. ASSUME NEW q \in Queries, q # "", Search(q) PROVE Begin
    <2> DEFINE t == [box |-> "pane", what |-> [kind |-> "found", of |-> q], keys |-> <<Names>>]
    <2>1. Start(t) /\ UNCHANGED picked
        BY <1>4 DEF Search, screen
    <2>2. t \in Requests /\ t.box = "pane" /\ Tail(t.keys) = <<>>
        BY KeyTypes, OneKeyList DEF Requests, Results
    <2> HIDE DEF t
    <2> QED BY <2>1, <2>2
<1>5. ASSUME NEW a \in Attrs, Expand(a) PROVE Begin
    <2> DEFINE t == [box |-> "pane", what |-> [kind |-> "versions", of |-> a],
                     keys |-> <<Meta(a)>>]
    <2>1. Start(t) /\ UNCHANGED picked
        BY <1>5 DEF Expand
    <2>2. t \in Requests /\ t.box = "pane" /\ Tail(t.keys) = <<>>
        BY KeyTypes, OneKeyList DEF Requests, Results
    <2> HIDE DEF t
    <2> QED BY <2>1, <2>2
<1>6. ASSUME NEW r \in AllReleases, Pick(r) PROVE Quiet
    BY <1>6 DEF Pick, Select
<1> HIDE DEF Quiet, Begin
<1>7. Quiet \/ Begin
    BY <1>1, <1>2, <1>3, <1>4, <1>5, <1>6 DEF Reader, Tab, Enter, ClickItem
<1> QED BY <1>7 DEF Quiet, Begin

\* The three ways a task is resumed.
LEMMA ResumeSteps ==
    ASSUME TypeOK, Resume, NEW t, t = Head(turn)
    PROVE  /\ t \in Requests /\ t \in ToSet(turn) /\ turn # <<>>
           /\ Tail(turn) \in Seq(Requests) /\ ToSet(Tail(turn)) \subseteq ToSet(turn)
           /\ \/ /\ promise[Head(t.keys)] \notin Settled
                 /\ turn' = Tail(turn) /\ UNCHANGED <<promise, waiting, screen, requests>>
              \/ /\ promise[Head(t.keys)] \in Settled /\ UNCHANGED <<screen, requests>>
                 /\ \E u \in Requests :
                        /\ Tail(t.keys) # <<>>
                        /\ u.box = t.box /\ u.what = t.what /\ u.keys = Tail(t.keys)
                        /\ Parked(u, Tail(turn)) \/ Queued(u, Tail(turn))
              \/ /\ promise[Head(t.keys)] \in Settled /\ Tail(t.keys) = <<>> /\ Finish(t)
                 /\ turn' = Tail(turn) /\ UNCHANGED <<promise, waiting>>
<1>1. turn # <<>> /\ turn \in Seq(Requests)
    BY DEF Resume, TypeOK
<1>2. /\ t \in Requests /\ t \in ToSet(turn)
      /\ Tail(turn) \in Seq(Requests) /\ ToSet(Tail(turn)) \subseteq ToSet(turn)
    BY <1>1, QueueHead, TailSet
<1>3. CASE /\ promise[Head(t.keys)] \in Settled /\ Tail(t.keys) # <<>>
           /\ Await([t EXCEPT !.keys = Tail(t.keys)], Tail(turn))
           /\ UNCHANGED <<screen, requests>>
    <2> DEFINE u == [t EXCEPT !.keys = Tail(t.keys)]
    <2>1. u \in Requests /\ u.box = t.box /\ u.what = t.what /\ u.keys = Tail(t.keys)
        BY <1>2, <1>3, NextKey
    <2>2. Await(u, Tail(turn))
        BY <1>3
    <2> HIDE DEF u
    <2>3. Parked(u, Tail(turn)) \/ Queued(u, Tail(turn))
        BY <1>2, <2>1, <2>2, AwaitSteps
    <2> QED BY <1>1, <1>2, <1>3, <2>1, <2>3
<1>4. CASE /\ promise[Head(t.keys)] \notin Settled
           /\ turn' = Tail(turn) /\ UNCHANGED <<promise, waiting, screen, requests>>
    BY <1>1, <1>2, <1>4
<1>5. CASE /\ promise[Head(t.keys)] \in Settled /\ Tail(t.keys) = <<>> /\ Finish(t)
           /\ turn' = Tail(turn) /\ UNCHANGED <<promise, waiting>>
    BY <1>1, <1>2, <1>5
<1> QED BY <1>3, <1>4, <1>5 DEF Resume

LEMMA SettleSteps ==
    ASSUME TypeOK, NEW k \in Keys, Settle(k)
    PROVE  /\ promise[k] = "pending" /\ promise'[k] \in {"ok", "empty", "failed"}
           /\ \A l \in Keys : l # k => promise'[l] = promise[l] /\ waiting'[l] = waiting[l]
           /\ waiting'[k] = <<>> /\ turn' = waiting[k]
           /\ UNCHANGED <<screen, lane, requests>>
<1>1. /\ promise \in [Keys -> {"unasked", "pending", "ok", "empty", "failed"}]
      /\ waiting \in [Keys -> Seq(Requests)]
    BY DEF TypeOK
<1>2. PICK outcome \in {"ok", "empty", "failed"} : promise' = [promise EXCEPT ![k] = outcome]
    BY DEF Settle, Deliver, Outcomes
<1>3. promise[k] = "pending" /\ waiting' = [waiting EXCEPT ![k] = <<>>] /\ turn' = waiting[k]
      /\ UNCHANGED <<screen, lane, requests>>
    BY DEF Settle, Deliver
<1> QED BY <1>1, <1>2, <1>3

LEMMA QueueInductive == TypeOK /\ QueueInv /\ [Next]_vars => QueueInv'
<1> SUFFICES ASSUME TypeOK, QueueInv, [Next]_vars PROVE QueueInv'
    OBVIOUS
<1>0. <<>> \in Seq(Requests) /\ ToSet(<<>>) \subseteq ToSet(turn)
    BY EmptySeq, EmptySet
<1>1. CASE UNCHANGED loop
    BY <1>1 DEF loop, QueueInv, Tasks
<1>2. ASSUME NEW t \in Requests, Start(t), t.box \in Boxes => Tail(t.keys) = <<>>
      PROVE  QueueInv'
    <2>1. Parked(t, <<>>) \/ Queued(t, <<>>)
        BY <1>0, <1>2, AwaitSteps DEF Start
    <2> QED BY <1>0, <1>2, <2>1, AwaitQueues
<1>3. ASSUME NEW k \in Keys, Settle(k) PROVE QueueInv'
    <2>1. /\ promise'[k] \in {"ok", "empty", "failed"}
          /\ \A l \in Keys : l # k => promise'[l] = promise[l] /\ waiting'[l] = waiting[l]
          /\ waiting'[k] = <<>> /\ turn' = waiting[k]
        BY <1>3, SettleSteps
    <2>2. ToSet(waiting'[k]) = {} /\ ToSet(turn') = ToSet(waiting[k])
        BY <2>1, EmptySet
    <2>3. Tasks' \subseteq Tasks
        BY <2>1, <2>2 DEF Tasks
    <2>4. \A l \in Keys : \A t \in ToSet(waiting'[l]) : Head(t.keys) = l /\ promise'[l] = "pending"
        BY <2>1, <2>2 DEF QueueInv
    <2>5. \A t \in ToSet(turn') : promise'[Head(t.keys)] \in {"ok", "empty", "failed"}
        BY <2>1, <2>2 DEF QueueInv
    <2> QED BY <2>3, <2>4, <2>5 DEF QueueInv
<1>4. CASE Resume
    <2>1. PICK t : t = Head(turn)
        OBVIOUS
    <2>2. /\ t \in Tasks /\ Tail(turn) \in Seq(Requests) /\ ToSet(Tail(turn)) \subseteq ToSet(turn)
        BY <1>4, <2>1, ResumeSteps DEF Tasks
    <2>3. CASE turn' = Tail(turn) /\ UNCHANGED <<promise, waiting>>
        <3>1. Tasks' \subseteq Tasks /\ ToSet(turn') \subseteq ToSet(turn)
            BY <2>2, <2>3 DEF Tasks
        <3> QED BY <2>3, <3>1 DEF QueueInv
    <2>4. ASSUME NEW u \in Requests, u.box = t.box, Tail(t.keys) # <<>>,
                 Parked(u, Tail(turn)) \/ Queued(u, Tail(turn))
          PROVE  QueueInv'
        <3>1. u.box \notin Boxes
            BY <2>2, <2>4 DEF QueueInv
        <3> QED BY <2>2, <2>4, <3>1, AwaitQueues
    <2> QED BY <1>4, <2>1, <2>3, <2>4, ResumeSteps
<1>5. UNCHANGED vars => UNCHANGED loop
    BY DEF vars
<1> QED BY <1>1, <1>2, <1>3, <1>4, <1>5, Handlers DEF Next

-----------------------------------------------------------------------------
(* A line is selected whole: of each spec of a line under way, the shard   *)
(* is there or still to be awaited.                                        *)

LineKnows(t) ==
    \A i \in DOMAIN t.what.line :
        \/ promise[Meta(t.what.line[i].attr)] \in Settled
        \/ \E n \in 1..Len(t.keys) : t.keys[n] = Meta(t.what.line[i].attr)

LineInv ==
    /\ \A t \in Tasks : t.box = "line" => LineKnows(t)
    /\ LineIsWhole

LEMMA LineAttrs ==
    ASSUME NEW line \in Lines \cup {<<>>}, NEW i \in DOMAIN line
    PROVE  Meta(line[i].attr) \in Keys
<1>1. line \in Lines
    BY EmptySeq
<1>2. line[i].attr \in Attrs
    BY <1>1, LanesAssumption
<1> QED BY <1>2, KeyTypes

\* A promise that settled stays as it is.
StaysSettled == \A k \in Keys : promise[k] \in Settled => promise'[k] = promise[k]

LEMMA AwaitKeepsSettled ==
    ASSUME NEW t, NEW queue, Parked(t, queue) \/ Queued(t, queue)
    PROVE  StaysSettled
BY DEF StaysSettled, Settled, Parked, Queued

LEMMA LineStill ==
    ASSUME TypeOK, LineInv, StaysSettled,
           \A t \in Tasks' : t.box = "line" => t \in Tasks \/ LineKnows(t)',
           \A e \in picked' : \/ e \in picked \/ e.line = <<>>
                              \/ /\ e.line \in Lines
                                 /\ \A i \in DOMAIN e.line :
                                        promise[Meta(e.line[i].attr)] \in Settled
    PROVE  LineInv'
<1>1. ASSUME NEW t \in Tasks', t.box = "line" PROVE LineKnows(t)'
    <2>1. CASE t \in Tasks
        <3>1. LineKnows(t)
            BY <1>1, <2>1 DEF LineInv
        <3>2. t.what.line \in Lines
            BY <1>1, <2>1, TasksAreRequests, RequestTypes
        <3>3. ASSUME NEW i \in DOMAIN t.what.line, promise[Meta(t.what.line[i].attr)] \in Settled
              PROVE  promise'[Meta(t.what.line[i].attr)] \in Settled
            BY <3>2, <3>3, LineAttrs DEF StaysSettled
        <3> QED BY <3>1, <3>3 DEF LineKnows, Settled
    <2> QED BY <1>1, <2>1
<1>2. ASSUME NEW e \in picked', NEW i \in DOMAIN e.line
      PROVE  promise'[Meta(e.line[i].attr)] \in {"ok", "empty"}
    <2>1. e.line # <<>>
        BY EmptySeq
    <2>2. e.line \in Lines /\ promise[Meta(e.line[i].attr)] \in Settled
        BY <1>2, <2>1 DEF LineInv, LineIsWhole, Settled, TypeOK
    <2>3. Meta(e.line[i].attr) \in Keys
        BY <2>2, LineAttrs
    <2> QED BY <2>2, <2>3 DEF StaysSettled, Settled
<1> QED BY <1>1, <1>2 DEF LineInv, LineIsWhole

\* A task that goes on has its first key behind it.
LEMMA LineGoesOn ==
    ASSUME NEW t \in Requests, t.box = "line", LineKnows(t),
           promise[Head(t.keys)] \in Settled
    PROVE  \A i \in DOMAIN t.what.line :
              \/ promise[Meta(t.what.line[i].attr)] \in Settled
              \/ \E n \in 1..Len(Tail(t.keys)) : Tail(t.keys)[n] = Meta(t.what.line[i].attr)
<1> SUFFICES ASSUME NEW i \in DOMAIN t.what.line,
                    promise[Meta(t.what.line[i].attr)] \notin Settled
             PROVE  \E n \in 1..Len(Tail(t.keys)) : Tail(t.keys)[n] = Meta(t.what.line[i].attr)
    OBVIOUS
<1> DEFINE key == Meta(t.what.line[i].attr)
<1>1. PICK n \in 1..Len(t.keys) : t.keys[n] = key
    BY DEF LineKnows
<1> HIDE DEF key
<1>2. t.keys \in Seq(Keys) /\ t.keys # <<>>
    BY RequestTypes
<1>3. /\ Head(t.keys) = t.keys[1] /\ Len(t.keys) \in Nat \ {0}
      /\ Len(Tail(t.keys)) = Len(t.keys) - 1
      /\ \A m \in 1..(Len(t.keys) - 1) : Tail(t.keys)[m] = t.keys[m + 1]
    BY <1>2, QueueHead
<1>4. n # 1
    BY <1>1, <1>3 DEF key
<1>5. n - 1 \in 1..(Len(t.keys) - 1) /\ (n - 1) + 1 = n
    BY <1>1, <1>3, <1>4
<1>6. Tail(t.keys)[n - 1] = key
    BY <1>1, <1>3, <1>5
<1> QED BY <1>3, <1>5, <1>6 DEF key

LEMMA LineInductive == TypeOK /\ QueueInv /\ LineInv /\ [Next]_vars => LineInv'
<1> SUFFICES ASSUME TypeOK, QueueInv, LineInv, [Next]_vars PROVE LineInv'
    OBVIOUS
<1>1. ASSUME UNCHANGED loop, \A e \in picked' : e \in picked \/ e.line = <<>>
      PROVE  LineInv'
    <2>1. StaysSettled /\ Tasks' = Tasks
        BY <1>1 DEF loop, StaysSettled, Tasks
    <2> QED BY <1>1, <2>1, LineStill
<1>2. ASSUME turn = <<>>, NEW t \in Requests, Start(t), UNCHANGED picked,
             t.box = "line" => LineAwaited(t)
      PROVE  LineInv'
    <2>1. <<>> \in Seq(Requests) /\ ToSet(<<>>) = {}
        BY EmptySeq, EmptySet
    <2>2. Parked(t, <<>>) \/ Queued(t, <<>>)
        BY <1>2, <2>1, AwaitSteps DEF Start
    <2>3. Tasks' \subseteq Tasks \cup {t}
        BY <2>1, <2>2, AwaitAdds
    <2>4. t.box = "line" => LineKnows(t)'
        BY <1>2 DEF LineAwaited, LineKnows
    <2> QED BY <1>2, <2>2, <2>3, <2>4, AwaitKeepsSettled, LineStill
<1>3. ASSUME NEW k \in Keys, Settle(k) PROVE LineInv'
    <2>1. /\ promise[k] = "pending" /\ UNCHANGED picked
          /\ \A l \in Keys : l # k => promise'[l] = promise[l] /\ waiting'[l] = waiting[l]
          /\ waiting'[k] = <<>> /\ turn' = waiting[k]
        BY <1>3, SettleSteps DEF screen
    <2>2. StaysSettled
        BY <2>1 DEF StaysSettled, Settled
    <2>3. ToSet(waiting'[k]) = {} /\ ToSet(turn') = ToSet(waiting[k])
        BY <2>1, EmptySet
    <2>4. Tasks' \subseteq Tasks
        BY <2>1, <2>3, InTasks
    <2> QED BY <2>1, <2>2, <2>4, LineStill
<1>4. CASE Resume
    <2>1. PICK t : t = Head(turn)
        OBVIOUS
    <2>2. /\ t \in Requests /\ t \in Tasks
          /\ ToSet(Tail(turn)) \subseteq ToSet(turn)
        BY <1>4, <2>1, ResumeSteps DEF Tasks
    <2>3. ASSUME turn' = Tail(turn), UNCHANGED <<promise, waiting>>
          PROVE  StaysSettled /\ Tasks' \subseteq Tasks
        BY <2>2, <2>3 DEF Tasks, StaysSettled
    <2>4. CASE turn' = Tail(turn) /\ UNCHANGED <<promise, waiting, screen, requests>>
        BY <2>3, <2>4, LineStill DEF screen
    <2>5. ASSUME promise[Head(t.keys)] \in Settled, UNCHANGED screen,
                 NEW u \in Requests, u.box = t.box, u.what = t.what, u.keys = Tail(t.keys),
                 Parked(u, Tail(turn)) \/ Queued(u, Tail(turn))
          PROVE  LineInv'
        <3>1. Tasks' \subseteq Tasks \cup {u}
            BY <2>2, <2>5, AwaitAdds
        <3>2. StaysSettled
            BY <2>5, AwaitKeepsSettled
        <3>3. ASSUME u.box = "line" PROVE LineKnows(u)'
            <4>1. LineKnows(t) /\ t.what.line \in Lines
                BY <2>2, <2>5, <3>3, RequestTypes DEF LineInv
            <4>2. LineKnows(u)
                <5>1. t.box = "line"
                    BY <2>5, <3>3
                <5>2. \A i \in DOMAIN t.what.line :
                         \/ promise[Meta(t.what.line[i].attr)] \in Settled
                         \/ \E n \in 1..Len(Tail(t.keys)) :
                                Tail(t.keys)[n] = Meta(t.what.line[i].attr)
                    BY <2>2, <2>5, <4>1, <5>1, LineGoesOn
                <5> QED BY <2>5, <5>2 DEF LineKnows
            <4>3. ASSUME NEW i \in DOMAIN u.what.line,
                         promise[Meta(u.what.line[i].attr)] \in Settled
                  PROVE  promise'[Meta(u.what.line[i].attr)] \in Settled
                BY <2>5, <3>2, <4>1, <4>3, LineAttrs DEF StaysSettled
            <4> QED BY <4>2, <4>3 DEF LineKnows, Settled
        <3>4. UNCHANGED picked
            BY <2>5 DEF screen
        <3> QED BY <3>1, <3>2, <3>3, <3>4, LineStill
    <2>6. ASSUME promise[Head(t.keys)] \in Settled, Tail(t.keys) = <<>>, Finish(t),
                 turn' = Tail(turn), UNCHANGED <<promise, waiting>>
          PROVE  LineInv'
        <3>1. StaysSettled /\ Tasks' \subseteq Tasks
            BY <2>3, <2>6
        <3>2. CASE t.box = "line"
            <4>1. LineKnows(t) /\ t.what.line \in Lines
                BY <2>2, <3>2, RequestTypes DEF LineInv
            <4>2. \A i \in DOMAIN t.what.line : promise[Meta(t.what.line[i].attr)] \in Settled
                <5>1. Len(Tail(t.keys)) = 0
                    BY <2>6, EmptySeq
                <5> QED BY <2>2, <2>6, <3>2, <4>1, <5>1, LineGoesOn
            <4>3. \A e \in picked' : e \in picked \/ e.line = t.what.line
                BY <2>6, <3>2, SelectAllLines DEF Finish, Show
            <4> QED BY <3>1, <4>1, <4>2, <4>3, LineStill
        <3>3. CASE t.box # "line"
            <4>1. UNCHANGED picked
                BY <2>6, <3>3 DEF Finish, Show
            <4> QED BY <3>1, <4>1, LineStill
        <3> QED BY <3>2, <3>3
    <2> QED BY <1>4, <2>1, <2>4, <2>5, <2>6, ResumeSteps
<1>5. UNCHANGED vars => UNCHANGED <<loop, picked>>
    BY DEF vars, screen
<1> QED BY <1>1, <1>2, <1>3, <1>4, <1>5, Handlers DEF Next

LEMMA QueueInit == Init => QueueInv /\ Tasks = {}
BY EmptySet DEF Init, QueueInv, Tasks

\* Whatever is searched, typed, expanded or picked meanwhile, and whichever
\* lookups fail, nothing of a line is selected before all of its lookups
\* have been answered (the ranges lane awaits resolveSpecs).
THEOREM LineAlwaysWhole == Spec => []LineIsWhole
<1>1. Init => QueueInv /\ LineInv
    BY QueueInit DEF Init, LineInv, LineIsWhole
<1>2. LineInv => LineIsWhole
    BY DEF LineInv
<1> QED BY <1>1, <1>2, TypeCorrect, QueueInductive, LineInductive, PTL DEF Spec

-----------------------------------------------------------------------------
(* What a box shows: of the tasks of a box that nothing may overtake, all  *)
(* await the same lookup, and the last to be resumed has its latest        *)
(* request.                                                                *)

None(b, s) == \A t \in ToSet(s) : t.box # b

\* The last of a queue that is of the box, if any is, would show this.
EndsIn(s, b, what) ==
    \A i \in 1..Len(s) :
        s[i].box = b /\ (\A j \in (i + 1)..Len(s) : s[j].box # b) => s[i].what = what

Shows(b) ==
    /\ b = "range" /\ offer.texts # <<>> => offer.for = wanted["range"]
    /\ b = "pane" /\ pane.kind # "loading" => pane = wanted["pane"]

SameKeys(b) == \A t, u \in Tasks : t.box = b /\ u.box = b => t.keys = u.keys

LatestLast(b) ==
    /\ EndsIn(turn, b, wanted[b])
    /\ \A k \in Keys : EndsIn(waiting[k], b, wanted[b])

\* Once the latest request is answered the others are resumed in this turn,
\* and what is shown between is seen by nobody.
AnsweredHolds(b) ==
    b \in answered =>
        /\ \A k \in Keys : None(b, waiting[k])
        /\ \A t \in ToSet(turn) : t.box = b => promise[Head(t.keys)] # "failed"
        /\ None(b, turn) => Shows(b)

FreshInv(b) == b \notin overtaken => SameKeys(b) /\ LatestLast(b) /\ AnsweredHolds(b)

\* Queues of a box: adding at the end, and taking the head.
LEMMA EndsNone ==
    ASSUME NEW s \in Seq(Requests), NEW b, None(b, s), NEW what
    PROVE  EndsIn(s, b, what)
<1>1. ASSUME NEW i \in 1..Len(s) PROVE s[i].box # b
    BY InQueue DEF None
<1> QED BY <1>1 DEF EndsIn

LEMMA EndsAppend ==
    ASSUME NEW s \in Seq(Requests), NEW t \in Requests, NEW b, NEW what,
           IF t.box = b THEN t.what = what ELSE EndsIn(s, b, what)
    PROVE  EndsIn(Append(s, t), b, what)
<1> DEFINE r == Append(s, t)
<1>1. /\ Len(r) = Len(s) + 1 /\ Len(s) \in Nat
      /\ \A i \in 1..Len(s) : r[i] = s[i]
      /\ r[Len(s) + 1] = t
    BY QueueAppend
<1> HIDE DEF r
<1>2. SUFFICES ASSUME NEW i \in 1..Len(r), r[i].box = b,
                      \A j \in (i + 1)..Len(r) : r[j].box # b
               PROVE  r[i].what = what
    BY DEF EndsIn, r
<1>3. CASE i = Len(s) + 1
    BY <1>1, <1>2, <1>3
<1>4. CASE i # Len(s) + 1
    <2>1. i \in 1..Len(s) /\ r[i] = s[i]
        BY <1>1, <1>4
    <2>2. Len(s) + 1 \in (i + 1)..Len(r)
        BY <1>1, <2>1
    <2>3. t.box # b
        BY <1>1, <1>2, <2>2
    <2>4. ASSUME NEW j \in (i + 1)..Len(s) PROVE s[j].box # b
        <3>1. j \in (i + 1)..Len(r) /\ r[j] = s[j]
            BY <1>1, <2>1
        <3> QED BY <1>2, <3>1
    <2> QED BY <1>2, <2>1, <2>3, <2>4 DEF EndsIn
<1> QED BY <1>3, <1>4

LEMMA EndsTail ==
    ASSUME NEW s \in Seq(Requests), s # <<>>, NEW b, NEW what, EndsIn(s, b, what)
    PROVE  /\ EndsIn(Tail(s), b, what)
           /\ Head(s).box = b /\ None(b, Tail(s)) => Head(s).what = what
<1> DEFINE r == Tail(s)
<1>1. /\ r \in Seq(Requests) /\ Len(s) \in Nat \ {0} /\ Len(r) = Len(s) - 1
      /\ \A i \in 1..(Len(s) - 1) : r[i] = s[i + 1]
      /\ Head(s) = s[1]
    BY QueueHead
<1> HIDE DEF r
<1>2. ASSUME NEW i \in 1..Len(r), r[i].box = b, \A j \in (i + 1)..Len(r) : r[j].box # b
      PROVE  r[i].what = what
    <2>1. i + 1 \in 1..Len(s) /\ r[i] = s[i + 1]
        BY <1>1
    <2>2. ASSUME NEW j \in ((i + 1) + 1)..Len(s) PROVE s[j].box # b
        <3>1. j - 1 \in (i + 1)..Len(r) /\ j - 1 \in 1..(Len(s) - 1) /\ (j - 1) + 1 = j
            BY <1>1
        <3>2. r[j - 1] = s[j]
            BY <1>1, <3>1
        <3> QED BY <1>2, <3>1, <3>2
    <2> QED BY <1>2, <2>1, <2>2 DEF EndsIn
<1>3. ASSUME s[1].box = b, None(b, r) PROVE s[1].what = what
    <2>1. ASSUME NEW j \in 2..Len(s) PROVE s[j].box # b
        <3>1. j - 1 \in 1..Len(r) /\ r[j - 1] = s[j]
            BY <1>1
        <3> QED BY <1>1, <1>3, <3>1, InQueue DEF None
    <2>2. 1 \in 1..Len(s) /\ 1 + 1 = 2
        BY <1>1
    <2> QED BY <1>3, <2>1, <2>2 DEF EndsIn
<1> QED BY <1>1, <1>2, <1>3 DEF r, EndsIn

LEMMA NoneSets ==
    ASSUME NEW b, NEW s, NEW r
    PROVE  /\ ToSet(r) \subseteq ToSet(s) /\ None(b, s) => None(b, r)
           /\ \A t : ToSet(r) = ToSet(s) \cup {t} /\ t.box # b => (None(b, r) <=> None(b, s))
BY DEF None

-----------------------------------------------------------------------------
(* What the handlers ask for, and show at once.                            *)

RequestKept(b) ==
    /\ wanted'[b] = wanted[b]
    /\ (b \in answered' <=> b \in answered) /\ (b \in overtaken' <=> b \in overtaken)

ScreenKept(b) == RequestKept(b) /\ (Shows(b) => Shows(b)')

LEMMA WantOther ==
    ASSUME WantedTypes, NEW b \in Boxes, NEW c \in Boxes, c # b,
           NEW what, NEW keys, Want(c, what, keys)
    PROVE  RequestKept(b)
<1>1. /\ wanted' = [wanted EXCEPT ![c] = what]
      /\ answered' \in {answered \cup {c}, answered \ {c}}
      /\ overtaken' \in {overtaken \cup {c}, overtaken \ {c}}
    BY DEF Want
<1>2. wanted'[b] = wanted[b]
    BY <1>1 DEF WantedTypes
<1> QED BY <1>1, <1>2 DEF RequestKept

LEMMA WantThis ==
    ASSUME WantedTypes, NEW b \in Boxes, NEW what, NEW keys, Want(b, what, keys)
    PROVE  /\ wanted'[b] = what
           /\ b \in answered' <=> keys = <<>>
           /\ b \notin overtaken' =>
                \A k \in Keys : \A t \in ToSet(waiting[k]) : t.box = b => t.keys = keys
BY DEF Want, WantedTypes

LEMMA StartOther ==
    ASSUME WantedTypes, NEW b \in Boxes, NEW t, t.box # b, Start(t)
    PROVE  RequestKept(b)
<1>1. CASE t.box \in Boxes
    BY <1>1, WantOther DEF Start
<1>2. CASE t.box \notin Boxes
    BY <1>2 DEF Start, requests, RequestKept
<1> QED BY <1>1, <1>2

LEMMA ShownByHandlers ==
    ASSUME TypeOK, Reader, NEW b \in Boxes
    PROVE  \/ UNCHANGED loop /\ ScreenKept(b)
           \/ UNCHANGED loop /\ Shows(b)' /\ \E what : Want(b, what, <<>>)
           \/ \E t \in Requests : Start(t) /\ t.box = b
           \/ \E t \in Requests : Start(t) /\ t.box # b /\ ScreenKept(b)
<1> DEFINE Kept == UNCHANGED loop /\ ScreenKept(b)
           Told == UNCHANGED loop /\ Shows(b)' /\ \E what : Want(b, what, <<>>)
           Asked == \E t \in Requests : Start(t) /\ t.box = b
           Other == \E t \in Requests : Start(t) /\ t.box # b /\ ScreenKept(b)
           Choice == Kept \/ Told \/ Asked \/ Other
<1>0. WantedTypes
    BY TypeParts
<1>a. b = "range" \/ b = "pane"
    BY DEF Boxes
<1>b. ASSUME UNCHANGED offer, UNCHANGED pane, RequestKept(b) PROVE ScreenKept(b)
    BY <1>a, <1>b DEF ScreenKept, Shows, RequestKept
<1>c. ASSUME offer'.texts = <<>>, UNCHANGED pane, RequestKept(b) PROVE ScreenKept(b)
    BY <1>a, <1>c DEF ScreenKept, Shows, RequestKept
<1>d. Hidden.texts = <<>>
    BY DEF Hidden
<1>e. UNCHANGED requests => RequestKept(b)
    BY DEF requests, RequestKept
<1>f. ASSUME NEW what, offer' = Hidden, UNCHANGED <<loop, pane>>, Want("range", what, <<>>)
      PROVE  Kept \/ Told
    <2>1. CASE b = "range"
        BY <1>d, <1>f, <2>1 DEF Shows
    <2>2. CASE b = "pane"
        BY <1>0, <1>c, <1>d, <1>f, <2>2, WantOther DEF Boxes
    <2> QED BY <1>a, <2>1, <2>2
<1>g. ASSUME NEW t \in Requests, Start(t), UNCHANGED offer,
             UNCHANGED pane \/ t.box = "pane"
      PROVE  Asked \/ Other
    <2>1. CASE t.box = b
        BY <1>g, <2>1
    <2>2. CASE t.box # b
        <3>1. RequestKept(b)
            BY <1>0, <1>g, <2>2, StartOther
        <3>2. ScreenKept(b)
            BY <1>a, <1>b, <1>g, <2>2, <3>1 DEF ScreenKept, Shows, RequestKept
        <3> QED BY <1>g, <2>2, <3>2
    <2> QED BY <2>1, <2>2
<1> HIDE DEF Kept, Told, Asked, Other
<1>1. ASSUME NEW f \in Fragments, Type(f) PROVE Choice
    <2>1. CASE f \in Short
        BY <1>1, <1>f, <2>1 DEF Type, Refresh, RefreshShort
    <2>2. CASE f \notin Short
        <3> DEFINE k == IF f.mode = "attr" THEN Names ELSE Meta(f.attr)
                   t == [box |-> "range", what |-> f, keys |-> <<k>>]
        <3>1. Start(t) /\ UNCHANGED <<offer, pane>>
            BY <1>1, <2>2 DEF Type, Refresh, screen
        <3>2. k \in Keys
            BY KeyTypes, LanesAssumption
        <3>3. t \in Requests
            BY <3>2, OneKeyList DEF Requests
        <3> HIDE DEF t
        <3> QED BY <1>g, <3>1, <3>3
    <2> QED BY <2>1, <2>2
<1>2. ASSUME NEW delta \in {1, -1}, Arrow(delta) PROVE Choice
    <2>1. /\ offer' = Move(delta) /\ UNCHANGED <<loop, pane>> /\ RequestKept(b)
        BY <1>2, <1>e DEF Arrow
    <2>2. offer'.texts = offer.texts /\ offer'.for = offer.for
        BY <2>1 DEF Move, TypeOK
    <2>3. ScreenKept(b)
        BY <2>1, <2>2 DEF ScreenKept, Shows, RequestKept
    <2> QED BY <2>1, <2>3 DEF Kept
<1>3. ASSUME Hide PROVE Choice
    BY <1>3, <1>c, <1>d, <1>e DEF Hide, Kept
<1>4. ASSUME NEW i, Accept(i) PROVE Choice
    BY <1>4, <1>f DEF Accept
<1>5. ASSUME NEW line \in Lines, SubmitLine(line) PROVE Choice
    <2> DEFINE keys == [i \in DOMAIN line |-> Meta(line[i].attr)]
               t == [box |-> "line", what |-> [line |-> line], keys |-> keys]
    <2>1. Start(t) /\ UNCHANGED <<offer, pane>>
        BY <1>5 DEF SubmitLine, screen
    <2>2. keys \in Seq(Keys) \ {<<>>}
        BY LineKeys
    <2> HIDE DEF keys
    <2>3. t \in Requests
        BY <2>2 DEF Requests
    <2> HIDE DEF t
    <2> QED BY <1>g, <2>1, <2>3
<1>6. ASSUME Search("") PROVE Choice
    <2>1. /\ pane' = Clear /\ Want("pane", Clear, <<>>)
          /\ UNCHANGED <<loop, offer>>
        BY <1>6 DEF Search, ClearPane
    <2>2. CASE b = "pane"
        <3>1. wanted'["pane"] = Clear
            BY <1>0, <2>1, <2>2, WantThis
        <3> QED BY <2>1, <2>2, <3>1 DEF Shows, Told
    <2>3. CASE b = "range"
        <3>1. RequestKept(b)
            BY <1>0, <2>1, <2>3, WantOther DEF Boxes
        <3> QED BY <2>1, <2>3, <3>1 DEF ScreenKept, Shows, RequestKept, Kept
    <2> QED BY <1>a, <2>2, <2>3
<1>7. ASSUME NEW q \in Queries, q # "", Search(q) PROVE Choice
    <2> DEFINE t == [box |-> "pane", what |-> [kind |-> "found", of |-> q], keys |-> <<Names>>]
    <2>1. Start(t) /\ UNCHANGED <<offer, pane>>
        BY <1>7 DEF Search, screen
    <2>2. t \in Requests
        BY KeyTypes, OneKeyList DEF Requests, Results
    <2> HIDE DEF t
    <2> QED BY <1>g, <2>1, <2>2
<1>8. ASSUME NEW a \in Attrs, Expand(a) PROVE Choice
    <2> DEFINE t == [box |-> "pane", what |-> [kind |-> "versions", of |-> a],
                     keys |-> <<Meta(a)>>]
    <2>1. Start(t) /\ UNCHANGED offer
        BY <1>8 DEF Expand
    <2>2. t \in Requests /\ t.box = "pane"
        BY KeyTypes, OneKeyList DEF Requests, Results
    <2> HIDE DEF t
    <2> QED BY <1>g, <2>1, <2>2
<1>9. ASSUME NEW r \in AllReleases, Pick(r) PROVE Choice
    BY <1>9, <1>b, <1>e DEF Pick, Kept
<1>10. ASSUME NEW l \in {"search", "ranges"}, Switch(l) PROVE Choice
    BY <1>10, <1>b, <1>e DEF Switch, Kept, screen
<1> HIDE DEF Choice
<1>11. Tab \/ Enter \/ ClickItem => \E i : Accept(i)
    BY DEF Tab, Enter, ClickItem
<1>12. (\E q \in Queries \cup {""} : Search(q)) => Choice
    BY <1>6, <1>7
<1>13. (\E i : Accept(i)) => Choice
    BY <1>4
<1>14. Choice
    BY <1>1, <1>2, <1>3, <1>5, <1>8, <1>9, <1>10, <1>11, <1>12, <1>13 DEF Reader
<1> QED BY <1>14 DEF Choice, Kept, Told, Asked, Other

-----------------------------------------------------------------------------
(* Each step keeps what a box shows fresh.                                 *)

\* Tasks of other boxes come and go.
LEMMA FreshByAppend ==
    ASSUME TypeOK, NEW b, FreshInv(b), NEW t \in Requests, t.box # b,
           NEW queue \in Seq(Requests), EndsIn(queue, b, wanted[b]),
           None(b, queue) => None(b, turn),
           ToSet(queue) \subseteq ToSet(turn),
           Parked(t, queue) \/ Queued(t, queue), ScreenKept(b)
    PROVE  FreshInv(b)'
<1> SUFFICES ASSUME b \notin overtaken
             PROVE  SameKeys(b)' /\ LatestLast(b)' /\ AnsweredHolds(b)'
    BY DEF FreshInv, ScreenKept, RequestKept
<1> DEFINE h == Head(t.keys)
<1>1. SameKeys(b) /\ LatestLast(b) /\ AnsweredHolds(b)
    BY DEF FreshInv
<1>2. h \in Keys /\ \A k \in Keys : waiting[k] \in Seq(Requests)
    BY RequestTypes, TasksAreRequests
<1>3. /\ wanted'[b] = wanted[b] /\ (b \in answered' <=> b \in answered)
      /\ Shows(b) => Shows(b)'
    BY DEF ScreenKept, RequestKept
<1>4. /\ \A k \in Keys : \/ waiting'[k] = waiting[k]
                         \/ /\ waiting'[k] = Append(waiting[k], t)
                            /\ ToSet(waiting'[k]) = ToSet(waiting[k]) \cup {t}
      /\ \/ turn' = queue
         \/ turn' = Append(queue, t) /\ ToSet(turn') = ToSet(queue) \cup {t}
    BY <1>2 DEF Parked, Queued
<1>5. ASSUME NEW u \in Tasks', u.box = b PROVE u \in Tasks
    <2>1. Tasks' \subseteq Tasks \cup {t}
        BY AwaitAdds
    <2> QED BY <1>5, <2>1
<1>6. SameKeys(b)'
    <2>1. ASSUME NEW u \in Tasks', NEW v \in Tasks', u.box = b, v.box = b PROVE u.keys = v.keys
        <3>1. u \in Tasks /\ v \in Tasks
            BY <1>5, <2>1
        <3> QED BY <1>1, <2>1, <3>1 DEF SameKeys
    <2> QED BY <2>1 DEF SameKeys
<1>7. LatestLast(b)'
    <2>1. EndsIn(turn', b, wanted[b])
        <3>1. EndsIn(Append(queue, t), b, wanted[b])
            BY EndsAppend
        <3> QED BY <1>4, <3>1
    <2>2. ASSUME NEW k \in Keys PROVE EndsIn(waiting'[k], b, wanted[b])
        <3>1. EndsIn(waiting[k], b, wanted[b]) /\ waiting[k] \in Seq(Requests)
            BY <1>1, <1>2 DEF LatestLast
        <3>2. EndsIn(Append(waiting[k], t), b, wanted[b])
            BY <3>1, EndsAppend
        <3> QED BY <1>4, <3>1, <3>2
    <2> QED BY <1>3, <2>1, <2>2 DEF LatestLast, EndsIn
<1>8. AnsweredHolds(b)'
    <2> SUFFICES ASSUME b \in answered
                 PROVE  /\ \A k \in Keys : None(b, waiting'[k])
                        /\ \A u \in ToSet(turn') : u.box = b => promise'[Head(u.keys)] # "failed"
                        /\ None(b, turn') => Shows(b)'
        BY <1>3 DEF AnsweredHolds, None
    <2>1. /\ \A k \in Keys : None(b, waiting[k])
          /\ \A u \in ToSet(turn) : u.box = b => promise[Head(u.keys)] # "failed"
          /\ None(b, turn) => Shows(b)
        BY <1>1 DEF AnsweredHolds
    <2>2. \A k \in Keys : None(b, waiting'[k])
        BY <1>4, <2>1, NoneSets
    <2>3. ASSUME NEW u \in ToSet(turn'), u.box = b PROVE promise'[Head(u.keys)] # "failed"
        <3>1. u \in ToSet(turn)
            BY <1>4, <2>3
        <3>2. Head(u.keys) \in Keys
            BY <3>1, TasksAreRequests, RequestTypes DEF Tasks
        <3>3. promise[Head(u.keys)] # "failed"
            BY <2>1, <2>3, <3>1
        <3> QED BY <3>2, <3>3 DEF Parked, Queued
    <2>4. None(b, turn') => None(b, queue)
        BY <1>4, NoneSets DEF None
    <2> QED BY <1>3, <2>1, <2>2, <2>3, <2>4
<1> QED BY <1>6, <1>7, <1>8

\* A new request of the box: if it overtakes nothing all that waits awaits
\* the same lookup, and it is last.
LEMMA FreshByStart ==
    ASSUME TypeOK, QueueInv, NEW b \in Boxes, NEW t \in Requests, t.box = b,
           Start(t), turn = <<>>
    PROVE  FreshInv(b)'
<1> SUFFICES ASSUME b \notin overtaken'
             PROVE  SameKeys(b)' /\ LatestLast(b)' /\ AnsweredHolds(b)'
    BY DEF FreshInv
<1> DEFINE h == Head(t.keys)
<1>1. <<>> \in Seq(Requests) /\ ToSet(<<>>) = {}
    BY EmptySeq, EmptySet
<1>2. Parked(t, <<>>) \/ Queued(t, <<>>)
    BY <1>1, AwaitSteps DEF Start
<1>3. h \in Keys /\ t.keys # <<>> /\ \A k \in Keys : waiting[k] \in Seq(Requests)
    BY RequestTypes, TasksAreRequests
<1>4. /\ wanted'[b] = t.what /\ b \notin answered'
      /\ \A k \in Keys : \A u \in ToSet(waiting[k]) : u.box = b => u.keys = t.keys
    <2>1. WantedTypes /\ Want(b, t.what, t.keys)
        BY TypeParts DEF Start
    <2> QED BY <1>3, <2>1, WantThis
<1>5. \A k \in Keys : k # h => None(b, waiting[k])
    BY <1>4 DEF QueueInv, None
<1>6. Queued(t, <<>>) => None(b, waiting[h])
    BY <1>3, <1>4 DEF Queued, QueueInv, None
<1>7. \A u \in Tasks' : u = t \/ \E k \in Keys : u \in ToSet(waiting[k])
    BY <1>1, <1>2, AwaitTasks
<1>8. SameKeys(b)'
    <2>1. ASSUME NEW u \in Tasks', u.box = b PROVE u.keys = t.keys
        BY <1>4, <1>7, <2>1
    <2> QED BY <2>1 DEF SameKeys
<1>9. LatestLast(b)'
    <2>1. EndsIn(<<>>, b, t.what)
        BY <1>1, EndsNone DEF None
    <2>2. EndsIn(Append(<<>>, t), b, t.what)
        BY <1>1, EndsAppend
    <2>3. EndsIn(turn', b, t.what)
        BY <1>2, <2>1, <2>2 DEF Parked, Queued
    <2>4. ASSUME NEW k \in Keys PROVE EndsIn(waiting'[k], b, t.what)
        <3>1. waiting[k] \in Seq(Requests)
            BY <1>3
        <3>2. EndsIn(Append(waiting[k], t), b, t.what)
            BY <3>1, EndsAppend
        <3>3. None(b, waiting[k]) => EndsIn(waiting[k], b, t.what)
            BY <3>1, EndsNone
        <3>4. \/ waiting'[k] = Append(waiting[k], t)
              \/ waiting'[k] = waiting[k] /\ None(b, waiting[k])
            BY <1>2, <1>3, <1>5, <1>6 DEF Parked, Queued
        <3> QED BY <3>2, <3>3, <3>4
    <2> QED BY <1>4, <2>3, <2>4 DEF LatestLast, EndsIn
<1> QED BY <1>4, <1>8, <1>9 DEF AnsweredHolds

\* A request that awaits nothing is answered at once; if it overtakes
\* nothing, no other waits.
LEMMA FreshByTold ==
    ASSUME TypeOK, NEW b \in Boxes, NEW what, Want(b, what, <<>>),
           turn = <<>>, UNCHANGED loop, Shows(b)'
    PROVE  FreshInv(b)'
<1> SUFFICES ASSUME b \notin overtaken'
             PROVE  SameKeys(b)' /\ LatestLast(b)' /\ AnsweredHolds(b)'
    BY DEF FreshInv
<1>1. <<>> \in Seq(Requests) /\ ToSet(<<>>) = {}
    BY EmptySeq, EmptySet
<1>2. \A k \in Keys : \A t \in ToSet(waiting[k]) : t.box = b => t.keys = <<>>
    <2>1. WantedTypes
        BY TypeParts
    <2> QED BY <2>1, WantThis
<1>3. ASSUME NEW k \in Keys PROVE None(b, waiting[k]) /\ waiting[k] \in Seq(Requests)
    <2>1. ASSUME NEW t \in ToSet(waiting[k]) PROVE t.keys # <<>>
        <3>1. t \in Requests
            BY TasksAreRequests DEF Tasks
        <3> QED BY <3>1, RequestTypes
    <2> QED BY <1>2, <2>1, TasksAreRequests DEF None
<1>4. UNCHANGED <<promise, waiting, turn>>
    BY DEF loop
<1>5. None(b, turn)
    BY <1>1 DEF None
<1>6. SameKeys(b)'
    BY <1>3, <1>4, <1>5 DEF SameKeys, Tasks, None
<1>7. LatestLast(b)'
    <2>1. EndsIn(turn, b, wanted'[b])
        BY <1>1, <1>5, EndsNone
    <2>2. \A k \in Keys : EndsIn(waiting[k], b, wanted'[b])
        BY <1>3, EndsNone
    <2> QED BY <1>4, <2>1, <2>2 DEF LatestLast, EndsIn
<1>8. AnsweredHolds(b)'
    BY <1>3, <1>4, <1>5 DEF AnsweredHolds, None
<1> QED BY <1>6, <1>7, <1>8

\* A promise that settles moves its tasks as they stand.
LEMMA FreshBySettle ==
    ASSUME TypeOK, NEW b \in Boxes, FreshInv(b), turn = <<>>, NEW k \in Keys, Settle(k)
    PROVE  FreshInv(b)'
<1> SUFFICES ASSUME b \notin overtaken
             PROVE  SameKeys(b)' /\ LatestLast(b)' /\ AnsweredHolds(b)'
    BY SettleSteps DEF FreshInv, requests
<1>1. SameKeys(b) /\ LatestLast(b) /\ AnsweredHolds(b)
    BY DEF FreshInv
<1>2. /\ \A l \in Keys : l # k => waiting'[l] = waiting[l]
      /\ waiting'[k] = <<>> /\ turn' = waiting[k]
      /\ UNCHANGED <<offer, pane, wanted, answered>>
    BY SettleSteps DEF screen, requests
<1>3. <<>> \in Seq(Requests) /\ ToSet(<<>>) = {}
    BY EmptySeq, EmptySet
<1>4. Tasks' \subseteq Tasks
    BY <1>2, <1>3 DEF Tasks
<1>5. SameKeys(b)'
    BY <1>1, <1>4 DEF SameKeys
<1>6. LatestLast(b)'
    <2>1. EndsIn(<<>>, b, wanted[b])
        BY <1>3, EndsNone DEF None
    <2>2. \A l \in Keys : EndsIn(waiting[l], b, wanted[b])
        BY <1>1 DEF LatestLast
    <2>3. EndsIn(turn', b, wanted[b]) /\ \A l \in Keys : EndsIn(waiting'[l], b, wanted[b])
        BY <1>2, <2>1, <2>2
    <2> QED BY <1>2, <2>3 DEF LatestLast, EndsIn
<1>7. AnsweredHolds(b)'
    <2> SUFFICES ASSUME b \in answered
                 PROVE  /\ \A l \in Keys : None(b, waiting'[l])
                        /\ None(b, turn') /\ Shows(b)'
        BY <1>2 DEF AnsweredHolds, None
    <2>1. None(b, turn)
        BY <1>3 DEF None
    <2>2. Shows(b) /\ \A l \in Keys : None(b, waiting[l])
        BY <1>1, <2>1 DEF AnsweredHolds
    <2>3. Shows(b)'
        BY <1>2, <2>2 DEF Shows
    <2>4. \A l \in Keys : None(b, waiting'[l])
        BY <1>2, <1>3, <2>2 DEF None
    <2> QED BY <1>2, <2>2, <2>3, <2>4
<1> QED BY <1>5, <1>6, <1>7

LEMMA HeadOrRest ==
    ASSUME NEW s \in Seq(Requests), s # <<>>, NEW u \in ToSet(s)
    PROVE  u = Head(s) \/ u \in ToSet(Tail(s))
<1>1. PICK i \in 1..Len(s) : s[i] = u
    BY InQueue
<1>2. /\ Tail(s) \in Seq(Requests) /\ Len(s) \in Nat \ {0} /\ Len(Tail(s)) = Len(s) - 1
      /\ \A j \in 1..(Len(s) - 1) : Tail(s)[j] = s[j + 1]
      /\ Head(s) = s[1]
    BY QueueHead
<1>3. CASE i = 1
    BY <1>1, <1>2, <1>3
<1>4. CASE i # 1
    <2>1. i - 1 \in 1..Len(Tail(s)) /\ (i - 1) + 1 = i
        BY <1>2, <1>4
    <2>2. Tail(s)[i - 1] = u
        BY <1>1, <1>2, <2>1
    <2> DEFINE rest == Tail(s)
    <2>3. rest \in Seq(Requests) /\ i - 1 \in 1..Len(rest) /\ rest[i - 1] = u
        BY <1>2, <2>1, <2>2
    <2> HIDE DEF rest
    <2>4. u \in ToSet(rest)
        BY <2>3, InQueue
    <2> QED BY <2>4 DEF rest
<1> QED BY <1>3, <1>4

LEMMA HiddenOffer == ASSUME NEW f PROVE OfferFor(f).texts # <<>> => OfferFor(f).for = f
BY DEF OfferFor, Hidden

\* The next task goes on.  Of the box itself: it has failed, then the box
\* was not answered; or it is over, and shows what it asked for.
LEMMA FreshByResume ==
    ASSUME TypeOK, QueueInv, NEW b \in Boxes, FreshInv(b), Resume
    PROVE  FreshInv(b)'
<1>1. PICK t : t = Head(turn)
    OBVIOUS
<1> DEFINE rest == Tail(turn)
           h == Head(t.keys)
           Rejects == /\ promise[h] \notin Settled
                      /\ turn' = rest /\ UNCHANGED <<promise, waiting, screen, requests>>
           GoesOn == /\ promise[h] \in Settled /\ UNCHANGED <<screen, requests>>
                     /\ \E u \in Requests : /\ Tail(t.keys) # <<>> /\ u.box = t.box
                                            /\ Parked(u, rest) \/ Queued(u, rest)
           Ends == /\ promise[h] \in Settled /\ Finish(t)
                   /\ turn' = rest /\ UNCHANGED <<promise, waiting>>
<1>2. /\ t \in Requests /\ t \in ToSet(turn) /\ turn # <<>> /\ turn \in Seq(Requests)
      /\ rest \in Seq(Requests) /\ ToSet(rest) \subseteq ToSet(turn) /\ t \in Tasks
      /\ Rejects \/ GoesOn \/ Ends
    BY <1>1, ResumeSteps, TasksAreRequests DEF Tasks
<1>3. /\ b \notin overtaken => EndsIn(rest, b, wanted[b])
      /\ b \notin overtaken /\ t.box = b /\ None(b, rest) => t.what = wanted[b]
    BY <1>1, <1>2, EndsTail DEF FreshInv, LatestLast
<1>4. t.box # b => (None(b, rest) => None(b, turn))
    <2>1. ASSUME NEW u \in ToSet(turn) PROVE u = t \/ u \in ToSet(rest)
        BY <1>1, <1>2, HeadOrRest
    <2> QED BY <2>1 DEF None
<1> HIDE DEF rest
<1>5. (Rejects \/ Ends) => Tasks' \subseteq Tasks /\ \A k \in Keys : waiting'[k] = waiting[k]
    BY <1>2 DEF Tasks
<1>6. CASE GoesOn
    <2>1. PICK u \in Requests : /\ Tail(t.keys) # <<>> /\ u.box = t.box
                                /\ Parked(u, rest) \/ Queued(u, rest)
        BY <1>6
    <2>2. u.box # b
        BY <1>2, <2>1 DEF QueueInv
    <2>3. ScreenKept(b)
        BY <1>6 DEF ScreenKept, RequestKept, Shows, screen, requests
    <2>4. CASE b \in overtaken
        BY <2>3, <2>4 DEF ScreenKept, RequestKept, FreshInv
    <2>5. CASE b \notin overtaken
        BY <1>2, <1>3, <1>4, <2>1, <2>2, <2>3, <2>5, FreshByAppend
    <2> QED BY <2>4, <2>5
<1>7. CASE Rejects
    <2> SUFFICES ASSUME b \notin overtaken
                 PROVE  SameKeys(b)' /\ LatestLast(b)' /\ AnsweredHolds(b)'
        BY <1>7 DEF FreshInv, requests
    <2>1. SameKeys(b) /\ LatestLast(b) /\ AnsweredHolds(b)
        BY DEF FreshInv
    <2>2. /\ turn' = rest /\ UNCHANGED <<promise, waiting, offer, pane, wanted, answered>>
        BY <1>7 DEF screen, requests
    <2>3. SameKeys(b)'
        BY <1>5, <1>7, <2>1 DEF SameKeys
    <2>4. LatestLast(b)'
        BY <1>3, <2>1, <2>2 DEF LatestLast, EndsIn
    <2>5. AnsweredHolds(b)'
        <3>1. CASE t.box = b
            <4>1. promise[h] = "failed"
                BY <1>2, <1>7 DEF QueueInv, Settled
            <4>2. b \notin answered
                BY <1>2, <2>1, <3>1, <4>1 DEF AnsweredHolds
            <4> QED BY <2>2, <4>2 DEF AnsweredHolds
        <3>2. CASE t.box # b
            BY <1>2, <1>4, <2>1, <2>2, <3>2 DEF AnsweredHolds, None, Shows
        <3> QED BY <3>1, <3>2
    <2> QED BY <2>3, <2>4, <2>5
<1>8. CASE Ends
    <2>0. UNCHANGED <<wanted, overtaken>>
        BY <1>8 DEF Finish
    <2> SUFFICES ASSUME b \notin overtaken
                 PROVE  SameKeys(b)' /\ LatestLast(b)' /\ AnsweredHolds(b)'
        BY <2>0 DEF FreshInv
    <2>1. SameKeys(b) /\ LatestLast(b) /\ AnsweredHolds(b)
        BY DEF FreshInv
    <2>2. turn' = rest /\ UNCHANGED <<promise, waiting, wanted>>
        BY <1>8, <2>0
    <2>3. SameKeys(b)'
        BY <1>5, <1>8, <2>1 DEF SameKeys
    <2>4. LatestLast(b)'
        BY <1>3, <2>1, <2>2 DEF LatestLast, EndsIn
    <2>5. ASSUME t.box = b PROVE AnsweredHolds(b)'
        <3>1. ASSUME NEW u \in Tasks, u.box = b PROVE u.keys = t.keys
            BY <1>2, <2>1, <2>5, <3>1 DEF SameKeys
        <3>2. ASSUME NEW k \in Keys PROVE None(b, waiting[k])
            <4>1. ASSUME NEW u \in ToSet(waiting[k]), u.box = b PROVE FALSE
                <5>1. u.keys = t.keys
                    BY <3>1, <4>1 DEF Tasks
                <5>2. promise[h] = "pending"
                    BY <4>1, <5>1 DEF QueueInv
                <5> QED BY <1>8, <5>2 DEF Settled
            <4> QED BY <4>1 DEF None
        <3>3. ASSUME NEW u \in ToSet(rest), u.box = b PROVE promise[Head(u.keys)] # "failed"
            <4>1. u.keys = t.keys
                BY <1>2, <3>1, <3>3 DEF Tasks
            <4> QED BY <1>8, <4>1 DEF Settled
        <3>4. ASSUME None(b, rest) PROVE Shows(b)'
            <4>1. t.what = wanted[b]
                BY <1>3, <2>5, <3>4
            <4>2. CASE b = "range"
                <5>1. offer' = OfferFor(t.what)
                    BY <1>8, <2>5, <4>2 DEF Finish, Show
                <5>2. offer'.texts # <<>> => offer'.for = t.what
                    BY <5>1, HiddenOffer
                <5> QED BY <2>2, <4>1, <4>2, <5>2 DEF Shows
            <4>3. CASE b = "pane"
                BY <1>8, <2>2, <2>5, <4>1, <4>3 DEF Finish, Show, Shows
            <4> QED BY <4>2, <4>3 DEF Boxes
        <3> QED BY <2>2, <3>2, <3>3, <3>4 DEF AnsweredHolds, None
    <2>6. ASSUME t.box # b PROVE AnsweredHolds(b)'
        <3>1. (b \in answered' <=> b \in answered) /\ (Shows(b) => Shows(b)')
            <4>1. b \in answered' <=> b \in answered
                BY <1>8, <2>6 DEF Finish
            <4>2. b = "range" => UNCHANGED offer
                BY <1>8, <2>6 DEF Finish, Show
            <4>3. b = "pane" => UNCHANGED pane
                BY <1>8, <2>6 DEF Finish, Show
            <4> QED BY <2>2, <4>1, <4>2, <4>3 DEF Shows
        <3> QED BY <1>2, <1>4, <2>1, <2>2, <2>6, <3>1 DEF AnsweredHolds, None
    <2> QED BY <2>3, <2>4, <2>5, <2>6
<1> QED BY <1>2, <1>6, <1>7, <1>8

LEMMA FreshInductive ==
    TypeOK /\ QueueInv /\ (\A b \in Boxes : FreshInv(b)) /\ [Next]_vars
        => \A b \in Boxes : FreshInv(b)'
<1> SUFFICES ASSUME TypeOK, QueueInv, [Next]_vars, NEW b \in Boxes, FreshInv(b)
             PROVE  FreshInv(b)'
    OBVIOUS
<1>1. ASSUME UNCHANGED loop, ScreenKept(b) PROVE FreshInv(b)'
    <2>1. /\ UNCHANGED <<promise, waiting, turn>> /\ wanted'[b] = wanted[b]
          /\ (b \in answered' <=> b \in answered) /\ (b \in overtaken' <=> b \in overtaken)
          /\ Shows(b) => Shows(b)'
        BY <1>1 DEF loop, ScreenKept, RequestKept
    <2>2. SameKeys(b) => SameKeys(b)'
        BY <2>1 DEF SameKeys, Tasks
    <2>3. LatestLast(b) => LatestLast(b)'
        BY <2>1 DEF LatestLast, EndsIn
    <2>4. AnsweredHolds(b) => AnsweredHolds(b)'
        BY <2>1 DEF AnsweredHolds, None
    <2> QED BY <2>1, <2>2, <2>3, <2>4 DEF FreshInv
<1>2. CASE Reader /\ turn = <<>>
    <2>1. ASSUME NEW t \in Requests, Start(t), t.box # b, ScreenKept(b) PROVE FreshInv(b)'
        <3>1. <<>> \in Seq(Requests) /\ ToSet(<<>>) = {}
            BY EmptySeq, EmptySet
        <3>2. Parked(t, <<>>) \/ Queued(t, <<>>)
            BY <2>1, <3>1, AwaitSteps DEF Start
        <3>3. None(b, turn) /\ EndsIn(<<>>, b, wanted[b])
            BY <1>2, <3>1, EndsNone DEF None
        <3> QED BY <2>1, <3>1, <3>2, <3>3, FreshByAppend
    <2> QED BY <1>1, <1>2, <2>1, ShownByHandlers, FreshByStart, FreshByTold
<1>3. UNCHANGED vars => UNCHANGED loop /\ ScreenKept(b)
    BY DEF vars, screen, requests, ScreenKept, RequestKept, Shows
<1> QED BY <1>1, <1>2, <1>3, FreshBySettle, FreshByResume DEF Next

\* However lookups are answered, refused, repeated or overlapped: once the
\* latest request of the range box or of the search box is answered, and no
\* lookup of another key was under way when it was made, the dropdown or the
\* pane shows the answer to that request (refresh, search, expand).
THEOREM ShownAlwaysFresh == Spec => []ShownIsFresh
<1>1. Init => \A b \in Boxes : FreshInv(b)
    <2> SUFFICES ASSUME Init, NEW b \in Boxes PROVE FreshInv(b)
        OBVIOUS
    <2>1. Tasks = {}
        BY QueueInit
    <2>2. Shows(b)
        BY DEF Init, Shows, Hidden, Clear, Boxes
    <2>3. ToSet(turn) = {} /\ \A k \in Keys : ToSet(waiting[k]) = {}
        BY <2>1 DEF Tasks
    <2>4. SameKeys(b) /\ AnsweredHolds(b)
        BY <2>1, <2>2, <2>3 DEF SameKeys, AnsweredHolds, None
    <2>5. LatestLast(b)
        BY EmptySeq DEF Init, LatestLast, EndsIn
    <2> QED BY <2>4, <2>5 DEF FreshInv
<1>2. (\A b \in Boxes : FreshInv(b)) => ShownIsFresh
    <2> SUFFICES ASSUME \A b \in Boxes : FreshInv(b), turn = <<>>
                 PROVE  \A b \in Boxes : b \in answered \ overtaken => Shows(b)
        BY DEF ShownIsFresh, Shows, Boxes
    <2>1. \A b \in Boxes : None(b, turn)
        BY EmptySet DEF None
    <2> QED BY <2>1 DEF FreshInv, AnsweredHolds
<1>3. (\A b \in Boxes : FreshInv(b)') <=> (\A b \in Boxes : FreshInv(b))'
    OBVIOUS
<1> QED BY <1>1, <1>2, <1>3, TypeCorrect, QueueInit, QueueInductive, FreshInductive, PTL DEF Spec

-----------------------------------------------------------------------------
(* What a line selects.  compareVersions orders any two versions, a        *)
(* release and its prereleases too (if the wrong way round), but not       *)
(* always three: 9, 10 and 1a make a cycle.  What follows is about an      *)
(* index that holds no such cycle.                                         *)

NotLower(r, s) == CompareVersions(r.ver, s.ver) >= 0

NoCycles ==
    \A attr \in Attrs : \A r, s, t \in Releases[attr] :
        NotLower(r, s) /\ NotLower(s, t) => NotLower(r, t)

\* A non-empty set of naturals has a least member (as in StoreShareProofs).
LEMMA Least ==
    ASSUME NEW I \in SUBSET Nat, I # {}
    PROVE  Min(I) \in I /\ \A j \in I : Min(I) <= j
<1> DEFINE T == {0..i : i \in I}
<1>1. \A i \in I : 0..i \in FiniteSubsetsOf(Nat)
    BY FS_Interval DEF FiniteSubsetsOf
<1>2. T \subseteq FiniteSubsetsOf(Nat) /\ T # {}
    BY <1>1
<1>3. \E A \in T : \A B \in T : <<B, A>> \notin StrictSubsetOrdering(Nat)
    <2> HIDE DEF T
    <2> QED BY <1>2, FS_StrictSubsetOrderingWellFounded, WFMin
<1>4. PICK i \in I : \A B \in T : <<B, 0..i>> \notin StrictSubsetOrdering(Nat)
    BY <1>3
<1>5. ASSUME NEW j \in I, j < i PROVE FALSE
    <2>1. 0..j \subseteq 0..i /\ 0..j # 0..i
        BY <1>5
    <2> QED BY <1>1, <1>4, <2>1 DEF StrictSubsetOrdering, FiniteSubsetsOf
<1>6. \E k \in I : \A j \in I : k <= j
    BY <1>5
<1> QED BY <1>6 DEF Min

InOrder(s) == \A i, j \in DOMAIN s : i < j => NotLower(s[i], s[j])

\* A list in order, with one more behind that is not above any of it.
LEMMA OneMore ==
    ASSUME NEW T, NEW x, x \notin T, IsFiniteSet(T),
           NEW t \in SetToSeqs(T), InOrder(t), \A r \in T : NotLower(r, x)
    PROVE  \E s \in SetToSeqs(T \cup {x}) : InOrder(s)
<1> DEFINE n == Cardinality(T)
           s == [i \in 1..(n + 1) |-> IF i = n + 1 THEN x ELSE t[i]]
<1>1. n \in Nat /\ Cardinality(T \cup {x}) = n + 1
    BY FS_CardinalityType, FS_AddElement
<1>2. t \in [1..n -> T] /\ \A i, j \in 1..n : i # j => t[i] # t[j]
    BY DEF SetToSeqs
<1> HIDE DEF n
<1>3. \A i \in 1..(n + 1) : i # n + 1 => i \in 1..n /\ s[i] = t[i] /\ t[i] \in T
    BY <1>1, <1>2
<1>4. s \in [1..(n + 1) -> T \cup {x}]
    BY <1>3
<1>5. \A i, j \in 1..(n + 1) : i # j => s[i] # s[j]
    BY <1>2, <1>3
<1>6. ASSUME NEW i \in 1..(n + 1), NEW j \in 1..(n + 1), i < j PROVE NotLower(s[i], s[j])
    <2>1. i \in 1..n /\ s[i] = t[i] /\ t[i] \in T
        BY <1>1, <1>3, <1>6
    <2>2. CASE j = n + 1
        BY <2>1, <2>2
    <2>3. CASE j # n + 1
        <3>1. j \in 1..n /\ s[j] = t[j] /\ DOMAIN t = 1..n
            BY <1>2, <1>3, <2>3
        <3> QED BY <1>6, <2>1, <3>1 DEF InOrder
    <2> QED BY <2>2, <2>3
<1>7. s \in SetToSeqs(T \cup {x})
    <2> HIDE DEF s
    <2> QED BY <1>1, <1>4, <1>5 DEF SetToSeqs
<1>8. InOrder(s)
    <2>1. DOMAIN s = 1..(n + 1)
        OBVIOUS
    <2> HIDE DEF s
    <2> QED BY <1>6, <2>1 DEF InOrder
<1> QED BY <1>7, <1>8

\* Of two versions one is not the lower.
LEMMA OneIsNotLower ==
    ASSUME NEW attr \in Attrs, NEW r \in Releases[attr], NEW q \in Releases[attr]
    PROVE  NotLower(r, q) \/ NotLower(q, r)
<1> DEFINE a == r.ver
           b == q.ver
           Shared == DOMAIN a \cap DOMAIN b
           ab == {i \in Shared : CompareComponents(a[i], b[i]) # 0}
           ba == {i \in Shared : CompareComponents(b[i], a[i]) # 0}
           Component == [sep : STRING, num : Int, lex : Nat]
<1>1. a \in Seq(Component) /\ b \in Seq(Component)
    BY IndexAssumption
<1> HIDE DEF a, b
<1>2. \A i \in Shared : a[i] \in Component /\ b[i] \in Component
    <2> HIDE DEF Component
    <2>1. \A i \in DOMAIN a : a[i] \in Component
        BY <1>1
    <2>2. \A i \in DOMAIN b : b[i] \in Component
        BY <1>1
    <2> QED BY <2>1, <2>2
<1>3. \A i \in Shared :
        /\ CompareComponents(a[i], b[i]) \in Int
        /\ CompareComponents(b[i], a[i]) = -CompareComponents(a[i], b[i])
    BY <1>2 DEF CompareComponents, NotANumber
<1>4. ab = ba /\ ab \in SUBSET Nat
    <2> HIDE DEF Component
    <2>1. \A i \in Shared :
            CompareComponents(a[i], b[i]) # 0 <=> CompareComponents(b[i], a[i]) # 0
        BY <1>3
    <2>2. DOMAIN a \subseteq Nat
        BY <1>1
    <2> QED BY <2>1, <2>2
<1>5. CASE ab = {}
    <2>1. CompareVersions(a, b) = Len(a) - Len(b) /\ CompareVersions(b, a) = Len(b) - Len(a)
        BY <1>4, <1>5 DEF CompareVersions
    <2>2. Len(a) \in Nat /\ Len(b) \in Nat
        BY <1>1
    <2> QED BY <2>1, <2>2 DEF NotLower, a, b
<1>6. CASE ab # {}
    <2> DEFINE i == Min(ab)
    <2>1. i \in ab
        BY <1>4, <1>6, Least
    <2>2. /\ CompareVersions(a, b) = CompareComponents(a[i], b[i])
          /\ CompareVersions(b, a) = CompareComponents(b[i], a[i])
        BY <1>4, <1>6 DEF CompareVersions
    <2> HIDE DEF i
    <2>3. CompareVersions(a, b) \in Int /\ CompareVersions(b, a) = -CompareVersions(a, b)
        BY <1>3, <2>1, <2>2
    <2> QED BY <2>3 DEF NotLower, a, b
<1> QED BY <1>5, <1>6

\* Some release of a set is not above any other: one with the fewest below.
LEMMA Lowest ==
    ASSUME NoCycles, NEW attr \in Attrs, NEW S \in SUBSET Releases[attr], S # {}
    PROVE  \E x \in S : \A r \in S : NotLower(r, x)
<1> DEFINE Below(x) == {r \in S : NotLower(x, r)}
           Sizes == {Cardinality(Below(x)) : x \in S}
<1>1. \A x \in S : IsFiniteSet(Below(x)) /\ Cardinality(Below(x)) \in Nat
    <2>1. IsFiniteSet(S)
        BY IndexIsFinite, FS_Subset
    <2>2. \A x \in S : Below(x) \subseteq S
        OBVIOUS
    <2> HIDE DEF Below
    <2> QED BY <2>1, <2>2, FS_Subset, FS_CardinalityType
<1>2. PICK x \in S : \A y \in S : Cardinality(Below(x)) <= Cardinality(Below(y))
    <2>1. Sizes \in SUBSET Nat /\ Sizes # {}
        BY <1>1
    <2>2. Min(Sizes) \in Sizes /\ \A j \in Sizes : Min(Sizes) <= j
        <3> HIDE DEF Sizes
        <3> QED BY <2>1, Least
    <2>3. PICK x \in S : Min(Sizes) = Cardinality(Below(x))
        BY <2>2
    <2> HIDE DEF Below
    <2> QED BY <2>2, <2>3
<1>3. ASSUME NEW r \in S, ~NotLower(r, x) PROVE FALSE
    <2>1. NotLower(x, r)
        BY <1>3, OneIsNotLower
    <2>2. Below(r) \subseteq Below(x)
        BY <2>1 DEF NoCycles
    <2>3. x \in Below(x) /\ x \notin Below(r)
        BY <1>3, OneIsNotLower
    <2> HIDE DEF Below
    <2>4. Cardinality(Below(r)) < Cardinality(Below(x))
        BY <1>1, <2>2, <2>3, FS_Subset
    <2> QED BY <1>1, <1>2, <2>4
<1> QED BY <1>3

\* So the releases of an attribute can be listed in order: of the smallest
\* set that could not, the lowest release would come last.
LEMMA CanBeSorted ==
    ASSUME NoCycles, NEW attr \in Attrs
    PROVE  \E s \in SetToSeqs(Releases[attr]) : InOrder(s)
<1> DEFINE Sorts(S) == \E s \in SetToSeqs(S) : InOrder(s)
           Worse == {S \in SUBSET Releases[attr] : ~Sorts(S)}
           Sizes == {Cardinality(S) : S \in Worse}
<1>1. IsFiniteSet(Releases[attr])
    BY IndexIsFinite
<1>2. \A S \in SUBSET Releases[attr] : IsFiniteSet(S) /\ Cardinality(S) \in Nat
    BY <1>1, FS_Subset, FS_CardinalityType
<1>3. ASSUME Worse # {} PROVE FALSE
    <2>1. Sizes \in SUBSET Nat /\ Sizes # {}
        BY <1>2, <1>3
    <2>2. PICK S \in Worse : \A T \in Worse : Cardinality(S) <= Cardinality(T)
        <3>1. Min(Sizes) \in Sizes /\ \A j \in Sizes : Min(Sizes) <= j
            <4> HIDE DEF Sizes
            <4> QED BY <2>1, Least
        <3>2. PICK S \in Worse : Min(Sizes) = Cardinality(S)
            BY <3>1
        <3> HIDE DEF Worse
        <3> QED BY <3>1, <3>2
    <2>3. S # {}
        <3>1. SetToSeqs({}) = {f \in [1..0 -> {}] : \A i, j \in 1..0 : i # j => f[i] # f[j]}
            BY FS_EmptySet DEF SetToSeqs
        <3> DEFINE none == [i \in 1..0 |-> i]
        <3>2. none \in SetToSeqs({})
            <4>1. 1..0 = {}
                OBVIOUS
            <4>2. none \in [1..0 -> {}]
                BY <4>1
            <4> HIDE DEF none
            <4> QED BY <3>1, <4>1, <4>2
        <3>3. InOrder(none)
            <4>1. DOMAIN none = 1..0
                OBVIOUS
            <4> HIDE DEF none
            <4> QED BY <4>1 DEF InOrder
        <3> HIDE DEF none
        <3> QED BY <2>2, <3>2, <3>3
    <2>4. PICK x \in S : \A r \in S : NotLower(r, x)
        BY <2>3, Lowest
    <2> DEFINE T == S \ {x}
    <2>6. T \in SUBSET Releases[attr] /\ Cardinality(T) < Cardinality(S) /\ S = T \cup {x}
        BY <1>2, <2>4, FS_RemoveElement
    <2>7. Sorts(T)
        BY <1>2, <2>2, <2>6
    <2>8. Sorts(T \cup {x})
        BY <1>2, <2>4, <2>6, <2>7, OneMore
    <2> QED BY <2>2, <2>6, <2>8
<1> QED BY <1>3

\* versionsOf: every release of the attribute, and no other, highest first.
LEMMA HighestFirst ==
    ASSUME NoCycles, NEW attr \in Attrs
    PROVE  /\ DOMAIN VersionsOf[attr] \in SUBSET Nat
           /\ \A i \in DOMAIN VersionsOf[attr] : VersionsOf[attr][i] \in Releases[attr]
           /\ \A r \in Releases[attr] : \E i \in DOMAIN VersionsOf[attr] : VersionsOf[attr][i] = r
           /\ InOrder(VersionsOf[attr])
<1> DEFINE s == VersionsOf[attr]
           S == Releases[attr]
           n == Cardinality(S)
<1>1. s = CHOOSE q \in SetToSeqs(S) : InOrder(q)
    BY DEF VersionsOf, InOrder, NotLower
<1>2. s \in SetToSeqs(S) /\ InOrder(s)
    <2> HIDE DEF s
    <2> QED BY <1>1, CanBeSorted
<1>3. s \in [1..n -> S] /\ \A i, j \in 1..n : i # j => s[i] # s[j]
    <2> HIDE DEF s
    <2> QED BY <1>2 DEF SetToSeqs
<1>4. IsFiniteSet(S) /\ n \in Nat
    BY IndexIsFinite, FS_CardinalityType
<1> HIDE DEF s, S
<1>5. s \in Injection(1..n, S)
    BY <1>3 DEF Injection, IsInjective
<1>6. Cardinality(1..n) = n
    BY <1>4, FS_Interval
<1>7. s \in Surjection(1..n, S)
    BY <1>4, <1>5, <1>6, FS_Injection
<1>8. \A r \in S : \E i \in 1..n : s[i] = r
    BY <1>3, <1>7 DEF Surjection, Range
<1>9. DOMAIN s = 1..n /\ 1..n \subseteq Nat /\ \A i \in 1..n : s[i] \in S
    BY <1>3, <1>4
<1> QED BY <1>2, <1>8, <1>9 DEF s, S

\* resolveSpecs: nothing a spec could take is above what it takes.
LEMMA TakesHighest ==
    ASSUME NoCycles, NEW line \in Lines, NEW known,
           NEW n \in ResolveSpecs(line, known)
    PROVE  \E spec \in ToSet(line) :
                /\ n.release.attr = spec.attr /\ Takes(spec, n.release)
                /\ \A r \in Releases[spec.attr] :
                    Takes(spec, r) => NotLower(n.release, r)
<1>1. PICK i \in DOMAIN line : /\ Hits(line[i]) # {}
                               /\ n.release = VersionsOf[line[i].attr][Min(Hits(line[i]))]
    BY DEF ResolveSpecs
<1> DEFINE spec == line[i]
           versions == VersionsOf[spec.attr]
           first == Min(Hits(spec))
<1>2. spec \in ToSet(line) /\ spec.attr \in Attrs
    BY LanesAssumption DEF ToSet
<1>3. /\ DOMAIN versions \in SUBSET Nat
      /\ \A j \in DOMAIN versions : versions[j] \in Releases[spec.attr]
      /\ \A r \in Releases[spec.attr] : \E j \in DOMAIN versions : versions[j] = r
      /\ InOrder(versions)
    BY <1>2, HighestFirst
<1>4. Hits(spec) = {j \in DOMAIN versions : Takes(spec, versions[j])} /\ Hits(spec) # {}
    BY <1>1 DEF Hits
<1> HIDE DEF spec, versions
<1>5. first \in Hits(spec) /\ \A j \in Hits(spec) : first <= j
    BY <1>3, <1>4, Least
<1>6. n.release = versions[first]
    BY <1>1 DEF spec, versions
<1>7. /\ first \in DOMAIN versions /\ Takes(spec, n.release)
      /\ n.release \in Releases[spec.attr] /\ n.release.attr = spec.attr
    <2> HIDE DEF first
    <2> QED BY <1>2, <1>3, <1>4, <1>5, <1>6, IndexAssumption
<1>8. ASSUME NEW r \in Releases[spec.attr], Takes(spec, r)
      PROVE  NotLower(n.release, r)
    <2>1. PICK j \in DOMAIN versions : versions[j] = r
        BY <1>3
    <2>2. first <= j
        BY <1>4, <1>5, <1>8, <2>1
    <2> HIDE DEF first
    <2>3. CASE first = j
        <3>1. n.release = r
            BY <1>6, <2>1, <2>3
        <3> QED BY <1>2, <3>1, OneIsNotLower
    <2>4. CASE first # j
        <3>1. first < j
            BY <1>3, <1>7, <2>2, <2>4
        <3> QED BY <1>3, <1>6, <1>7, <2>1, <3>1 DEF InOrder
    <2> QED BY <2>3, <2>4
<1> QED BY <1>2, <1>7, <1>8 DEF spec

\* One pick of a line: no live release its spec admits is above it.
Highest(p) ==
    p.line # <<>> =>
        \E spec \in ToSet(p.line) :
            /\ p.release.attr = spec.attr /\ Takes(spec, p.release)
            /\ \A r \in Releases[spec.attr] :
                Takes(spec, r) => NotLower(p.release, r)

\* What the line of a pick admits has nothing above it.
PicksAreHighest == \A p \in picked : Highest(p)

LEMMA HighestInductive ==
    NoCycles /\ TypeOK /\ PicksAreHighest /\ [Next]_vars => PicksAreHighest'
<1> SUFFICES ASSUME NoCycles, TypeOK, \A p \in picked : Highest(p), [Next]_vars,
                    NEW p \in picked'
             PROVE  Highest(p)
    BY DEF PicksAreHighest
<1>1. CASE p \in picked
    BY <1>1
<1>2. CASE p.line = <<>>
    BY <1>2 DEF Highest
<1>3. CASE Reader /\ p \notin picked
    <2>1. p.line = <<>>
        BY <1>3, Handlers
    <2> QED BY <2>1 DEF Highest
<1>4. CASE Resume /\ p \notin picked
    <2> DEFINE t == Head(turn)
    <2>1. t \in Requests /\ Finish(t)
        <3>1. \/ UNCHANGED screen
              \/ Finish(t)
            BY <1>4 DEF Resume
        <3>2. ~UNCHANGED screen
            BY <1>4 DEF screen
        <3> QED BY <1>4, <3>1, <3>2, ResumeSteps
    <2>2. t.box = "line" /\ picked' = SelectAll(picked, t.what.line)
        BY <1>4, <2>1 DEF Finish, Show
    <2> HIDE DEF t
    <2>3. t.what.line \in Lines
        BY <2>1, <2>2, RequestTypes
    <2>4. PICK n \in ResolveSpecs(t.what.line, Known) :
            p = [release |-> n.release, line |-> t.what.line]
        BY <1>4, <2>2 DEF SelectAll
    <2> QED BY <2>3, <2>4, TakesHighest DEF Highest
<1>5. CASE UNCHANGED picked
    BY <1>5
<1>6. ASSUME NEW k \in Keys, Settle(k) PROVE UNCHANGED picked
    BY <1>6 DEF Settle, screen
<1>7. UNCHANGED vars => UNCHANGED picked
    BY DEF vars, screen
<1> QED BY <1>1, <1>3, <1>4, <1>5, <1>6, <1>7 DEF Next

\* Whatever shards are missing and however the lookups end, what a line
\* selects for a spec is the highest version, in the order compareVersions
\* gives, of those the spec admits that are not known to be dead (versionsOf,
\* resolveSpecs): so where it is not the newest the order is to blame, and
\* never an older lookup or the way the line was resolved.
THEOREM PicksAlwaysHighest == ASSUME NoCycles PROVE Spec => []PicksAreHighest
<1>1. Init => PicksAreHighest
    BY DEF Init, PicksAreHighest
<1>2. TypeOK /\ PicksAreHighest /\ [Next]_vars => PicksAreHighest'
    BY HighestInductive
<1> QED BY <1>1, <1>2, TypeCorrect, PTL DEF Spec
=============================================================================
