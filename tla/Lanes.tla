------------------------------- MODULE Lanes -------------------------------
(***************************************************************************)
(* The three ways to choose a package (search.js, complete.js, ranges.js   *)
(* and their lanes in app.js) over the lookups they share: a promise per   *)
(* shard, made once and kept for the life of the page (multiverse.js).     *)
(*                                                                         *)
(* An async function that awaits lookups is a task with the keys it has    *)
(* still to await, the first of them now.  A promise that settles wakes    *)
(* its tasks first come first served.  Each runs up to its next await:     *)
(* one of a promise still pending ends its part in this turn of the event  *)
(* loop, one of a promise settled before sends it to the end of the        *)
(* queue.  The next event comes when the queue is empty.                   *)
(***************************************************************************)
EXTENDS Index, FiniteSets

CONSTANTS
    ShardOf,     \* shardOf, of each attribute
    Fragments,   \* what the caret may sit in: [mode, attr, prefix]
    Short,       \* those of them too short to complete
    Offers,      \* the names or versions that begin with each fragment
    Completions, \* RANGE_COMPLETIONS
    Lines,       \* lines of the range box: sequences of [attr, operator, pattern]
    Queries,     \* texts of the search box
    Found,       \* the attributes searchAttrs finds for each
    Age,         \* for the properties: when each digest was released
    MaxTasks,    \* bound: handlers that await at once
    MaxSwitches  \* bound: how often the reader changes lanes

ASSUME LanesAssumption ==
    /\ Short \subseteq Fragments
    /\ \A f \in Fragments : f.mode # "attr" => f.attr \in Attrs
    /\ Offers \in [Fragments -> Seq(STRING)]
    /\ Completions \in Nat \ {0}
    /\ \A line \in Lines : \A i \in DOMAIN line : line[i].attr \in Attrs
    /\ \A line \in Lines : line \in Seq(ToSet(line)) /\ line # <<>>
    /\ Found \in [Queries -> SUBSET Attrs]
    /\ MaxSwitches \in Nat

Names == <<"names">>
Meta(attr) == <<"meta", ShardOf[attr]>>
Keys == {Names} \cup {Meta(a) : a \in Attrs}

VARIABLES
    promise, \* of each key "unasked", "pending", "ok", "empty" or "failed"
    waiting, \* of each key: the tasks that await it, first come first
    turn,    \* the tasks to be resumed before the next event
    offer,   \* the dropdown: [for, texts, at], at the selected index or -1
    pane,    \* the search results: [kind, of]
    lane,    \* the lane that is visible, and how often it was switched
    picked,  \* the selection: [release, line], line <<>> for a pick by hand
    wanted,  \* of each box, its latest request
    answered, overtaken \* the boxes where that was answered, or may be overtaken

loop == <<promise, waiting, turn>>
screen == <<offer, pane, picked>>
requests == <<wanted, answered, overtaken>>
vars == <<loop, screen, lane, requests>>

Boxes == {"range", "pane"}
NoFragment == [mode |-> "none", attr |-> "", prefix |-> ""]
Hidden == [for |-> NoFragment, texts |-> <<>>, at |-> -1]
Clear == [kind |-> "clear", of |-> ""]

Init ==
    /\ promise = [k \in Keys |-> "unasked"]
    /\ waiting = [k \in Keys |-> <<>>]
    /\ turn = <<>>
    /\ offer = Hidden
    /\ pane = Clear
    /\ lane = [shown |-> "search", switches |-> 0]
    /\ picked = {}
    /\ wanted = [b \in Boxes |-> IF b = "range" THEN NoFragment ELSE Clear]
    /\ answered = Boxes /\ overtaken = {}
-----------------------------------------------------------------------------
(* Promises and tasks.                                                     *)

\* A task awaits its first key, the rest of the queue being as it is: a
\* lookup is asked for once (fetchShard, attrNames).
Await(t, queue) ==
    LET k == Head(t.keys) IN
    IF promise[k] \in {"unasked", "pending"}
    THEN /\ promise' = [promise EXCEPT ![k] = "pending"]
         /\ waiting' = [waiting EXCEPT ![k] = Append(@, t)]
         /\ turn' = queue
    ELSE /\ turn' = Append(queue, t)
         /\ UNCHANGED <<promise, waiting>>

\* A box has a new request; earlier ones that await something else may be
\* answered after it.
Want(b, what, keys) ==
    /\ wanted' = [wanted EXCEPT ![b] = what]
    /\ answered' = IF keys = <<>> THEN answered \cup {b} ELSE answered \ {b}
    /\ overtaken' =
        IF \E k \in Keys : \E t \in ToSet(waiting[k]) : t.box = b /\ t.keys # keys
        THEN overtaken \cup {b} ELSE overtaken \ {b}

\* An event handler runs up to its first await.
Start(t) ==
    /\ Cardinality({ki \in Keys \X (1..MaxTasks) : ki[2] <= Len(waiting[ki[1]])}) < MaxTasks
    /\ Await(t, <<>>)
    /\ IF t.box \in Boxes THEN Want(t.box, t.what, t.keys) ELSE UNCHANGED requests

\* A shard that does not hold the attribute, and an HTTP error, which reads
\* as an empty shard.
Outcomes(k) ==
    IF k = Names THEN {"ok", "failed"} ELSE {"ok", "empty", "failed"}

\* The network's part: a lookup is answered, or refused.
Deliver(k) ==
    /\ promise[k] = "pending"
    /\ \E outcome \in Outcomes(k) : promise' = [promise EXCEPT ![k] = outcome]

\* It wakes what awaits it.
Settle(k) ==
    /\ Deliver(k)
    /\ waiting' = [waiting EXCEPT ![k] = <<>>]
    /\ turn' = waiting[k]
    /\ UNCHANGED <<screen, lane, requests>>

Known == {a \in Attrs : promise[Meta(a)] = "ok"}

\* The selection is a Map by digest; its order is a matter of Page.
Select(chosen, entry) ==
    {e \in chosen : e.release.digest # entry.release.digest} \cup {entry}

\* One after the other, so of two with a digest the last stays.
SelectAll(chosen, line) ==
    LET new == ResolveSpecs(line, Known)
        last == {n \in new :
                    \A m \in new : m.at > n.at => m.release.digest # n.release.digest}
    IN  {e \in chosen : \A n \in new : e.release.digest # n.release.digest}
            \cup {[release |-> n.release, line |-> line] : n \in last}

\* The end of refresh: at most so many suggestions, and none hides the list.
OfferFor(f) ==
    LET k == IF f.mode = "attr" THEN Names ELSE Meta(f.attr)
        texts == IF promise[k] = "ok" THEN Offers[f] ELSE <<>> IN
    IF texts = <<>> THEN Hidden
    ELSE [for |-> f, at |-> -1,
          texts |-> SubSeq(texts, 1, IF Len(texts) < Completions THEN Len(texts) ELSE Completions)]

\* Mutant: a shard without versions of the attribute says nothing.
ShowSilent(t) ==
    /\ offer' = IF t.box = "range" THEN OfferFor(t.what) ELSE offer
    /\ pane' = IF t.box = "pane" /\ (t.what.kind = "found" \/ t.what.of \in Known)
               THEN t.what ELSE pane
    /\ picked' = IF t.box = "line" THEN SelectAll(picked, t.what.line) ELSE picked

\* What a task does to the screen once it has all it awaited.
Show(t) ==
    /\ offer' = IF t.box = "range" THEN OfferFor(t.what) ELSE offer
    /\ pane' = IF t.box = "pane" THEN t.what ELSE pane
    /\ picked' = IF t.box = "line" THEN SelectAll(picked, t.what.line) ELSE picked

Finish(t) ==
    /\ Show(t)
    /\ answered' = IF t.box \in Boxes /\ t.what = wanted[t.box]
                   THEN answered \cup {t.box} ELSE answered
    /\ UNCHANGED <<wanted, overtaken>>

\* Mutant: a lookup that failed counts as one that found nothing.
SettledAnyhow == {"ok", "empty", "failed"}

Settled == {"ok", "empty"}

\* The next task goes on: a rejected promise ends it with nothing said, else
\* it has another await before it, or is over.
Resume ==
    /\ turn # <<>>
    /\ LET t == Head(turn)
           left == Tail(t.keys)
       IN  \/ /\ promise[Head(t.keys)] \notin Settled
              /\ turn' = Tail(turn)
              /\ UNCHANGED <<promise, waiting, screen, requests>>
           \/ /\ promise[Head(t.keys)] \in Settled /\ left # <<>>
              /\ Await([t EXCEPT !.keys = left], Tail(turn))
              /\ UNCHANGED <<screen, requests>>
           \/ /\ promise[Head(t.keys)] \in Settled /\ left = <<>>
              /\ Finish(t)
              /\ turn' = Tail(turn)
              /\ UNCHANGED <<promise, waiting>>
    /\ UNCHANGED lane
-----------------------------------------------------------------------------
(* RangeComplete.                                                          *)

\* Mutant: text too short to complete leaves the list as it is.
RefreshShortKeeps(f) ==
    /\ Want("range", f, <<>>)
    /\ UNCHANGED <<loop, screen>>

\* Text too short hides the list at once, and forgets no lookup under way.
RefreshShort(f) ==
    /\ offer' = Hidden
    /\ Want("range", f, <<>>)
    /\ UNCHANGED <<loop, pane, picked>>

Refresh(f) ==
    IF f \in Short THEN RefreshShort(f)
    ELSE /\ Start([box |-> "range", what |-> f,
                   keys |-> <<IF f.mode = "attr" THEN Names ELSE Meta(f.attr)>>])
         /\ UNCHANGED screen

Type(f) == lane.shown = "ranges" /\ Refresh(f) /\ UNCHANGED lane

\* The list is hidden: by Escape, or 150 ms after the box lost the focus,
\* whatever has been typed since.
Hide ==
    /\ offer' = Hidden
    /\ UNCHANGED <<loop, pane, picked, lane, requests>>

\* Mutant: the list is gone round without its length.
MoveOn(delta) == [offer EXCEPT !.at = @ + delta]

\* With nothing selected the first step up lands on the last but one.
Move(delta) ==
    [offer EXCEPT !.at = (@ + delta + Len(offer.texts)) % Len(offer.texts)]

Arrow(delta) ==
    /\ lane.shown = "ranges"
    /\ offer.texts # <<>>
    /\ offer' = Move(delta)
    /\ UNCHANGED <<loop, pane, picked, lane, requests>>

\* A suggestion replaces the fragment it was made for; the box is not
\* completed again.
Accept(i) ==
    /\ lane.shown = "ranges"
    /\ i \in DOMAIN offer.texts
    /\ offer' = Hidden
    /\ Want("range", NoFragment, <<>>)
    /\ UNCHANGED <<loop, pane, picked, lane>>

\* Tab takes the selected suggestion or the first, Enter the selected one, a
\* click any.
Tab == Accept(IF offer.at = -1 THEN 1 ELSE offer.at + 1)
Enter == offer.at # -1 /\ Accept(offer.at + 1)
ClickItem == \E i \in DOMAIN offer.texts : Accept(i)
-----------------------------------------------------------------------------
(* The line of specs, the search box and its results.                      *)

SubmitLine(line) ==
    /\ lane.shown = "ranges"
    /\ Start([box |-> "line", what |-> [line |-> line],
              keys |-> [i \in DOMAIN line |-> Meta(line[i].attr)]])
    /\ UNCHANGED <<screen, lane>>

\* An empty box clears the pane at once.
ClearPane ==
    /\ pane' = Clear
    /\ Want("pane", Clear, <<>>)
    /\ UNCHANGED <<loop, offer, picked>>

\* The box has sat still: search reads what is in it.  Every key stroke
\* restarted the timer, so one runs at most.
Search(q) ==
    /\ IF q = "" THEN ClearPane
       ELSE /\ Start([box |-> "pane", what |-> [kind |-> "found", of |-> q],
                      keys |-> <<Names>>])
            /\ UNCHANGED screen
    /\ UNCHANGED lane

\* The pane says "loading" until the versions are there, which they never
\* are when the shard's promise was rejected.
Expand(attr) ==
    /\ lane.shown = "search"
    /\ pane.kind = "found" /\ attr \in Found[pane.of]
    /\ pane' = [kind |-> "loading", of |-> attr]
    /\ Start([box |-> "pane", what |-> [kind |-> "versions", of |-> attr],
              keys |-> <<Meta(attr)>>])
    /\ UNCHANGED <<offer, picked, lane>>

\* A version the census found gone is shown and not selectable.
Pick(r) ==
    /\ lane.shown = "search"
    /\ pane.kind = "versions" /\ r \in Releases[pane.of]
    /\ promise[Meta(pane.of)] = "ok"
    /\ r.alive # "no"
    /\ picked' = Select(picked, [release |-> r, line |-> <<>>])
    /\ UNCHANGED <<loop, offer, pane, lane, requests>>
-----------------------------------------------------------------------------
\* The lane tabs: one lane visible at a time, the others go on.
Switch(l) ==
    /\ lane.shown # l /\ lane.switches < MaxSwitches
    /\ lane' = [shown |-> l, switches |-> lane.switches + 1]
    /\ UNCHANGED <<loop, screen, requests>>

Reader ==
    \/ \E f \in Fragments : Type(f)
    \/ \E delta \in {1, -1} : Arrow(delta)
    \/ Hide \/ Tab \/ Enter \/ ClickItem
    \/ \E line \in Lines : SubmitLine(line)
    \/ \E q \in Queries \cup {""} : Search(q)
    \/ \E a \in Attrs : Expand(a)
    \/ \E r \in AllReleases : Pick(r)
    \/ \E l \in {"search", "ranges"} : Switch(l)

Next == Resume \/ (turn = <<>> /\ (Reader \/ \E k \in Keys : Settle(k)))

Spec == Init /\ [][Next]_vars

\* The event loop runs, and the network answers or refuses whatever the
\* reader does; nothing obliges him.
FairSpec ==
    /\ Spec
    /\ WF_vars(Resume)
    /\ \A k \in Keys : WF_promise(Deliver(k))
-----------------------------------------------------------------------------
Results == [kind : {"found", "versions"}, of : Queries \cup Attrs]
Requests ==
    [box : {"range"}, what : Fragments, keys : Seq(Keys) \ {<<>>}]
        \cup [box : {"pane"}, what : Results, keys : Seq(Keys) \ {<<>>}]
        \cup [box : {"line"}, what : [line : Lines], keys : Seq(Keys) \ {<<>>}]

\* What Enter and Tab accept exists; the rest is types.
TypeOK ==
    /\ promise \in [Keys -> {"unasked", "pending", "ok", "empty", "failed"}]
    /\ waiting \in [Keys -> Seq(Requests)]
    /\ turn \in Seq(Requests)
    /\ offer \in [for : Fragments \cup {NoFragment}, texts : Seq(STRING), at : Int]
    /\ offer.at \in -1..(Len(offer.texts) - 1)
    /\ Len(offer.texts) <= Completions
    /\ pane \in [kind : {"clear", "found", "loading", "versions"},
                of : Queries \cup Attrs \cup {""}]
    /\ lane \in [shown : {"search", "ranges"}, switches : 0..MaxSwitches]
    /\ \A p \in picked : p.line \in Lines \cup {<<>>}
    /\ wanted["range"] \in Fragments \cup {NoFragment}
    /\ wanted["pane"] \in Results \cup {Clear}
    /\ DOMAIN wanted = Boxes /\ answered \subseteq Boxes /\ overtaken \subseteq Boxes

\* What a box shows is the answer to its latest request once that has been
\* answered, unless a lookup for another key was under way when the request
\* was made: lookups of one key never overtake each other (refresh, search).
\* It is what the reader sees, who sees nothing before the turn is over.
ShownIsFresh ==
    turn = <<>> =>
        /\ "range" \in answered \ overtaken /\ offer.texts # <<>> =>
            offer.for = wanted["range"]
        /\ "pane" \in answered \ overtaken /\ pane.kind # "loading" => pane = wanted["pane"]

\* Nothing of a line is selected while one of its lookups is under way, or
\* after one has failed: a line is selected whole (the ranges lane).
LineIsWhole ==
    \A p \in picked : \A i \in DOMAIN p.line :
        promise[Meta(p.line[i].attr)] \in {"ok", "empty"}

\* What a line selects is the newest live release the spec admits, by the
\* dates of the releases (versionsOf, resolveSpecs).
PicksAreNewest ==
    \A p \in picked : p.line # <<>> =>
        \E spec \in ToSet(p.line) :
            /\ p.release.attr = spec.attr /\ Takes(spec, p.release)
            /\ \A r \in Releases[spec.attr] :
                Takes(spec, r) => Age[r.digest] <= Age[p.release.digest]

\* The pane stops loading, unless the promise of the shard was rejected: it
\* is kept, so that attribute loads for ever until the page is reloaded.
LoadingEnds ==
    pane.kind = "loading" ~> pane.kind # "loading" \/ promise[Meta(pane.of)] = "failed"

\* "a release sorts above its own prereleases (1.2 over 1.2-rc1)"
\* (multiverse.js:86): a line that admits both takes the release.
ReleaseOverPrerelease ==
    \A p \in picked : \A spec \in ToSet(p.line) :
        ~\E r \in Releases[spec.attr] :
            /\ p.release.attr = spec.attr /\ Takes(spec, r)
            /\ IsStrictPrefix(r.ver, p.release.ver)
=============================================================================
