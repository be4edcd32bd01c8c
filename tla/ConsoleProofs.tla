---------------------------- MODULE ConsoleProofs ----------------------------
(***************************************************************************)
(* For every window, face, marker, transcript limit and whatever else the  *)
(* guest writes: one tap modifies one key, and the wait for the marker is  *)
(* resolved by the marker alone.                                           *)
(***************************************************************************)
EXTENDS Console, SequenceTheorems, TLAPS

-----------------------------------------------------------------------------
(* What the transcript keeps, and what is in it.                           *)

\* Cap keeps the end of what it is given.
LEMMA CapKeepsEnd ==
    ASSUME NEW s \in Seq(Units)
    PROVE  \E len \in Nat, d \in Nat :
              /\ Cap(s) \in Seq(Units) /\ Len(Cap(s)) = len
              /\ len = IF Len(s) > Limit THEN Limit ELSE Len(s)
              /\ len + d = Len(s)
              /\ \A i \in 1..len : Cap(s)[i] = s[i + d]
<1>0. Limit \in Nat /\ Len(s) \in Nat
    BY ConsoleAssumption
<1>1. CASE Len(s) > Limit
    <2>1. Cap(s) = SubSeq(s, Len(s) - Limit + 1, Len(s))
        BY <1>1 DEF Cap
    <2>2. /\ SubSeq(s, Len(s) - Limit + 1, Len(s)) \in Seq(Units)
          /\ Len(SubSeq(s, Len(s) - Limit + 1, Len(s))) = Limit
          /\ \A i \in 1..Limit : SubSeq(s, Len(s) - Limit + 1, Len(s))[i] = s[Len(s) - Limit + i]
        BY <1>0, <1>1
    <2>3. Len(s) - Limit \in Nat /\ Limit + (Len(s) - Limit) = Len(s)
        BY <1>0, <1>1
    <2>4. \A i \in 1..Limit : Len(s) - Limit + i = i + (Len(s) - Limit)
        BY <1>0
    <2>5. \A i \in 1..Limit : Cap(s)[i] = s[i + (Len(s) - Limit)]
        BY <2>1, <2>2, <2>4
    <2> HIDE DEF Cap
    <2> QED BY <1>0, <1>1, <2>1, <2>2, <2>3, <2>5
<1>2. CASE ~(Len(s) > Limit)
    <2>1. Cap(s) = s /\ Len(s) + 0 = Len(s) /\ \A i \in 1..Len(s) : s[i] = s[i + 0]
        BY <1>0, <1>2 DEF Cap
    <2> QED BY <1>0, <1>2, <2>1
<1> QED BY <1>1, <1>2

\* The marker stands in s behind its first i units.
StandsAt(s, i) == \A j \in 1..Len(Marker) : s[i + j] = Marker[j]

LEMMA IncludesStands ==
    ASSUME NEW s \in Seq(Units)
    PROVE  Includes(s) <=> \E i \in 0..(Len(s) - Len(Marker)) : StandsAt(s, i)
<1>0. Marker \in Seq(Units) /\ Len(Marker) \in Nat /\ Len(s) \in Nat
    BY ConsoleAssumption
<1>1. ASSUME NEW i \in 0..(Len(s) - Len(Marker))
      PROVE  (SubSeq(s, i + 1, i + Len(Marker)) = Marker) <=> StandsAt(s, i)
    <2>1. /\ SubSeq(s, i + 1, i + Len(Marker)) \in Seq(Units)
          /\ Len(SubSeq(s, i + 1, i + Len(Marker))) = Len(Marker)
          /\ \A j \in 1..Len(Marker) : SubSeq(s, i + 1, i + Len(Marker))[j] = s[i + j]
        <3>1. i + 1 \in 1..(Len(s) + 1) /\ i + Len(Marker) \in i..Len(s)
            BY <1>0
        <3>2. (i + Len(Marker)) - (i + 1) + 1 = Len(Marker) /\ (i + 1) - 1 = i
            BY <1>0
        <3>3. \A j \in 1..Len(Marker) : (i + 1) + j - 1 = i + j
            BY <1>0
        <3> QED BY <3>1, <3>2, <3>3, SubSeqProperties
    <2> QED BY <1>0, <2>1, SeqEqual DEF StandsAt
<1> QED BY <1>1 DEF Includes

\* A unit that the guest writes besides the marker.
Other(u) == \E c \in Chunks : \E j \in 1..Len(c) : c[j] = u

\* s ends with the first k units of the marker, and has nothing of the
\* marker before them.
EndsWith(s, k) ==
    /\ Len(s) >= k
    /\ \A j \in 1..k : s[Len(s) - k + j] = Marker[j]
    /\ \A i \in 1..(Len(s) - k) : Other(s[i])

\* The marker is not there before all of it is.
LEMMA PartIsNotMarker ==
    ASSUME NEW s \in Seq(Units), NEW k \in Nat, k < Len(Marker), EndsWith(s, k)
    PROVE  ~Includes(s)
<1>0. Len(Marker) \in Nat /\ Len(s) \in Nat
    BY ConsoleAssumption
<1> SUFFICES ASSUME NEW i \in 0..(Len(s) - Len(Marker)), StandsAt(s, i) PROVE FALSE
    BY IncludesStands
<1>1. CASE i + Len(Marker) <= Len(s) - k
    <2>1. PICK m \in 1..Len(Marker) : \A c \in Chunks : \A j \in 1..Len(c) : c[j] # Marker[m]
        BY MarkerAssumption
    <2>2. i + m \in 1..(Len(s) - k) /\ s[i + m] = Marker[m]
        BY <1>0, <1>1 DEF StandsAt
    <2> QED BY <2>1, <2>2 DEF EndsWith, Other
<1>2. CASE i + Len(Marker) > Len(s) - k
    <2> DEFINE h == i + Len(Marker) - (Len(s) - k)
    <2>1. h \in 1..k /\ h \in 1..(Len(Marker) - 1)
        BY <1>0, <1>2
    <2>2. PICK j \in 1..h : Marker[j] # Marker[Len(Marker) - h + j]
        BY <2>1, MarkerAssumption
    <2>3. s[Len(s) - k + j] = Marker[j]
        BY <2>1, <2>2 DEF EndsWith
    <2>4. Len(Marker) - h + j \in 1..Len(Marker)
          /\ i + (Len(Marker) - h + j) = Len(s) - k + j
        BY <1>0, <2>1, <2>2
    <2>5. s[Len(s) - k + j] = Marker[Len(Marker) - h + j]
        BY <2>4 DEF StandsAt
    <2> QED BY <2>2, <2>3, <2>5
<1> QED BY <1>0, <1>1, <1>2

LEMMA CapKeepsPart ==
    ASSUME NEW s \in Seq(Units), NEW k \in Nat, k <= Limit, EndsWith(s, k)
    PROVE  EndsWith(Cap(s), k)
<1>0. Limit \in Nat /\ Len(s) \in Nat
    BY ConsoleAssumption
<1>1. PICK len \in Nat, d \in Nat :
        /\ Cap(s) \in Seq(Units) /\ Len(Cap(s)) = len
        /\ len = IF Len(s) > Limit THEN Limit ELSE Len(s)
        /\ len + d = Len(s)
        /\ \A i \in 1..len : Cap(s)[i] = s[i + d]
    BY CapKeepsEnd
<1>2. len + d = Len(s)
    BY <1>1
<1>3. len >= k
    BY <1>0, <1>1 DEF EndsWith
<1>4. ASSUME NEW j \in 1..k PROVE Cap(s)[len - k + j] = Marker[j]
    <2>1. len - k + j \in 1..len
        BY <1>3
    <2>2. len - k + j + d = Len(s) - k + j
        BY <1>2
    <2> QED BY <1>1, <2>1, <2>2 DEF EndsWith
<1>5. ASSUME NEW i \in 1..(len - k) PROVE Other(Cap(s)[i])
    <2>1. i \in 1..len /\ i + d \in 1..(Len(s) - k)
        BY <1>1, <1>3
    <2> QED BY <1>1, <2>1 DEF EndsWith
<1> QED BY <1>1, <1>3, <1>4, <1>5 DEF EndsWith

\* Before the marker begins the guest writes other things.
LEMMA WriteKeepsPart ==
    ASSUME NEW s \in Seq(Units), EndsWith(s, 0), NEW c \in Chunks
    PROVE  EndsWith(Cap(s \o c), 0)
<1>1. c \in Seq(Units) /\ Limit \in Nat
    BY ConsoleAssumption
<1>2. /\ s \o c \in Seq(Units) /\ Len(s \o c) = Len(s) + Len(c)
      /\ \A i \in 1..(Len(s) + Len(c)) :
            (s \o c)[i] = IF i <= Len(s) THEN s[i] ELSE c[i - Len(s)]
    BY <1>1, ConcatProperties
<1>3. ASSUME NEW i \in 1..Len(s \o c) PROVE Other((s \o c)[i])
    <2>1. CASE i <= Len(s)
        BY <1>2, <2>1 DEF EndsWith
    <2>2. CASE i > Len(s)
        <3>1. i - Len(s) \in 1..Len(c) /\ (s \o c)[i] = c[i - Len(s)]
            BY <1>1, <1>2, <2>2
        <3> QED BY <3>1 DEF Other
    <2> QED BY <1>1, <1>2, <2>1, <2>2
<1>4. EndsWith(s \o c, 0)
    BY <1>1, <1>2, <1>3 DEF EndsWith
<1> QED
    <2>1. 0 \in Nat /\ 0 <= Limit
        BY <1>1
    <2> QED BY <1>2, <1>4, <2>1, CapKeepsPart

\* Some units of the marker.
LEMMA MarkerPart ==
    ASSUME NEW k \in Nat, NEW m \in Nat, k + m <= Len(Marker)
    PROVE  /\ SubSeq(Marker, k + 1, k + m) \in Seq(Units)
           /\ Len(SubSeq(Marker, k + 1, k + m)) = m
           /\ \A j \in 1..m : SubSeq(Marker, k + 1, k + m)[j] = Marker[k + j]
<1>1. Marker \in Seq(Units) /\ Len(Marker) \in Nat
    BY ConsoleAssumption
<1>2. ASSUME NEW a \in Int, NEW b \in Int, a = k + 1, b = k + m
      PROVE  /\ SubSeq(Marker, a, b) \in Seq(Units) /\ Len(SubSeq(Marker, a, b)) = m
             /\ \A j \in 1..m : SubSeq(Marker, a, b)[j] = Marker[k + j]
    <2>1. ASSUME NEW j \in a..b PROVE Marker[j] \in Units
        <3>1. j \in 1..Len(Marker)
            BY <1>1, <1>2
        <3> QED BY <1>1, <3>1, ElementOfSeq
    <2>2. /\ SubSeq(Marker, a, b) \in Seq(Units)
          /\ Len(SubSeq(Marker, a, b)) = IF a <= b THEN b - a + 1 ELSE 0
          /\ \A j \in 1..(b - a + 1) : SubSeq(Marker, a, b)[j] = Marker[a + j - 1]
        BY <2>1, SubSeqProperties
    <2>3. b - a + 1 = m /\ (a <= b <=> m # 0)
        BY <1>2
    <2>4. \A j \in 1..m : a + j - 1 = k + j
        BY <1>2
    <2> QED BY <2>2, <2>3, <2>4
<1> QED BY <1>2

\* The next units of the marker follow those that are there.
LEMMA WelcomeGrows ==
    ASSUME NEW s \in Seq(Units), NEW k \in Nat, EndsWith(s, k),
           NEW m \in Nat, k + m <= Len(Marker),
           NEW t, t = s \o SubSeq(Marker, k + 1, k + m)
    PROVE  t \in Seq(Units) /\ EndsWith(t, k + m)
<1>0. Marker \in Seq(Units) /\ Len(Marker) \in Nat
    BY ConsoleAssumption
<1> DEFINE p == SubSeq(Marker, k + 1, k + m)
<1>1. p \in Seq(Units) /\ Len(p) = m /\ \A j \in 1..m : p[j] = Marker[k + j]
    BY MarkerPart
<1> HIDE DEF p
<1>2. /\ t \in Seq(Units) /\ Len(t) = Len(s) + m
      /\ \A i \in 1..(Len(s) + m) : t[i] = IF i <= Len(s) THEN s[i] ELSE p[i - Len(s)]
    <2>1. t = s \o p
        BY DEF p
    <2>2. p \in Seq(Units) /\ Len(p) = m
        BY <1>1
    <2>3. /\ s \o p \in Seq(Units) /\ Len(s \o p) = Len(s) + Len(p)
          /\ \A i \in 1..(Len(s) + Len(p)) :
                (s \o p)[i] = IF i <= Len(s) THEN s[i] ELSE p[i - Len(s)]
        BY <2>2, ConcatProperties
    <2> QED BY <2>1, <2>2, <2>3
<1>3. ASSUME NEW j \in 1..(k + m) PROVE t[Len(t) - (k + m) + j] = Marker[j]
    <2>0. Len(s) \in Nat /\ Len(s) >= k
        BY DEF EndsWith
    <2>3. Len(t) - (k + m) + j = Len(s) - k + j
        BY <1>2, <2>0
    <2>1. CASE j <= k
        <3>1. t[Len(s) - k + j] = s[Len(s) - k + j]
            BY <1>2, <2>0, <2>1
        <3>2. j \in 1..k
            BY <2>1
        <3> QED BY <2>3, <3>1, <3>2 DEF EndsWith
    <2>2. CASE j > k
        <3>0. Len(s) - k + j \in 1..(Len(s) + m) /\ Len(s) - k + j > Len(s)
              /\ (Len(s) - k + j) - Len(s) = j - k
            BY <2>0, <2>2
        <3> DEFINE r == Len(s) - k + j
        <3>1. t[Len(s) - k + j] = p[j - k]
            <4>1. r \in 1..(Len(s) + m) /\ ~(r <= Len(s)) /\ r - Len(s) = j - k
                BY <2>0, <3>0
            <4> HIDE DEF r
            <4>2. t[r] = p[r - Len(s)]
                BY <1>2, <4>1
            <4> QED BY <4>1, <4>2 DEF r
        <3>2. j - k \in 1..m /\ k + (j - k) = j
            BY <2>2
        <3> QED BY <1>1, <2>3, <3>1, <3>2
    <2>4. j <= k \/ j > k
        OBVIOUS
    <2> QED BY <2>1, <2>2, <2>4
<1>4. ASSUME NEW i \in 1..(Len(t) - (k + m)) PROVE Other(t[i])
    <2>1. i \in 1..(Len(s) - k) /\ i <= Len(s) /\ i \in 1..(Len(s) + m)
        BY <1>2
    <2> QED BY <1>2, <2>1 DEF EndsWith
<1>5. Len(t) >= k + m
    BY <1>2 DEF EndsWith
<1> QED BY <1>2, <1>3, <1>4, <1>5 DEF EndsWith

\* All of it, and little enough behind it, is found in what is kept.
LEMMA MarkerIsKept ==
    ASSUME NEW s \in Seq(Units), EndsWith(s, Len(Marker)),
           NEW c \in Seq(Units), Len(c) + Len(Marker) <= Limit
    PROVE  Includes(Cap(s \o c))
<1>0. Marker \in Seq(Units) /\ Len(Marker) \in Nat /\ Limit \in Nat
      /\ Len(s) \in Nat /\ Len(c) \in Nat
    BY ConsoleAssumption
<1> DEFINE t == s \o c
<1>1. /\ t \in Seq(Units) /\ Len(t) = Len(s) + Len(c)
      /\ \A i \in 1..Len(s) : t[i] = s[i]
    BY <1>0, ConcatProperties
<1> HIDE DEF t
<1>2. PICK len \in Nat, d \in Nat :
        /\ Cap(t) \in Seq(Units) /\ Len(Cap(t)) = len
        /\ len = IF Len(t) > Limit THEN Limit ELSE Len(t)
        /\ len + d = Len(t)
        /\ \A i \in 1..len : Cap(t)[i] = t[i + d]
    BY <1>1, CapKeepsEnd
<1>3. PICK i : i = len - Len(c) - Len(Marker)
    OBVIOUS
<1>4. i \in 0..(len - Len(Marker)) /\ Len(s) >= Len(Marker)
    BY <1>0, <1>1, <1>2, <1>3 DEF EndsWith
<1>5. ASSUME NEW j \in 1..Len(Marker) PROVE Cap(t)[i + j] = Marker[j]
    <2>1. i + j \in 1..len
        BY <1>0, <1>4
    <2>4. (i + j) + d = Len(s) - Len(Marker) + j
        <3>1. len + d = Len(s) + Len(c)
            BY <1>1, <1>2
        <3>2. j \in Nat
            BY <1>0
        <3>3. ((len - Len(c) - Len(Marker)) + j) + d = Len(s) - Len(Marker) + j
            BY ONLY <1>0, <3>1, <3>2, len \in Nat, d \in Nat
        <3> QED BY <1>3, <3>3
    <2>2. Len(s) - Len(Marker) + j \in 1..Len(s)
        BY <1>0, <1>4
    <2>3. Cap(t)[i + j] = t[(i + j) + d]
        BY <1>2, <2>1
    <2> QED BY <1>1, <2>2, <2>3, <2>4 DEF EndsWith
<1>6. Includes(Cap(t))
    BY <1>2, <1>4, <1>5, IncludesStands DEF StandsAt
<1> QED BY <1>6 DEF t

-----------------------------------------------------------------------------
(* The three properties.                                                   *)

LEMMA HeardTypes ==
    ASSUME TypeOK, NEW c \in Seq(Units), Heard(c)
    PROVE  /\ transcript' \in Seq(Units) /\ Len(transcript') <= Limit
           /\ waiter' \in {"none", "waiting", "late", "resolved", "gaveup"}
<1>1. transcript \o c \in Seq(Units) /\ Limit \in Nat
    BY ConcatProperties, ConsoleAssumption DEF TypeOK
<1>2. Cap(transcript \o c) \in Seq(Units) /\ Len(Cap(transcript \o c)) <= Limit
    <2>1. PICK len \in Nat, d \in Nat :
            /\ Cap(transcript \o c) \in Seq(Units) /\ Len(Cap(transcript \o c)) = len
            /\ len = IF Len(transcript \o c) > Limit THEN Limit ELSE Len(transcript \o c)
        BY <1>1, CapKeepsEnd
    <2>2. Len(transcript \o c) \in Nat
        BY <1>1
    <2> QED BY <1>1, <2>1, <2>2
<1>3. waiter' \in {"resolved", waiter}
    BY DEF Heard
<1> QED BY <1>2, <1>3 DEF Heard, TypeOK

LEMMA ControlType == \A c \in Nat : Control(c) \in Nat
<1> SUFFICES ASSUME NEW c \in Nat PROVE Control(c) \in Nat
    OBVIOUS
<1>1. Upper(c) \in Nat
    BY DEF Upper
<1> HIDE DEF Upper
<1>2. Upper(c) % 32 \in Nat
    BY <1>1
<1> QED BY <1>2 DEF Control

LEMMA SendTypes ==
    ASSUME TypeOK, NEW data \in Seq(Nat), Send(data)
    PROVE  sent' \in Seq(Nat) /\ armed' \in SUBSET Modifiers /\ spent' \in BOOLEAN
<1>1. CASE Len(data) = 1
    <2>1. data[1] \in Nat
        <3>1. 1 \in 1..Len(data)
            BY <1>1
        <3> QED BY <3>1, ElementOfSeq
    <2> DEFINE key == IF "ctrl" \in armed THEN Control(data[1]) ELSE data[1]
    <2>2. key \in Nat
        BY <2>1, ControlType
    <2> HIDE DEF key
    <2>3. <<key>> \in Seq(Nat) /\ <<ESC>> \in Seq(Nat) /\ <<>> \in Seq(Nat)
        BY <2>2 DEF ESC
    <2>4. (IF "alt" \in armed THEN <<ESC>> ELSE <<>>) \o <<key>> \in Seq(Nat)
        BY <2>3, ConcatProperties
    <2>5. Transform(data[1]) \in Seq(Nat)
        BY <2>4 DEF Transform, key
    <2>6. spent' = (spent \/ armed # {}) /\ armed' = {}
        BY <1>1 DEF Send, Disarm
    <2>7. spent' \in BOOLEAN
        BY <2>6 DEF TypeOK
    <2> QED BY <1>1, <2>5, <2>6, <2>7 DEF Send
<1>2. CASE Len(data) # 1
    BY <1>2 DEF Send, TypeOK
<1> QED BY <1>1, <1>2

LEMMA FitTypes ==
    ASSUME TypeOK, NEW a \in Areas, NEW f \in FontSizes, Fit(a, f)
    PROVE  /\ grid' = Grid[<<a, f>>] /\ grid' \in Nat \X Nat
           /\ files' \in Seq(Nat \X Nat) /\ Len(files') <= MaxSizes
           /\ n \in 1..(Len(files') + 1)
<1>1. grid' = Grid[<<a, f>>] /\ grid' \in Nat \X Nat
    BY ConsoleAssumption DEF Fit
<1>2. files' = files \/ files' = Append(files, grid')
    BY DEF Fit, Name
<1>3. /\ Append(files, grid') \in Seq(Nat \X Nat)
      /\ Len(Append(files, grid')) = Len(files) + 1 /\ Len(files) \in Nat
    BY <1>1, AppendProperties DEF TypeOK
<1>4. Len(files') <= MaxSizes
    BY DEF Fit
<1>5. n \in 1..(Len(files) + 1) /\ files \in Seq(Nat \X Nat)
    BY DEF TypeOK
<1>6. CASE files' = files
    BY <1>1, <1>4, <1>5, <1>6
<1>7. CASE files' = Append(files, grid')
    <2>1. files' \in Seq(Nat \X Nat) /\ Len(files') = Len(files) + 1
        BY <1>3, <1>7
    <2>2. n \in 1..(Len(files') + 1)
        BY <1>3, <1>5, <2>1
    <2> QED BY <1>1, <1>4, <2>1, <2>2
<1> QED BY <1>2, <1>6, <1>7

LEMMA TypeInductive == TypeOK /\ [Next]_vars => TypeOK'
<1> SUFFICES ASSUME TypeOK, [Next]_vars PROVE TypeOK'
    OBVIOUS
<1>1. CASE ResizeArea
    BY <1>1, FitTypes DEF ResizeArea, TypeOK, boot, keys, watch
<1>2. ASSUME NEW delta \in {1, -1}, Zoom(delta) PROVE TypeOK'
    <2>1. font' \in FontSizes /\ Fit(area, font') /\ area \in Areas
        BY <1>2 DEF Zoom, TypeOK
    <2> QED BY <1>2, <2>1, FitTypes DEF Zoom, TypeOK, boot, keys, watch
<1>3. ASSUME NEW m \in Modifiers, Tap(m) PROVE TypeOK'
    BY <1>3 DEF Tap, TypeOK, terminal, boot, watch
<1>4. ASSUME NEW data \in Typed \cup {Esc, PgUp}, Send(data) PROVE TypeOK'
    <2>1. Esc \in Seq(Nat) /\ CSI \in Seq(Nat) /\ <<53, 126>> \in Seq(Nat)
        BY DEF Esc, CSI, ESC
    <2>2. PgUp \in Seq(Nat)
        BY <2>1, ConcatProperties DEF PgUp
    <2>3. data \in Seq(Nat)
        BY <2>1, <2>2, ConsoleAssumption
    <2> QED BY <1>4, <2>3, SendTypes DEF Send, TypeOK, terminal, boot, watch
<1>5. CASE Cursor(65)
    <2> DEFINE m == 1 + (IF "alt" \in armed THEN 2 ELSE 0) + (IF "ctrl" \in armed THEN 4 ELSE 0)
    <2>1. m \in Nat
        OBVIOUS
    <2>2. sent' = CSI \o (IF m = 1 THEN <<65>> ELSE <<49, 59, 48 + m, 65>>) /\ Disarm
          /\ UNCHANGED <<terminal, boot, watch>>
        BY <1>5 DEF Cursor
    <2> HIDE DEF m
    <2>3. CSI \in Seq(Nat) /\ <<65>> \in Seq(Nat) /\ <<49, 59, 48 + m, 65>> \in Seq(Nat)
        BY <2>1 DEF CSI, ESC
    <2>4. sent' \in Seq(Nat)
        BY <2>2, <2>3, ConcatProperties
    <2> QED BY <2>2, <2>4 DEF Disarm, TypeOK, terminal, boot, watch
<1>6. CASE FilesystemUp
    BY <1>6 DEF FilesystemUp, TypeOK, terminal, keys, watch
<1>7. CASE Run
    <2>1. grid \in Nat \X Nat
        BY ConsoleAssumption DEF TypeOK
    <2> QED BY <1>7, <2>1 DEF Run, TypeOK, terminal, keys, watch
<1>8. CASE Mount
    BY <1>8 DEF Mount, TypeOK, terminal, keys, watch
<1>9. CASE Apply
    <2>1. n \in 1..Len(files) /\ files[n] \in Nat \X Nat
        <3>1. n \in DOMAIN files
            BY <1>9 DEF Apply
        <3>2. files \in Seq(Nat \X Nat)
            BY DEF TypeOK
        <3>3. n \in 1..Len(files)
            BY <3>1, <3>2
        <3> QED BY <3>2, <3>3, ElementOfSeq
    <2>2. n' \in 1..(Len(files) + 1)
        <3>1. n' = n + 1
            BY <1>9 DEF Apply
        <3>2. Len(files) \in Nat
            BY DEF TypeOK
        <3> QED BY <2>1, <3>1, <3>2
    <2>3. guest' \in Nat \X Nat
        BY <1>9, <2>1 DEF Apply
    <2>4. UNCHANGED <<terminal, phase, manifest, keys, watch>>
        BY <1>9 DEF Apply
    <2> QED BY <2>2, <2>3, <2>4 DEF TypeOK, terminal, keys, watch
<1>10. ASSUME NEW c \in Chunks, Write(c) PROVE TypeOK'
    <2>1. c \in Seq(Units)
        BY ConsoleAssumption
    <2> QED BY <1>10, <2>1, HeardTypes DEF Write, Heard, TypeOK, terminal, boot, keys
<1>11. ASSUME NEW k \in 1..Len(Marker), NEW c \in Chunks \cup {<<>>}, Welcome(k, c)
       PROVE  TypeOK'
    <2>1. said + k \in 0..Len(Marker) /\ said \in Nat /\ k \in Nat
        BY <1>11, ConsoleAssumption DEF Welcome, TypeOK
    <2>2. SubSeq(Marker, said + 1, said + k) \in Seq(Units)
        BY <1>11, <2>1, MarkerPart DEF Welcome
    <2>3. c \in Seq(Units)
        BY ConsoleAssumption, EmptySeq
    <2>4. SubSeq(Marker, said + 1, said + k) \o c \in Seq(Units)
        BY <2>2, <2>3, ConcatProperties
    <2> QED BY <1>11, <2>1, <2>4, HeardTypes DEF Welcome, Heard, TypeOK, terminal, boot, keys
<1>12. CASE WaitFor \/ GiveUp
    BY <1>12 DEF WaitFor, GiveUp, TypeOK, terminal, boot, keys
<1>13. CASE UNCHANGED vars
    BY <1>13 DEF vars, TypeOK, terminal, boot, keys, watch
<1> QED
    BY <1>1, <1>2, <1>3, <1>4, <1>5, <1>6, <1>7, <1>8, <1>9, <1>10, <1>11, <1>12, <1>13
    DEF Next, Press, Guest

\* Every variable keeps its type: the transcript its limit, and the loop of
\* the manifest does not pass the file it waits for.
THEOREM TypeCorrect == Spec => []TypeOK
<1>1. Init => TypeOK
    <2> SUFFICES ASSUME Init PROVE TypeOK
        OBVIOUS
    <2>1. /\ <<>> \in Seq(Nat) /\ <<>> \in Seq(Units) /\ <<>> \in Seq(Nat \X Nat)
          /\ Len(<<>>) = 0
        BY EmptySeq
    <2>2. area \in Areas /\ font \in FontSizes /\ grid = Grid[<<area, font>>]
        BY ConsoleAssumption DEF Init
    <2>3. /\ files \in Seq(Nat \X Nat) /\ Len(files) = 0 /\ Len(files) <= MaxSizes
          /\ n \in 1..(Len(files) + 1)
        BY <2>1, ConsoleAssumption DEF Init
    <2>4. manifest \in Nat \X Nat /\ guest \in Nat \X Nat
        BY DEF Init, NoSize
    <2>5. transcript \in Seq(Units) /\ Len(transcript) <= Limit /\ said \in 0..Len(Marker)
        BY <2>1, ConsoleAssumption DEF Init
    <2>6. sent \in Seq(Nat) /\ armed \in SUBSET Modifiers /\ spent \in BOOLEAN
        BY <2>1 DEF Init
    <2>7. phase = "loading" /\ waiter = "none"
        BY DEF Init
    <2> QED BY <2>2, <2>3, <2>4, <2>5, <2>6, <2>7 DEF TypeOK
<1> QED BY <1>1, TypeInductive, PTL DEF Spec

\* One tap modifies one key, whether the key is a character, one that Ctrl
\* does not change, or an arrow (press, transform).
THEOREM AlwaysOneKeyPerTap == Spec => []OneKeyPerTap
<1>1. Init => OneKeyPerTap
    BY DEF Init, OneKeyPerTap
<1>2. OneKeyPerTap /\ [Next]_vars => OneKeyPerTap'
    <2> SUFFICES ASSUME OneKeyPerTap, [Next]_vars PROVE OneKeyPerTap'
        OBVIOUS
    <2>1. CASE UNCHANGED keys
        BY <2>1 DEF keys, OneKeyPerTap
    <2>2. CASE Press
        BY <2>1, <2>2 DEF Press, Tap, Send, Cursor, Zoom, Disarm, OneKeyPerTap
    <2> QED
        BY <2>1, <2>2
        DEF Next, ResizeArea, FilesystemUp, Run, WaitFor, GiveUp, Guest, Mount, Apply, Write,
            Welcome, Heard, vars
<1> QED BY <1>1, <1>2, PTL DEF Spec

\* Until the marker is complete the transcript ends with what there is of it
\* and has nothing of it before; a wait is not over before, nor after it.
HeardInv ==
    /\ said < Len(Marker) => EndsWith(transcript, said)
    /\ MarkerIsHeard

LEMMA HeardInductive == TypeOK /\ HeardInv /\ [Next]_vars => HeardInv'
<1> SUFFICES ASSUME TypeOK, HeardInv, [Next]_vars PROVE HeardInv'
    OBVIOUS
<1>0. /\ Len(Marker) \in Nat /\ said \in 0..Len(Marker) /\ said \in Nat
      /\ transcript \in Seq(Units) /\ Len(Marker) <= Limit /\ Limit \in Nat
    <2>1. Len(Marker) \in Nat
        BY ConsoleAssumption
    <2> QED BY <2>1, ConsoleAssumption DEF TypeOK
<1>1. CASE UNCHANGED watch
    BY <1>1 DEF watch, HeardInv, MarkerIsHeard, EndsWith
<1>2. ASSUME NEW c, Heard(c), transcript' \in Seq(Units), said' \in 0..Len(Marker),
             said' < Len(Marker) => EndsWith(transcript', said'),
             said <= said',
             said < Len(Marker) /\ said' = Len(Marker) => Includes(transcript')
      PROVE  HeardInv'
    <2>1. said' < Len(Marker) => ~Includes(transcript')
        BY <1>0, <1>2, PartIsNotMarker
    <2>2. waiter' = "waiting" => waiter = "waiting" /\ ~Includes(transcript')
        BY <1>2 DEF Heard
    <2>4. waiter = "waiting" => said < Len(Marker)
        BY DEF HeardInv, MarkerIsHeard
    <2>5. waiter = "resolved" => said = Len(Marker)
        BY DEF HeardInv, MarkerIsHeard
    <2>6. said' < Len(Marker) \/ said' = Len(Marker)
        BY <1>0, <1>2
    <2>3. waiter' = "resolved" => waiter = "resolved" \/ Includes(transcript')
        BY <1>2 DEF Heard
    <2> QED BY <1>0, <1>2, <2>1, <2>2, <2>3, <2>4, <2>5, <2>6 DEF HeardInv, MarkerIsHeard
<1>3. ASSUME NEW c \in Chunks, Write(c) PROVE HeardInv'
    <2>1. transcript' \in Seq(Units) /\ Heard(c) /\ said' = said
        BY <1>3, HeardTypes, ConsoleAssumption DEF Write
    <2>2. ASSUME said < Len(Marker) PROVE EndsWith(transcript', said)
        <3>1. said = 0 /\ EndsWith(transcript, 0)
            BY <1>3, <2>2 DEF Write, HeardInv
        <3>2. EndsWith(Cap(transcript \o c), 0)
            BY <1>0, <3>1, WriteKeepsPart
        <3> QED BY <2>1, <3>1, <3>2 DEF Heard
    <2> QED BY <1>0, <1>2, <2>1, <2>2
<1>4. ASSUME NEW k \in 1..Len(Marker), NEW c \in Chunks \cup {<<>>}, Welcome(k, c)
      PROVE  HeardInv'
    <2> DEFINE t == transcript \o SubSeq(Marker, said + 1, said + k)
    <2>0. k \in Nat /\ said + k <= Len(Marker) /\ said' = said + k /\ said < Len(Marker)
          /\ (c # <<>> => said + k = Len(Marker))
        BY <1>0, <1>4 DEF Welcome
    <2>1. SubSeq(Marker, said + 1, said + k) \in Seq(Units) /\ c \in Seq(Units)
        BY <1>0, <2>0, MarkerPart, ConsoleAssumption, EmptySeq
    <2>2. t \in Seq(Units) /\ EndsWith(t, said + k)
        BY <1>0, <2>0, WelcomeGrows DEF HeardInv
    <2>3. /\ Heard(SubSeq(Marker, said + 1, said + k) \o c)
          /\ SubSeq(Marker, said + 1, said + k) \o c \in Seq(Units)
        BY <1>4, <2>1, ConcatProperties DEF Welcome
    <2>4. transcript \o (SubSeq(Marker, said + 1, said + k) \o c) = t \o c
        <3>1. ASSUME NEW r \in Seq(Units), NEW p \in Seq(Units), NEW q \in Seq(Units)
              PROVE  (r \o p) \o q = r \o (p \o q)
            BY ONLY r \in Seq(Units), p \in Seq(Units), q \in Seq(Units), ConcatAssociative
        <3>2. transcript \in Seq(Units)
            BY <1>0
        <3> QED BY <2>1, <3>1, <3>2
    <2>5. transcript' = Cap(t \o c) /\ transcript' \in Seq(Units)
        BY <2>3, <2>4, HeardTypes DEF Heard
    <2> HIDE DEF t
    <2>6. ASSUME said + k < Len(Marker) PROVE EndsWith(transcript', said')
        <3>1. c = <<>> /\ t \o c = t
            BY <2>0, <2>2, <2>6, ConcatEmptySeq
        <3> QED BY <1>0, <2>0, <2>2, <2>5, <2>6, <3>1, CapKeepsPart
    <2>7. ASSUME said + k = Len(Marker) PROVE Includes(transcript')
        <3>1. Len(c) + Len(Marker) <= Limit
            <4>1. CASE c = <<>>
                BY <1>0, <4>1
            <4>2. CASE c # <<>>
                BY <4>2, ConsoleAssumption
            <4> QED BY <4>1, <4>2
        <3> QED BY <2>1, <2>2, <2>5, <2>7, <3>1, MarkerIsKept
    <2> QED BY <1>0, <1>2, <2>0, <2>3, <2>5, <2>6, <2>7
<1>5. CASE WaitFor
    <2>1. said < Len(Marker) => ~Includes(transcript)
        BY <1>0, PartIsNotMarker DEF HeardInv
    <2>2. UNCHANGED <<said, transcript>> /\ (said < Len(Marker) \/ said = Len(Marker))
        BY <1>0, <1>5 DEF WaitFor
    <2>3. waiter' = "waiting" => said # Len(Marker)
        BY <1>5 DEF WaitFor
    <2>4. waiter' = "resolved" => Includes(transcript)
        BY <1>5 DEF WaitFor
    <2> QED BY <2>1, <2>2, <2>3, <2>4 DEF HeardInv, MarkerIsHeard, EndsWith
<1>6. CASE GiveUp
    BY <1>6 DEF GiveUp, HeardInv, MarkerIsHeard, EndsWith
<1> QED
    BY <1>1, <1>3, <1>4, <1>5, <1>6
    DEF Next, ResizeArea, Press, Zoom, Tap, Send, Cursor, FilesystemUp, Run, Guest, Mount, Apply,
        vars

\* A marker the page already waited for when it was written resolves the
\* wait, however the guest's writes cut it and however full the transcript
\* was; and nothing else does (watchConsole).
THEOREM MarkerAlwaysHeard == Spec => []MarkerIsHeard
<1>1. Init => HeardInv
    <2> SUFFICES ASSUME Init PROVE HeardInv
        OBVIOUS
    <2>1. Len(transcript) = 0 /\ said = 0 /\ waiter = "none"
        BY DEF Init
    <2>2. EndsWith(transcript, said)
        BY <2>1 DEF EndsWith
    <2> QED BY <2>1, <2>2 DEF HeardInv, MarkerIsHeard
<1>2. HeardInv => MarkerIsHeard
    BY DEF HeardInv
<1> QED BY <1>1, <1>2, HeardInductive, TypeCorrect, PTL DEF Spec
=============================================================================
