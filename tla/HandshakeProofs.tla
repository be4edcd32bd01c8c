--------------------------- MODULE HandshakeProofs ---------------------------
(***************************************************************************)
(* The safety of the handshake, whatever the mode, the engine's trace log, *)
(* the timing and the reader's keys: one inductive invariant that counts   *)
(* the newlines sent against the ones init and the shell took.             *)
(***************************************************************************)
EXTENDS Handshake, TLAPS

Past == guest \in {"mounting", "starting", "shell"}
Told == page \in {"awaitMounted", "settling", "done"}

\* The share is complete before QEMU runs, and QEMU before the guest does.
Order ==
    /\ share = "filling" <=> page = "filling"
    /\ qemu # "held" => share = "complete"
    /\ Past => qemu = "running"
    /\ "mounted" \in heard => guest \in {"starting", "shell"}
    /\ page \in {"settling", "done"} => gaveUp \/ "mounted" \in heard
    /\ ~pack <=> page = "done"

\* Without the poll at most one line is ever sent, and it is on its way, was
\* lost, was taken by init, or by the shell when init needed none.
Lines ==
    /\ poll => polled
    /\ ~Told => ~polled
    /\ ~Told /\ ~typed => tty = 0 /\ spares = 0 /\ ~Past
    /\ ~polled /\ ~typed /\ ~Past => tty \in {0, 1} /\ spares = 0
    /\ ~polled /\ ~typed /\ Past => tty = 0 /\ spares = 0

Inductive == TypeOK /\ Order /\ Lines

LEMMA InductiveInit == Init => Inductive
<1> SUFFICES ASSUME Init PROVE Inductive
    OBVIOUS
<1> USE HandshakeAssumption DEF Init
<1>1. TypeOK
    <2>1. guest \in {"booting", "parked"} /\ mode \in {"snapshot", "cold"}
         /\ traced \in BOOLEAN /\ fast \in BOOLEAN
        OBVIOUS
    <2>2. tty \in 0..MaxLines /\ spares \in 0..MaxLines
        OBVIOUS
    <2> QED BY <2>1, <2>2, Zenon DEF TypeOK
<1>2. Order
    <2>1. ~Past /\ page # "done" /\ pack
        BY DEF Past
    <2> QED BY <2>1 DEF Order
<1>3. Lines
    BY DEF Lines, Past, Told
<1> QED BY <1>1, <1>2, <1>3 DEF Inductive

LEMMA InductiveStep == Inductive /\ [Next]_vars => Inductive'
<1> SUFFICES ASSUME Inductive, [Next]_vars PROVE Inductive'
    OBVIOUS
<1> USE HandshakeAssumption
        DEF Inductive, TypeOK, Order, Lines, Past, Told, setup, pageVars, guestVars, SendLine, OneMore, Awaited, StopPolling
<1>1. CASE Run
    <2>1. TypeOK'
        BY <1>1 DEF Run
    <2>2. Order'
        BY <1>1 DEF Run
    <2>3. Lines'
        BY <1>1 DEF Run
    <2> QED BY <2>1, <2>2, <2>3
<1>2. CASE Ready
    <2>1. TypeOK'
        <3>1. gaveUp' \in BOOLEAN
            BY <1>2 DEF Ready
        <3>2. tty' \in 0..MaxLines
            BY <1>2 DEF Ready
        <3> QED BY <1>2, <3>1, <3>2 DEF Ready
    <2>2. Order'
        BY <1>2 DEF Ready
    <2>3. Lines'
        BY <1>2 DEF Ready
    <2> QED BY <2>1, <2>2, <2>3
<1>3. CASE Running
    <2>1. TypeOK'
        BY <1>3 DEF Running
    <2>2. Order'
        BY <1>3 DEF Running
    <2>3. Lines'
        BY <1>3 DEF Running
    <2> QED BY <2>1, <2>2, <2>3
<1>4. CASE NotTold
    <2>1. TypeOK'
        BY <1>4 DEF NotTold
    <2>2. Order'
        BY <1>4 DEF NotTold
    <2>3. Lines'
        BY <1>4 DEF NotTold
    <2> QED BY <2>1, <2>2, <2>3
<1>5. CASE Poll
    <2>1. TypeOK'
        BY <1>5 DEF Poll
    <2>2. Order'
        BY <1>5 DEF Poll
    <2>3. Lines'
        BY <1>5 DEF Poll
    <2> QED BY <2>1, <2>2, <2>3
<1>6. CASE Mounted
    <2>1. TypeOK'
        BY <1>6 DEF Mounted, HandOver
    <2>2. Order'
        <3>1. gaveUp' \/ "mounted" \in heard'
            BY <1>6, Zenon DEF Mounted, Awaited
        <3>2. ~pack' <=> page' = "done"
            <4>1. pack
                BY <1>6, Zenon DEF Mounted, Awaited
            <4> QED BY <1>6, <4>1, Zenon DEF Mounted, HandOver
        <3>3. page' \in {"settling", "done"}
            BY <1>6, Zenon DEF Mounted, HandOver
        <3>4. UNCHANGED <<share, qemu, guest, heard>> /\ page # "filling" /\ page' # "filling"
            BY <1>6, <3>3 DEF Mounted
        <3> QED BY <3>1, <3>2, <3>4
    <2>3. Lines'
        BY <1>6 DEF Mounted, HandOver
    <2> QED BY <2>1, <2>2, <2>3
<1>7. CASE Settled
    <2>1. TypeOK'
        BY <1>7 DEF Settled, HandOver
    <2>2. Order'
        BY <1>7 DEF Settled, HandOver
    <2>3. Lines'
        BY <1>7 DEF Settled, HandOver
    <2> QED BY <2>1, <2>2, <2>3
<1>8. CASE QemuStarts
    <2>1. TypeOK'
        BY <1>8 DEF QemuStarts
    <2>2. Order'
        BY <1>8 DEF QemuStarts
    <2>3. Lines'
        BY <1>8 DEF QemuStarts
    <2> QED BY <2>1, <2>2, <2>3
<1>9. CASE Restored
    <2>1. TypeOK'
        BY <1>9 DEF Restored
    <2>2. Order'
        BY <1>9 DEF Restored
    <2>3. Lines'
        BY <1>9 DEF Restored
    <2> QED BY <2>1, <2>2, <2>3
<1>10. CASE Announces
    <2>1. TypeOK'
        BY <1>10 DEF Announces
    <2>2. Order'
        BY <1>10 DEF Announces
    <2>3. Lines'
        BY <1>10 DEF Announces
    <2> QED BY <2>1, <2>2, <2>3
<1>11. CASE Reads
    <2>1. TypeOK'
        BY <1>11 DEF Reads
    <2>2. Order'
        BY <1>11 DEF Reads
    <2>3. Lines'
        BY <1>11 DEF Reads
    <2> QED BY <2>1, <2>2, <2>3
<1>12. CASE Welcomes
    <2>1. TypeOK'
        BY <1>12 DEF Welcomes
    <2>2. Order'
        BY <1>12 DEF Welcomes
    <2>3. Lines'
        BY <1>12 DEF Welcomes
    <2> QED BY <2>1, <2>2, <2>3
<1>13. CASE StartsShell
    <2>1. TypeOK'
        BY <1>13 DEF StartsShell
    <2>2. Order'
        BY <1>13 DEF StartsShell
    <2>3. Lines'
        BY <1>13 DEF StartsShell
    <2> QED BY <2>1, <2>2, <2>3
<1>14. CASE ShellReads
    <2>1. TypeOK'
        BY <1>14 DEF ShellReads
    <2>2. Order'
        BY <1>14 DEF ShellReads
    <2>3. Lines'
        BY <1>14 DEF ShellReads
    <2> QED BY <2>1, <2>2, <2>3
<1>15. CASE ReaderTypes
    <2>1. TypeOK'
        BY <1>15 DEF ReaderTypes
    <2>2. Order'
        BY <1>15 DEF ReaderTypes
    <2>3. Lines'
        BY <1>15 DEF ReaderTypes
    <2> QED BY <2>1, <2>2, <2>3
<1>16. CASE UNCHANGED vars
    BY <1>16 DEF vars
<1> QED BY <1>1, <1>2, <1>3, <1>4, <1>5, <1>6, <1>7, <1>8, <1>9, <1>10, <1>11, <1>12, <1>13,
           <1>14, <1>15, <1>16 DEF Next, PageStep, Machine

THEOREM InductiveHolds == Spec => []Inductive
BY InductiveInit, InductiveStep, PTL DEF Spec

\* The state keeps its types.
THEOREM TypeCorrect == Spec => []TypeOK
<1>1. Inductive => TypeOK
    BY DEF Inductive
<1> QED BY <1>1, InductiveHolds, PTL

\* The guest never mounts a share the page has not finished.
THEOREM AlwaysMountsFinishedShare == Spec => []MountsFinishedShare
<1>1. Inductive => MountsFinishedShare
    BY DEF Inductive, Order, Past, MountsFinishedShare
<1> QED BY <1>1, InductiveHolds, PTL

\* A guest QEMU spoke for is sent one newline, and its shell none.
THEOREM OneLineAlwaysFinishes == Spec => []OneLineFinishes
<1>1. Inductive => OneLineFinishes
    BY DEF Inductive, TypeOK, Lines, Past, OneLineFinishes
<1> QED BY <1>1, InductiveHolds, PTL

\* The boot files go only after QEMU read them, or the guest was given up.
THEOREM AlwaysFreedAfterReading == Spec => []FreedAfterReading
<1>1. Inductive => FreedAfterReading
    BY DEF Inductive, Order, Past, FreedAfterReading
<1> QED BY <1>1, InductiveHolds, PTL

\* The console is handed over mounted, or given up.
THEOREM AlwaysHandedOverMounted == Spec => []HandedOverMounted
<1>1. Inductive => HandedOverMounted
    BY DEF Inductive, Order, HandedOverMounted
<1> QED BY <1>1, InductiveHolds, PTL

\* Page, QEMU and guest each come after what they count on.
THEOREM AlwaysInOrder == Spec => []InOrder
<1>1. MountsFinishedShare /\ FreedAfterReading /\ HandedOverMounted => InOrder
    BY DEF InOrder
<1> QED BY <1>1, AlwaysMountsFinishedShare, AlwaysFreedAfterReading, AlwaysHandedOverMounted, PTL
=============================================================================
