------------------------------ MODULE Handshake ------------------------------
(***************************************************************************)
(* From a complete share to a prompt: run, resume, coldBoot and            *)
(* watchConsole (site/js/boot.js) against QEMU, its serial line and the    *)
(* guest's init (nix/guest/init).                                          *)
(*                                                                         *)
(* The page writes newlines at a serial line it cannot see the far end of. *)
(* One that arrives while the snapshot still loads may be overwritten by   *)
(* the restored device; one that init does not read is left for the shell. *)
(* Timers fire at any moment: only their order against the other steps     *)
(* matters.                                                                *)
(***************************************************************************)
EXTENDS Integers

CONSTANTS
    Modes,     \* "snapshot" and/or "cold": whether a snapshot is published
    Traces,    \* whether the engine reports vm_state_notify: TRUE, FALSE or both
    Paces,     \* whether the guest is always faster than HANDSHAKE_TIMEOUT_MS
    MaxLines   \* bound: newlines counted before the count saturates

ASSUME HandshakeAssumption ==
    /\ Modes \subseteq {"snapshot", "cold"}
    /\ Traces \subseteq BOOLEAN
    /\ Paces \subseteq BOOLEAN
    /\ MaxLines \in Nat \ {0}

VARIABLES
    mode, traced, fast,  \* what this page, its engine and its guest are
    share,   \* "filling", then "complete": linked, manifest written
    page,    \* where run is
    poll,    \* whether the interval that offers newlines is running
    polled,  \* whether it ever ran
    gaveUp,  \* whether a wait ended without its marker
    qemu,    \* "held" by the run dependency, "loading" or "running"
    pack,    \* whether the files QEMU starts from are still there
    tty,     \* newlines on their way to the guest
    typed,   \* whether the reader pressed Enter
    guest,
    heard,   \* markers in the transcript
    spares   \* newlines the shell took for empty command lines

setup == <<mode, traced, fast>>
pageVars == <<page, poll, polled, gaveUp, pack>>
guestVars == <<guest, heard, spares>>
vars == <<setup, share, pageVars, qemu, tty, typed, guestVars>>

Init ==
    /\ mode \in Modes
    /\ traced \in Traces
    /\ fast \in Paces
    /\ share = "filling"
    /\ page = "filling"
    /\ poll = FALSE
    /\ polled = FALSE
    /\ gaveUp = FALSE
    /\ qemu = "held"
    /\ pack = TRUE
    /\ tty = 0
    /\ typed = FALSE
    /\ guest = IF mode = "cold" THEN "booting" ELSE "parked"
    /\ heard = {}
    /\ spares = 0

OneMore(n) == IF n < MaxLines THEN n + 1 ELSE n

\* Mutant: a carriage return goes along.
SendLineTwice == tty' = OneMore(OneMore(tty))

\* sendLine, the way a keystroke goes in.
SendLine == tty' = OneMore(tty)

\* Mutants: the marker is not awaited; it is awaited for ever.
AwaitedNot(marker) == UNCHANGED gaveUp
AwaitedForever(marker) == marker \in heard /\ UNCHANGED gaveUp

\* waitFor: the marker is in the transcript, or three minutes are over.
Awaited(marker) ==
    \/ marker \in heard /\ UNCHANGED gaveUp
    \/ ~fast /\ gaveUp' = TRUE

\* Mutant: the interval is never cleared.
StopPollingNot == UNCHANGED poll

StopPolling == poll' = FALSE

-----------------------------------------------------------------------------
\* vm.run: link, write the manifest, and release main().
Run ==
    /\ page = "filling"
    /\ share' = "complete"
    /\ page' = IF mode = "cold" THEN "awaitReady" ELSE "awaitRunning"
    /\ UNCHANGED <<setup, typed, poll, polled, gaveUp, pack, qemu, tty, guestVars>>

\* coldBoot: init announced itself, or nobody did in time.
Ready ==
    /\ page = "awaitReady"
    /\ Awaited("ready")
    /\ SendLine
    /\ page' = "awaitMounted"
    /\ UNCHANGED <<setup, typed, share, poll, polled, pack, qemu, guestVars>>

\* resume: QEMU said the machine is running ...
Running ==
    /\ page = "awaitRunning"
    /\ "running" \in heard
    /\ SendLine
    /\ page' = "awaitMounted"
    /\ UNCHANGED <<setup, typed, share, poll, polled, gaveUp, pack, qemu, guestVars>>

\* Mutant: a second newline is never offered.
NotToldOnce ==
    /\ page = "awaitRunning"
    /\ SendLine
    /\ page' = "awaitMounted"
    /\ UNCHANGED <<setup, typed, share, poll, polled, gaveUp, pack, qemu, guestVars>>

\* ... or said nothing for ten seconds, and newlines are offered blind.
NotTold ==
    /\ page = "awaitRunning"
    /\ SendLine
    /\ poll' = TRUE
    /\ polled' = TRUE
    /\ page' = "awaitMounted"
    /\ UNCHANGED <<setup, typed, share, gaveUp, pack, qemu, guestVars>>

Poll ==
    /\ poll
    /\ SendLine
    /\ UNCHANGED <<setup, typed, share, pageVars, qemu, guestVars>>

\* After the redraw the files under /pack are unlinked: QEMU has read them.
HandOver ==
    /\ page' = "done"
    /\ pack' = FALSE

\* init is past the mount, or the wait ran out.  A resumed guest is waited
\* for until it is quiet; a cold one is handed over at once.
Mounted ==
    /\ page = "awaitMounted"
    /\ Awaited("mounted")
    /\ StopPolling
    /\ \/ mode = "snapshot" /\ page' = "settling" /\ UNCHANGED pack
       \/ mode = "cold" /\ HandOver
    /\ UNCHANGED <<setup, typed, share, polled, qemu, tty, guestVars>>

\* The console was quiet for 400 ms, or three seconds are over.
Settled ==
    /\ page = "settling"
    /\ HandOver
    /\ UNCHANGED <<setup, typed, share, poll, polled, gaveUp, qemu, tty, guestVars>>

\* The terminal takes keys from the moment it is there, veiled or not.
ReaderTypes ==
    /\ SendLine
    /\ typed' = TRUE
    /\ UNCHANGED <<setup, share, pageVars, qemu, guestVars>>

PageStep == Run \/ Ready \/ Running \/ NotTold \/ Mounted \/ Settled

-----------------------------------------------------------------------------
\* Mutant: no run dependency holds main() back.
QemuStartsAtOnce ==
    /\ qemu = "held"
    /\ qemu' = IF mode = "cold" THEN "running" ELSE "loading"
    /\ UNCHANGED <<setup, typed, share, pageVars, tty, guestVars>>

\* main() starts once nothing holds it back.
QemuStarts ==
    /\ qemu = "held"
    /\ share = "complete"
    /\ qemu' = IF mode = "cold" THEN "running" ELSE "loading"
    /\ UNCHANGED <<setup, typed, share, pageVars, tty, guestVars>>

\* The stream is in.  What reached the UART before is overwritten, unless
\* QEMU had not taken it from the pty yet.
Restored ==
    /\ qemu = "loading"
    /\ qemu' = "running"
    /\ tty' \in {0, tty}
    /\ heard' = heard \cup IF traced THEN {"running"} ELSE {}
    /\ UNCHANGED <<setup, typed, share, pageVars, guest, spares>>

\* init announces itself and waits; input from before its tty was open may
\* be gone.
Announces ==
    /\ qemu = "running"
    /\ guest = "booting"
    /\ guest' = "parked"
    /\ heard' = heard \cup {"ready"}
    /\ tty' \in {0, tty}
    /\ UNCHANGED <<setup, typed, share, pageVars, qemu, spares>>

\* read -r _handshake takes one line; then mount and manifest.
Reads ==
    /\ qemu = "running"
    /\ guest = "parked"
    /\ tty > 0
    /\ tty' = tty - 1
    /\ guest' = "mounting"
    /\ UNCHANGED <<setup, typed, share, pageVars, qemu, heard, spares>>

\* The manifest reads nothing from the tty; init says its welcome.
Welcomes ==
    /\ guest = "mounting"
    /\ guest' = "starting"
    /\ heard' = heard \cup {"mounted"}
    /\ UNCHANGED <<setup, typed, share, pageVars, qemu, tty, spares>>

StartsShell ==
    /\ guest = "starting"
    /\ guest' = "shell"
    /\ UNCHANGED <<setup, typed, share, pageVars, qemu, tty, heard, spares>>

\* A line the handshake did not use is an empty command.
ShellReads ==
    /\ guest = "shell"
    /\ tty > 0
    /\ tty' = tty - 1
    /\ spares' = OneMore(spares)
    /\ UNCHANGED <<setup, typed, share, pageVars, qemu, guest, heard>>

Machine ==
    \/ QemuStarts \/ Restored \/ Announces \/ Reads
    \/ Welcomes \/ StartsShell \/ ShellReads

Next == PageStep \/ Poll \/ ReaderTypes \/ Machine

Spec == Init /\ [][Next]_vars

\* The page's timers fire.  A guest that is not fast may also stop for good:
\* whether it does anything is its affair.
FairSpec ==
    /\ Spec
    /\ WF_vars(PageStep)
    /\ WF_vars(Poll)
    /\ WF_vars(fast /\ Machine)
-----------------------------------------------------------------------------
TypeOK ==
    /\ mode \in {"snapshot", "cold"}
    /\ traced \in BOOLEAN
    /\ fast \in BOOLEAN
    /\ share \in {"filling", "complete"}
    /\ page \in {"filling", "awaitReady", "awaitRunning", "awaitMounted", "settling", "done"}
    /\ poll \in BOOLEAN
    /\ polled \in BOOLEAN
    /\ gaveUp \in BOOLEAN
    /\ qemu \in {"held", "loading", "running"}
    /\ pack \in BOOLEAN
    /\ tty \in 0..MaxLines
    /\ typed \in BOOLEAN
    /\ guest \in {"booting", "parked", "mounting", "starting", "shell"}
    /\ heard \in SUBSET {"ready", "running", "mounted"}
    /\ spares \in 0..MaxLines

\* The first mount always sees the finished share (nix/guest/init), however
\* early a newline is sent or typed.
MountsFinishedShare ==
    guest \in {"mounting", "starting", "shell"} => share = "complete"

\* A guest QEMU spoke for gets one newline and no more: nothing is left for
\* the shell, which would print a bare prompt for each.
OneLineFinishes ==
    ~polled /\ ~typed => tty + spares <= 1 /\ (guest = "shell" => spares = 0)

\* The files under /pack go only when QEMU is past reading them, unless the
\* page gave the guest up.
FreedAfterReading == ~pack => gaveUp \/ qemu = "running"

\* The page hands the console over once the guest has mounted the share, or
\* when it has given up waiting.
HandedOverMounted == page = "done" => gaveUp \/ "mounted" \in heard

\* Page, QEMU and guest each come after what they count on: the mount after
\* the share, the unlinking after the loading, the hand-over after the mount
\* (run, coldBoot, resume).
InOrder == MountsFinishedShare /\ FreedAfterReading /\ HandedOverMounted

\* No reader waits forever behind the veil, whatever the guest does.
PageEnds == <>(page = "done")

\* No newline that matters is lost: a guest that makes progress reaches its
\* shell, told or not told that QEMU runs.
GuestComesUp == fast ~> guest = "shell"

\* The newlines end with the handshake.
PollStops == <>[](~poll)
=============================================================================
