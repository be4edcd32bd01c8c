------------------------------ MODULE Console ------------------------------
(***************************************************************************)
(* The console once the engine runs: the terminal's size and how it        *)
(* reaches a guest whose serial line has none (terminal.js, and the        *)
(* manifest and onResize of boot.js), the key bar's sticky modifiers       *)
(* (keybar.js), and the transcript the page watches for markers            *)
(* (watchConsole).                                                         *)
(*                                                                         *)
(* A file of the share that the guest has read stays as it was, so every   *)
(* size is a file of its own, applied by a loop of the manifest; a name    *)
(* that was not there is looked up again (see GuestNames).                 *)
(***************************************************************************)
EXTENDS Integers, Sequences, SequencesExt

CONSTANTS
    Areas,       \* what a window, or the soft keyboard, leaves the terminal
    FontSizes,   \* FONT_SIZE_MIN .. FONT_SIZE_MAX
    FontSize,    \* the size the terminal is opened with
    Grid,        \* the rows and columns FitAddon makes of an area and a font
    Typed,       \* what the keyboard hands over at once, as character codes
    Units,       \* pieces of text the guest writes
    Limit,       \* TRANSCRIPT_LIMIT, in units
    Marker,      \* MOUNTED_MARKER, as the units the guest may write it in
    Chunks,      \* what else the guest writes at once
    MaxSizes     \* bound: the sizes the page writes

ASSUME ConsoleAssumption ==
    /\ FontSizes \subseteq Int
    /\ FontSize \in FontSizes
    /\ Grid \in [Areas \X FontSizes -> Nat \X Nat]
    /\ Typed \subseteq Seq(Nat)
    /\ Limit \in Nat
    /\ Marker \in Seq(Units)
    /\ Chunks \subseteq Seq(Units)
    /\ Len(Marker) <= Limit
    /\ \A c \in Chunks : Len(c) + Len(Marker) <= Limit
    /\ MaxSizes \in Nat

\* "trynix: welcome to the multiverse" does not end as it begins, and has
\* something in it that the guest says nowhere else.
ASSUME MarkerAssumption ==
    /\ \E i \in 1..Len(Marker) : \A c \in Chunks : \A j \in 1..Len(c) : c[j] # Marker[i]
    /\ \A k \in 1..(Len(Marker) - 1) :
        \E j \in 1..k : Marker[j] # Marker[Len(Marker) - k + j]

NoSize == <<0, 0>>
Modifiers == {"ctrl", "alt"}

VARIABLES
    area, font, grid, \* the terminal: its room, its face, its rows and columns
    phase,            \* "loading", "up" (the filesystem), "run" or "mounted"
    files,            \* the winsize.N files of the share
    manifest,         \* the size in the manifest
    guest, n,         \* the size of the guest's tty, the loop's next file
    armed,            \* the modifiers that are armed
    spent,            \* whether they have modified a key since the last tap
    sent,             \* the bytes last sent
    said,             \* how much of the marker the guest has written
    transcript,       \* the last of what the guest wrote
    waiter            \* waitFor the marker; "late" if it was written before

terminal == <<area, font, grid, files>>
boot == <<phase, manifest, guest, n>>
keys == <<armed, spent, sent>>
watch == <<said, transcript, waiter>>
vars == <<terminal, boot, keys, watch>>

Init ==
    /\ area \in Areas /\ font = FontSize /\ grid = Grid[<<area, font>>]
    /\ phase = "loading"
    /\ files = <<>> /\ manifest = NoSize
    /\ guest = NoSize /\ n = 1
    /\ armed = {} /\ spent = FALSE /\ sent = <<>>
    /\ said = 0 /\ transcript = <<>> /\ waiter = "none"
-----------------------------------------------------------------------------
(* Sizes.                                                                  *)

\* Mutant: one file is rewritten.
NameRewritten(size) == <<size>>

\* onResize: a new file for every size, once there is a file system.
Name(size) == Append(files, size)

\* fit: the grid follows the room and the face, and says so if it changed.
Fit(a, f) ==
    /\ grid' = Grid[<<a, f>>]
    /\ files' = IF grid' # grid /\ phase # "loading" THEN Name(grid') ELSE files
    /\ Len(files') <= MaxSizes

\* The window, its orientation or the keyboard changes what is visible.
ResizeArea ==
    /\ area' \in Areas \ {area}
    /\ Fit(area', font)
    /\ UNCHANGED <<font, boot, keys, watch>>

\* The key bar's A- and A+: no modifier is used up.
Zoom(delta) ==
    /\ font' = IF font + delta \in FontSizes THEN font + delta ELSE font
    /\ Fit(area, font')
    /\ UNCHANGED <<area, boot, keys, watch>>

\* preRun: the file system is there, and onResize is heard from now on.
FilesystemUp ==
    /\ phase = "loading" /\ phase' = "up"
    /\ UNCHANGED <<terminal, manifest, guest, n, keys, watch>>

Run ==
    /\ phase = "up" /\ phase' = "run"
    /\ manifest' = grid
    /\ UNCHANGED <<terminal, guest, n, keys, watch>>

\* init mounts the share and sources the manifest: stty, then the loop.
Mount ==
    /\ phase = "run" /\ phase' = "mounted"
    /\ guest' = manifest
    /\ UNCHANGED <<terminal, manifest, n, keys, watch>>

\* Mutant: the loop goes on to the next name whether it could read or not.
ApplySkips ==
    /\ phase = "mounted"
    /\ n <= MaxSizes
    /\ guest' = IF n \in DOMAIN files THEN files[n] ELSE guest
    /\ n' = n + 1
    /\ UNCHANGED <<terminal, phase, manifest, keys, watch>>

\* The loop applies the next size that is there; else it waits a second.
Apply ==
    /\ phase = "mounted"
    /\ n \in DOMAIN files
    /\ guest' = files[n]
    /\ n' = n + 1
    /\ UNCHANGED <<terminal, phase, manifest, keys, watch>>
-----------------------------------------------------------------------------
(* Keys, as the bytes that reach the line discipline.                      *)

ESC == 27
CSI == <<ESC, 91>>
Upper(c) == IF c \in 97..122 THEN c - 32 ELSE c

\* Letters and @ to _ mask down to their control code, space becomes NUL.
Control(c) ==
    IF Upper(c) \in 64..95 THEN Upper(c) % 32 ELSE IF c = 32 THEN 0 ELSE c

Disarm == armed' = {} /\ spent' = (spent \/ armed # {})

\* A single character takes the modifiers, and uses them up.
Transform(c) == (IF "alt" \in armed THEN <<ESC>> ELSE <<>>)
                    \o <<IF "ctrl" \in armed THEN Control(c) ELSE c>>

\* Mutant: modifiers stay armed after a key they did not change.
SendKeeps(data) ==
    /\ sent' = IF Len(data) = 1 THEN Transform(data[1]) ELSE data
    /\ IF sent' # data THEN Disarm
       ELSE UNCHANGED armed /\ spent' = (spent \/ armed # {})
    /\ UNCHANGED <<terminal, boot, watch>>

\* Typed, or a key of the bar that has bytes of its own.  What is longer, a
\* paste or PgUp, goes through untouched and leaves the modifiers armed.
Send(data) ==
    /\ sent' = IF Len(data) = 1 THEN Transform(data[1]) ELSE data
    /\ IF Len(data) = 1 THEN Disarm ELSE UNCHANGED <<armed, spent>>
    /\ UNCHANGED <<terminal, boot, watch>>

\* An arrow, Home or End carries the modifiers in its sequence.
Cursor(final) ==
    LET m == 1 + (IF "alt" \in armed THEN 2 ELSE 0) + (IF "ctrl" \in armed THEN 4 ELSE 0) IN
    /\ sent' = CSI \o (IF m = 1 THEN <<final>> ELSE <<49, 59, 48 + m, final>>)
    /\ Disarm
    /\ UNCHANGED <<terminal, boot, watch>>

Tap(m) ==
    /\ armed' = IF m \in armed THEN armed \ {m} ELSE armed \cup {m}
    /\ spent' = FALSE
    /\ UNCHANGED <<sent, terminal, boot, watch>>

Esc == <<ESC>>
PgUp == CSI \o <<53, 126>>

Press ==
    \/ \E m \in Modifiers : Tap(m)
    \/ \E data \in Typed \cup {Esc, PgUp} : Send(data)
    \/ Cursor(65)
    \/ \E delta \in {1, -1} : Zoom(delta)
-----------------------------------------------------------------------------
(* The transcript.                                                         *)

Includes(s) == \E i \in 0..(Len(s) - Len(Marker)) : SubSeq(s, i + 1, i + Len(Marker)) = Marker

\* Mutant: a transcript too long is begun again.
CapAll(s) == IF Len(s) > Limit THEN <<>> ELSE s

Cap(s) == IF Len(s) > Limit THEN SubSeq(s, Len(s) - Limit + 1, Len(s)) ELSE s

\* onWrite: append, cap, then see to the waiters.
Heard(chunk) ==
    /\ transcript' = Cap(transcript \o chunk)
    /\ waiter' = IF waiter \in {"waiting", "late"} /\ Includes(transcript')
                 THEN "resolved" ELSE waiter
    /\ UNCHANGED <<terminal, boot, keys>>

\* The kernel and QEMU before the marker, the shell after it.
Write(chunk) ==
    /\ phase \in {"run", "mounted"}
    /\ said \in {0, Len(Marker)}
    /\ Heard(chunk)
    /\ UNCHANGED said

\* The marker comes in pieces, and the last may carry more behind it.
Welcome(k, chunk) ==
    /\ phase = "mounted"
    /\ said + k <= Len(Marker)
    /\ chunk # <<>> => said + k = Len(Marker)
    /\ Heard(SubSeq(Marker, said + 1, said + k) \o chunk)
    /\ said' = said + k

WaitFor ==
    /\ phase \in {"run", "mounted"} /\ waiter = "none"
    /\ waiter' = IF Includes(transcript) THEN "resolved"
                 ELSE IF said = Len(Marker) THEN "late" ELSE "waiting"
    /\ UNCHANGED <<terminal, boot, keys, said, transcript>>

GiveUp ==
    /\ waiter \in {"waiting", "late"}
    /\ waiter' = "gaveup"
    /\ UNCHANGED <<terminal, boot, keys, said, transcript>>

Guest ==
    \/ Mount \/ Apply
    \/ \E chunk \in Chunks : Write(chunk)
    \/ \E k \in 1..Len(Marker), chunk \in Chunks \cup {<<>>} : Welcome(k, chunk)

Next == ResizeArea \/ Press \/ FilesystemUp \/ Run \/ WaitFor \/ GiveUp \/ Guest

Spec == Init /\ [][Next]_vars

\* A guest that got as far as the manifest runs its loop.
FairSpec == Spec /\ WF_vars(Apply)
-----------------------------------------------------------------------------
TypeOK ==
    /\ area \in Areas /\ font \in FontSizes /\ grid = Grid[<<area, font>>]
    /\ phase \in {"loading", "up", "run", "mounted"}
    /\ files \in Seq(Nat \X Nat) /\ Len(files) <= MaxSizes
    /\ manifest \in Nat \X Nat /\ guest \in Nat \X Nat
    /\ n \in 1..(Len(files) + 1)
    /\ armed \in SUBSET Modifiers /\ spent \in BOOLEAN
    /\ sent \in Seq(Nat)
    /\ said \in 0..Len(Marker)
    /\ transcript \in Seq(Units) /\ Len(transcript) <= Limit
    /\ waiter \in {"none", "waiting", "late", "resolved", "gaveup"}

\* Once the reader stops resizing, as MaxSizes makes him, the guest gets the
\* size the terminal has: no resize is lost, whether it
\* came before the file system, before run, or while the guest was busy
\* (manifest and onResize).
SizeArrives == phase = "mounted" ~> guest = grid

\* One tap modifies one key, whether the key is a character, one that Ctrl
\* does not change, or an arrow (press, transform).
OneKeyPerTap == spent => armed = {}

\* A marker the page already waited for when it was written resolves the
\* wait, however the guest's writes cut it and however full the transcript
\* was; and nothing else does (watchConsole).
MarkerIsHeard ==
    /\ waiter = "waiting" => said < Len(Marker)
    /\ waiter = "resolved" => said = Len(Marker)
=============================================================================
