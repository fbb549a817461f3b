---------------------------- MODULE EepromStore ----------------------------
(***************************************************************************)
(* The settings: a table in memory and its copy in a file in flash.        *)
(*                                                                         *)
(* The setters run on core 1, for the web page and for a client that       *)
(* writes its own address.  loop() on core 0 commits some seconds after    *)
(* the last change; the web page commits at once.  Both cores write the    *)
(* whole table, a setting at a time, and clear _dirty at the end; there is *)
(* no lock.                                                                *)
(*                                                                         *)
(* LittleFS (external) replaces the file when it is closed, so that a      *)
(* reset in the middle leaves the old one.                                 *)
(***************************************************************************)
EXTENDS Naturals, Sequences, FiniteSets

CONSTANTS
    Setting, Text,      \* the registered settings, and those that are strings
    Setpoint, Default,  \* values, and the one all settings are registered with
    Empty               \* the empty string

Core == {0, 1}
Order == CHOOSE s \in [1 .. Cardinality(Setting) -> Setting] :
            \A i, j \in DOMAIN s : s[i] = s[j] => i = j

VARIABLES
    value,      \* _params[].value
    dirty,      \* _dirty
    recent,     \* EEPROM_COMMIT_DELAY_MS have not passed since _lastChangeMs
    file,       \* what the file holds; a setting it does not hold has its default
    image,      \* what core c has written of its new file: sequence of values
    open,       \* cores with the file open
    changed,    \* core 1 has set values and is about to commit
    late        \* history: settings changed after core 0 had written them

eepVars == <<value, dirty, recent, file, image, open, changed, late>>

Init ==
    /\ file \in [Setting -> Setpoint]
    /\ value = file /\ dirty = FALSE /\ recent = FALSE
    /\ image = [c \in Core |-> <<>>] /\ open = {} /\ changed = FALSE /\ late = {}

\* The settings that core 0 has written to the file it has open.
Written == {Order[i] : i \in 1 .. (IF 0 \in open THEN Len(image[0]) ELSE 0)}

----------------------------------------------------------------------------
\* What every setter does: setUint8() to setString(), and resetToDefaults().
Change(new) ==
    /\ 1 \notin open
    /\ value' = new
    /\ dirty' = TRUE /\ recent' = TRUE
    /\ late' = late \cup (Written \cap {s \in Setting : new[s] # value[s]})
    /\ UNCHANGED <<file, image, open>>

\* A client writes its address: no commit follows.
SVWrite(s, v) ==
    /\ ~changed
    /\ Change([value EXCEPT ![s] = v])
    /\ UNCHANGED changed

\* The web page sets one or more settings, and commits.
ConfigPost(s, v) ==
    /\ Change([value EXCEPT ![s] = v])
    /\ changed' = TRUE

\* /reset and /fabriek.  No default is kept of a string.
ResetToDefaults ==
    /\ ~changed
    /\ Change([s \in Setting |-> IF s \in Text THEN Empty ELSE Default])
    /\ changed' = TRUE

----------------------------------------------------------------------------
\* commit(): the file may not open; nothing is lost then.
MayCommit(c) == c \notin open /\ IF c = 0 THEN dirty /\ ~recent ELSE changed

Open(c) ==
    /\ MayCommit(c)
    /\ open' = open \cup {c} /\ image' = [image EXCEPT ![c] = <<>>]
    /\ changed' = (changed /\ c = 0)
    /\ UNCHANGED <<value, dirty, recent, file, late>>

(* Bug: the flag is cleared although the file did not open. *)
CannotOpenCleared(c) ==
    /\ MayCommit(c)
    /\ changed' = (changed /\ c = 0) /\ dirty' = FALSE
    /\ UNCHANGED <<value, recent, file, image, open, late>>

CannotOpen(c) ==
    /\ MayCommit(c)
    /\ changed' = (changed /\ c = 0)
    /\ UNCHANGED <<value, dirty, recent, file, image, open, late>>

Write(c) ==
    /\ c \in open /\ Len(image[c]) < Len(Order)
    /\ image' = [image EXCEPT ![c] = Append(@, value[Order[Len(@) + 1]])]
    /\ UNCHANGED <<value, dirty, recent, file, open, changed, late>>

Close(c) ==
    /\ c \in open /\ Len(image[c]) = Len(Order)
    /\ file' = [s \in Setting |-> LET i == CHOOSE j \in DOMAIN Order : Order[j] = s
                                  IN  image[c][i]]
    /\ open' = open \ {c} /\ dirty' = FALSE
    /\ late' = {s \in late : file'[s] # value[s] \/ (c = 1 /\ s \in Written)}
    /\ UNCHANGED <<value, recent, image, changed>>

\* Five seconds without a change.
Elapse ==
    /\ recent /\ ~changed
    /\ recent' = FALSE
    /\ UNCHANGED <<value, dirty, file, image, open, changed, late>>

\* The station restarts: begin() loads the file.
Restart ==
    /\ value' = file /\ dirty' = FALSE /\ recent' = FALSE
    /\ image' = [c \in Core |-> <<>>] /\ open' = {} /\ changed' = FALSE /\ late' = {}
    /\ UNCHANGED file

Next ==
    \/ \E s \in Setting, v \in Setpoint : SVWrite(s, v) \/ ConfigPost(s, v)
    \/ ResetToDefaults \/ Elapse \/ Restart
    \/ \E c \in Core : Open(c) \/ CannotOpen(c) \/ Write(c) \/ Close(c)

Spec == Init /\ [][Next]_eepVars
----------------------------------------------------------------------------
TypeOK ==
    /\ value \in [Setting -> Setpoint \cup {Empty}]
    /\ file \in [Setting -> Setpoint \cup {Empty}]
    /\ dirty \in BOOLEAN /\ recent \in BOOLEAN /\ changed \in BOOLEAN
    /\ open \subseteq Core /\ \A c \in Core : Len(image[c]) <= Cardinality(Setting)
    /\ late \subseteq Setting

\* A setting that differs from the file is still going to be written: the
\* table is dirty, or a commit is under way.  Not so for one that core 1
\* changes after core 0 has written it, as core 0 then clears the flag.
SettingsStored ==
    \A s \in Setting \ late : value[s] # file[s] => dirty \/ open # {}

\* A setting never differs from the file with nothing left to be written.
NoSettingLost ==
    \A s \in Setting : value[s] # file[s] => dirty \/ open # {}
=============================================================================
