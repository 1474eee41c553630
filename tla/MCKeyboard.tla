----------------------------- MODULE MCKeyboard -----------------------------
(* A small keyboard; every tick of the timer ends a time slice.              *)
EXTENDS Keyboard

CONSTANTS Lower, Upper   \* the two characters of a key

MCPrio == [t \in All |-> 0]
MCKeymap == [c \in Letters \cup Pairs |-> [s \in BOOLEAN |-> IF s THEN Upper ELSE Lower]]

key(e, c) == [ext |-> e, code |-> c]

\* The right ctrl key has a prefix, and so has a key of the key pad whose
\* code is that of a letter.
MCKeys == {key(FALSE, "letter"), key(FALSE, "digit"), key(TRUE, "letter"),
           key(FALSE, "caps_lock"), key(FALSE, "shift_l"), key(TRUE, "ctrl")}
=============================================================================
