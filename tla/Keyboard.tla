------------------------------ MODULE Keyboard ------------------------------
(***************************************************************************)
(* device/keyboard.c in front of the queue: the keyboard sends the bytes   *)
(* of a key's scan code one interrupt each, intr_keyboard_handler follows  *)
(* the keys that are down and puts characters into kbd_buf, and threads    *)
(* read them with ioq_getchar.                                             *)
(*                                                                         *)
(* A key is its make code without the prefix 0xe0, and whether it has that *)
(* prefix: the right ctrl and alt keys have the code of the left ones.     *)
(* keyboard_init leaves every flag FALSE.                                  *)
(***************************************************************************)
EXTENDS IoQueue

CONSTANTS Keys,       \* the keys: [ext : BOOLEAN, code]
          Letters,    \* codes whose character depends on shift and caps lock
          Pairs,      \* codes whose character depends on shift only
          Keymap      \* keymap[code][shift], of Letters and Pairs

ShiftCodes == {"shift_l", "shift_r"}
ModCodes == ShiftCodes \cup {"ctrl", "alt"}

ASSUME KeyAssumption ==
  /\ \A k \in Keys : k.ext \in BOOLEAN /\ k.code # "e0"
  /\ (Letters \cup Pairs) \cap (ModCodes \cup {"caps_lock", "e0"}) = {}
  /\ Keymap \in [Letters \cup Pairs -> [BOOLEAN -> Chars]]

VARIABLES held,       \* the modifier keys the user holds down
          wire,       \* the bytes of a scan code that are still to come
          ctrl_status, shift_status, alt_status, caps_lock_status, ext_scan_code

user == <<held, wire>>
flags == <<ctrl_status, shift_status, alt_status, caps_lock_status, ext_scan_code>>
vars == <<ioqVars, user, flags>>

E0 == [code |-> "e0", up |-> FALSE]

Init ==
  /\ io_queue_init
  /\ held = {}
  /\ wire = <<>>
  /\ ctrl_status = FALSE /\ shift_status = FALSE /\ alt_status = FALSE
  /\ caps_lock_status = FALSE
  /\ ext_scan_code = FALSE

----------------------------------------------------------------------------
\* A prefix: the rest of the scan code comes with the next interrupt.
Prefix(b) ==
  /\ b = E0
  /\ ext_scan_code' = TRUE
  /\ UNCHANGED <<schedVars, mutexVars, ring, consumer,
                 ctrl_status, shift_status, alt_status, caps_lock_status>>

\* Mutant: the prefix is not forgotten.
Mut_ext_kept == UNCHANGED ext_scan_code

\* Any other byte ends the scan code.
ext_cleared == ext_scan_code' = FALSE

\* A shift key has no prefix; the code of a ctrl or alt key counts with and
\* without.
IsShift(code) == ~ext_scan_code /\ code \in ShiftCodes

\* A break code: the flag of the key is cleared, though another key of the
\* same kind may still be down.
Break(b) ==
  /\ b.up
  /\ ext_cleared
  /\ ctrl_status' = (ctrl_status /\ b.code # "ctrl")
  /\ shift_status' = (shift_status /\ ~IsShift(b.code))
  /\ alt_status' = (alt_status /\ b.code # "alt")
  /\ UNCHANGED <<schedVars, mutexVars, ring, consumer, caps_lock_status>>

\* Which of its two characters a key stands for.
shift(code) == IF code \in Pairs THEN shift_status ELSE shift_status # caps_lock_status

\* The make code of a key that has a character: the character is dropped
\* when the queue is full, so ioq_putchar never sleeps on the interrupted
\* thread's behalf.
MakeChar(b) ==
  /\ ~b.up
  /\ ~ext_scan_code
  /\ b.code \in Letters \cup Pairs
  /\ IF ioq_full
     THEN UNCHANGED <<schedVars, mutexVars, ring, consumer>>
     ELSE ioq_putchar(Keymap[b.code][shift(b.code)])
  /\ ext_cleared
  /\ UNCHANGED <<ctrl_status, shift_status, alt_status, caps_lock_status>>

\* Any other make code: a modifier or caps lock; the rest, which has a code
\* above those of keymap or a prefix, is an unknown key.
MakeOther(b) ==
  /\ ~b.up
  /\ b # E0
  /\ ext_scan_code \/ b.code \notin Letters \cup Pairs
  /\ ext_cleared
  /\ ctrl_status' = (ctrl_status \/ b.code = "ctrl")
  /\ shift_status' = (shift_status \/ IsShift(b.code))
  /\ alt_status' = (alt_status \/ b.code = "alt")
  /\ caps_lock_status' = (caps_lock_status # (~ext_scan_code /\ b.code = "caps_lock"))
  /\ UNCHANGED <<schedVars, mutexVars, ring, consumer>>

\* The interrupt of one byte.
intr_keyboard_handler(b) ==
  /\ IntrOn
  /\ Prefix(b) \/ Break(b) \/ MakeChar(b) \/ MakeOther(b)
  /\ UNCHANGED pc

\* A key goes down (or sends its code again while it is down) or up, and its
\* first byte interrupts; until then the rest of the system cannot tell.
Send(k, up) ==
  LET last == [code |-> k.code, up |-> up]
  IN  /\ wire = <<>>
      /\ wire' = IF k.ext THEN <<last>> ELSE <<>>
      /\ intr_keyboard_handler(IF k.ext THEN E0 ELSE last)

Press(k) ==
  /\ Send(k, FALSE)
  /\ held' = IF k.code \in ModCodes THEN held \cup {k} ELSE held

Release(k) ==
  /\ k.code \in ModCodes => k \in held
  /\ Send(k, TRUE)
  /\ held' = held \ {k}

\* The byte after a prefix.
SecondByte ==
  /\ wire # <<>>
  /\ intr_keyboard_handler(Head(wire))
  /\ wire' = Tail(wire)
  /\ UNCHANGED held

Next ==
  /\ ~panic
  /\ \/ \E t \in Threads : (Call(t) \/ Run(t)) /\ UNCHANGED <<user, flags>>
     \/ \E k \in Keys : Press(k) \/ Release(k)
     \/ SecondByte
     \/ idle /\ UNCHANGED <<user, flags>>
     \/ Timer /\ UNCHANGED <<user, flags>>

\* As in SyncLock; a reader reads again and again.
Fairness ==
  /\ SF_vars(~panic /\ Timer /\ UNCHANGED <<user, flags>>)
  /\ \A t \in Threads :
       /\ SF_vars(~panic /\ Run(t) /\ UNCHANGED <<user, flags>>)
       /\ SF_vars(~panic /\ Call(t) /\ UNCHANGED <<user, flags>>)

Spec == Init /\ [][Next]_vars /\ Fairness

----------------------------------------------------------------------------
Down(codes) == \E k \in held : k.code \in codes

\* Between two scan codes no prefix is pending, and no modifier is taken to
\* be down after the user has let go of it: no key, known or not, in any
\* order with the others, leaves the keyboard stuck.
KeysInStep ==
  wire = <<>> =>
    /\ ~ext_scan_code
    /\ shift_status => Down(ShiftCodes)
    /\ ctrl_status => Down({"ctrl"})
    /\ alt_status => Down({"alt"})

=============================================================================
