------------------------------- MODULE LockAbs -------------------------------
(***************************************************************************)
(* What the lock of thread/sync.c promises, without a scheduler, a queue   *)
(* or a semaphore: one owner at a time, which must release the lock as     *)
(* often as it acquired it before anybody else can have it.  The order in  *)
(* which requests are granted is left open.                                *)
(***************************************************************************)
EXTENDS Naturals

CONSTANTS Threads, NULL

VARIABLES owner,    \* the thread that has the lock, or NULL
          depth,    \* acquisitions the owner has not released yet
          want      \* the threads that ask for the lock

vars == <<owner, depth, want>>

Init == owner = NULL /\ depth = 0 /\ want = {}

Request(t) ==
  /\ owner # t
  /\ t \notin want
  /\ want' = want \cup {t}
  /\ UNCHANGED <<owner, depth>>

Grant(t) ==
  /\ owner = NULL
  /\ t \in want
  /\ owner' = t
  /\ depth' = 1
  /\ want' = want \ {t}

Nest(t) ==
  /\ owner = t
  /\ depth' = depth + 1
  /\ UNCHANGED <<owner, want>>

Unnest(t) ==
  /\ owner = t
  /\ depth > 1
  /\ depth' = depth - 1
  /\ UNCHANGED <<owner, want>>

Release(t) ==
  /\ owner = t
  /\ depth = 1
  /\ owner' = NULL
  /\ depth' = 0
  /\ UNCHANGED want

Next == \E t \in Threads :
          Request(t) \/ Grant(t) \/ Nest(t) \/ Unnest(t) \/ Release(t)

Spec == Init /\ [][Next]_vars

\* A free lock that is wanted is granted to somebody, and an owner that does
\* not nest for ever releases it.
FairSpec ==
  /\ Spec
  /\ WF_vars(\E t \in Threads : Grant(t))
  /\ \A t \in Threads : WF_vars(Release(t))
=============================================================================
