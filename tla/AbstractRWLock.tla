---------------------------- MODULE AbstractRWLock ----------------------------
(***************************************************************************)
(* What ServerCore/Lock.h promises its callers: WriteLock and ReadLock     *)
(* take effect at one instant, a writer excludes everybody, readers        *)
(* exclude only writers.  Recursive acquisitions by the holder are not     *)
(* visible at this level.                                                  *)
(***************************************************************************)
CONSTANT Thread

VARIABLES writers,    \* the threads inside a write section
          readers     \* the threads inside a read section

vars == <<writers, readers>>

Init == writers = {} /\ readers = {}

AcquireWrite(t) ==
    /\ writers = {}
    /\ readers = {}
    /\ writers' = {t}
    /\ UNCHANGED readers

ReleaseWrite(t) ==
    /\ t \in writers
    /\ writers' = writers \ {t}
    /\ UNCHANGED readers

AcquireRead(t) ==
    /\ writers = {}
    /\ t \notin readers
    /\ readers' = readers \union {t}
    /\ UNCHANGED writers

ReleaseRead(t) ==
    /\ t \in readers
    /\ readers' = readers \ {t}
    /\ UNCHANGED writers

Next == \E t \in Thread :
    AcquireWrite(t) \/ ReleaseWrite(t) \/ AcquireRead(t) \/ ReleaseRead(t)

Spec == Init /\ [][Next]_vars
===============================================================================
