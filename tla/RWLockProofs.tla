----------------------------- MODULE RWLockProofs ------------------------------
(***************************************************************************)
(* The read-write lock is correct for any finite set of threads, any       *)
(* nesting bound, with or without _DEBUG, and even when callers ask for    *)
(* the write lock inside their own read guard.                             *)
(***************************************************************************)
EXTENDS RWLock, FiniteSetTheorems, TLAPS

(* What a thread's position in Lock.cpp says about the lock's words.  The   *)
(* counters alone do not exclude that an unlock tests the wrong owner or    *)
(* that a writer still holds a read guard; these facts do.                  *)
LocalInv(t) ==
    /\ pc[t] \in {"w_recursion", "w_pending", "u_owner"} => ownerThreadId = t
    /\ writes[t] > 0 => /\ pc[t] = "idle"
                        /\ ownerThreadId = t
                        /\ writeRecursion = writes[t]
    /\ ownerThreadId = t =>
         writes[t] > 0 \/ pc[t] \in {"w_recursion", "w_pending", "u_owner"}
    /\ pc[t] = "w_pending" => writeRecursion = 1
    /\ pc[t] \notin {"idle", "w_spin"} => reads[t] = 0
    /\ writes[t] = 0 => reads[t] <= 1
    /\ pc[t] = "r_cas" => expected[t] >= 0

IInv ==
    /\ TypeOK
    /\ \A t \in Thread : LocalInv(t)
    /\ MutualExclusion
    /\ CountersExact
    /\ NoCrash

(* The sets counted by _lockState and _writerPending are finite, so their   *)
(* cardinalities are numbers that follow additions and removals.            *)
LEMMA Counting ==
    ASSUME NEW S \in SUBSET Thread, NEW t \in Thread
    PROVE  /\ Cardinality(S) \in Nat
           /\ Cardinality(S) = 0 <=> S = {}
           /\ t \notin S => Cardinality(S \union {t}) = Cardinality(S) + 1
           /\ t \in S => Cardinality(S \ {t}) = Cardinality(S) - 1
<1>1. IsFiniteSet(S)
  BY LockAssumption, FS_Subset
<1>2. QED
  BY Zenon, <1>1, FS_CardinalityType, FS_EmptySet, FS_AddElement, FS_RemoveElement

(* The initial lock, free and with idle threads, satisfies the invariant.   *)
LEMMA InitInv == Init => IInv
<1> SUFFICES ASSUME Init PROVE IInv
  OBVIOUS
<1>1. TypeOK
  BY DEF Init, TypeOK, NOTTING_STATE, Label
<1>2. \A t \in Thread : LocalInv(t)
  BY LockAssumption DEF Init, LocalInv
<1>3. Writers = {} /\ Readers = {} /\ Pending = {}
  BY DEF Init, Writers, Readers, Pending, Writing, Reading
<1>4. MutualExclusion
  BY <1>3 DEF MutualExclusion, Writers
<1>5. CountersExact
  BY <1>3, FS_EmptySet DEF CountersExact, Init, NOTTING_STATE
<1>6. QED
  BY <1>1, <1>2, <1>4, <1>5 DEF IInv, NoCrash, Init

(* Each access of Lock.cpp preserves the invariant, and is one step of the  *)
(* atomic lock or none.                                                     *)
LEMMA StepInv == IInv /\ [Next]_vars => IInv' /\ [Abstract!Next]_(Abstract!vars)
<1> SUFFICES ASSUME IInv, [Next]_vars PROVE IInv' /\ [Abstract!Next]_(Abstract!vars)
  OBVIOUS
<1> USE LockAssumption
<1> DEFINE Alone == \A t \in Writers : Writers = {t} /\ Readers = {}
<1>a. Writers \in SUBSET Thread /\ Readers \in SUBSET Thread /\ Pending \in SUBSET Thread
  BY DEF Writers, Readers, Pending
<1>b. MutualExclusion <=> Alone
  BY DEF MutualExclusion, Writers, Readers, Reading
<1>c. MutualExclusion' <=> Alone'
  BY DEF MutualExclusion, Writers, Readers, Reading
<1>d. Alone
  BY <1>b DEF IInv
<1>e. Cardinality(Readers) \in Nat /\ (Cardinality(Readers) = 0 <=> Readers = {})
  BY <1>a, FS_Subset, FS_CardinalityType, FS_EmptySet
<1> HIDE DEF Alone
<1>1. ASSUME NEW t \in Thread, WriteLockRecursive(t) PROVE IInv' /\ [Abstract!Next]_(Abstract!vars)
  <2>1. TypeOK' /\ NoCrash'
    BY <1>1 DEF IInv, TypeOK, LocalInv, NoCrash, WriteLockRecursive, Goto, CrashIf, Label, WRITE_STATE, NOTTING_STATE
  <2>2. \A u \in Thread : LocalInv(u)'
    BY <1>1 DEF IInv, TypeOK, LocalInv, MutualExclusion, Writing, Writers, WriteLockRecursive, Goto, Label
  <2>3. /\ Writers' = Writers
        /\ Readers' = Readers
        /\ Pending' = Pending
    BY <1>1 DEF IInv, TypeOK, LocalInv, MutualExclusion, Writers, Readers, Pending,
       Writing, Reading, WriteLockRecursive, Goto
  <2>4. MutualExclusion'
    BY <1>1, <1>c, <1>d, <2>3 DEF Alone
  <2>5. CountersExact'
    BY <1>1, <1>a, <1>d, <2>3, Counting DEF Alone, IInv, TypeOK, CountersExact, WriteLockRecursive, WRITE_STATE, NOTTING_STATE
  <2>6. [Abstract!Next]_(Abstract!vars)
    BY <2>3 DEF Abstract!vars
  <2>7. QED
    BY <2>1, <2>2, <2>4, <2>5, <2>6 DEF IInv
<1>2. ASSUME NEW t \in Thread, WriteLockRequest(t) PROVE IInv' /\ [Abstract!Next]_(Abstract!vars)
  <2>0. t \notin Pending
    BY <1>2, <1>a, <1>d, Counting DEF Alone, IInv, TypeOK, LocalInv, CountersExact, Writers, Readers, Pending,
       Writing, Reading, WriteLockRequest, Goto, WRITE_STATE, NOTTING_STATE
  <2>1. TypeOK' /\ NoCrash'
    BY <1>2, <2>0 DEF IInv, TypeOK, LocalInv, NoCrash, WriteLockRequest, Goto, CrashIf, Label, WRITE_STATE, NOTTING_STATE
  <2>2. \A u \in Thread : LocalInv(u)'
    BY <1>2, <2>0 DEF IInv, TypeOK, LocalInv, MutualExclusion, Writing, Writers, WriteLockRequest, Goto, Label
  <2>3. /\ Writers' = Writers
        /\ Readers' = Readers
        /\ Pending' = Pending \union {t}
    BY <1>2, <2>0 DEF IInv, TypeOK, LocalInv, MutualExclusion, Writers, Readers, Pending,
       Writing, Reading, WriteLockRequest, Goto
  <2>4. MutualExclusion'
    BY <1>2, <2>0, <1>c, <1>d, <2>3 DEF Alone
  <2>5. CountersExact'
    BY <1>2, <1>a, <1>d, <2>0, <2>3, Counting DEF Alone, IInv, TypeOK, CountersExact, WriteLockRequest, WRITE_STATE, NOTTING_STATE
  <2>6. [Abstract!Next]_(Abstract!vars)
    BY <2>3 DEF Abstract!vars
  <2>7. QED
    BY <2>1, <2>2, <2>4, <2>5, <2>6 DEF IInv
<1>3. ASSUME NEW t \in Thread, WriteLockCas(t) PROVE IInv' /\ [Abstract!Next]_(Abstract!vars)
  <2>0. Writers = {} /\ Readers = {}
    BY <1>3, <1>e DEF IInv, CountersExact, WriteLockCas, WRITE_STATE, NOTTING_STATE
  <2>1. TypeOK' /\ NoCrash'
    BY <1>3, <2>0 DEF IInv, TypeOK, LocalInv, NoCrash, WriteLockCas, Goto, CrashIf, Label, WRITE_STATE, NOTTING_STATE
  <2>2. \A u \in Thread : LocalInv(u)'
    <3>1. reads[t] = 0
      BY <1>3, <2>0 DEF IInv, TypeOK, LocalInv, Readers, Writers, Reading, WriteLockCas, Goto
    <3>2. QED
      BY <1>3, <3>1 DEF IInv, TypeOK, LocalInv, WriteLockCas, Goto, Label
  <2>3. /\ Writers' = {t}
        /\ Readers' = Readers
        /\ Pending' = Pending
    BY <1>3, <2>0 DEF IInv, TypeOK, LocalInv, MutualExclusion, Writers, Readers, Pending,
       Writing, Reading, WriteLockCas, Goto
  <2>4. MutualExclusion'
    BY <1>3, <2>0, <1>c, <1>d, <2>3 DEF Alone
  <2>5. CountersExact'
    BY <1>3, <1>a, <1>d, <2>0, <2>3, Counting DEF Alone, IInv, TypeOK, CountersExact, WriteLockCas, WRITE_STATE, NOTTING_STATE
  <2>6. [Abstract!Next]_(Abstract!vars)
    BY <2>0, <2>3 DEF Abstract!Next, Abstract!AcquireWrite
  <2>7. QED
    BY <2>1, <2>2, <2>4, <2>5, <2>6 DEF IInv
<1>4. ASSUME NEW t \in Thread, WriteLockOwner(t) PROVE IInv' /\ [Abstract!Next]_(Abstract!vars)
  <2>1. TypeOK' /\ NoCrash'
    BY <1>4 DEF IInv, TypeOK, LocalInv, NoCrash, WriteLockOwner, Goto, CrashIf, Label, WRITE_STATE, NOTTING_STATE
  <2>2. \A u \in Thread : LocalInv(u)'
    BY <1>4 DEF IInv, TypeOK, LocalInv, MutualExclusion, Writing, Writers, WriteLockOwner, Goto, Label
  <2>3. /\ Writers' = Writers
        /\ Readers' = Readers
        /\ Pending' = Pending
    BY <1>4 DEF IInv, TypeOK, LocalInv, MutualExclusion, Writers, Readers, Pending,
       Writing, Reading, WriteLockOwner, Goto
  <2>4. MutualExclusion'
    BY <1>4, <1>c, <1>d, <2>3 DEF Alone
  <2>5. CountersExact'
    BY <1>4, <1>a, <1>d, <2>3, Counting DEF Alone, IInv, TypeOK, CountersExact, WriteLockOwner, WRITE_STATE, NOTTING_STATE
  <2>6. [Abstract!Next]_(Abstract!vars)
    BY <2>3 DEF Abstract!vars
  <2>7. QED
    BY <2>1, <2>2, <2>4, <2>5, <2>6 DEF IInv
<1>5. ASSUME NEW t \in Thread, WriteLockRecursion(t) PROVE IInv' /\ [Abstract!Next]_(Abstract!vars)
  <2>1. TypeOK' /\ NoCrash'
    BY <1>5 DEF IInv, TypeOK, LocalInv, NoCrash, WriteLockRecursion, Goto, CrashIf, Label, WRITE_STATE, NOTTING_STATE
  <2>2. \A u \in Thread : LocalInv(u)'
    BY <1>5 DEF IInv, TypeOK, LocalInv, MutualExclusion, Writing, Writers, WriteLockRecursion, Goto, Label
  <2>3. /\ Writers' = Writers
        /\ Readers' = Readers
        /\ Pending' = Pending
    BY <1>5 DEF IInv, TypeOK, LocalInv, MutualExclusion, Writers, Readers, Pending,
       Writing, Reading, WriteLockRecursion, Goto
  <2>4. MutualExclusion'
    BY <1>5, <1>c, <1>d, <2>3 DEF Alone
  <2>5. CountersExact'
    BY <1>5, <1>a, <1>d, <2>3, Counting DEF Alone, IInv, TypeOK, CountersExact, WriteLockRecursion, WRITE_STATE, NOTTING_STATE
  <2>6. [Abstract!Next]_(Abstract!vars)
    BY <2>3 DEF Abstract!vars
  <2>7. QED
    BY <2>1, <2>2, <2>4, <2>5, <2>6 DEF IInv
<1>6. ASSUME NEW t \in Thread, WriteLockReturn(t) PROVE IInv' /\ [Abstract!Next]_(Abstract!vars)
  <2>0. t \in Pending
    BY <1>6, <1>a, <1>d, Counting DEF Alone, IInv, TypeOK, LocalInv, CountersExact, Writers, Readers, Pending,
       Writing, Reading, WriteLockReturn, Goto, WRITE_STATE, NOTTING_STATE
  <2>1. TypeOK' /\ NoCrash'
    BY <1>6, <2>0 DEF IInv, TypeOK, LocalInv, NoCrash, WriteLockReturn, Goto, CrashIf, Label, WRITE_STATE, NOTTING_STATE
  <2>2. \A u \in Thread : LocalInv(u)'
    BY <1>6, <2>0 DEF IInv, TypeOK, LocalInv, MutualExclusion, Writing, Writers, WriteLockReturn, Goto, Label
  <2>3. /\ Writers' = Writers
        /\ Readers' = Readers
        /\ Pending' = Pending \ {t}
    BY <1>6, <2>0 DEF IInv, TypeOK, LocalInv, MutualExclusion, Writers, Readers, Pending,
       Writing, Reading, WriteLockReturn, Goto
  <2>4. MutualExclusion'
    BY <1>6, <2>0, <1>c, <1>d, <2>3 DEF Alone
  <2>5. CountersExact'
    BY <1>6, <1>a, <1>d, <2>0, <2>3, Counting DEF Alone, IInv, TypeOK, CountersExact, WriteLockReturn, WRITE_STATE, NOTTING_STATE
  <2>6. [Abstract!Next]_(Abstract!vars)
    BY <2>3 DEF Abstract!vars
  <2>7. QED
    BY <2>1, <2>2, <2>4, <2>5, <2>6 DEF IInv
<1>7. ASSUME NEW t \in Thread, WriteUnLock(t) PROVE IInv' /\ [Abstract!Next]_(Abstract!vars)
  <2>1. TypeOK' /\ NoCrash'
    BY <1>7 DEF IInv, TypeOK, LocalInv, NoCrash, WriteUnLock, Goto, CrashIf, Label, WRITE_STATE, NOTTING_STATE
  <2>2. \A u \in Thread : LocalInv(u)'
    BY <1>7 DEF IInv, TypeOK, LocalInv, MutualExclusion, Writing, Writers, WriteUnLock, Goto, Label
  <2>3. /\ Writers' = Writers
        /\ Readers' = Readers
        /\ Pending' = Pending
    BY <1>7 DEF IInv, TypeOK, LocalInv, MutualExclusion, Writers, Readers, Pending,
       Writing, Reading, WriteUnLock, Goto
  <2>4. MutualExclusion'
    BY <1>7, <1>c, <1>d, <2>3 DEF Alone
  <2>5. CountersExact'
    BY <1>7, <1>a, <1>d, <2>3, Counting DEF Alone, IInv, TypeOK, CountersExact, WriteUnLock, WRITE_STATE, NOTTING_STATE
  <2>6. [Abstract!Next]_(Abstract!vars)
    BY <2>3 DEF Abstract!vars
  <2>7. QED
    BY <2>1, <2>2, <2>4, <2>5, <2>6 DEF IInv
<1>8. ASSUME NEW t \in Thread, WriteUnLockOwner(t) PROVE IInv' /\ [Abstract!Next]_(Abstract!vars)
  <2>1. TypeOK' /\ NoCrash'
    BY <1>8 DEF IInv, TypeOK, LocalInv, NoCrash, WriteUnLockOwner, Goto, CrashIf, Label, WRITE_STATE, NOTTING_STATE
  <2>2. \A u \in Thread : LocalInv(u)'
    BY <1>8 DEF IInv, TypeOK, LocalInv, MutualExclusion, Writing, Writers, WriteUnLockOwner, Goto, Label
  <2>3. /\ Writers' = Writers
        /\ Readers' = Readers
        /\ Pending' = Pending
    BY <1>8 DEF IInv, TypeOK, LocalInv, MutualExclusion, Writers, Readers, Pending,
       Writing, Reading, WriteUnLockOwner, Goto
  <2>4. MutualExclusion'
    BY <1>8, <1>c, <1>d, <2>3 DEF Alone
  <2>5. CountersExact'
    BY <1>8, <1>a, <1>d, <2>3, Counting DEF Alone, IInv, TypeOK, CountersExact, WriteUnLockOwner, WRITE_STATE, NOTTING_STATE
  <2>6. [Abstract!Next]_(Abstract!vars)
    BY <2>3 DEF Abstract!vars
  <2>7. QED
    BY <2>1, <2>2, <2>4, <2>5, <2>6 DEF IInv
<1>9. ASSUME NEW t \in Thread, WriteUnLockState(t) PROVE IInv' /\ [Abstract!Next]_(Abstract!vars)
  <2>0. Writers = {t} /\ Readers = {}
    BY <1>9, <1>a, <1>d, Counting DEF Alone, IInv, TypeOK, LocalInv, CountersExact, Writers, Readers, Pending,
       Writing, Reading, WriteUnLockState, Goto, WRITE_STATE, NOTTING_STATE
  <2>1. TypeOK' /\ NoCrash'
    BY <1>9, <2>0 DEF IInv, TypeOK, LocalInv, NoCrash, WriteUnLockState, Goto, CrashIf, Label, WRITE_STATE, NOTTING_STATE
  <2>2. \A u \in Thread : LocalInv(u)'
    BY <1>9, <2>0 DEF IInv, TypeOK, LocalInv, MutualExclusion, Writing, Writers, WriteUnLockState, Goto, Label
  <2>3. /\ Writers' = {}
        /\ Readers' = Readers
        /\ Pending' = Pending
    BY <1>9, <2>0 DEF IInv, TypeOK, LocalInv, MutualExclusion, Writers, Readers, Pending,
       Writing, Reading, WriteUnLockState, Goto
  <2>4. MutualExclusion'
    BY <1>9, <2>0, <1>c, <1>d, <2>3 DEF Alone
  <2>5. CountersExact'
    BY Zenon, <1>9, <1>a, <1>d, <2>0, <2>3, Counting DEF Alone, IInv, TypeOK, CountersExact, WriteUnLockState, WRITE_STATE, NOTTING_STATE
  <2>6. [Abstract!Next]_(Abstract!vars)
    BY <2>0, <2>3 DEF Abstract!Next, Abstract!ReleaseWrite
  <2>7. QED
    BY <2>1, <2>2, <2>4, <2>5, <2>6 DEF IInv
<1>10. ASSUME NEW t \in Thread, ReadLockOwned(t) PROVE IInv' /\ [Abstract!Next]_(Abstract!vars)
  <2>1. TypeOK' /\ NoCrash'
    BY <1>10 DEF IInv, TypeOK, LocalInv, NoCrash, ReadLockOwned, Goto, CrashIf, Label, WRITE_STATE, NOTTING_STATE
  <2>2. \A u \in Thread : LocalInv(u)'
    BY <1>10 DEF IInv, TypeOK, LocalInv, MutualExclusion, Writing, Writers, ReadLockOwned, Goto, Label
  <2>3. /\ Writers' = Writers
        /\ Readers' = Readers
        /\ Pending' = Pending
    BY <1>10 DEF IInv, TypeOK, LocalInv, MutualExclusion, Writers, Readers, Pending,
       Writing, Reading, ReadLockOwned, Goto
  <2>4. MutualExclusion'
    BY <1>10, <1>c, <1>d, <2>3 DEF Alone
  <2>5. CountersExact'
    BY <1>10, <1>a, <1>d, <2>3, Counting DEF Alone, IInv, TypeOK, CountersExact, ReadLockOwned, WRITE_STATE, NOTTING_STATE
  <2>6. [Abstract!Next]_(Abstract!vars)
    BY <2>3 DEF Abstract!vars
  <2>7. QED
    BY <2>1, <2>2, <2>4, <2>5, <2>6 DEF IInv
<1>11. ASSUME NEW t \in Thread, ReadLockRequest(t) PROVE IInv' /\ [Abstract!Next]_(Abstract!vars)
  <2>1. TypeOK' /\ NoCrash'
    BY <1>11 DEF IInv, TypeOK, LocalInv, NoCrash, ReadLockRequest, Goto, CrashIf, Label, WRITE_STATE, NOTTING_STATE
  <2>2. \A u \in Thread : LocalInv(u)'
    BY <1>11 DEF IInv, TypeOK, LocalInv, MutualExclusion, Writing, Writers, ReadLockRequest, Goto, Label
  <2>3. /\ Writers' = Writers
        /\ Readers' = Readers
        /\ Pending' = Pending
    BY <1>11 DEF IInv, TypeOK, LocalInv, MutualExclusion, Writers, Readers, Pending,
       Writing, Reading, ReadLockRequest, Goto
  <2>4. MutualExclusion'
    BY <1>11, <1>c, <1>d, <2>3 DEF Alone
  <2>5. CountersExact'
    BY <1>11, <1>a, <1>d, <2>3, Counting DEF Alone, IInv, TypeOK, CountersExact, ReadLockRequest, WRITE_STATE, NOTTING_STATE
  <2>6. [Abstract!Next]_(Abstract!vars)
    BY <2>3 DEF Abstract!vars
  <2>7. QED
    BY <2>1, <2>2, <2>4, <2>5, <2>6 DEF IInv
<1>12. ASSUME NEW t \in Thread, ReadLockPending(t) PROVE IInv' /\ [Abstract!Next]_(Abstract!vars)
  <2>1. TypeOK' /\ NoCrash'
    BY <1>12 DEF IInv, TypeOK, LocalInv, NoCrash, ReadLockPending, Goto, CrashIf, Label, WRITE_STATE, NOTTING_STATE
  <2>2. \A u \in Thread : LocalInv(u)'
    BY <1>12 DEF IInv, TypeOK, LocalInv, MutualExclusion, Writing, Writers, ReadLockPending, Goto, Label
  <2>3. /\ Writers' = Writers
        /\ Readers' = Readers
        /\ Pending' = Pending
    BY <1>12 DEF IInv, TypeOK, LocalInv, MutualExclusion, Writers, Readers, Pending,
       Writing, Reading, ReadLockPending, Goto
  <2>4. MutualExclusion'
    BY <1>12, <1>c, <1>d, <2>3 DEF Alone
  <2>5. CountersExact'
    BY Zenon, <1>12, <1>a, <1>d, <2>3, Counting DEF Alone, IInv, TypeOK, CountersExact, ReadLockPending, WRITE_STATE, NOTTING_STATE
  <2>6. [Abstract!Next]_(Abstract!vars)
    BY <2>3 DEF Abstract!vars
  <2>7. QED
    BY <2>1, <2>2, <2>4, <2>5, <2>6 DEF IInv
<1>13. ASSUME NEW t \in Thread, ReadLockLoad(t) PROVE IInv' /\ [Abstract!Next]_(Abstract!vars)
  <2>0. lockState # WRITE_STATE => lockState >= 0
    BY <1>13, <1>e DEF IInv, CountersExact, ReadLockLoad, WRITE_STATE, NOTTING_STATE
  <2>1. TypeOK' /\ NoCrash'
    BY <1>13, <2>0 DEF IInv, TypeOK, LocalInv, NoCrash, ReadLockLoad, Goto, CrashIf, Label, WRITE_STATE, NOTTING_STATE
  <2>2. \A u \in Thread : LocalInv(u)'
    BY <1>13, <2>0 DEF IInv, TypeOK, LocalInv, MutualExclusion, Writing, Writers, ReadLockLoad, Goto, Label
  <2>3. /\ Writers' = Writers
        /\ Readers' = Readers
        /\ Pending' = Pending
    BY <1>13, <2>0 DEF IInv, TypeOK, LocalInv, MutualExclusion, Writers, Readers, Pending,
       Writing, Reading, ReadLockLoad, Goto
  <2>4. MutualExclusion'
    BY <1>13, <2>0, <1>c, <1>d, <2>3 DEF Alone
  <2>5. CountersExact'
    BY <1>13, <1>a, <1>d, <2>0, <2>3, Counting DEF Alone, IInv, TypeOK, CountersExact, ReadLockLoad, WRITE_STATE, NOTTING_STATE
  <2>6. [Abstract!Next]_(Abstract!vars)
    BY <2>3 DEF Abstract!vars
  <2>7. QED
    BY <2>1, <2>2, <2>4, <2>5, <2>6 DEF IInv
<1>14. ASSUME NEW t \in Thread, ReadLockCas(t) PROVE IInv' /\ [Abstract!Next]_(Abstract!vars)
  <2>0. /\ t \notin Readers
        /\ lockState = expected[t] => Writers = {}
    BY <1>14, <1>a, <1>d, Counting DEF Alone, IInv, TypeOK, LocalInv, CountersExact, Writers, Readers, Pending,
       Writing, Reading, ReadLockCas, Goto, WRITE_STATE, NOTTING_STATE
  <2>1. TypeOK' /\ NoCrash'
    BY <1>14, <2>0 DEF IInv, TypeOK, LocalInv, NoCrash, ReadLockCas, Goto, CrashIf, Label, WRITE_STATE, NOTTING_STATE
  <2>2. \A u \in Thread : LocalInv(u)'
    BY <1>14, <2>0 DEF IInv, TypeOK, LocalInv, MutualExclusion, Writing, Writers, ReadLockCas, Goto, Label
  <2>3. /\ Writers' = Writers
        /\ Readers' = IF lockState = expected[t] THEN Readers \union {t} ELSE Readers
        /\ Pending' = Pending
    BY <1>14, <2>0 DEF IInv, TypeOK, LocalInv, MutualExclusion, Writers, Readers, Pending,
       Writing, Reading, ReadLockCas, Goto
  <2>4. MutualExclusion'
    BY <1>14, <2>0, <1>c, <1>d, <2>3 DEF Alone
  <2>5. CountersExact'
    BY <1>14, <1>a, <1>d, <2>0, <2>3, Counting DEF Alone, IInv, TypeOK, CountersExact, ReadLockCas, WRITE_STATE, NOTTING_STATE
  <2>6. [Abstract!Next]_(Abstract!vars)
    BY <1>14, <2>0, <2>3 DEF Abstract!Next, Abstract!vars, Abstract!AcquireRead
  <2>7. QED
    BY <2>1, <2>2, <2>4, <2>5, <2>6 DEF IInv
<1>15. ASSUME NEW t \in Thread, ReadUnLock(t) PROVE IInv' /\ [Abstract!Next]_(Abstract!vars)
  <2>0. ownerThreadId # t => t \in Readers /\ Writers = {} /\ lockState > 0
    <3>1. ownerThreadId # t => t \in Readers
      BY <1>15 DEF IInv, TypeOK, LocalInv, Readers, Writing, Reading, ReadUnLock, Goto
    <3>2. QED
      BY <1>d, <1>e, <3>1 DEF Alone, IInv, CountersExact
  <2>1. TypeOK' /\ NoCrash'
    BY <1>15, <2>0 DEF IInv, TypeOK, LocalInv, NoCrash, ReadUnLock, Goto, CrashIf, Label, WRITE_STATE, NOTTING_STATE
  <2>2. \A u \in Thread : LocalInv(u)'
    BY <1>15, <2>0 DEF IInv, TypeOK, LocalInv, MutualExclusion, Writing, Writers, ReadUnLock, Goto, Label
  <2>3. /\ Writers' = Writers
        /\ Readers' = IF ownerThreadId = t THEN Readers ELSE Readers \ {t}
        /\ Pending' = Pending
    BY <1>15, <2>0 DEF IInv, TypeOK, LocalInv, MutualExclusion, Writers, Readers, Pending,
       Writing, Reading, ReadUnLock, Goto
  <2>4. MutualExclusion'
    BY <1>15, <2>0, <1>c, <1>d, <2>3 DEF Alone
  <2>5. CountersExact'
    BY <1>15, <1>a, <1>d, <2>0, <2>3, Counting DEF Alone, IInv, TypeOK, CountersExact, ReadUnLock, WRITE_STATE, NOTTING_STATE
  <2>6. [Abstract!Next]_(Abstract!vars)
    BY <1>15, <2>0, <2>3 DEF Abstract!Next, Abstract!vars, Abstract!ReleaseRead
  <2>7. QED
    BY <2>1, <2>2, <2>4, <2>5, <2>6 DEF IInv
<1>16. CASE UNCHANGED vars
  BY <1>16 DEF vars, IInv, TypeOK, LocalInv, MutualExclusion, CountersExact, NoCrash,
     Writers, Readers, Pending, Writing, Reading, Abstract!vars
<1>17. QED
  BY <1>1, <1>2, <1>3, <1>4, <1>5, <1>6, <1>7, <1>8, <1>9, <1>10, <1>11, <1>12, <1>13, <1>14, <1>15, <1>16
  DEF Next, WriteLock, ReadLock

(* The words of the lock and its threads' locals keep their types.          *)
THEOREM TypeCorrect == Spec => []TypeOK
<1>1. IInv => TypeOK
  BY DEF IInv
<1>2. QED
  BY InitInv, StepInv, <1>1, PTL DEF Spec

(* Whatever the interleaving of WriteLock, WriteUnLock, ReadLock and        *)
(* ReadUnLock, a writer is alone.                                           *)
THEOREM Exclusion == Spec => []MutualExclusion
<1>1. IInv => MutualExclusion
  BY DEF IInv
<1>2. QED
  BY InitInv, StepInv, <1>1, PTL DEF Spec

(* _lockState counts the readers and _writerPending the waiting writers     *)
(* exactly, in every state.                                                 *)
THEOREM Counters == Spec => []CountersExact
<1>1. IInv => CountersExact
  BY DEF IInv
<1>2. QED
  BY InitInv, StepInv, <1>1, PTL DEF Spec

(* No unlock of a release build reaches a CRASH.                            *)
THEOREM CrashFree == Spec => []NoCrash
<1>1. IInv => NoCrash
  BY DEF IInv
<1>2. QED
  BY InitInv, StepInv, <1>1, PTL DEF Spec

(* The lock of Lock.cpp implements the atomic read-write lock, the          *)
(* compare-exchanges being the instants at which it is taken.               *)
THEOREM Refinement == Spec => ImplementsAbstract
<1>1. Init => Abstract!Init
  BY DEF Init, Abstract!Init, Writers, Readers, Writing, Reading
<1>2. QED
  BY InitInv, StepInv, <1>1, PTL DEF Spec, Abstract!Spec, ImplementsAbstract
===============================================================================
