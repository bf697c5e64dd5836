------------------------------- MODULE RWLock ---------------------------------
(***************************************************************************)
(* ServerCore/Lock.cpp: the recursive read-write spin lock every shared    *)
(* structure of the server and the client is guarded by.                   *)
(*                                                                         *)
(* One step is one access to one of the four atomics (all of them use the  *)
(* default sequentially consistent order).  Two accesses are merged only   *)
(* when the first is the test _ownerThreadId = LThreadId: no other thread  *)
(* can change the outcome of that test.  A failed compare-exchange of      *)
(* WriteLock changes nothing and is the absence of a step.                 *)
(*                                                                         *)
(* Callers use the scope guards of Lock.h, so a thread releases what it    *)
(* took, and releases its last write guard only after the read guards      *)
(* taken inside it.  No caller takes a second read guard outside a write   *)
(* section.                                                                *)
(***************************************************************************)
EXTENDS Integers, FiniteSets

CONSTANTS
    Thread,     \* the threads (LThreadId)
    NoThread,   \* the value -1 of _ownerThreadId
    MaxDepth,   \* bound on the guards of one kind a thread nests
    Upgrade,    \* may a caller ask for the write lock inside a read guard?
    Debug       \* is _DEBUG defined?

ASSUME LockAssumption ==
    /\ IsFiniteSet(Thread)
    /\ NoThread \notin Thread
    /\ MaxDepth \in Nat \ {0}
    /\ Upgrade \in BOOLEAN
    /\ Debug \in BOOLEAN

WRITE_STATE == -1
NOTTING_STATE == 0

VARIABLES
    lockState,        \* _lockState: WRITE_STATE, NOTTING_STATE or the number of readers
    ownerThreadId,    \* _ownerThreadId
    writeRecursion,   \* _writeRecursion
    writerPending,    \* _writerPending
    pc,               \* where each thread is inside Lock.cpp
    expected,         \* the local of ReadLock's compare-exchange
    writes,           \* write guards each thread holds
    reads,            \* read guards each thread holds (_readDepthArray in _DEBUG)
    process           \* "running", or "crashed" once a CRASH was executed

vars == <<lockState, ownerThreadId, writeRecursion, writerPending, pc,
          expected, writes, reads, process>>

Label == {"idle", "w_spin", "w_owner", "w_recursion", "w_pending",
          "u_owner", "u_state", "r_pending", "r_load", "r_cas"}

Init ==
    /\ lockState = NOTTING_STATE
    /\ ownerThreadId = NoThread
    /\ writeRecursion = 0
    /\ writerPending = 0
    /\ pc = [t \in Thread |-> "idle"]
    /\ expected = [t \in Thread |-> 0]
    /\ writes = [t \in Thread |-> 0]
    /\ reads = [t \in Thread |-> 0]
    /\ process = "running"

Goto(t, from, to) ==
    /\ process = "running"
    /\ pc[t] = from
    /\ pc' = [pc EXCEPT ![t] = to]

(* CRASH ends the process; what the failing call still does is of no interest. *)
CrashIf(condition) == process' = IF condition THEN "crashed" ELSE "running"

-------------------------------------------------------------------------------
(* WriteLock *)

WriteLockRecursive(t) ==
    /\ Goto(t, "idle", "idle")
    /\ writes[t] < MaxDepth
    /\ ownerThreadId = t
    /\ CrashIf(Debug /\ reads[t] # 0)
    /\ writeRecursion' = writeRecursion + 1
    /\ writes' = [writes EXCEPT ![t] = @ + 1]
    /\ UNCHANGED <<lockState, ownerThreadId, writerPending, expected, reads>>

WriteLockRequest(t) ==
    /\ Goto(t, "idle", "w_spin")
    /\ ownerThreadId # t
    /\ reads[t] = 0 \/ Upgrade
    /\ writerPending' = writerPending + 1
    /\ UNCHANGED <<lockState, ownerThreadId, writeRecursion, expected, writes, reads, process>>

(* Mutant: any state but WRITE_STATE is taken, readers included. *)
M_WriteLockCas(t) ==
    /\ Goto(t, "w_spin", "w_owner")
    /\ lockState # WRITE_STATE
    /\ lockState' = WRITE_STATE
    /\ UNCHANGED <<ownerThreadId, writeRecursion, writerPending, expected, writes, reads, process>>

WriteLockCas(t) ==
    /\ Goto(t, "w_spin", "w_owner")
    /\ lockState = NOTTING_STATE
    /\ lockState' = WRITE_STATE
    /\ UNCHANGED <<ownerThreadId, writeRecursion, writerPending, expected, writes, reads, process>>

WriteLockOwner(t) ==
    /\ Goto(t, "w_owner", "w_recursion")
    /\ ownerThreadId' = t
    /\ UNCHANGED <<lockState, writeRecursion, writerPending, expected, writes, reads, process>>

(* Mutant: the recursion count is not set by the first lock. *)
M_WriteLockRecursion(t) ==
    /\ Goto(t, "w_recursion", "w_pending")
    /\ UNCHANGED <<lockState, ownerThreadId, writeRecursion, writerPending, expected, writes, reads, process>>

WriteLockRecursion(t) ==
    /\ Goto(t, "w_recursion", "w_pending")
    /\ writeRecursion' = 1
    /\ UNCHANGED <<lockState, ownerThreadId, writerPending, expected, writes, reads, process>>

WriteLockReturn(t) ==
    /\ Goto(t, "w_pending", "idle")
    /\ writerPending' = writerPending - 1
    /\ writes' = [writes EXCEPT ![t] = @ + 1]
    /\ UNCHANGED <<lockState, ownerThreadId, writeRecursion, expected, reads, process>>
-------------------------------------------------------------------------------
(* WriteUnLock, called by the destructor of a WriteLockGuard *)

WriteUnLock(t) ==
    /\ writes[t] > 0
    /\ writes[t] = 1 => reads[t] = 0
    /\ Goto(t, "idle", IF writeRecursion = 1 THEN "u_owner" ELSE "idle")
    /\ CrashIf(ownerThreadId # t \/ writeRecursion = 0)
    /\ writeRecursion' = writeRecursion - 1
    /\ writes' = [writes EXCEPT ![t] = @ - 1]
    /\ UNCHANGED <<lockState, ownerThreadId, writerPending, expected, reads>>

WriteUnLockOwner(t) ==
    /\ Goto(t, "u_owner", "u_state")
    /\ ownerThreadId' = NoThread
    /\ UNCHANGED <<lockState, writeRecursion, writerPending, expected, writes, reads, process>>

WriteUnLockState(t) ==
    /\ Goto(t, "u_state", "idle")
    /\ lockState' = NOTTING_STATE
    /\ UNCHANGED <<ownerThreadId, writeRecursion, writerPending, expected, writes, reads, process>>
-------------------------------------------------------------------------------
(* ReadLock *)

ReadLockOwned(t) ==
    /\ Goto(t, "idle", "idle")
    /\ ownerThreadId = t
    /\ reads[t] < MaxDepth
    /\ reads' = [reads EXCEPT ![t] = @ + 1]
    /\ UNCHANGED <<lockState, ownerThreadId, writeRecursion, writerPending, expected, writes, process>>

ReadLockRequest(t) ==
    /\ Goto(t, "idle", "r_pending")
    /\ ownerThreadId # t
    /\ reads[t] = 0
    /\ UNCHANGED <<lockState, ownerThreadId, writeRecursion, writerPending, expected, writes, reads, process>>

(* Mutant: readers do not give way to pending writers. *)
M_ReadLockPending(t) ==
    /\ Goto(t, "r_pending", "r_load")
    /\ UNCHANGED <<lockState, ownerThreadId, writeRecursion, writerPending, expected, writes, reads, process>>

ReadLockPending(t) ==
    /\ writerPending = 0
    /\ Goto(t, "r_pending", "r_load")
    /\ UNCHANGED <<lockState, ownerThreadId, writeRecursion, writerPending, expected, writes, reads, process>>

ReadLockLoad(t) ==
    /\ Goto(t, "r_load", IF lockState = WRITE_STATE THEN "r_pending" ELSE "r_cas")
    /\ expected' = [expected EXCEPT ![t] = IF lockState = WRITE_STATE THEN 0 ELSE lockState]
    /\ UNCHANGED <<lockState, ownerThreadId, writeRecursion, writerPending, writes, reads, process>>

(* Mutant: a plain store of expected + 1 instead of a compare-exchange. *)
M_ReadLockCas(t) ==
    /\ Goto(t, "r_cas", "idle")
    /\ lockState' = expected[t] + 1
    /\ reads' = [reads EXCEPT ![t] = @ + 1]
    /\ expected' = [expected EXCEPT ![t] = 0]
    /\ UNCHANGED <<ownerThreadId, writeRecursion, writerPending, writes, process>>

ReadLockCas(t) ==
    /\ Goto(t, "r_cas", IF lockState = expected[t] THEN "idle" ELSE "r_pending")
    /\ IF lockState = expected[t]
       THEN /\ lockState' = lockState + 1
            /\ reads' = [reads EXCEPT ![t] = @ + 1]
       ELSE UNCHANGED <<lockState, reads>>
    /\ expected' = [expected EXCEPT ![t] = 0]
    /\ UNCHANGED <<ownerThreadId, writeRecursion, writerPending, writes, process>>

(* ReadUnLock, called by the destructor of a ReadLockGuard *)
ReadUnLock(t) ==
    /\ reads[t] > 0
    /\ Goto(t, "idle", "idle")
    /\ reads' = [reads EXCEPT ![t] = @ - 1]
    /\ IF ownerThreadId = t
       THEN UNCHANGED <<lockState, process>>
       ELSE /\ lockState' = lockState - 1
            /\ CrashIf(lockState <= 0)
    /\ UNCHANGED <<ownerThreadId, writeRecursion, writerPending, expected, writes>>
-------------------------------------------------------------------------------
WriteLock(t) ==
    \/ WriteLockCas(t) \/ WriteLockOwner(t) \/ WriteLockRecursion(t) \/ WriteLockReturn(t)

ReadLock(t) == ReadLockPending(t) \/ ReadLockLoad(t) \/ ReadLockCas(t)

Next == \E t \in Thread :
    \/ WriteLockRecursive(t) \/ WriteLockRequest(t) \/ WriteLock(t)
    \/ WriteUnLock(t) \/ WriteUnLockOwner(t) \/ WriteUnLockState(t)
    \/ ReadLockOwned(t) \/ ReadLockRequest(t) \/ ReadLock(t) \/ ReadUnLock(t)

Spec == Init /\ [][Next]_vars

(* Threads keep being scheduled, and critical sections are finite: whatever  *)
(* guards a thread nests, it is again and again outside all of them.  A      *)
(* thread is never obliged to ask for the lock.                              *)
Fairness == \A t \in Thread :
    /\ WF_vars(WriteLock(t)) /\ WF_vars(ReadLock(t))
    /\ WF_vars(WriteUnLockOwner(t) \/ WriteUnLockState(t))
    /\ []<>(writes[t] = 0 /\ reads[t] = 0)

FairSpec == Spec /\ Fairness
-------------------------------------------------------------------------------
Writing(t) ==
    \/ writes[t] > 0
    \/ pc[t] \in {"w_owner", "w_recursion", "w_pending", "u_owner", "u_state"}

Reading(t) == reads[t] > 0 /\ ~Writing(t)

Writers == {t \in Thread : Writing(t)}
Readers == {t \in Thread : Reading(t)}
Pending == {t \in Thread : pc[t] \in {"w_spin", "w_owner", "w_recursion", "w_pending"}}

Abstract == INSTANCE AbstractRWLock WITH writers <- Writers, readers <- Readers

(* The words of the lock and the locals of its threads have their types.    *)
TypeOK ==
    /\ lockState \in Int
    /\ ownerThreadId \in Thread \union {NoThread}
    /\ writeRecursion \in Int
    /\ writerPending \in Int
    /\ pc \in [Thread -> Label]
    /\ expected \in [Thread -> Int]
    /\ writes \in [Thread -> Nat]
    /\ reads \in [Thread -> Nat]
    /\ process \in {"running", "crashed"}

(* A thread inside a write section (from its compare-exchange in WriteLock  *)
(* to its exchange in WriteUnLock) is alone: nobody else writes or reads.   *)
MutualExclusion ==
    \A t, u \in Thread : t # u /\ Writing(t) => ~Writing(u) /\ ~Reading(u)

(* _lockState, the one word all decisions are taken on, always tells how    *)
(* many threads read or that one writes, and _writerPending how many        *)
(* writers wait: no interleaving of the two counters' updates is lost.      *)
CountersExact ==
    /\ lockState = IF Writers # {} THEN WRITE_STATE ELSE Cardinality(Readers)
    /\ writerPending = Cardinality(Pending)

(* With scope guards, a release build never reaches the CRASH calls of      *)
(* WriteUnLock and ReadUnLock (invalid unlock, write recursion underflow,   *)
(* lockState underflow).                                                    *)
NoCrash == process = "crashed" => Debug

(* Every step of the code is a step of the atomic lock or invisible.        *)
ImplementsAbstract == Abstract!Spec

(* Line 74: a waiting writer has priority, so readers that keep coming      *)
(* cannot starve it: whenever some thread spins in WriteLock, a             *)
(* compare-exchange of WriteLock eventually succeeds.                       *)
ReadersCannotStarveWriters ==
    (\E t \in Thread : pc[t] = "w_spin") ~> (\E t \in Thread : pc[t] = "w_owner")
===============================================================================
