------------------------ MODULE ImpersonationProofs ------------------------
(* Proofs about Impersonation, for any set of goroutines, threads and      *)
(* tokens, any nesting and any number of failed reverts.                   *)
EXTENDS Impersonation, TLAPS

USE TokensAssumption, ThreadsAssumption, MaxDepthAssumption

\* Before the first call no thread impersonates and nothing is locked.
LEMMA InitInv == Init => IInv
  BY DEF Init, IInv, TypeOK, Exclusive, LockCount, Tainted, ScopeInv, Real, None

\* The counters of a goroutine are numbers.
LEMMA Counts ==
  ASSUME IInv, NEW g \in Goroutines
  PROVE  /\ depth[g] \in Nat /\ failed[g] \in Nat /\ lock[g] \in Nat
         /\ pc[g] \in {"run", "set", "revert", "unlock", "exited"}
  BY DEF IInv, TypeOK

\* A goroutine without the thread lock is in no closure and failed no revert.
LEMMA Unlocked ==
  ASSUME IInv, NEW g \in Goroutines, lock[g] = 0, pc[g] # "exited"
  PROVE  pc[g] = "run" /\ depth[g] = 0 /\ failed[g] = 0
  <1>1. CASE pc[g] = "set" BY <1>1, Counts DEF IInv, LockCount
  <1>2. CASE pc[g] \in {"run", "revert", "unlock"}
    <2>1. lock[g] = depth[g] + failed[g] BY <1>2 DEF IInv, LockCount
    <2>2. depth[g] = 0 /\ failed[g] = 0 BY <2>1, Counts
    <2>3. pc[g] \notin {"revert", "unlock"} BY <2>2 DEF IInv, LockCount
    <2>4. QED BY <1>2, <2>2, <2>3
  <1>3. QED BY <1>1, <1>2, Counts

\* The scheduler may move a goroutine off its thread only without the lock,
\* and then, by LockCount, it is in no closure and failed no revert.
LEMMA ParkInv == ASSUME IInv, NEW g \in Goroutines, Park(g) PROVE IInv'
  <1> USE DEF IInv
  <1>1. depth[g] = 0 /\ failed[g] = 0 /\ pc[g] = "run"
    BY Unlocked DEF LockCount, Park
  <1>2. TypeOK' BY DEF TypeOK, Park
  <1>3. Exclusive' BY DEF TypeOK, Exclusive, Park
  <1>4. LockCount' BY DEF TypeOK, LockCount, Park
  <1>5. Tainted' BY <1>1 DEF TypeOK, Tainted, Park
  <1>6. ScopeInv' BY <1>1 DEF TypeOK, ScopeInv, Park
  <1>7. QED BY <1>2, <1>3, <1>4, <1>5, <1>6

LEMMA ResumeInv ==
  ASSUME IInv, NEW g \in Goroutines, NEW t \in Threads, Resume(g, t) PROVE IInv'
  <1> USE DEF IInv
  <1>0. lock[g] = 0 BY Counts DEF LockCount, Resume
  <1>1. depth[g] = 0 BY <1>0, Unlocked DEF Resume
  <1>2. TypeOK' BY DEF TypeOK, Resume
  <1>3. Exclusive' BY DEF TypeOK, Exclusive, Resume, Free
  <1>4. LockCount' BY DEF TypeOK, LockCount, Resume
  <1>5. Tainted' BY DEF TypeOK, Tainted, Resume
  <1>6. ScopeInv' BY <1>1 DEF TypeOK, ScopeInv, Resume
  <1>7. QED BY <1>2, <1>3, <1>4, <1>5, <1>6

\* A goroutine that exits with a thread it could not clean takes it along.
LEMMA ExitInv == ASSUME IInv, NEW g \in Goroutines, Exit(g) PROVE IInv'
  <1> USE DEF IInv
  <1>1. TypeOK' BY DEF TypeOK, Exit
  <1>2. Exclusive' BY DEF TypeOK, Exclusive, Exit
  <1>3. LockCount' BY DEF TypeOK, LockCount, Exit
  <1>4. Tainted'
    <2> SUFFICES ASSUME NEW t \in Threads, t \notin dead', eff'[t] # Real
                 PROVE  \E h \in Goroutines :
                          on'[h] = t /\ depth'[h] + failed'[h] > 0 /\ pc'[h] # "unlock"
      BY DEF Tainted
    <2>1. PICK h \in Goroutines : on[h] = t /\ depth[h] + failed[h] > 0 /\ pc[h] # "unlock"
      BY DEF Tainted, Exit
    <2>2. h # g BY <2>1 DEF TypeOK, LockCount, Exit
    <2>3. QED BY <2>1, <2>2 DEF TypeOK, Exit
  <1>5. ScopeInv' BY DEF TypeOK, ScopeInv, Exit
  <1>6. QED BY <1>1, <1>2, <1>3, <1>4, <1>5

LEMMA EnterInv ==
  ASSUME IInv, NEW g \in Goroutines, NEW k \in Tokens, Enter(g, k) PROVE IInv'
  <1> USE DEF IInv, LockOSThread
  <1>1. TypeOK' BY DEF TypeOK, Enter
  <1>2. Exclusive' BY DEF TypeOK, Exclusive, Enter
  <1>3. LockCount' BY DEF TypeOK, LockCount, Enter
  <1>4. Tainted' BY DEF TypeOK, Tainted, Enter
  <1>5. ScopeInv' BY DEF TypeOK, ScopeInv, Enter
  <1>6. QED BY <1>1, <1>2, <1>3, <1>4, <1>5

\* The thread whose token is set is the goroutine's own: no other closure
\* sees it change.
LEMMA SetInv == ASSUME IInv, NEW g \in Goroutines, Set(g) PROVE IInv'
  <1> USE DEF IInv
  <1>1. /\ on[g] \in Threads /\ depth[g] + 1 \in 1 .. MaxDepth
        /\ \A h \in Goroutines : h # g => on[h] # on[g]
    BY DEF TypeOK, Exclusive, LockCount, Set
  <1>2. TypeOK'
    <2>1. scope' \in [Goroutines -> [1 .. MaxDepth -> Tokens \cup {Real}]]
      BY <1>1 DEF TypeOK, Set
    <2>2. QED BY <1>1, <2>1 DEF TypeOK, Set
  <1>3. Exclusive' BY DEF TypeOK, Exclusive, Set
  <1>4. LockCount'
    <2>1. /\ pc[g] = "set" /\ pc'[g] = "run" /\ on'[g] = on[g] /\ lock'[g] = lock[g]
          /\ depth'[g] = depth[g] + 1 /\ failed'[g] = failed[g]
      BY DEF TypeOK, Set
    <2>2. lock[g] = depth[g] + failed[g] + 1 /\ on[g] # None BY <2>1 DEF LockCount, Set
    <2>3. lock'[g] = depth'[g] + failed'[g] BY <2>1, <2>2, Counts
    <2>4. \A h \in Goroutines : h # g =>
            /\ pc'[h] = pc[h] /\ on'[h] = on[h] /\ lock'[h] = lock[h]
            /\ depth'[h] = depth[h] /\ failed'[h] = failed[h]
      BY DEF TypeOK, Set
    <2>5. QED BY <2>1, <2>2, <2>3, <2>4 DEF LockCount
  <1>5. Tainted'
    <2> SUFFICES ASSUME NEW t \in Threads, t \notin dead', eff'[t] # Real
                 PROVE  \E h \in Goroutines :
                          on'[h] = t /\ depth'[h] + failed'[h] > 0 /\ pc'[h] # "unlock"
      BY DEF Tainted
    <2>1. CASE t = on[g] BY <1>1, <2>1 DEF TypeOK, Set
    <2>2. CASE t # on[g]
      <3>1. PICK h \in Goroutines : on[h] = t /\ depth[h] + failed[h] > 0 /\ pc[h] # "unlock"
        BY <2>2, <1>1 DEF TypeOK, Tainted, Set
      <3>2. h # g BY <2>2, <3>1
      <3>3. QED BY <3>1, <3>2 DEF TypeOK, Set
    <2>3. QED BY <2>1, <2>2
  <1>6. ScopeInv'
    <2> SUFFICES ASSUME NEW h \in Goroutines, pc'[h] \in {"run", "set", "revert"},
                        depth'[h] > 0, fresh'[h] = "yes"
                 PROVE  eff'[on'[h]] = scope'[h][depth'[h]]
      BY DEF ScopeInv
    <2>1. CASE h = g
      <3>1. eff'[on'[g]] = arg[g] BY <1>1 DEF TypeOK, Set
      <3>2. depth'[g] = depth[g] + 1 BY DEF TypeOK, Set
      <3>3. scope'[g][depth[g] + 1] = arg[g] BY <1>1 DEF TypeOK, Set
      <3>4. QED BY <2>1, <3>1, <3>2, <3>3
    <2>2. CASE h # g
      <3>1. /\ pc'[h] = pc[h] /\ depth'[h] = depth[h] /\ fresh'[h] = fresh[h]
            /\ scope'[h] = scope[h] /\ on'[h] = on[h]
        BY <2>2 DEF TypeOK, Set
      <3>2. lock[h] > 0 /\ on[h] # on[g] /\ on[h] \in Threads
        BY <1>1, <2>2, <3>1 DEF TypeOK, LockCount
      <3>3. eff'[on[h]] = eff[on[h]] BY <3>2 DEF TypeOK, Set
      <3>4. QED BY <3>1, <3>3 DEF ScopeInv
    <2>3. QED BY <2>1, <2>2
  <1>7. QED BY <1>2, <1>3, <1>4, <1>5, <1>6

LEMMA SetFailsInv == ASSUME IInv, NEW g \in Goroutines, SetFails(g) PROVE IInv'
  <1> USE DEF IInv, UnlockOSThread
  <1>1. TypeOK' BY DEF TypeOK, SetFails
  <1>2. Exclusive' BY DEF TypeOK, Exclusive, SetFails
  <1>3. LockCount' BY DEF TypeOK, LockCount, SetFails
  <1>4. Tainted' BY DEF TypeOK, Tainted, SetFails
  <1>5. ScopeInv' BY DEF TypeOK, ScopeInv, SetFails
  <1>6. QED BY <1>1, <1>2, <1>3, <1>4, <1>5

LEMMA FnEndsInv == ASSUME IInv, NEW g \in Goroutines, FnEnds(g) PROVE IInv'
  <1> USE DEF IInv
  <1>1. TypeOK' BY DEF TypeOK, FnEnds
  <1>2. Exclusive' BY DEF TypeOK, Exclusive, FnEnds
  <1>3. LockCount' BY DEF TypeOK, LockCount, FnEnds
  <1>4. Tainted' BY DEF TypeOK, Tainted, FnEnds
  <1>5. ScopeInv' BY DEF TypeOK, ScopeInv, FnEnds
  <1>6. QED BY <1>1, <1>2, <1>3, <1>4, <1>5

\* The revert acts on the thread the token was set on: the lock kept it.
LEMMA RevertInv == ASSUME IInv, NEW g \in Goroutines, Revert(g) PROVE IInv'
  <1> USE DEF IInv
  <1>1. on[g] \in Threads /\ \A h \in Goroutines : h # g => on[h] # on[g]
    BY DEF TypeOK, Exclusive, Revert
  <1>2. TypeOK' BY <1>1 DEF TypeOK, Revert
  <1>3. Exclusive' BY DEF TypeOK, Exclusive, Revert
  <1>4. LockCount' BY DEF TypeOK, LockCount, Revert
  <1>5. Tainted' BY <1>1 DEF TypeOK, Tainted, Revert
  <1>6. ScopeInv'
    <2> SUFFICES ASSUME NEW h \in Goroutines, pc'[h] \in {"run", "set", "revert"},
                        depth'[h] > 0, fresh'[h] = "yes"
                 PROVE  eff'[on'[h]] = scope'[h][depth'[h]]
      BY DEF ScopeInv
    <2>1. h # g BY DEF TypeOK, Revert
    <2>2. lock[h] > 0 /\ on[h] # on[g] /\ on[h] \in Threads
      BY <1>1, <2>1 DEF TypeOK, LockCount, Revert
    <2>3. eff'[on[h]] = eff[on[h]] BY <2>2 DEF TypeOK, Revert
    <2>4. QED BY <2>1, <2>3 DEF TypeOK, ScopeInv, Revert
  <1>7. QED BY <1>2, <1>3, <1>4, <1>5, <1>6

\* The thread left behind was reverted, so that nobody needs to hold it.
LEMMA UnlockInv == ASSUME IInv, NEW g \in Goroutines, Unlock(g) PROVE IInv'
  <1> USE DEF IInv, UnlockOSThread, Leave
  <1>1. TypeOK' BY DEF TypeOK, LockCount, Unlock
  <1>2. Exclusive' BY DEF TypeOK, Exclusive, Unlock
  <1>3. LockCount' BY DEF TypeOK, LockCount, Unlock
  <1>4. Tainted'
    <2> SUFFICES ASSUME NEW t \in Threads, t \notin dead', eff'[t] # Real
                 PROVE  \E h \in Goroutines :
                          on'[h] = t /\ depth'[h] + failed'[h] > 0 /\ pc'[h] # "unlock"
      BY DEF Tainted
    <2>1. PICK h \in Goroutines : on[h] = t /\ depth[h] + failed[h] > 0 /\ pc[h] # "unlock"
      BY DEF Tainted, Unlock
    <2>2. h # g BY <2>1 DEF Unlock
    <2>3. QED BY <2>1, <2>2 DEF TypeOK, Unlock
  <1>5. ScopeInv' BY DEF TypeOK, ScopeInv, Unlock
  <1>6. QED BY <1>1, <1>2, <1>3, <1>4, <1>5

\* A failed revert moves one lock from the closures to the failures.
LEMMA RevertFailsInv == ASSUME IInv, NEW g \in Goroutines, RevertFails(g) PROVE IInv'
  <1> USE DEF IInv, Leave
  <1>1. TypeOK' BY DEF TypeOK, LockCount, RevertFails
  <1>2. Exclusive' BY DEF TypeOK, Exclusive, RevertFails
  <1>3. LockCount'
    <2>1. /\ pc[g] = "revert" /\ pc'[g] = "run" /\ on'[g] = on[g] /\ lock'[g] = lock[g]
          /\ depth'[g] = depth[g] - 1 /\ failed'[g] = failed[g] + 1
      BY DEF TypeOK, RevertFails
    <2>2. lock[g] = depth[g] + failed[g] /\ on[g] # None /\ depth[g] > 0
      BY <2>1 DEF LockCount, RevertFails
    <2>3. lock'[g] = depth'[g] + failed'[g] BY <2>1, <2>2, Counts
    <2>4. \A h \in Goroutines : h # g =>
            /\ pc'[h] = pc[h] /\ on'[h] = on[h] /\ lock'[h] = lock[h]
            /\ depth'[h] = depth[h] /\ failed'[h] = failed[h]
      BY DEF TypeOK, RevertFails
    <2>5. QED BY <2>1, <2>2, <2>3, <2>4 DEF LockCount
  <1>4. Tainted'
    <2> SUFFICES ASSUME NEW t \in Threads, t \notin dead', eff'[t] # Real
                 PROVE  \E h \in Goroutines :
                          on'[h] = t /\ depth'[h] + failed'[h] > 0 /\ pc'[h] # "unlock"
      BY DEF Tainted
    <2>1. PICK h \in Goroutines : on[h] = t /\ depth[h] + failed[h] > 0 /\ pc[h] # "unlock"
      BY DEF Tainted, RevertFails
    <2>2. CASE h = g
      <3>1. failed'[h] = failed[h] + 1 /\ depth'[h] = depth[h] - 1 /\ depth[h] > 0
        BY <2>2 DEF TypeOK, LockCount, RevertFails
      <3>2. depth'[h] + failed'[h] > 0 BY <3>1, Counts
      <3>3. QED BY <2>1, <2>2, <3>2 DEF TypeOK, RevertFails
    <2>3. CASE h # g BY <2>1, <2>3 DEF TypeOK, RevertFails
    <2>4. QED BY <2>2, <2>3
  <1>5. ScopeInv' BY DEF TypeOK, ScopeInv, RevertFails
  <1>6. QED BY <1>1, <1>2, <1>3, <1>4, <1>5

LEMMA NextInv == IInv /\ [Next]_vars => IInv'
  <1> SUFFICES ASSUME IInv, [Next]_vars PROVE IInv' OBVIOUS
  <1>1. CASE UNCHANGED vars
    BY <1>1 DEF vars, IInv, TypeOK, Exclusive, LockCount, Tainted, ScopeInv
  <1>2. CASE Next
    <2>1. PICK g \in Goroutines : Step(g) BY <1>2 DEF Next
    <2>2. CASE Park(g) BY <2>2, ParkInv
    <2>3. CASE Exit(g) BY <2>3, ExitInv
    <2>4. CASE \E t \in Threads : Resume(g, t) BY <2>4, ResumeInv
    <2>5. CASE \E k \in Tokens : Enter(g, k) BY <2>5, EnterInv
    <2>6. CASE Set(g) BY <2>6, SetInv
    <2>7. CASE SetFails(g) BY <2>7, SetFailsInv
    <2>8. CASE FnEnds(g) BY <2>8, FnEndsInv
    <2>9. CASE Revert(g) BY <2>9, RevertInv
    <2>10. CASE Unlock(g) BY <2>10, UnlockInv
    <2>11. CASE RevertFails(g) BY <2>11, RevertFailsInv
    <2>12. QED
      BY <2>1, <2>2, <2>3, <2>4, <2>5, <2>6, <2>7, <2>8, <2>9, <2>10, <2>11 DEF Step
  <1>3. QED BY <1>1, <1>2

-----------------------------------------------------------------------------
\* Threads, locks and tokens keep their relation through every call of
\* impersonateScoped and every move of the scheduler.
THEOREM Invariance == Spec => []IInv
  BY InitInv, NextInv, PTL DEF Spec

\* "Rather than rejoining the pool still impersonating": no thread that a
\* goroutine may be scheduled on impersonates.
THEOREM PoolNeverImpersonates == Spec => []PoolClean
  <1>1. IInv => PoolClean
    <2> SUFFICES ASSUME IInv, NEW t \in Threads, t \notin dead, eff[t] # Real,
                        \A g \in Goroutines : on[g] = t => lock[g] = 0
                 PROVE  FALSE
      BY DEF PoolClean
    <2>1. PICK g \in Goroutines : on[g] = t /\ depth[g] + failed[g] > 0 /\ pc[g] # "unlock"
      BY DEF IInv, Tainted
    <2>2. pc[g] # "exited" BY <2>1 DEF IInv, LockCount
    <2>3. QED BY <2>1, <2>2, Unlocked, Counts
  <1>2. QED BY <1>1, Invariance, PTL

\* Every path through impersonateScoped whose revert succeeds undoes its
\* LockOSThread.
THEOREM LocksAreUndone == Spec => []ThreadReleased
  <1>1. IInv => ThreadReleased
    BY DEF IInv, TypeOK, LockCount, ThreadReleased
  <1>2. QED BY <1>1, Invariance, PTL

\* fn runs under the token it was called with, up to a nested call.
THEOREM ClosureRunsAsToken == Spec => []InnermostEffective
  <1>1. IInv => InnermostEffective
    BY DEF IInv, ScopeInv, InnermostEffective
  <1>2. QED BY <1>1, Invariance, PTL
=============================================================================
