------------------------- MODULE TransactionProofs -------------------------
(***************************************************************************)
(* Proofs about Transaction, for any number of goroutines, values, fds and *)
(* retries, and any set Late of goroutines that use a Txn that is over.    *)
(***************************************************************************)
EXTENDS Transaction, TLAPS

USE ClientsAssumption, NoneAssumption, FDsAssumption, CommitRetriesAssumption

\* The initial state satisfies the invariant.
LEMMA InvInit == Init => IInv
<1> SUFFICES ASSUME Init PROVE IInv
  OBVIOUS
<1>1. TypeOK
  BY DEF Init, TypeOK, Clients, None, noTxn, noKey, Active
<1>2. OwnInv /\ StageInv /\ LiveInv /\ TransactInv
  BY DEF Init, OwnInv, StageInv, LiveInv, TransactInv, Clients, Proper, None, noTxn,
         Active, Unwritten
<1> QED BY <1>1, <1>2 DEF IInv

\* A free fd is nobody's, and -1 is no fd.
LEMMA FreeIsUnheld ==
  ASSUME TypeOK, OwnInv, NEW n \in FreeFDs, NEW c \in Clients PROVE fd[c] # n
BY DEF TypeOK, OwnInv, FreeFDs, noTxn, None, Clients

LEMMA SentinelIsNoFD == noTxn \notin FDs
BY DEF noTxn

-----------------------------------------------------------------------------
(* The operations on a handle, one lemma each.                             *)

LEMMA BeginKeeps ==
  ASSUME IInv, NEW c \in Clients, Begin(c), pc[c] = "idle", pc' = [pc EXCEPT ![c] = "body"]
  PROVE  IInv'
<1> USE DEF IInv, Begin
<1> PICK n \in FreeFDs :
      /\ table' = [table EXCEPT ![n] = c]
      /\ fd' = [fd EXCEPT ![c] = n]
  OBVIOUS
<1>1. n \in FDs /\ table[n] = None /\ n # noTxn /\ c # None
  BY SentinelIsNoFD DEF FreeFDs, Clients, None
<1>2. TypeOK'
  BY <1>1 DEF TypeOK, Active
<1>3. OwnInv'
  <2>1. \A d \in Clients : fd[d] # n
    BY FreeIsUnheld
  <2>2. \A d \in Clients : d # c => fd'[d] = fd[d] /\ state'[d] = state[d]
    BY DEF TypeOK
  <2>3. fd'[c] = n /\ state'[c] = "unbound" /\ table'[n] = c
    BY <1>1 DEF TypeOK
  <2>4. \A m \in FDs : m # n => table'[m] = table[m]
    BY DEF TypeOK
  <2>5. fd[c] = noTxn
    BY DEF OwnInv
  <2>6. \A m \in FDs : table'[m] # None => fd'[table'[m]] = m
    <3> SUFFICES ASSUME NEW m \in FDs, m # n, table[m] # None PROVE fd'[table[m]] = m
      BY <2>3, <2>4
    <3>1. table[m] \in Clients /\ fd[table[m]] = m
      BY DEF TypeOK, OwnInv
    <3>2. table[m] # c
      BY <2>5, <3>1, SentinelIsNoFD
    <3> QED BY <2>2, <3>1, <3>2
  <2>7. \A d \in Clients : fd'[d] # noTxn => table'[fd'[d]] = d
    <3> SUFFICES ASSUME NEW d \in Clients, d # c, fd'[d] # noTxn PROVE table'[fd'[d]] = d
      BY <2>3
    <3>1. fd'[d] = fd[d] /\ fd[d] \in FDs /\ table[fd[d]] = d
      BY <2>2 DEF TypeOK, OwnInv
    <3> QED BY <2>1, <2>4, <3>1
  <2> QED BY <1>1, <2>2, <2>3, <2>6, <2>7 DEF OwnInv, Active, None
<1>4. StageInv' /\ LiveInv'
  BY DEF StageInv, LiveInv, TypeOK, Active, None, Clients, Proper
<1>5. TransactInv'
  BY <1>1 DEF TransactInv, TypeOK, Active, None, Clients, Unwritten
<1> QED BY <1>2, <1>3, <1>4, <1>5

LEMMA WriteKeeps ==
  ASSUME IInv, NEW c \in Clients, NEW n \in Names, pc[c] = "body",
         fd[c] # noTxn, At(c), WriteIn(c, n, txnFD'[c]),
         UNCHANGED <<fd, pc, attempt, result>>
  PROVE  IInv'
<1> USE DEF IInv
<1>1. txnFD'[c] = fd[c] /\ fd[c] \in FDs /\ table[fd[c]] = c
  BY DEF At, TypeOK, OwnInv
<1>2. /\ state[c] \in Active
      /\ staged' = [staged EXCEPT ![c] = @ \cup {<<c, n>>}]
      /\ state' = [state EXCEPT ![c] = "bound"]
      /\ UNCHANGED <<table, live>>
  BY <1>1 DEF WriteIn
<1>3. TypeOK'
  BY <1>1, <1>2 DEF TypeOK, At, Active
<1>4. OwnInv'
  BY <1>1, <1>2 DEF OwnInv, TypeOK, Active, None
<1>5. StageInv'
  BY <1>2 DEF StageInv, TypeOK, Active
<1>6. LiveInv'
  BY <1>2 DEF LiveInv, TypeOK, Active, Clients, Proper
<1>7. TransactInv'
  BY <1>2 DEF TransactInv, TypeOK, Active, None, Clients, Unwritten
<1> QED BY <1>3, <1>4, <1>5, <1>6, <1>7

\* A commit makes the committer's own writes live, and no proper client's.
LEMMA CommitMakesLive ==
  ASSUME IInv, NEW c \in Clients, KernelCommits(c)
  PROVE  /\ \A d \in Proper : d # c => live'[d] = live[d]
         /\ c \in Closures /\ Unwritten(c) = {} => live'[c] = Names
<1> USE DEF IInv, KernelCommits
<1>1. \A d \in Proper : d # c => {n \in Names : <<d, n>> \in staged[c]} = {}
  BY DEF StageInv, Proper
<1>2. live[c] \subseteq Names
  BY DEF TypeOK
<1>3. Unwritten(c) = {} => {n \in Names : <<c, n>> \in staged[c]} = Names
  BY DEF Unwritten
<1>4. \A d \in Clients : live'[d] = live[d] \cup {n \in Names : <<d, n>> \in staged[c]}
  OBVIOUS
<1> QED BY <1>1, <1>2, <1>3, <1>4 DEF Proper

LEMMA CloseKeeps ==
  ASSUME IInv, NEW c \in Clients, fd[c] # noTxn, CloseFD(c),
         UNCHANGED <<txnFD, attempt, result>>,
         \/ c \in Explicit /\ UNCHANGED pc
         \/ pc[c] = "close" /\ pc' = [pc EXCEPT ![c] = "done"]
  PROVE  IInv'
<1> USE DEF IInv, CloseFD
<1>1. fd[c] \in FDs /\ table[fd[c]] = c /\ c # None
  BY DEF TypeOK, OwnInv, Clients, None
<1>2. /\ state' = [t \in Clients |-> IF t = c /\ state[t] \in Active THEN "aborted" ELSE state[t]]
      /\ staged' = [t \in Clients |-> IF t = c THEN {} ELSE staged[t]]
  BY <1>1
<1>3. TypeOK'
  BY <1>1, <1>2 DEF TypeOK, Active
<1>4. OwnInv'
  BY <1>1, <1>2 DEF OwnInv, TypeOK, Active, None
<1>5. StageInv' /\ LiveInv'
  BY <1>2 DEF StageInv, LiveInv, TypeOK, Active, Clients, Proper
<1>6. TransactInv'
  BY <1>2 DEF TransactInv, TypeOK, Active, None, Clients, Unwritten
<1> QED BY <1>3, <1>4, <1>5, <1>6

\* A commit, by commitWithRetry or by Commit.
LEMMA CommitKeeps ==
  ASSUME IInv, NEW c \in Clients, KernelCommits(c), UNCHANGED <<fd, txnFD, attempt>>,
         \/ c \in Explicit /\ UNCHANGED <<pc, result>>
         \/ /\ c \in Closures /\ pc[c] = "commit"
            /\ pc' = [pc EXCEPT ![c] = "close"] /\ result' = [result EXCEPT ![c] = "ok"]
  PROVE  IInv'
<1> USE DEF IInv, KernelCommits
<1>1. TypeOK'
  BY DEF TypeOK, Active
<1>2. OwnInv'
  BY DEF OwnInv, TypeOK, Active, None
<1>3. StageInv'
  BY DEF StageInv, TypeOK
<1>4. c \in Closures => Unwritten(c) = {}
  BY DEF TransactInv
<1>5. LiveInv'
  <2>1. \A d \in Proper : d # c => live'[d] = live[d] /\ state'[d] = state[d]
    BY CommitMakesLive DEF TypeOK, Proper
  <2>2. state'[c] = "committed" /\ (c \in Closures => live'[c] = Names)
    BY <1>4, CommitMakesLive DEF TypeOK
  <2> QED BY <2>1, <2>2 DEF LiveInv, Clients, Proper
<1>6. TransactInv'
  BY DEF TransactInv, TypeOK, Active, None, Clients, Unwritten
<1> QED BY <1>1, <1>2, <1>3, <1>5, <1>6

\* The kernel ends a transaction on its own.
LEMMA EndKeeps ==
  ASSUME IInv, NEW t \in Clients, NEW s \in {"timedOut", "sourceDown"}, KernelEnds(t, s)
  PROVE  IInv'
<1> USE DEF IInv, KernelEnds, clientVars
<1>1. TypeOK'
  BY DEF TypeOK, Active
<1>2. OwnInv'
  BY DEF OwnInv, TypeOK, Active, None
<1>3. StageInv' /\ LiveInv'
  BY DEF StageInv, LiveInv, TypeOK, Active, Clients, Proper
<1>4. TransactInv'
  BY DEF TransactInv, TypeOK, Active, None, Clients, Unwritten
<1> QED BY <1>1, <1>2, <1>3, <1>4

\* The steps of Transact that only move on.
LEMMA MoveKeeps ==
  ASSUME IInv, NEW c \in Closures,
         \/ TransactBeginFails(c) \/ BodyReturns(c) \/ CommitRetry(c) \/ CommitFails(c)
         \/ \E how \in {"err", "panic"} : BodyGivesUp(c, how)
  PROVE  IInv'
<1> USE DEF IInv, kernelVars
<1>1. TypeOK'
  BY DEF TypeOK, TransactBeginFails, BodyReturns, CommitRetry, CommitFails, BodyGivesUp,
         BodyFails, RetryLeft, Clients
<1>2. UNCHANGED <<table, state, staged, fd, live>>
  BY DEF TransactBeginFails, BodyReturns, CommitRetry, CommitFails, BodyGivesUp
<1>3. OwnInv' /\ StageInv' /\ LiveInv'
  BY <1>2 DEF OwnInv, StageInv, LiveInv
<1>4. TransactInv'
  <2>1. Unwritten(c)' = Unwritten(c) /\ \A d \in Closures : Unwritten(d)' = Unwritten(d)
    BY <1>2 DEF Unwritten
  <2>2. CASE TransactBeginFails(c)
    BY <1>2, <2>1, <2>2 DEF TransactInv, TransactBeginFails, TypeOK, Clients, None, OwnInv
  <2>3. CASE BodyReturns(c)
    BY <1>2, <2>1, <2>3 DEF TransactInv, BodyReturns, TypeOK, Clients, None
  <2>4. CASE CommitRetry(c)
    BY <1>2, <2>1, <2>4 DEF TransactInv, CommitRetry, TypeOK, Clients, None
  <2>5. CASE CommitFails(c)
    BY <1>2, <2>1, <2>5 DEF TransactInv, CommitFails, TypeOK, Clients, None
  <2>6. CASE \E how \in {"err", "panic"} : BodyGivesUp(c, how)
    <3> PICK how \in {"err", "panic"} : BodyGivesUp(c, how)
      BY <2>6
    <3> QED BY <1>2, <2>1 DEF TransactInv, BodyGivesUp, BodyFails, TypeOK, Clients, None
  <2> QED BY <2>2, <2>3, <2>4, <2>5, <2>6
<1> QED BY <1>1, <1>3, <1>4

\* A write by a number kept from before lands in the transaction that has it
\* now, or nowhere; it is staged as the late writer's.
LEMMA LateWriteKeeps ==
  ASSUME IInv, NEW c \in Clients, NEW n \in Names, LateWrite(c, n)
  PROVE  IInv'
<1> USE DEF IInv
<1>1. c \in Late /\ c \in Clients /\ txnFD[c] # noKey /\ UNCHANGED <<fd, txnFD, pc, attempt, result>>
  BY DEF LateWrite, clientVars, Clients
<1>2. CASE txnFD[c] = noTxn
  <2>1. live' = [live EXCEPT ![c] = @ \cup {n}] /\ UNCHANGED <<table, state, staged>>
    BY <1>2 DEF LateWrite, WriteIn
  <2>2. TypeOK'
    BY <1>1, <2>1 DEF TypeOK
  <2>3. OwnInv' /\ StageInv'
    BY <1>1, <2>1 DEF OwnInv, StageInv
  <2>4. LiveInv'
    BY <1>1, <2>1 DEF LiveInv, Proper, TypeOK
  <2>5. TransactInv'
    BY <1>1, <2>1 DEF TransactInv, Unwritten
  <2> QED BY <2>2, <2>3, <2>4, <2>5
<1>3. CASE txnFD[c] # noTxn
  <2> DEFINE t == table[txnFD[c]]
  <2>1. /\ t # None /\ state[t] \in Active
        /\ staged' = [staged EXCEPT ![t] = @ \cup {<<c, n>>}]
        /\ state' = [state EXCEPT ![t] = "bound"]
        /\ UNCHANGED <<table, live>>
    BY <1>3 DEF LateWrite, WriteIn
  <2>2. t \in Clients
    BY <1>1, <1>3, <2>1 DEF TypeOK
  <2> HIDE DEF t
  <2>3. TypeOK'
    BY <1>1, <2>1, <2>2 DEF TypeOK, Active
  <2>4. OwnInv'
    BY <1>1, <2>1, <2>2 DEF OwnInv, TypeOK, Active, None
  <2>5. StageInv'
    BY <1>1, <2>1, <2>2 DEF StageInv, TypeOK, Active
  <2>6. LiveInv'
    BY <1>1, <2>1, <2>2 DEF LiveInv, TypeOK, Active, Clients, Proper
  <2>7. TransactInv'
    BY <1>1, <2>1, <2>2 DEF TransactInv, TypeOK, Active, None, Clients, Unwritten
  <2> QED BY <2>3, <2>4, <2>5, <2>6, <2>7
<1> QED BY <1>2, <1>3

-----------------------------------------------------------------------------
\* Every step keeps the invariant.
LEMMA InvStep == IInv /\ [Next]_vars => IInv'
<1> SUFFICES ASSUME IInv, [Next]_vars PROVE IInv'
  OBVIOUS
<1>1. ASSUME NEW c \in Closures, TransactStep(c) PROVE IInv'
  <2> c \in Clients
    BY DEF Clients
  <2>1. CASE TransactBegin(c)
    BY <2>1, BeginKeeps DEF TransactBegin
  <2>2. ASSUME NEW n \in Names, BodyWrite(c, n) PROVE IInv'
    <3>1. fd[c] # noTxn
      BY <2>2 DEF IInv, TransactInv, BodyWrite
    <3> QED BY <2>2, <3>1, WriteKeeps DEF BodyWrite
  <2>3. CASE CommitOK(c)
    BY <2>3, CommitKeeps DEF CommitOK
  <2>4. CASE TransactClose(c)
    <3>1. fd[c] # noTxn
      BY <2>4 DEF IInv, TransactInv, TransactClose
    <3> QED BY <2>4, <3>1, CloseKeeps DEF TransactClose
  <2> QED BY <1>1, <2>1, <2>2, <2>3, <2>4, MoveKeeps DEF TransactStep
<1>2. ASSUME NEW c \in Explicit, ExplicitStep(c) PROVE IInv'
  <2> c \in Clients
    BY DEF Clients
  <2>1. CASE ExplicitBegin(c)
    BY <2>1, BeginKeeps DEF ExplicitBegin
  <2>2. ASSUME NEW n \in Names, ExplicitWrite(c, n) PROVE IInv'
    BY <2>2, WriteKeeps DEF ExplicitWrite
  <2>3. CASE ExplicitCommit(c)
    BY <2>3, CommitKeeps DEF ExplicitCommit, clientVars
  <2>4. CASE ExplicitClose(c)
    BY <2>4, CloseKeeps DEF ExplicitClose
  <2> QED BY <1>2, <2>1, <2>2, <2>3, <2>4 DEF ExplicitStep
<1>3. ASSUME NEW c \in Clients, NEW s \in {"timedOut", "sourceDown"}, KernelEnds(c, s)
      PROVE IInv'
  BY <1>3, EndKeeps
<1>4. ASSUME NEW c \in Clients, LateStep(c) PROVE IInv'
  <2>1. CASE LateAt(c)
    <3>1. TypeOK'
      BY <2>1 DEF LateAt, At, IInv, TypeOK, kernelVars, Clients
    <3>2. OwnInv' /\ StageInv' /\ LiveInv' /\ TransactInv'
      BY <2>1 DEF LateAt, At, kernelVars, IInv, OwnInv, StageInv, LiveInv, TransactInv,
                  Unwritten
    <3> QED BY <3>1, <3>2 DEF IInv
  <2>2. ASSUME NEW n \in Names, LateWrite(c, n) PROVE IInv'
    BY <2>2, LateWriteKeeps
  <2> QED BY <1>4, <2>1, <2>2 DEF LateStep
<1>5. CASE UNCHANGED vars
  BY <1>5 DEF vars, kernelVars, clientVars, IInv, TypeOK, OwnInv, StageInv, LiveInv,
              TransactInv, Unwritten
<1> QED BY <1>1, <1>2, <1>3, <1>4, <1>5 DEF Next

\* The fd table, the staged writes and the progress of every Transact stay
\* consistent.
THEOREM Invariance == Spec => []IInv
BY InvInit, InvStep, PTL DEF Spec

\* Transact is all or nothing, and its result says which, whatever becomes of
\* other goroutines' Txns.
THEOREM TransactIsAtomic == Spec => []AllOrNothing
<1>1. IInv => AllOrNothing
  BY DEF IInv, LiveInv, TransactInv, AllOrNothing, Clients, Proper
<1> QED BY <1>1, Invariance, PTL

\* Nothing written through a transaction takes effect without its commit.
THEOREM WritesAreEnlisted == Spec => []Enlisted
<1>1. IInv => Enlisted
  BY DEF IInv, LiveInv, Enlisted
<1> QED BY <1>1, Invariance, PTL

\* Whichever way Transact returns, its fd is closed and its transaction over.
THEOREM TransactCleansUp == Spec => []NothingLeftOpen
<1>1. IInv => NothingLeftOpen
  BY DEF IInv, OwnInv, TransactInv, NothingLeftOpen, Clients, TypeOK, None, noTxn
<1> QED BY <1>1, Invariance, PTL

-----------------------------------------------------------------------------
(* Closing.                                                                *)

\* Close ends the transaction of the handle it is called on, and forgets its fd
\* in the same step: the number is the handle's own by OwnInv.
LEMMA CloseAbortsOwn ==
  ASSUME IInv, NEW c \in Clients, fd[c] # noTxn, CloseFD(c), NEW d \in Clients,
         state'[d] # state[d]
  PROVE  fd'[d] = noTxn
<1>1. table[fd[c]] = c /\ d = c
  BY DEF IInv, OwnInv, CloseFD
<1> QED BY <1>1 DEF CloseFD, IInv, TypeOK

\* Begin and a write change the state of one transaction, to an active one.
LEMMA BeginAbortsNone ==
  ASSUME IInv, NEW c \in Clients, Begin(c), NEW d \in Clients, state[d] \in Active
  PROVE  state'[d] # "aborted"
<1>1. state' = [state EXCEPT ![c] = "unbound"]
  BY DEF Begin
<1>2. state'[d] \in Active
  BY <1>1 DEF IInv, TypeOK, Active
<1> QED BY <1>2 DEF Active

LEMMA WriteAbortsNone ==
  ASSUME IInv, NEW c \in Clients, NEW n \in Names, NEW f, WriteIn(c, n, f), NEW d \in Clients,
         state[d] \in Active
  PROVE  state'[d] # "aborted"
<1>1. state'[d] \in Active
  BY DEF WriteIn, IInv, TypeOK, Active
<1> QED BY <1>1 DEF Active

\* A handle closes only its own fd: the transaction that was given the number of
\* a closed handle is never aborted by closing that handle again.
THEOREM ClosesAreOwn == Spec => ClosesOnlyItsOwn
<1> DEFINE A == \A c \in Clients : state[c] \in Active /\ state'[c] = "aborted" => fd'[c] = noTxn
<1>1. IInv /\ [Next]_vars => [A]_vars
  <2> SUFFICES ASSUME IInv, Next, NEW d \in Clients, state[d] \in Active, state'[d] = "aborted"
               PROVE  fd'[d] = noTxn
    OBVIOUS
  <2>0. state'[d] # state[d]
    BY DEF Active
  <2>1. ASSUME NEW c \in Closures, TransactStep(c) PROVE fd'[d] = noTxn
    <3> c \in Clients
      BY DEF Clients
    <3>1. ~TransactBegin(c)
      BY BeginAbortsNone DEF TransactBegin
    <3>2. \A n \in Names : ~BodyWrite(c, n)
      BY WriteAbortsNone DEF BodyWrite
    <3>3. ~CommitOK(c)
      BY <2>0 DEF CommitOK, KernelCommits, IInv, TypeOK
    <3>4. ~(TransactBeginFails(c) \/ BodyReturns(c) \/ CommitRetry(c) \/ CommitFails(c))
      BY <2>0 DEF TransactBeginFails, BodyReturns, CommitRetry, CommitFails, kernelVars
    <3>5. \A how \in {"err", "panic"} : ~BodyGivesUp(c, how)
      BY <2>0 DEF BodyGivesUp, kernelVars
    <3>6. TransactClose(c)
      BY <2>1, <3>1, <3>2, <3>3, <3>4, <3>5 DEF TransactStep
    <3>7. fd[c] # noTxn
      BY <3>6 DEF IInv, TransactInv, TransactClose
    <3> QED BY <2>0, <3>6, <3>7, CloseAbortsOwn DEF TransactClose
  <2>2. ASSUME NEW c \in Clients PROVE ~LateStep(c)
    <3>1. ~LateAt(c)
      BY <2>0 DEF LateAt, kernelVars
    <3>2. \A n \in Names : ~LateWrite(c, n)
      BY WriteAbortsNone DEF LateWrite, Clients
    <3> QED BY <3>1, <3>2 DEF LateStep
  <2>3. ASSUME NEW c \in Explicit, ExplicitStep(c) PROVE fd'[d] = noTxn
    <3> c \in Clients
      BY DEF Clients
    <3>1. ~ExplicitBegin(c)
      BY BeginAbortsNone DEF ExplicitBegin
    <3>2. \A n \in Names : ~ExplicitWrite(c, n)
      BY WriteAbortsNone DEF ExplicitWrite
    <3>3. ~ExplicitCommit(c)
      BY <2>0 DEF ExplicitCommit, KernelCommits, IInv, TypeOK
    <3>4. ExplicitClose(c)
      BY <2>3, <3>1, <3>2, <3>3 DEF ExplicitStep
    <3> QED BY <2>0, <3>4, CloseAbortsOwn DEF ExplicitClose
  <2>4. ASSUME NEW c \in Clients, NEW s \in {"timedOut", "sourceDown"} PROVE ~KernelEnds(c, s)
    BY <2>0 DEF KernelEnds, IInv, TypeOK
  <2> QED BY <2>1, <2>2, <2>3, <2>4 DEF Next
<1> QED BY <1>1, Invariance, PTL DEF Spec, ClosesOnlyItsOwn
=============================================================================
