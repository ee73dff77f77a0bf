---------------------------- MODULE Transaction ----------------------------
(***************************************************************************)
(* registry.Transact, Transaction, Txn and TxnKey                          *)
(* (src/registry/transaction.go), and the writes that carry a transaction  *)
(* fd (src/registry/write.go).                                             *)
(*                                                                         *)
(* Several goroutines of one process each own a transaction; they share    *)
(* the process's fd table, in which a closed number is handed out again,   *)
(* lowest first.  A transaction is named by its owner.  The kernel's side  *)
(* is external: an active transaction stages the writes that carry its fd, *)
(* and commits all of them or none.                                        *)
(***************************************************************************)
EXTENDS Integers, FiniteSets

CONSTANTS
    Closures,       \* goroutines that call Transact
    Explicit,       \* goroutines that Begin and drive a handle themselves
    Names,          \* the values a Transact body writes
    Late,           \* goroutines that keep using their Txn after it is over
    FDs,            \* fd numbers
    CommitRetries   \* commitRetries

ASSUME ClientsAssumption == Closures \cap Explicit = {}
ASSUME NoneAssumption == "none" \notin Closures \cup Explicit
ASSUME FDsAssumption == FDs \subseteq Nat
ASSUME CommitRetriesAssumption == CommitRetries \in Nat

noTxn == -1
noKey == -2   \* no TxnKey was made

Clients == Closures \cup Explicit

VARIABLES
    table,     \* the fd table: fd |-> the transaction it refers to
    state,     \* kernel: the state of each transaction
    staged,    \* kernel: the writes staged in it, as <<writer, name>>
    fd,        \* Transaction.fd
    txnFD,     \* the fd captured in the TxnKey each goroutine last made
    pc,        \* Transact: where each goroutine is
    attempt,   \* commitWithRetry: attempt
    result,    \* what Transact returned: none, ok, err, panic
    live       \* history: the writes of each goroutine that took effect

kernelVars == <<table, state, staged, live>>
clientVars == <<fd, txnFD, pc, attempt, result>>
vars == <<kernelVars, clientVars>>

None == "none"
Active == {"unbound", "bound"}

TypeOK ==
    /\ table \in [FDs -> Clients \cup {None}]
    /\ state \in [Clients -> {None, "committed", "aborted", "timedOut", "sourceDown"} \cup Active]
    /\ staged \in [Clients -> SUBSET (Clients \X Names)]
    /\ fd \in [Clients -> FDs \cup {noTxn}] /\ txnFD \in [Clients -> FDs \cup {noTxn, noKey}]
    /\ pc \in [Clients -> {"idle", "body", "commit", "close", "done"}]
    /\ attempt \in [Clients -> 0 .. CommitRetries]
    /\ result \in [Clients -> {None, "ok", "err", "panic"}]
    /\ live \in [Clients -> SUBSET Names]

Init ==
    /\ table = [n \in FDs |-> None]
    /\ state = [c \in Clients |-> None] /\ staged = [c \in Clients |-> {}]
    /\ fd = [c \in Clients |-> noTxn] /\ txnFD = [c \in Clients |-> noKey]
    /\ pc = [c \in Clients |-> "idle"] /\ attempt = [c \in Clients |-> 0]
    /\ result = [c \in Clients |-> None] /\ live = [c \in Clients |-> {}]

-----------------------------------------------------------------------------
(* The kernel.                                                             *)

\* The lifetime timer fires, or the bound source goes down: what was staged
\* is dropped.
KernelEnds(t, s) ==
    /\ state[t] \in Active
    /\ s = "sourceDown" => state[t] = "bound"
    /\ state' = [state EXCEPT ![t] = s]
    /\ staged' = [staged EXCEPT ![t] = {}]
    /\ UNCHANGED <<table, live, clientVars>>

\* REG_IOC_COMMIT succeeds: every staged write takes effect at once.
KernelCommits(t) ==
    /\ state[t] \in Active
    /\ state' = [state EXCEPT ![t] = "committed"]
    /\ live' = [c \in Clients |-> live[c] \cup {n \in Names : <<c, n>> \in staged[t]}]
    /\ staged' = [staged EXCEPT ![t] = {}]
    /\ UNCHANGED table

-----------------------------------------------------------------------------
(* The handle: Begin, At, writes, Close.                                   *)

FreeFDs == {n \in FDs : table[n] = None}

Begin(c) == \E n \in FreeFDs :
    /\ state[c] = None
    /\ \A m \in FreeFDs : n <= m
    /\ table' = [table EXCEPT ![n] = c]
    /\ state' = [state EXCEPT ![c] = "unbound"]
    /\ fd' = [fd EXCEPT ![c] = n]
    /\ UNCHANGED <<staged, live, txnFD, attempt, result>>

\* At captures the number the handle holds now.
At(c) == txnFD' = [txnFD EXCEPT ![c] = fd[c]]

\* A write carrying fd number f: with the sentinel it takes effect at once,
\* otherwise it is staged in the transaction the number refers to.
WriteIn(c, n, f) ==
    IF f = noTxn
    THEN /\ live' = [live EXCEPT ![c] = @ \cup {n}]
         /\ UNCHANGED <<table, state, staged>>
    ELSE LET t == table[f] IN
         /\ t # None /\ state[t] \in Active
         /\ staged' = [staged EXCEPT ![t] = @ \cup {<<c, n>>}]
         /\ state' = [state EXCEPT ![t] = "bound"]
         /\ UNCHANGED <<table, live>>

\* Close: the number is free again, and a transaction still active aborts.
CloseFD_Stale(c) ==
    /\ table' = [table EXCEPT ![fd[c]] = None]
    /\ state' = [t \in Clients |-> IF t = table[fd[c]] /\ state[t] \in Active
                                   THEN "aborted" ELSE state[t]]
    /\ staged' = [t \in Clients |-> IF t = table[fd[c]] THEN {} ELSE staged[t]]
    /\ UNCHANGED <<fd, live>>
CloseFD(c) ==
    /\ table' = [table EXCEPT ![fd[c]] = None]
    /\ state' = [t \in Clients |-> IF t = table[fd[c]] /\ state[t] \in Active
                                   THEN "aborted" ELSE state[t]]
    /\ staged' = [t \in Clients |-> IF t = table[fd[c]] THEN {} ELSE staged[t]]
    /\ fd' = [fd EXCEPT ![c] = noTxn]
    /\ UNCHANGED live

-----------------------------------------------------------------------------
(* Transact.                                                               *)

TransactBegin(c) == pc[c] = "idle" /\ Begin(c) /\ pc' = [pc EXCEPT ![c] = "body"]

\* Begin fails, and Transact with it.
TransactBeginFails(c) ==
    /\ pc[c] = "idle"
    /\ pc' = [pc EXCEPT ![c] = "done"] /\ result' = [result EXCEPT ![c] = "err"]
    /\ UNCHANGED <<kernelVars, fd, txnFD, attempt>>

\* The names c has not written yet.
Unwritten(c) == {n \in Names : <<c, n>> \notin staged[c]}

\* One write of the body: tx.At(key).Base().SetValue(n, ...).
BodyWrite(c, n) ==
    /\ pc[c] = "body" /\ n \in Unwritten(c)
    /\ At(c) /\ WriteIn(c, n, txnFD'[c])
    /\ UNCHANGED <<fd, pc, attempt, result>>

\* The body returns nil once it has written everything.
BodyReturns(c) ==
    /\ pc[c] = "body" /\ Unwritten(c) = {}
    /\ pc' = [pc EXCEPT ![c] = "commit"]
    /\ UNCHANGED <<kernelVars, fd, txnFD, attempt, result>>

\* A write fails, or the body gives up or panics: the deferred Close aborts.
BodyFails_Commits(c, how) ==
    /\ pc[c] = "body"
    /\ pc' = [pc EXCEPT ![c] = IF how = "err" THEN "commit" ELSE "close"]
    /\ UNCHANGED result
BodyFails(c, how) ==
    /\ pc[c] = "body"
    /\ pc' = [pc EXCEPT ![c] = "close"]
    /\ result' = [result EXCEPT ![c] = how]

BodyGivesUp(c, how) ==
    /\ BodyFails(c, how)
    /\ UNCHANGED <<kernelVars, fd, txnFD, attempt>>

CommitOK(c) ==
    /\ pc[c] = "commit" /\ table[fd[c]] = c
    /\ KernelCommits(c)
    /\ pc' = [pc EXCEPT ![c] = "close"] /\ result' = [result EXCEPT ![c] = "ok"]
    /\ UNCHANGED <<fd, txnFD, attempt>>

\* EBUSY or EIO, which leave the transaction open.
RetryLeft(c) == attempt[c] < CommitRetries

CommitRetry_ContentionIsFree(c) == \E e \in {"EBUSY", "EIO"} :
    /\ pc[c] = "commit" /\ state[c] \in Active /\ RetryLeft(c)
    /\ attempt' = [attempt EXCEPT ![c] = IF e = "EBUSY" THEN 0 ELSE @ + 1]
    /\ UNCHANGED <<kernelVars, fd, txnFD, pc, result>>
CommitRetry(c) ==
    /\ pc[c] = "commit" /\ state[c] \in Active /\ RetryLeft(c)
    /\ attempt' = [attempt EXCEPT ![c] = @ + 1]
    /\ UNCHANGED <<kernelVars, fd, txnFD, pc, result>>

\* EBUSY or EIO once too often, or an error that is terminal because the
\* transaction is no longer active.
CommitFails(c) ==
    /\ pc[c] = "commit"
    /\ state[c] \in Active => ~RetryLeft(c)
    /\ pc' = [pc EXCEPT ![c] = "close"] /\ result' = [result EXCEPT ![c] = "err"]
    /\ UNCHANGED <<kernelVars, fd, txnFD, attempt>>

\* The deferred Close, on every path out of Transact.
TransactClose_NotOnPanic(c) ==
    /\ pc[c] = "close"
    /\ IF result[c] = "panic" THEN UNCHANGED <<kernelVars, fd>> ELSE CloseFD(c)
    /\ pc' = [pc EXCEPT ![c] = "done"]
    /\ UNCHANGED <<txnFD, attempt, result>>
TransactClose(c) ==
    /\ pc[c] = "close"
    /\ CloseFD(c)
    /\ pc' = [pc EXCEPT ![c] = "done"]
    /\ UNCHANGED <<txnFD, attempt, result>>

\* The handle is closed, after Transact by a Txn that escaped the closure: bind
\* a key to it again, which captures the sentinel, or write through a TxnKey.
LateAt(c) ==
    /\ c \in Late /\ state[c] # None /\ fd[c] = noTxn
    /\ At(c)
    /\ UNCHANGED <<kernelVars, fd, pc, attempt, result>>

LateWrite(c, n) ==
    /\ c \in Late /\ fd[c] = noTxn /\ txnFD[c] # noKey
    /\ WriteIn(c, n, txnFD[c])
    /\ UNCHANGED clientVars

-----------------------------------------------------------------------------
(* The explicit handle, driven in any order; after Close it is late too.   *)

ExplicitBegin(c) == pc[c] = "idle" /\ Begin(c) /\ pc' = [pc EXCEPT ![c] = "body"]

ExplicitWrite(c, n) ==
    /\ pc[c] = "body" /\ fd[c] # noTxn
    /\ At(c) /\ WriteIn(c, n, txnFD'[c])
    /\ UNCHANGED <<fd, pc, attempt, result>>

ExplicitCommit(c) ==
    /\ pc[c] = "body" /\ fd[c] # noTxn /\ table[fd[c]] = c
    /\ KernelCommits(c)
    /\ UNCHANGED clientVars

\* Close or Abort, as often as the caller likes.
ExplicitClose(c) ==
    /\ pc[c] = "body" /\ fd[c] # noTxn
    /\ CloseFD(c)
    /\ UNCHANGED <<txnFD, pc, attempt, result>>

-----------------------------------------------------------------------------
\* The steps of a goroutine inside Transact.
TransactStep(c) ==
    \/ TransactBegin(c) \/ TransactBeginFails(c)
    \/ \E n \in Names : BodyWrite(c, n)
    \/ BodyReturns(c) \/ \E how \in {"err", "panic"} : BodyGivesUp(c, how)
    \/ CommitOK(c) \/ CommitRetry(c) \/ CommitFails(c) \/ TransactClose(c)

LateStep(c) == LateAt(c) \/ \E n \in Names : LateWrite(c, n)

ExplicitStep(c) ==
    \/ ExplicitBegin(c) \/ ExplicitCommit(c) \/ ExplicitClose(c)
    \/ \E n \in Names : ExplicitWrite(c, n)

Next ==
    \/ \E c \in Closures : TransactStep(c)
    \/ \E c \in Explicit : ExplicitStep(c)
    \/ \E c \in Clients : LateStep(c)
    \/ \E c \in Clients, s \in {"timedOut", "sourceDown"} : KernelEnds(c, s)

Spec == Init /\ [][Next]_vars

\* A goroutine inside Transact keeps running; the kernel owes it nothing, and
\* may answer EBUSY every time.
FairSpec == Spec /\ \A c \in Closures : WF_vars(TransactStep(c))

-----------------------------------------------------------------------------
(* Properties.                                                             *)

\* The goroutines that do not outlive their transaction.
Proper == Clients \ Late

\* Transact is all or nothing and says which: it returns nil exactly when
\* every write of the body took effect, and an error, a panic, a timeout or a
\* retry that fails in the end leave none; whatever other goroutines do with
\* a Txn that escaped its closure.
AllOrNothing == \A c \in Closures \cap Proper :
    /\ result[c] = "ok" => live[c] = Names
    /\ result[c] # "ok" => live[c] = {}

\* Nothing a goroutine writes through its transaction, while it has it, takes
\* effect unless that transaction commits.
Enlisted == \A c \in Proper : live[c] # {} => state[c] = "committed"

\* Transact leaves no transaction open behind it: whichever way it returned,
\* its fd is closed and its transaction is over.
NothingLeftOpen == \A c \in Closures :
    pc[c] = "done" => /\ \A n \in FDs : table[n] # c
                      /\ state[c] \notin Active

\* A handle closes only its own fd: closing one twice never aborts the
\* transaction that was given the number since.
ClosesOnlyItsOwn ==
    [][\A c \in Clients : state[c] \in Active /\ state'[c] = "aborted" => fd'[c] = noTxn]_vars

\* Transact returns, even if the kernel answers EBUSY to every commit: the
\* number of retries is bounded.
TransactReturns == \A c \in Closures : (pc[c] = "body") ~> (pc[c] = "done")

-----------------------------------------------------------------------------
(* The inductive invariant behind the safety properties.                   *)

\* The fd table and the handles agree, and an active transaction is held.
OwnInv ==
    /\ \A c \in Clients : fd[c] # noTxn => table[fd[c]] = c
    /\ \A n \in FDs : table[n] # None => fd[table[n]] = n
    /\ \A c \in Clients : state[c] \in Active => fd[c] # noTxn
    /\ \A c \in Clients : state[c] = None => fd[c] = noTxn

\* While it is active, a transaction stages its own owner's writes, and
\* those of goroutines that write by a number that was theirs once.
StageInv == \A t \in Clients : \A w \in staged[t] :
    (w[1] = t \/ w[1] \in Late) /\ state[t] \in Active

\* What took effect, took effect by a commit; for Transact, in full.
LiveInv ==
    /\ \A c \in Proper : live[c] # {} => state[c] = "committed"
    /\ \A c \in Closures \cap Proper : state[c] = "committed" => live[c] = Names

\* Where Transact is, and what it holds there.
TransactInv == \A c \in Closures :
    /\ pc[c] = "idle" => state[c] = None
    /\ pc[c] \in {"body", "commit", "close"} => fd[c] # noTxn
    /\ pc[c] = "done" => fd[c] = noTxn
    /\ pc[c] = "commit" /\ state[c] \in Active => Unwritten(c) = {}
    /\ pc[c] \in {"idle", "body", "commit"} => result[c] = None /\ state[c] # "committed"
    /\ result[c] = "ok" <=> state[c] = "committed"

\* Ownership of fds, staging and Transact's progress, taken together.
IInv == TypeOK /\ OwnInv /\ StageInv /\ LiveInv /\ TransactInv
=============================================================================
