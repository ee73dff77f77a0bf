--------------------------- MODULE Impersonation ---------------------------
(***************************************************************************)
(* token.Impersonate and token.ImpersonatePeer                             *)
(* (src/token/impersonate.go): a closure run under another token, where    *)
(* the effective token belongs to the OS thread and the Go scheduler moves *)
(* goroutines between threads.                                             *)
(*                                                                         *)
(* The Go runtime and the kernel are external: a goroutine that holds the  *)
(* thread lock keeps its thread to itself, any other may be moved whenever *)
(* it likes, and a thread whose locked goroutine exits is destroyed.       *)
(***************************************************************************)
EXTENDS Naturals

CONSTANTS
    Goroutines, Threads,
    Tokens,       \* tokens to impersonate, a peer's among them
    MaxDepth,     \* bound: nesting of Impersonate calls
    MaxFailures   \* bound: reverts that fail, per goroutine

Real == "real"
None == "none"

ASSUME TokensAssumption   == Real \notin Tokens
ASSUME ThreadsAssumption  == None \notin Threads
ASSUME MaxDepthAssumption == MaxDepth \in Nat /\ MaxFailures \in Nat

VARIABLES
    on,      \* the thread a goroutine occupies, none while it is parked
    lock,    \* LockOSThread calls not yet undone
    eff,     \* the effective token of each thread
    dead,    \* threads destroyed
    pc,      \* where each goroutine is in impersonateScoped
    arg,     \* the token the call in progress is to set
    depth,   \* closures entered and not yet left
    scope,   \* scope[g][d]: the token of the d-th of them
    failed,  \* history: reverts that failed
    fresh    \* history: has the innermost closure hosted no other: yes, no

vars == <<on, lock, eff, dead, pc, arg, depth, scope, failed, fresh>>

TypeOK ==
    /\ on \in [Goroutines -> Threads \cup {None}] /\ lock \in [Goroutines -> Nat]
    /\ eff \in [Threads -> Tokens \cup {Real}] /\ dead \subseteq Threads
    /\ pc \in [Goroutines -> {"run", "set", "revert", "unlock", "exited"}]
    /\ arg \in [Goroutines -> Tokens \cup {Real}]
    /\ depth \in [Goroutines -> 0 .. MaxDepth]
    /\ scope \in [Goroutines -> [1 .. MaxDepth -> Tokens \cup {Real}]]
    /\ failed \in [Goroutines -> Nat] /\ fresh \in [Goroutines -> {"yes", "no"}]

Init ==
    /\ on = [g \in Goroutines |-> None] /\ lock = [g \in Goroutines |-> 0]
    /\ eff = [t \in Threads |-> Real] /\ dead = {}
    /\ pc = [g \in Goroutines |-> "run"] /\ arg = [g \in Goroutines |-> Real]
    /\ depth = [g \in Goroutines |-> 0]
    /\ scope = [g \in Goroutines |-> [d \in 1 .. MaxDepth |-> Real]]
    /\ failed = [g \in Goroutines |-> 0] /\ fresh = [g \in Goroutines |-> "no"]

-----------------------------------------------------------------------------
(* The Go scheduler.                                                       *)

Free(t) == t \notin dead /\ \A g \in Goroutines : on[g] # t

Park(g) ==
    /\ on[g] # None /\ lock[g] = 0
    /\ on' = [on EXCEPT ![g] = None]
    /\ UNCHANGED <<lock, eff, dead, pc, arg, depth, scope, failed, fresh>>

Resume(g, t) ==
    /\ on[g] = None /\ pc[g] # "exited" /\ Free(t)
    /\ on' = [on EXCEPT ![g] = t]
    /\ UNCHANGED <<lock, eff, dead, pc, arg, depth, scope, failed, fresh>>

\* A goroutine that exits with the thread lock held takes its thread along.
Exit(g) ==
    /\ pc[g] = "run" /\ depth[g] = 0 /\ on[g] # None
    /\ pc' = [pc EXCEPT ![g] = "exited"]
    /\ dead' = IF lock[g] > 0 THEN dead \cup {on[g]} ELSE dead
    /\ on' = [on EXCEPT ![g] = None] /\ lock' = [lock EXCEPT ![g] = 0]
    /\ UNCHANGED <<eff, arg, depth, scope, failed, fresh>>

-----------------------------------------------------------------------------
(* impersonateScoped.                                                      *)

LockOSThread_Skipped(g) == UNCHANGED lock
LockOSThread(g) == lock' = [lock EXCEPT ![g] = @ + 1]

UnlockOSThread(g) == lock' = [lock EXCEPT ![g] = IF @ = 0 THEN 0 ELSE @ - 1]

\* A call of Impersonate or ImpersonatePeer, from ordinary code or from
\* within another closure.
Enter(g, k) ==
    /\ pc[g] = "run" /\ on[g] # None /\ depth[g] < MaxDepth
    /\ LockOSThread(g)
    /\ arg' = [arg EXCEPT ![g] = k] /\ pc' = [pc EXCEPT ![g] = "set"]
    /\ UNCHANGED <<on, eff, dead, depth, scope, failed, fresh>>

\* set succeeds, and fn starts.
Set(g) ==
    /\ pc[g] = "set" /\ on[g] # None
    /\ eff' = [eff EXCEPT ![on[g]] = arg[g]]
    /\ depth' = [depth EXCEPT ![g] = @ + 1]
    /\ scope' = [scope EXCEPT ![g][depth[g] + 1] = arg[g]]
    /\ fresh' = [fresh EXCEPT ![g] = "yes"]
    /\ pc' = [pc EXCEPT ![g] = "run"]
    /\ UNCHANGED <<on, lock, dead, arg, failed>>

\* set fails: the thread is unlocked and the error returned.
SetFails(g) ==
    /\ pc[g] = "set" /\ on[g] # None
    /\ UnlockOSThread(g)
    /\ pc' = [pc EXCEPT ![g] = "run"]
    /\ UNCHANGED <<on, eff, dead, arg, depth, scope, failed, fresh>>

\* fn returns or panics: the deferred function runs.
FnEnds(g) ==
    /\ pc[g] = "run" /\ on[g] # None /\ depth[g] > 0
    /\ pc' = [pc EXCEPT ![g] = "revert"]
    /\ UNCHANGED <<on, lock, eff, dead, arg, depth, scope, failed, fresh>>

Revert(g) ==
    /\ pc[g] = "revert" /\ on[g] # None
    /\ eff' = [eff EXCEPT ![on[g]] = Real]
    /\ pc' = [pc EXCEPT ![g] = "unlock"]
    /\ UNCHANGED <<on, lock, dead, arg, depth, scope, failed, fresh>>

\* The closure is left, for the one around it if there is one.
Leave(g) ==
    /\ depth' = [depth EXCEPT ![g] = @ - 1]
    /\ fresh' = [fresh EXCEPT ![g] = "no"]
    /\ pc' = [pc EXCEPT ![g] = "run"]
    /\ UNCHANGED <<on, dead, arg, scope>>

Unlock(g) ==
    /\ pc[g] = "unlock" /\ on[g] # None
    /\ UnlockOSThread(g)
    /\ Leave(g)
    /\ UNCHANGED <<eff, failed>>

\* revert fails: the thread stays locked, and dies with the goroutine.
RevertFails_Unlocks(g) ==
    /\ pc[g] = "revert" /\ on[g] # None /\ failed[g] < MaxFailures
    /\ UnlockOSThread(g)
    /\ Leave(g)
    /\ failed' = [failed EXCEPT ![g] = @ + 1]
    /\ UNCHANGED eff
RevertFails(g) ==
    /\ pc[g] = "revert" /\ on[g] # None /\ failed[g] < MaxFailures
    /\ Leave(g)
    /\ failed' = [failed EXCEPT ![g] = @ + 1]
    /\ UNCHANGED <<lock, eff>>

-----------------------------------------------------------------------------
Step(g) ==
    \/ Park(g) \/ Exit(g) \/ \E t \in Threads : Resume(g, t)
    \/ \E k \in Tokens : Enter(g, k)
    \/ Set(g) \/ SetFails(g) \/ FnEnds(g) \/ Revert(g) \/ Unlock(g) \/ RevertFails(g)

Next == \E g \in Goroutines : Step(g)

Spec == Init /\ [][Next]_vars

-----------------------------------------------------------------------------
(* Properties.                                                             *)

\* "Rather than rejoining the pool still impersonating": a thread that any
\* goroutine may be scheduled on, or that runs one that is not locked to it,
\* has its real token, however calls were nested and whichever sets and
\* reverts failed.
PoolClean == \A t \in Threads :
    t \notin dead /\ (\A g \in Goroutines : on[g] = t => lock[g] = 0) => eff[t] = Real

\* Outside every closure, a goroutine whose reverts all succeeded holds no
\* thread: no path through impersonateScoped forgets its UnlockOSThread.
ThreadReleased == \A g \in Goroutines :
    pc[g] = "run" /\ depth[g] = 0 /\ failed[g] = 0 => lock[g] = 0

\* The innermost closure runs under its own token, wherever the scheduler
\* put the others, as long as it made no nested call itself.
InnermostEffective == \A g \in Goroutines :
    pc[g] = "run" /\ on[g] # None /\ depth[g] > 0 /\ fresh[g] = "yes"
        => eff[on[g]] = scope[g][depth[g]]

-----------------------------------------------------------------------------
(* The inductive invariant behind the passing properties.                  *)

\* A thread runs one goroutine, and a live one.
Exclusive ==
    /\ \A g, h \in Goroutines : on[g] # None /\ on[g] = on[h] => g = h
    /\ \A g \in Goroutines : on[g] \notin dead

\* The lock count is the closures entered, the reverts failed, and the call
\* that is setting its token; while it is positive the thread is kept.
LockCount == \A g \in Goroutines :
    /\ pc[g] = "set" => lock[g] = depth[g] + failed[g] + 1
    /\ pc[g] \in {"run", "revert", "unlock"} => lock[g] = depth[g] + failed[g]
    /\ pc[g] = "exited" => lock[g] = 0 /\ on[g] = None
    /\ lock[g] > 0 => on[g] # None
    /\ pc[g] \in {"revert", "unlock"} => depth[g] > 0
    /\ pc[g] = "set" => depth[g] < MaxDepth

\* An impersonating thread is held by a goroutine that entered a closure it
\* has not left, or that failed to revert.
Tainted == \A t \in Threads :
    t \notin dead /\ eff[t] # Real =>
        \E g \in Goroutines : on[g] = t /\ depth[g] + failed[g] > 0 /\ pc[g] # "unlock"

\* The innermost closure's token is still set.
ScopeInv == \A g \in Goroutines :
    pc[g] \in {"run", "set", "revert"} /\ depth[g] > 0 /\ fresh[g] = "yes"
        => eff[on[g]] = scope[g][depth[g]]

\* Threads, locks and tokens taken together.
IInv == TypeOK /\ Exclusive /\ LockCount /\ Tainted /\ ScopeInv
=============================================================================
