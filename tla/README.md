# Verification of libp-go

libp-go is a Go library over three kernel subsystems of Peios: KMES (event
streams), LCS (the layered registry) and KACS (tokens, security descriptors,
files). Most of it is a thin call-and-decode surface; the part with behaviour of
its own is where the library keeps state across calls while the kernel, other
processes or other goroutines act, and the codecs, whose output decides who is
granted what. This project models both in TLA+, checks them with TLC and proves
the main safety properties with TLAPS.

## 1. Inventory

| Component | Source | State it keeps | Operations | Who else acts | What makes it correct |
|---|---|---|---|---|---|
| Ring consumer | `event/ring.go`, `wire/event.go`, `event/event.go` | cursor, pending size, last sequence, loss count, generation | `Next`, `Read`, `ReadTimeout`, `wait` | the kernel writes the mapped buffer and laps the reader | no torn event, exact loss count, no missed wake-up |
| Ring attachment | `event/ring.go` | fd and mapping per CPU | `AttachAll`, `mapRing`, `Close` | - | no leak on a partial failure |
| Emission | `event/emit.go` | none | `Emit`, `EmitBatch` | - | limits checked before the call |
| Emission policy | `event/policy.go` | root or ancestor key and its watch, cache, retry time | `OpenPolicy`, `Enabled`, `Close` (`establish`, `drain`, `refresh`, `resolve`) | processes that edit `Machine\Generic\Events` | a decision is by the current registry; a missed change is impossible, or bounded by a second |
| Transactions | `registry/transaction.go`, `registry/write.go` | the transaction fd of a handle | `Begin`, `Transact`, `At`, writes, `Commit`, `Abort`, `Close` | other goroutines share the fd table; the kernel ends transactions by itself | all or nothing; nothing left open; a handle acts on its own transaction only |
| Reads | `registry/read.go` | none between calls; buffers within one | `QueryValue`, `Values`, `Subkeys`, `Info`, `Security` | writers | a value is returned whole, or the read fails |
| Watches | `registry/watch.go` | the kernel's watch on a key fd | `Watch`, `Disarm`, `ReadEvents` | writers | records parsed without losing one |
| Values | `registry/value.go` | none | `Encode`, `Decode` | - | round trip |
| Layers | `registry/layers`, `registry/create.go` | none; metadata keys | `Create`, `Get`, `List`, `SetPrecedence`, `SetEnabled`, `Delete` | other administrators | a layer is never seen half-formed |
| Impersonation | `token/impersonate.go` | the thread lock; the thread's effective token | `Impersonate`, `ImpersonatePeer` | the Go scheduler | no impersonating thread goes back to the pool |
| Tokens | `token/*.go` | the token fd | open, duplicate, adjust, `Query`, `Close` | other goroutines share the fd table | a handle holds its own descriptor; sizes agree between probe and fetch |
| Security descriptors | `sd/ace.go`, `acl.go`, `descriptor.go`, `getset.go` | none; the descriptors of a tree of objects | parse, marshal, get, set, strip | other administrators | nothing explicit is lost, no DACL becomes NULL |
| Inheritance | `sd/inherit.go` | none | `ComputeInheritedACEs`, `Reinherit` | the same | what the flags mean at any distance |
| Audit contexts | `sd/auditcontext.go` | a reader's cursor, pending count and stack | `EncodeAuditContext`, `ValidateAuditContext` | - | accepts exactly the well-formed ones |
| Conditions | `sd/condition.go`, `sddl/condition.go`, `sddl/decompile.go` | a decompiler's stack | build, compile, decompile | - | one meaning in tree, bytecode and text |
| SDDL | `sddl/*.go`, `wire/sid.go` | none | `Parse`, `Format` | - | round trip |
| Files | `files/*.go` | the file fd | `OpenAt`, mount policy | other administrators | get-modify-set does not overwrite a concurrent change |
| Plumbing | `internal/sys`, `errno` | none | `Retry` | signals | EINTR is hidden except in waits |
| libp-vet | `cmd/libp-vet` | none | import check | - | - |

How they interact: `Policy` reads the registry through `Key` and its watch;
`Emit` is called by a program once `Policy.Enabled` says so; `layers` writes
through `Transact`; every system call but the waits goes through `Retry`;
`Impersonate` changes what the kernel grants all the others on that thread.

What is hard to test here: the ring's lock-free protocol with the kernel, the
order of opens and watches while the registry changes, fd numbers that are
handed out again, goroutines that move between threads, inheritance over several
levels and codecs at the edges of their encodings. `PROJECT.json` lists each
such hazard at its line.

## 2. Modules

| Module | Models | Proved about in |
|---|---|---|
| `EventStream` | the abstract specification of a ring: in order, at most once, gaps counted | |
| `EventRing` | `Ring` and the kernel's producer | `EventRingProofs` |
| `EmissionPolicy` | `Policy`, over a registry that others change | `EmissionPolicyProofs` |
| `Transaction` | `Transact`, handles, fd table, kernel transactions | `TransactionProofs` |
| `Impersonation` | `impersonateScoped`, threads and the scheduler | `ImpersonationProofs` |
| `ProbeRead` | the two-pass reads and the conditional writes that follow them | `ProbeReadProofs` |
| `Layers` | layer management and enumeration by index | `LayersProofs` |
| `Handles` | `AttachAll` and `Ring.Close`, token, key and file handles, `Retry`, over one descriptor table | `HandlesProofs` |
| `Inheritance` | the ACE, ACL and descriptor codecs, `Reinherit`, `StripInheritedACEs`, on a tree of objects | `InheritanceProofs` |
| `AuditContext` | the msgpack writer and reader of audit contexts | |
| `SddlTables` | SIDs, aliases, access masks, flags, GUIDs and their text | |
| `Conditions` | the condition builders, the compiler and the decompiler | |
| `Sddl` | `Parse` and `Format` of descriptors, over `SddlTables` and `Conditions` | |
| `RegistryWire` | registry values and watch records | |
| `Codecs` | composes the four codecs: a machine that builds their inputs, and their properties | |
| `MC...` | the constants and symmetry used by TLC | |

An operator named `X_Something` just before `X` is `X` with a plausible bug; it
is used only to confirm that a property would notice.

### EventRing

Positions are the ABI's monotonic byte offsets in units of the smallest event.
Position `p` shares memory with `p + Cap`, and the kernel writes in order, so
the buffer's content is summarised by `wrote`. The kernel reserves (moves the
tail), copies a unit at a time, publishes `write_pos`, looks at `need_wake`,
bumps the futex word and wakes: six steps that interleave with the reader's. The
reader takes one step per load or store of shared memory. `ParseEvent` of bytes
being overwritten may return anything in `Garbage`. Sequence numbers may be
dropped; an event may be written corrupt; the ring may be resized once.

The kernel is external. What is assumed of it is what `ring.go` states or relies
on: the tail moves before bytes are overwritten, `write_pos` after they are
complete, `need_wake` is read after `write_pos` is stored, and FUTEX_WAIT
compares and sleeps atomically. Memory is sequentially consistent (the code uses
Go's atomics, which are).

`EventRing` is shown to implement `EventStream` under the mapping `emitted <-
{e.seq : e \in events}`.

### EmissionPolicy

One step per registry call of the policy, any registry change in between. Keys
below `Events` are paths; `Machine` always exists, `Machine\Generic` and
`Events` may come and go. A watch queues a record at the moment of a change it
covers: `Events` is watched with its subtree, an ancestor only for itself.
Records are only told apart as "something changed" and "the watched key is
gone". `excused` marks the calls that the code's comment allows to be stale,
those within the second an unwatched view is trusted.

Assumed of the registry: arming a watch on a key that has been deleted fails,
and reading through such a handle finds nothing.

### Transaction

Goroutines named in `Closures` call `Transact` and those in `Explicit` drive a
handle in any order. The fd table hands out the lowest free number. A write
carries the number captured by `At`; the number decides, at the moment of the
write, which transaction it is staged in, and -1 means none. A body may write,
give up or panic at any point; a commit may be answered EBUSY or EIO (the
transaction stays open), or fail for good because a timer or a lost source has
ended the transaction. `Late` names the goroutines that keep using their handle
after its `Close`, in `Transact` or by themselves: a key bound then has the
sentinel -1, so that a write through it takes effect at once, and one bound
before has a number that may be another transaction's by now. In the run one
goroutine of `Transact` is late; the proofs are for any.

### Impersonation

A goroutine without the thread lock may be parked and resumed on any free thread
at any time; with it, it keeps its thread, and its exit destroys that thread.
`set`, `revert` and the thread's token are separate steps, calls nest, and
either `set` or `revert` may fail.

### ProbeRead

One kernel object with numbered versions; what is read is known by its version
and length, so that a result can be seen to be whole, a mixture, or padded. A
version has two variable-length parts, since `queryValueIn` has two buffers; the
reads with one buffer are the case in which the second part is empty. Three
kinds of caller: the registry's reads, which regrow and retry, `Query` and
`GetSD`, which probe and fetch once, and the mount policy, whose kind and
generation come from the probe and whose template comes from the fetch. It is
neither cut to the length reported nor checked to be whole (`mount.go:59`), so
that it may be padded, or truncated where the kernel does not refuse. A caller
may then write conditionally on what it read.

Assumed of the kernel: ERANGE reports the size of every buffer; a value's
sequence and a policy's generation change with every write, and a conditional
write is refused unless they match. Their wrap is not modelled. A value has one
layer here: the kernel compares the sequence of the entry in the layer written
to (`write.go:35`), and `QueryValueFull` returns that of the entry that wins, so
`NoLostUpdate` is about a caller that writes to the layer its hit came from.

### Layers

One step per kernel call of `List`, `Get`, `SetPrecedence`, `SetEnabled` and
`Delete`. `Builder.Call` is one step: `Transaction` shows its `Transact` to be
all or nothing, and both values are written through the transaction. A key has
an identity, so a handle to a layer that was deleted and created again is dead.
Other programs may write below the Layers key by hand (`HandWrite`, base
included) and leave a layer without a value, with one of another type, or with
bytes `Decode` refuses: `Get` then takes the default (`layers.go:123`), or fails.
What a read through a dead handle answers is not fixed by the repository: either
ENOENT, which `TryQueryValue` takes for an absent value, or another error. Any
call of `List` may also be refused, from the open of the Layers key on
(`CallRefused`); `List` fails as a whole then.

### Handles

The process has one descriptor table, which hands out the lowest free number,
and room for a fixed number of mappings. Every system call of `AttachAll`,
`attach`, `mapRing` and `Ring.Close` is a step, and any of them may fail the way
the code provides for: no descriptor, no memory, a ring of another format.
Tokens, keys and files are opened, derived and closed in between, by each
goroutine for itself (`ring.go:58` and Go's usual rule: handles are not shared).
`OpenAt` has the step in which a status it does not know makes it close the file
again. An object is a slot; one dropped without `Close` leaks what it held, as
nothing finalises it.

### Inheritance

A descriptor is what the codecs tell apart: control bits, whether an ACL is
absent, NULL, empty or not, and for an ACE its type, flags and kept bytes.
`ParseACE` and `MarshalACE` do what the code does to each type (a raw ACE is
kept, an object ACE needs the DS revision, an ACL beyond its 16-bit size is
refused). The state is the tree; the actions are `SetSD`, `Reinherit` of a node
from its parent, and `StripInheritedACEs`, in any order, each a whole get,
compute and set. The history variable `clean` holds the nodes that have been
re-inherited since they, or the DACL of their parent, last changed. The
reference says what an ACE should be `d` generations down directly, from its
flags and the distance (`Generations`), with no step over the nodes between;
`FromAncestors` puts together what the ancestors of a node (`Line`) contribute.
`Depth` numbers the generations of the tree and `Bytes` is the set of byte
strings a SID or a body may be; sizes are counted in ACEs.

### The codecs

`AuditContext` is byte by byte: the reader's cursor, its count of pending values
and its stack of open containers are as in the code, and the reference
`IsAuditContext` is the grammar. `Conditions` works on glyphs (the lexer's
characters, a word of letters being one) and on bytecode tokens; its reference,
`Means`, reads a text as a tree by the precedence of the operators and lays out
the tree in postfix, without a parser's state. `SddlTables` and `Sddl` do the
same for descriptors: the tables keep one or two rows of each kind, the scans
and their stopping rules are those of the code. `RegistryWire` has values with
the width and the NULs that matter and watch records as bytes; `Survives` and
`Normal` say what is left of a value, and of bytes, that go through the codec
once, losses included, and `DamageReads` what a wrong byte may cost. `HasText`
is which descriptors SDDL can express, `Readable` and `Legible` which literals
and names its text can carry. `Codecs` composes
them: each behaviour picks a codec and a seed and edits its input by one byte,
word, ACE, value or record per step, so that TLC visits every input near a
limit; its properties speak of the input each step has built. These modules use
RECURSIVE operators and are therefore only model-checked.

## 3. Runs

| Run | Bounds | Shows |
|---|---|---|
| `EventRing_consumer` | 3 sequence numbers, sizes 1 and 2, capacity 2 | safety, refinement of `EventStream`, and that `ReadTimeout` returns |
| `EventRing_lostwake` (violation) | two sequence numbers | `Read` may sleep with an event in the buffer |
| `EmissionPolicy_watched` | two types below each other, 4 changes | decisions are fresh while `Machine\Generic` stays |
| `EmissionPolicy_refused` | one type, 4 changes, every key volatile, any watch refused | no registry handle leaks |
| `EmissionPolicy_ancestor` (violation) | one type, 4 changes | a missed creation of `Events` when `Generic` appears during `establish` |
| `Transaction_clients` | two `Transact`, one whose `Txn` escapes, one explicit handle, two names, two fds, 2 retries | all or nothing, cleanup, ownership, termination |
| `Impersonation_pool` | two goroutines, three threads, two levels, a failed revert each | no impersonating thread in the pool |
| `ProbeRead_race` | one caller of each kind, three changes, three attempts | reads are whole, ERANGE is real, no lost update |
| `Layers_list` | one lister, two writers, three layers, two changes | what enumeration and `Get` may miss, and when `List` fails |
| `Handles_faults` | two goroutines, two handles each, three descriptors, two mappings, two CPUs, one signal | no leak on any error path, no handle with another's descriptor, `AttachAll` returns |
| `Inheritance_tree` | three containers and an object, two sets | inheritance means the same at every distance, in any order of passes |
| `Codecs_roundtrip` | one to four edits from seeds at the limits of each codec | readers agree with their references, what is written reads back |

Why the bounds are enough. A ring of two units with events of one and two laps
the reader twice in three events, so that a lap, a lap during a parse, a gap
after a lap and a corrupt event at the tail all occur. Two policy types, one a
prefix of the other, with a cache of one entry exercise inheritance of settings,
the cache and its limit; four changes suffice to delete `Events`, create it, set
a value and create a child. Two fds for three transactions make every close
followed by a begin reuse a number. Three threads for two goroutines always
leave one to migrate to. A read of three attempts is outrun by two changes, and
the third change separates a read from the write that follows it. Two changes
delete and recreate a layer, or shift an enumeration in both directions. Three
descriptors and two mappings for four rings exhaust either in the middle of
`AttachAll`. A chain of three containers and a leaf is the shortest in which
no-propagate, inherit-only and the cleared flags of a grandchild differ from a
child's, and two sets allow one to change an ACE others have inherited. The
codecs' seeds stand one short of each limit (header forms, nesting,
length), so that a few edits cross it. Beyond these bounds stand the proofs of
section 4, which have none.

Deadlock is not checked where the system may stop: a ring whose kernel has used
its last sequence number, transactions that are all over, goroutines that have
exited, reads and listings that have returned, handles all closed, inputs fully
built.

Fairness. `EventRing`: weak fairness of the goroutine inside a call (the Go
scheduler is fair, and FUTEX_WAIT's timer fires) and of the kernel completing an
emission it has begun; nothing forces a call, a new emission or a signal.
`Transaction`: weak fairness of a goroutine inside `Transact`; no fairness of
the kernel, which may answer EBUSY for ever. `Handles`: weak fairness of a
goroutine inside `AttachAll`; an open that finds no descriptor fails rather than
waits, so that nobody waits on another.

### Findings

Each is a violation run; its counterexample is a behaviour of the code.

1. `ring.go:310`: the futex word is loaded after the re-check of `write_pos`. An
   emission that fits in between is not waited for, nor noticed. Loading the
   word first closes the window.
2. `policy.go:343`: after falling back to `Machine`, only `Events` is looked for
   again, not `Generic`.

### Known limits

Behaviours of the code that the models have and the properties allow, met while
modelling:

- Ring. `write_pos` is loaded before the generation (`ring.go:216`), so an event
  and a resize in between are reported as `ErrGenerationChanged` with the event
  undrained; `ownedFrom` (`ring.go:270`) copies after the torn-read check, so
  that an `OwnedEvent` may be torn (`NeverTorn` is about what `Next` yields).
- Transactions. A closed handle's -1 (`transaction.go:178`) is also "no
  transaction": a key bound through a `Txn` that is over is written directly.
  `AllOrNothing` holds for the calls whose `Txn` does not escape, whatever
  others do.
- Inheritance. A NULL DACL of a child that inherits ACEs becomes a DACL of
  those; the bytes after the SID of a simple ACE are dropped when it is
  rewritten, and a raw ACE with an empty body cannot be rewritten at all.
- Conditions. The decompiler is not the reverse of the compiler for all bytecode
  (`decompile.go:16`). A local attribute named like a number comes back as the
  number, which `DecompilesExactly` states. A quote inside a string literal
  (`decompile.go:192`) and a local attribute named like a keyword, or by
  something that is no plain word (`decompile.go:208`), may come back as
  anything: the inputs have them, and the property is limited to the bytecode
  without them (`Readable`). Data after a 0x00 in a composite is dropped.
- SDDL. An unbalanced parenthesis in a string literal ends the ACE early;
  `SddlRoundTrip` is limited to descriptors without one (`Legible`). An
  owner or group SID whose authority is written in hex, without sub-authorities,
  takes the `D` of a following `D:` for a digit, which the comment at
  `sddl/parse.go:85` means to prevent: `SddlRoundTrip` states that `Parse`
  refuses what `Format` writes then. `sddl/sddl.go:17` says callback ACEs are
  rejected; they are parsed and formatted.
- Registry values. `MULTI_SZ` drops empty strings and splits one with a NUL;
  `REG_NONE` keeps no data: values do not always round-trip (`value.go:61`), and
  `RegistryReadsBack` states exactly what is lost. A watch record whose name does not fit has its name
  bytes read as a path.
- Audit contexts. A kind named `kind` that has fields is refused by the
  validator (`auditcontext.go:134`), which the comment on `EncodeAuditContext`
  does not name; `AuditRoundTrip` states it as the one refusal more.
- Policy. The watch (`policy.go:337`) covers values and subkeys: a key below
  `Events` that becomes readable or unreadable through its security descriptor
  keeps its cached setting.
- Writes. `SetValueIf` with an expected sequence of 0 is the unconditional write
  of `SetValue` (`write.go:40`); creating a layer that exists overwrites its
  precedence and enables it (`layers.go:98`); a batch of emissions interrupted
  half-way would be repeated from its first entry by `Retry` (`emit.go:96`), if
  the kernel can return EINTR then, which the repository does not say.

Further: after a nested `Impersonate` the rest of the outer closure runs under
the real token, which `revert`'s comment says (`InnermostEffective` therefore
stops at a nested call); `Subkeys` may miss a layer that was there throughout,
when another is deleted meanwhile (`EnumerationExact` says exactly when); an
`Info` is not the snapshot that `layers.go:30` calls it: its fields are read one
by one, and `FieldsCurrent` claims no more than that each is what the layer said
at some moment of the `Get`; one layer with a malformed value fails every `List`;
`GetMountPolicy` may combine two policies, which the generation keeps from being
written back.

## 4. Proofs

All are of `Spec`, without fairness, for every value of the constants that
satisfies the named assumptions; the numeric bounds (`MaxSeq`, `MaxDepth`,
`MaxFailures`, `CommitRetries`, `MaxChanges`, `MaxOps`, `MaxSets`, `MaxACEs`)
may be any natural number. The runs check the inductive invariant `IInv` of each
module too, except that of `Layers`, where the run checks what follows from it.

**EventRing.** `IInv` is `TypeOK`, `KernelInv`, `CallInv` and the accounting.
The heart of it is in `CallInv`: a parse that is not genuine has been betrayed
by the tail (`Genuine \/ tailPos > readPos`). It is inductive because the kernel
moves the tail past an event before it overwrites a byte of it (`KernelInv`:
nothing at or above `tailPos` is overwritten). From it follow `NeverTorn`,
`CorruptIsReal`, `LossAccounting`, and, with events ordered by sequence number,
the refinement `RingImplementsStream`.

**Transaction.** `IInv` says that the fd table and the handles agree one to one,
that a transaction stages only its owner's writes, that what took effect took
effect by a commit and in full, and what `Transact` holds at each point. That a
`Close` only ever ends the handle's own transaction (`ClosesAreOwn`) is the
one-to-one part: the number closed is still the handle's, since it was forgotten
in the step that gave it back. The
theorems hold for every `Late`, and speak of the goroutines that are not in it:
for one whose `Txn` escapes the statement is false (section 3, known limits),
but it does not disturb the others.

**Impersonation.** `LockCount` (the lock count is the closures entered, plus the
reverts failed, plus the call in progress) makes `Tainted` inductive: an
impersonating thread is held by a goroutine whose lock count is positive, so
that the scheduler can neither move it nor give the thread to another.

**ProbeRead.** `IInv` is stated caller by caller. After a retry the buffers fit
the version they were sized by, and `sized >= start + tries - 1`: the next
ERANGE needs a version newer than that one, so that `ErangeIsReal` follows. For
the conditional writes, `SetInv`: the header read is not newer than the data
read, and if they are of one version the length is that version's. A write is
accepted only if the header is the current version, hence the data is too. From
it follow `Whole`, `ErangeIsReal` and `NoLostUpdate`.

**Handles.** A descriptor or a mapping is held in a place: a handle object, or
the local variable of an `AttachAll` in progress. `HeldIsOwn` and `NoLeak` say
together that what the kernel has handed out and the places that hold something
correspond one to one. Each step does one of four things to that correspondence:
a place takes what was free (`TakeFd`, `TakeBase`), gives back and forgets in the
same step (`GiveFd`, `GiveBase`), hands over to the Ring object (`MoveFd`,
`MoveBase`), or leaves it (`KeepFds`, `KeepBases`). `CallInv` is what makes these
applicable: the local variables are set exactly where `AttachAll` and `mapRing`
think they are, a ring whose descriptor is about to be closed has been unmapped,
and only rings have a mapping, so that `Close` of anything else loses none.

**EmissionPolicy.** `IInv` has what the Policy holds at each point (`StageInv`,
`HandleInv`), that a handle to `Events` which is still alive names the present
key and that the end of a watched one is queued (`AliveInv`), and two conjuncts
about reading several keys while the registry changes. `WalkInv` says that a
walk which nothing has disturbed, or whose watch has nothing queued (`Steady`),
stands on keys that exist and has found the nearest setting among those it has
read; `SettingInv` says that a call which reaches its setting undisturbed has a
live root and a current cache. Both are needed for `CacheFresh`: a walk that was
interleaved with a write is cached, and only the record queued by that write
removes it. `CacheIsFresh`, `HandlesAreOwned` and, for the decisions taken while
`Events` is held, `HeldDecisionsFresh` hold whatever the registry does. Decisions
taken without `Events`, `DecisionsAreFresh` and `WatchIsCovering`, are proved
under the hypothesis `GenericStays`: `Machine\Generic` is not deleted, access is
not taken away and the watch on an ancestor is not refused. They are false
without it: finding 2 is a counterexample. The constants of
`EmissionPolicy_watched` satisfy the hypothesis.

**Layers.** `OrderInv` says that the children of the Layers key are the keys
that exist, each once. `EnumInv` is the argument about enumeration by index:
creations only move children up, so that as long as none is deleted what is
below the index has been listed; deletions only move them down, so that as long
as none is created what is at the index or above has not. `ListInv` ties the
Infos collected to the names listed, and `GetInv` says that what an open handle
shows is among what its layer has said since `Get` opened it, deleted being said
too, and that a field not yet read has its default; that needs a new key's
identity to be none of those in use, so that no handle comes back to life. From
these follow `Enumeration`, `Fields` and `Listing`, for any number of layers,
listers and writers.

**Inheritance.** The theorems hold for a tree of any depth and width, any set of
well-formed descriptors (`InputAssumption`) and ACLs of any length.
`IInv` is `TypeOK` and `OneGeneration`: a node in `clean` has its explicit ACEs
followed by what its parent's DACL passes to it. It is kept by a `Reinherit` or a
`Strip` of the parent because each puts its children behind exactly when the
DACL they read changes. Three groups of lemmas carry it. What the codecs do:
parsing gives back what `Marshal` wrote (`ParseACL` undoes `MarshalACL`), for the
ACEs that parsing can produce. What the loops do: filtering keeps order, filters
nothing twice, and distributes over concatenation. And what inheritance does to
flags: one generation of `Generations` is `InheritFlags`, and one more
`InheritFlags` after `d` generations is `d + 1`. `StripForgotten`,
`NeverOpensUp` and `OnlyInheritedChange` follow from the first two; `Converged`
(`Convergence`) from the third by induction along the ancestors of a node, which
is where the proof goes beyond any instance TLC can visit. The library's
induction theorems take a predicate as parameter, which the provers do not
instantiate; the module has its own, whose parameter is a set of numbers, and
from it the existence of the recursive functions that stand for the loops.

Only model-checked: liveness (`ReadReturns`, `TimeoutReturns`,
`TransactReturns`, `AttachReturns`), which the prover does not handle, and the
codecs of `Codecs`, whose recursive operators are out of its reach. Every other
property of the runs has a theorem.

## 5. What is left

The codecs are the part without proofs. `RegistryWire` is the one whose
recursion is simplest to write with recursive functions, in the way
`Inheritance` has its loops; `AuditContext` and `Conditions` recurse over nested
structures and would need induction on their size.

Not modelled, and why: `Emit` and `EmitBatch`, the adjustments of
`token/ioctl.go`, logon sessions, `AccessCheck`, `SetCAAP` and the registry's
system call wrappers are one kernel call each around a flat buffer, and keep
nothing; claims (`sd/claims.go`) are only ever written, so that there is nothing
in the repository to read them back with; `errno` and `sd/wellknown.go` are
tables; `libp-vet` is a static analyser whose input is the Go type checker's.
Byte offsets in descriptors, ACEs and events, UTF-8 and UTF-16 (an ill-formed
string is a value that does not decode) and the 64-bit wrap of the ring's
positions are abstracted.
