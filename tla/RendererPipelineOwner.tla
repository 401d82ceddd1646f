----------------------- MODULE RendererPipelineOwner -----------------------
(***************************************************************************)
(* The owner of a renderer registration's runtimes                         *)
(* (src/src/toolcraft/runtime/rendering/renderer-pipeline-runtime-owner.ts)*)
(* as a record and the functions its methods are.                          *)
(*                                                                         *)
(* A runtime is known by the sequence number of its generation.  It is     *)
(* made when it is first needed, kept while leases are held, and retired a *)
(* microtask after the last lease was released, unless another was taken   *)
(* before.  The microtasks that the counter lifecycleSchedule has made     *)
(* stale do nothing, so "due" is the generation that the valid one would   *)
(* retire, 0 when there is none.                                           *)
(***************************************************************************)
EXTENDS Naturals

CONSTANT MaxGenerations   \* bound: runtimes of a registration

ASSUME OwnerAssumption == MaxGenerations \in Nat \ {0}

Generations == 1 .. MaxGenerations

NewOwner ==
    [current  |-> 0,        \* currentGeneration, 0 when undefined
     next     |-> 1,        \* nextGenerationSequence
     leases   |-> 0,
     due      |-> 0,
     terminal |-> FALSE,
     resolved |-> FALSE,    \* terminalDisposePromise is settled
     disposal |-> [n \in Generations |-> "no"],
     last     |-> 0]        \* lastSnapshotSequence

OwnerRecords ==
    [current : 0 .. MaxGenerations, next : 1 .. MaxGenerations + 1, leases : Nat,
     due : 0 .. MaxGenerations, terminal : BOOLEAN, resolved : BOOLEAN,
     disposal : [Generations -> {"no", "pending", "done"}], last : 0 .. MaxGenerations]

\* A lease can be had: the owner is not disposed of, and the bound allows it.
Acquirable(o) == ~o.terminal /\ (o.current # 0 \/ o.next <= MaxGenerations)

\* ensureRuntime; the retirement it schedules is made stale by the lease that follows.
EnsureRuntime(o) ==
    IF o.current # 0
    THEN o
    ELSE [o EXCEPT !.current = o.next,
                   !.next = o.next + 1,
                   !.due = IF o.leases = 0 THEN o.next ELSE o.due]

Acquire(o) == [EnsureRuntime(o) EXCEPT !.leases = @ + 1, !.due = 0]

\* Mutant: the leases are looked at before this one is given back.
ReleaseLate(o, n) ==
    [o EXCEPT !.leases = @ - 1,
              !.due = IF o.leases = 0 THEN n ELSE o.due]

\* The release of a lease that was taken of generation n.
Release(o, n) ==
    [o EXCEPT !.leases = @ - 1,
              !.due = IF o.leases = 1 THEN n ELSE o.due]

\* preserveGenerationSnapshot
Preserve(o, n) == [o EXCEPT !.last = IF n < o.last THEN o.last ELSE n]

\* retireGeneration
Retire(o, n) ==
    IF o.disposal[n] # "no"
    THEN o
    ELSE Preserve([o EXCEPT !.current = IF o.current = n THEN 0 ELSE o.current,
                            !.disposal[n] = "pending"], n)

\* The microtask of scheduleLeaseFreeRetirement.
RetireIdle(o) ==
    LET idle == ~o.terminal /\ o.leases = 0 /\ o.current = o.due
    IN [(IF idle THEN Retire(o, o.due) ELSE o) EXCEPT !.due = 0]

\* The runtime's own disposal has settled.
Disposed(o, n) == Preserve([o EXCEPT !.disposal[n] = "done"], n)

Pending(o) == {n \in Generations : o.disposal[n] = "pending"}

\* startTerminalDisposal
Terminate(o) ==
    IF o.terminal
    THEN o
    ELSE LET ended == [o EXCEPT !.terminal = TRUE, !.due = 0]
         IN IF o.current = 0 THEN ended ELSE Retire(ended, o.current)

\* Every generation that was being retired has settled.
Resolvable(o) == o.terminal /\ ~o.resolved /\ Pending(o) = {}
=============================================================================
