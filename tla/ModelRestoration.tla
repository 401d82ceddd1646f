------------------------- MODULE ModelRestoration -------------------------
(***************************************************************************)
(* Models of a workspace that are shown before their resources are there:  *)
(* the placeholders of default models, which are imported through the job  *)
(* manager like a user's file, and saved models, which are read from the   *)
(* repository or decoded anew.  The hydrator works in rounds; a change of  *)
(* the workspace calls it again, in the middle of whatever made the        *)
(* change.  Users import over the same targets, remove, reset and undo,    *)
(* and the coordinator may be disposed of at any point.                    *)
(*                                                                         *)
(* One default model or saved model has one upload target, named by the    *)
(* model itself.  Resources and the cleanup queue are in AssetRepository   *)
(* and SourceAssetImports: here they are awaits that end or fail.          *)
(***************************************************************************)
EXTENDS Naturals, SequencesExt

CONSTANTS
    Defaults,       \* ids of default models
    Saved,          \* ids of models of the saved workspace
    Broken,         \* defaults whose files the schema declares wrongly
    Imports,        \* imports a user may start
    Rounds,         \* names for the hydrator's rounds
    MaxEdits,       \* bound: removals, resets, undos, redos and cancellations
    NoRound, NoTarget, NoJob, Nobody, NoEdit

Models == Defaults \cup Saved

Restorations == Rounds \X Defaults

Jobs == Imports \cup Restorations

ASSUME RestorationAssumption ==
    /\ IsFiniteSet(Defaults) /\ IsFiniteSet(Saved) /\ Defaults \cap Saved = {}
    /\ Broken \subseteq Defaults
    /\ Imports \cap Restorations = {}
    /\ MaxEdits \in Nat
    /\ NoRound \notin Rounds

\* A record of the workspace: where its content comes from, and its lifecycle.
Absent == [src |-> "none", life |-> "none"]

Placeholder == [src |-> "placeholder", life |-> "restoring"]

Records ==
    {Absent, Placeholder, [src |-> "placeholder", life |-> "unavailable"]}
    \cup [src : {"saved", "built", "user"}, life : {"restoring", "ready", "unavailable"}]

VARIABLES
    asset,          \* the models of the workspace
    edit,           \* the last undoable change, or NoEdit
    edits,
    pc, target,     \* of each job
    latest,         \* the job that has the latest admission of each target
    activeByTarget, activeJobs, aborted,
    due,            \* the workspace has changed: hydrateModels is being called
    starting,       \* rounds being started, the innermost call last
    completion,     \* the round whose completion the hydrator remembers
    rerun,
    waiting,        \* rounds whose end a caller of hydrateModels awaits
    woken,          \* such a caller is about to go on
    nested,         \* history: rounds begun while another one was being started
    phase,          \* of each round
    queue, step,    \* saved models a round still restores, and how far it is
    hydration,      \* the round whose restoration of saved models can be cancelled
    cancelled,      \* rounds whose restoration of saved models was cancelled
    worker,         \* the round the hydration worker decodes for
    disposed

stateVars == <<asset, edit, edits>>
jobVars == <<pc, target, latest, activeByTarget, activeJobs, aborted>>
callVars == <<completion, rerun, waiting, woken, nested>>
savedVars == <<queue, step, hydration, cancelled, worker>>
vars == <<stateVars, jobVars, due, starting, callVars, phase, savedVars, disposed>>

\* A workspace that was never saved shows its default models; a saved one what was
\* saved, the default models the user kept included.
FreshWorkspace == [m \in Models |-> IF m \in Defaults THEN Placeholder ELSE Absent]

SavedWorkspaces ==
    {[m \in Models |-> IF m \in kept THEN [src |-> "saved", life |-> "restoring"] ELSE Absent] :
        kept \in {Saved \cup ds : ds \in SUBSET Defaults}}

Init ==
    /\ asset \in {FreshWorkspace} \cup SavedWorkspaces
    /\ edit = NoEdit
    /\ edits = 0
    /\ pc = [j \in Jobs |-> "idle"]
    /\ target = [j \in Jobs |-> IF j \in Restorations THEN j[2] ELSE NoTarget]
    /\ latest = [t \in Models |-> NoJob]
    /\ activeByTarget = [t \in Models |-> NoJob]
    /\ activeJobs = {}
    /\ aborted = {}
    /\ due = TRUE
    /\ starting = <<>>
    /\ completion = NoRound
    /\ rerun = FALSE
    /\ waiting = {}
    /\ woken = FALSE
    /\ nested = {}
    /\ phase = [r \in Rounds |-> "free"]
    /\ queue = [r \in Rounds |-> <<>>]
    /\ step = [r \in Rounds |-> "idle"]
    /\ hydration = NoRound
    /\ cancelled = {}
    /\ worker = NoRound
    /\ disposed = "no"

-----------------------------------------------------------------------------
\* What the workspace says of a model.
IsRestoring(m) == asset[m].life = "restoring"

IsPlaceholder(m) == asset[m] = Placeholder

\* Mutant: any model under the placeholder's id will do.
IsPresent(m) == asset[m] # Absent

\* isDefaultReplacementCurrent, and the reducer's condition for a default model.
Replaceable(m) == IsPlaceholder(m)

\* The reducer's condition for a saved model restored from snapshot s.
IsSnapshot(s) == IsRestoring(s.id) /\ asset[s.id].src = s.src

\* The event loop does nothing else while hydrateModels is being called.
Free ==
    /\ ~due
    /\ starting = <<>>
    /\ \A j \in Jobs : pc[j] # "dispatched"

\* A dispatch calls hydrateModels when the id, the lifecycle or the source of a
\* model has changed.
Dispatch(records) ==
    /\ asset' = records
    /\ due' = (records # asset)

\* A command that can be undone.
Record(records) ==
    /\ Dispatch(records)
    /\ edit' = [before |-> asset, after |-> records, undone |-> FALSE]

-----------------------------------------------------------------------------
(***************************************************************************)
(* The job manager and the import runner, as in SourceAssetImports.        *)
(***************************************************************************)
\* The admission's generation is still the one of its target.
IsAdmissionCurrent(j) == disposed = "no" /\ latest[target[j]] = j

IsCurrent(j) ==
    /\ IsAdmissionCurrent(j)
    /\ j \notin aborted
    /\ activeByTarget[target[j]] = j

\* reserveAdmission: the target's running job is aborted.
Reserve(j, t) ==
    /\ target' = [target EXCEPT ![j] = t]
    /\ latest' = [latest EXCEPT ![t] = j]
    /\ aborted' = aborted \cup ({activeByTarget[t]} \ {NoJob})

RemoveJob(j) ==
    /\ activeJobs' = activeJobs \ {j}
    /\ aborted' = aborted \ {j}
    /\ activeByTarget' = [activeByTarget EXCEPT ![target[j]] = IF @ = j THEN NoJob ELSE @]

Goto(j, to) == pc' = [pc EXCEPT ![j] = to]

\* The rejections before the first await of an import: its files do not fit.
Admitted == {"retrying", "rejected"}

ImportBatch(i, t) ==
    /\ pc[i] = "idle"
    /\ disposed = "no"
    /\ \E to \in Admitted : Goto(i, to)
    /\ Reserve(i, t)
    /\ UNCHANGED <<stateVars, activeByTarget, activeJobs, due, starting, callVars, phase,
                   savedVars, disposed>>

\* After the pending rollbacks were retried.
BeginJob(j) ==
    /\ pc[j] = "retrying"
    /\ IF IsAdmissionCurrent(j)
         THEN /\ Goto(j, "preparing")
              /\ activeByTarget' = [activeByTarget EXCEPT ![target[j]] = j]
              /\ activeJobs' = activeJobs \cup {j}
         ELSE /\ Goto(j, "done")
              /\ UNCHANGED <<activeByTarget, activeJobs>>
    /\ UNCHANGED <<stateVars, target, latest, aborted, due, starting, callVars,
                   phase, savedVars, disposed>>

\* Every resource is staged: an import that is not current any more rolls back.
Prepared(j) ==
    /\ pc[j] = "preparing"
    /\ Goto(j, IF IsCurrent(j) THEN "committing" ELSE "rollingBack")
    /\ UNCHANGED <<stateVars, target, latest, activeByTarget, activeJobs, aborted,
                   due, starting, callVars, phase, savedVars, disposed>>

\* The handler or the repository fails.
ImportFails(j) ==
    /\ pc[j] \in {"preparing", "committing"}
    /\ Goto(j, "failed")
    /\ UNCHANGED <<stateVars, target, latest, activeByTarget, activeJobs, aborted,
                   due, starting, callVars, phase, savedVars, disposed>>

\* The failure is reported if the job is still current after the rollback.
RolledBack(j) ==
    /\ pc[j] \in {"rollingBack", "failed"}
    /\ Goto(j, IF pc[j] = "failed" /\ IsCurrent(j) THEN "rejected" ELSE "done")
    /\ RemoveJob(j)
    /\ UNCHANGED <<stateVars, target, latest, due, starting, callVars,
                   phase, savedVars, disposed>>

Lapsed(j) == ~IsCurrent(j) \/ (j \in Restorations /\ ~Replaceable(target[j]))

\* The lease is committed, but the job or its placeholder is not current.
CommittedLate(j) ==
    /\ pc[j] = "committing"
    /\ Lapsed(j)
    /\ Goto(j, "collecting")
    /\ RemoveJob(j)
    /\ UNCHANGED <<stateVars, target, latest, due, starting, callVars,
                   phase, savedVars, disposed>>

\* A user's model replaces what is on its target; a default model its placeholder,
\* which is no step of the history.
Committed(j) ==
    /\ pc[j] = "committing"
    /\ ~Lapsed(j)
    /\ Goto(j, "dispatched")
    /\ IF j \in Imports
         THEN Record([asset EXCEPT ![target[j]] = [src |-> "user", life |-> "ready"]])
         ELSE /\ Dispatch([asset EXCEPT ![target[j]] = [src |-> "built", life |-> "ready"]])
              /\ UNCHANGED edit
    /\ UNCHANGED <<edits, target, latest, activeByTarget, activeJobs, aborted,
                   starting, callVars, phase, savedVars, disposed>>

\* The dispatch, with the call of hydrateModels in it, returns.
Dispatched(j) ==
    /\ pc[j] = "dispatched"
    /\ ~due
    /\ starting = <<>>
    /\ Goto(j, "collecting")
    /\ RemoveJob(j)
    /\ UNCHANGED <<stateVars, target, latest, due, starting, callVars,
                   phase, savedVars, disposed>>

Collected(j) ==
    /\ pc[j] = "collecting"
    /\ Goto(j, "done")
    /\ UNCHANGED <<stateVars, target, latest, activeByTarget, activeJobs, aborted,
                   due, starting, callVars, phase, savedVars, disposed>>

\* markDefaultModelUnavailable
MarkUnavailable(m) ==
    Dispatch(IF Replaceable(m) THEN [asset EXCEPT ![m].life = "unavailable"] ELSE asset)

\* hydrateDefaultModel goes on with the outcome of its import.
RestorationSettled(j) ==
    /\ j \in Restorations
    /\ pc[j] \in {"done", "rejected"}
    /\ Goto(j, "idle")
    /\ IF pc[j] = "rejected" THEN MarkUnavailable(target[j]) ELSE UNCHANGED <<asset, due>>
    /\ UNCHANGED <<edit, edits, target, latest, activeByTarget, activeJobs,
                   aborted, starting, callVars, phase, savedVars, disposed>>

-----------------------------------------------------------------------------
(***************************************************************************)
(* hydrateModels.                                                          *)
(***************************************************************************)
Frame(r, models) == [round |-> r, todo |-> models, saved |->
                     \E m \in Models : IsRestoring(m) /\ ~IsPlaceholder(m)]

HasJob(m) == \E r \in Rounds : <<r, m>> \in activeJobs

Unattended == {m \in Defaults : IsPlaceholder(m) /\ ~HasJob(m)}

\* cancelStaleDefaultModelJobs
Stale == {j \in activeJobs \cap Restorations : ~Replaceable(target[j])}

\* Mutants: a running round does not keep the next from starting; a call in the
\* middle of a round is forgotten.
NeverBusy == FALSE

Busy == completion # NoRound

ForgetCall == UNCHANGED <<rerun, waiting>>

RequestRerun ==
    /\ rerun' = TRUE
    /\ waiting' = waiting \cup {completion}

\* A round begins in the middle of whatever has made the call.
StartRound ==
    /\ \E r \in Rounds : phase[r] = "free"
    /\ LET r == CHOOSE q \in Rounds : phase[q] = "free"
       IN  /\ phase' = [phase EXCEPT ![r] = "starting"]
           /\ starting' = Append(starting, Frame(r, Unattended))
           /\ nested' = IF starting = <<>> THEN nested \ {r} ELSE nested \cup {r}

\* A call before its first await.
HydrateModels ==
    /\ due
    /\ due' = FALSE
    /\ aborted' = IF disposed = "no" THEN aborted \cup Stale ELSE aborted
    /\ \/ /\ disposed # "no"
          /\ UNCHANGED <<rerun, waiting, starting, phase, nested>>
       \/ /\ disposed = "no" /\ Busy
          /\ RequestRerun
          /\ UNCHANGED <<starting, phase, nested>>
       \/ /\ disposed = "no" /\ ~Busy
          /\ StartRound
          /\ UNCHANGED <<rerun, waiting>>
    /\ UNCHANGED <<stateVars, pc, target, latest, activeByTarget, activeJobs,
                   completion, woken, savedVars, disposed>>

\* The call that is being made now, and the ones it is nested in.
Innermost == starting[Len(starting)]

Enclosing == SubSeq(starting, 1, Len(starting) - 1)

\* hydrateDefaultModel up to its first await.  A default that cannot be turned into
\* files is marked unavailable at once, which calls hydrateModels from inside.
HydrateDefaultModel ==
    /\ ~due
    /\ starting # <<>>
    /\ LET frame == Innermost
       IN  \E m \in frame.todo :
           /\ starting' = [starting EXCEPT ![Len(starting)].todo = @ \ {m}]
           /\ IF m \in Broken
                THEN /\ MarkUnavailable(m)
                     /\ UNCHANGED <<pc, target, latest, aborted>>
                ELSE /\ \E to \in Admitted : Goto(<<frame.round, m>>, to)
                     /\ Reserve(<<frame.round, m>>, m)
                     /\ UNCHANGED <<asset, due>>
    /\ UNCHANGED <<edit, edits, activeByTarget, activeJobs, callVars, phase, savedVars, disposed>>

Snapshots ==
    LET s == SetToSeq({m \in Models : IsRestoring(m) /\ ~IsPlaceholder(m)})
    IN  [n \in 1..Len(s) |-> [id |-> s[n], src |-> asset[s[n]].src]]

\* The call returns: the saved models are taken up and the round is remembered.
RoundStarted ==
    /\ ~due
    /\ starting # <<>>
    /\ LET frame == Innermost
           r == frame.round
       IN  /\ frame.todo = {}
           /\ starting' = Enclosing
           /\ completion' = r
           /\ phase' = [phase EXCEPT ![r] = "running"]
           /\ cancelled' = cancelled \ {r}
           /\ IF frame.saved
                THEN /\ queue' = [queue EXCEPT ![r] = Snapshots]
                     /\ hydration' = r
                ELSE UNCHANGED <<queue, hydration>>
    /\ UNCHANGED <<stateVars, jobVars, due, rerun, waiting, woken, nested, step, worker, disposed>>

RoundSettled(r) ==
    /\ phase[r] = "running"
    /\ queue[r] = <<>>
    /\ \A d \in Defaults : pc[<<r, d>>] = "idle"
    /\ phase' = [phase EXCEPT ![r] = "collecting"]
    /\ hydration' = NoRound
    /\ UNCHANGED <<stateVars, jobVars, due, starting, callVars, queue, step, cancelled, worker,
                   disposed>>

\* After the collection, which a disposed hydrator skips.
RoundEnded(r) ==
    /\ phase[r] = "collecting"
    /\ phase' = [phase EXCEPT ![r] = "free"]
    /\ completion' = IF completion = r THEN NoRound ELSE completion
    /\ woken' = (woken \/ r \in waiting)
    /\ waiting' = waiting \ {r}
    /\ UNCHANGED <<stateVars, jobVars, due, starting, rerun, nested, savedVars, disposed>>

Rerun ==
    /\ woken
    /\ woken' = FALSE
    /\ due' = (disposed = "no" /\ rerun)
    /\ rerun' = (rerun /\ disposed # "no")
    /\ UNCHANGED <<stateVars, jobVars, starting, completion, waiting, nested, phase, savedVars, disposed>>

-----------------------------------------------------------------------------
(***************************************************************************)
(* hydrateToolcraftPersistedModels: the saved models of a round, one by    *)
(* one.                                                                    *)
(***************************************************************************)
Current(r) == Head(queue[r])

At(r, steps) == queue[r] # <<>> /\ step[r] \in steps

Goes(r, to) ==
    /\ step' = [step EXCEPT ![r] = to]
    /\ UNCHANGED queue

\* The round is done with a model.
Leave(r) ==
    /\ step' = [step EXCEPT ![r] = "idle"]
    /\ queue' = [queue EXCEPT ![r] = Tail(@)]

\* media.hydrateModel
HydrateModel(s, life) ==
    Dispatch(IF IsSnapshot(s) THEN [asset EXCEPT ![s.id].life = life] ELSE asset)

\* Mutant: a model that is not restoring any more is not passed over.
TakeCurrent(r) ==
    /\ At(r, {"idle"})
    /\ IsSnapshot(Current(r))
    /\ Goes(r, "reading")
    /\ UNCHANGED <<stateVars, jobVars, due, starting, callVars, phase, hydration, cancelled, worker,
                   disposed>>

Take(r) ==
    /\ At(r, {"idle"})
    /\ IF IsSnapshot(Current(r)) THEN Goes(r, "reading") ELSE Leave(r)
    /\ UNCHANGED <<stateVars, jobVars, due, starting, callVars, phase, hydration, cancelled, worker,
                   disposed>>

\* The saved document or its plan is missing or damaged: the source is decoded anew.
\* The worker takes one request at a time: a new one cancels the other.
BeginDecode(r) ==
    /\ At(r, {"reading"})
    /\ Goes(r, "decoding")
    /\ worker' = r
    /\ UNCHANGED <<stateVars, jobVars, due, starting, callVars, phase, hydration, cancelled,
                   disposed>>

Decoded(r) ==
    /\ At(r, {"decoding"})
    /\ worker = r
    /\ Goes(r, "committing")
    /\ worker' = NoRound
    /\ UNCHANGED <<stateVars, jobVars, due, starting, callVars, phase, hydration, cancelled,
                   disposed>>

\* The document was valid, or a new one is committed.
Restored(r) ==
    /\ At(r, {"reading", "committing"})
    /\ IF r \in cancelled THEN UNCHANGED <<asset, due>> ELSE HydrateModel(Current(r), "ready")
    /\ Leave(r)
    /\ UNCHANGED <<edit, edits, jobVars, starting, callVars, phase, hydration, cancelled, worker,
                   disposed>>

\* A read, the worker or the lease fails, or the worker was taken by another request.
RestorationFails(r) ==
    /\ At(r, {"reading", "decoding", "committing"})
    /\ IF r \in cancelled THEN UNCHANGED <<asset, due>>
                          ELSE HydrateModel(Current(r), "unavailable")
    /\ Leave(r)
    /\ worker' = IF worker = r THEN NoRound ELSE worker
    /\ UNCHANGED <<edit, edits, jobVars, starting, callVars, phase, hydration, cancelled, disposed>>

-----------------------------------------------------------------------------
(***************************************************************************)
(* The user, and the disposal of the coordinator.                          *)
(***************************************************************************)
CountEdit == edits < MaxEdits /\ edits' = edits + 1

RemoveModel(m) ==
    /\ asset[m] # Absent
    /\ CountEdit
    /\ Record([asset EXCEPT ![m] = Absent])
    /\ UNCHANGED <<jobVars, starting, callVars, phase, savedVars, disposed>>

\* The default models of the targets come back as placeholders, everything else there
\* goes.  Nothing happens when the same ids come back in the same order: the default
\* models are put last, and the order is not modelled.
ResetTargets(targets) ==
    /\ \/ \E m \in targets : IsPresent(m) # (m \in Defaults)
       \/ \E m \in Models \ targets : IsPresent(m)
    /\ CountEdit
    /\ Record([m \in Models |-> IF m \in targets THEN FreshWorkspace[m] ELSE asset[m]])
    /\ UNCHANGED <<jobVars, starting, callVars, phase, savedVars, disposed>>

\* Undo and redo put the records back as they were when the change was made.
UndoRedo ==
    /\ edit # NoEdit
    /\ CountEdit
    /\ Dispatch(IF edit.undone THEN edit.after ELSE edit.before)
    /\ edit' = [edit EXCEPT !.undone = ~@]
    /\ UNCHANGED <<jobVars, starting, callVars, phase, savedVars, disposed>>

CancelTarget(t) ==
    /\ CountEdit
    /\ latest' = [latest EXCEPT ![t] = Nobody]
    /\ aborted' = aborted \cup ({activeByTarget[t]} \ {NoJob})
    /\ activeByTarget' = [activeByTarget EXCEPT ![t] = NoJob]
    /\ UNCHANGED <<asset, edit, pc, target, activeJobs, due, starting, callVars, phase,
                   savedVars, disposed>>

BeginDispose ==
    /\ disposed = "no"
    /\ disposed' = "waiting"
    /\ aborted' = aborted \cup activeJobs
    /\ activeByTarget' = [t \in Models |-> NoJob]
    /\ cancelled' = cancelled \cup ({hydration} \ {NoRound})
    /\ UNCHANGED <<stateVars, pc, target, latest, activeJobs, due, starting,
                   callVars, phase, queue, step, hydration, worker>>

Inflight == {j \in Jobs : pc[j] \notin {"idle", "done", "rejected"}}

Settled == Inflight = {} /\ completion = NoRound

EndDispose ==
    /\ disposed = "waiting"
    /\ Settled
    /\ disposed' = "done"
    /\ UNCHANGED <<stateVars, jobVars, due, starting, callVars, phase, savedVars>>

-----------------------------------------------------------------------------
Job(j) ==
    /\ Free
    /\ \/ BeginJob(j) \/ Prepared(j) \/ ImportFails(j) \/ RolledBack(j)
       \/ CommittedLate(j) \/ Committed(j) \/ Collected(j) \/ RestorationSettled(j)

Calls == HydrateModels \/ HydrateDefaultModel \/ RoundStarted \/ \E j \in Jobs : Dispatched(j)

Round(r) ==
    /\ Free
    /\ \/ RoundSettled(r) \/ RoundEnded(r)
       \/ Take(r) \/ BeginDecode(r) \/ Decoded(r)
       \/ Restored(r) \/ RestorationFails(r)

User ==
    /\ Free
    /\ \/ \E i \in Imports, t \in Models : ImportBatch(i, t)
       \/ \E m \in Models : RemoveModel(m) \/ CancelTarget(m)
       \/ \E targets \in SUBSET Models \ {{}} : ResetTargets(targets)
       \/ UndoRedo
       \/ BeginDispose

Wake == Free /\ Rerun

Disposal == Free /\ EndDispose

Next ==
    \/ Calls
    \/ \E j \in Jobs : Job(j)
    \/ \E r \in Rounds : Round(r)
    \/ Wake
    \/ User
    \/ Disposal

Spec == Init /\ [][Next]_vars

(***************************************************************************)
(* The event loop runs every continuation; the repository and the worker   *)
(* answer.                                                                 *)
(***************************************************************************)
Fairness ==
    /\ WF_vars(Calls)
    /\ \A j \in Jobs : WF_vars(Job(j))
    /\ \A r \in Rounds : WF_vars(Round(r))
    /\ WF_vars(Wake)
    /\ WF_vars(Disposal)

FairSpec == Spec /\ Fairness

-----------------------------------------------------------------------------
TypeOK ==
    /\ asset \in [Models -> Records]
    /\ edit \in [before : [Models -> Records], after : [Models -> Records], undone : BOOLEAN]
                \cup {NoEdit}
    /\ edits \in 0..MaxEdits
    /\ pc \in [Jobs -> {"idle", "retrying", "preparing", "committing", "rollingBack", "failed",
                        "dispatched", "collecting", "done", "rejected"}]
    /\ target \in [Jobs -> Models \cup {NoTarget}]
    /\ latest \in [Models -> Jobs \cup {NoJob, Nobody}]
    /\ activeByTarget \in [Models -> Jobs \cup {NoJob}]
    /\ activeJobs \in SUBSET Jobs
    /\ aborted \in SUBSET Jobs
    /\ due \in BOOLEAN /\ rerun \in BOOLEAN /\ woken \in BOOLEAN
    /\ starting \in Seq([round : Rounds, todo : SUBSET Defaults, saved : BOOLEAN])
    /\ completion \in Rounds \cup {NoRound}
    /\ waiting \in SUBSET Rounds
    /\ nested \in SUBSET Rounds
    /\ phase \in [Rounds -> {"free", "starting", "running", "collecting"}]
    /\ queue \in [Rounds -> Seq([id : Models, src : {"saved"}])]
    /\ step \in [Rounds -> {"idle", "reading", "decoding", "committing"}]
    /\ hydration \in Rounds \cup {NoRound}
    /\ cancelled \in SUBSET Rounds
    /\ worker \in Rounds \cup {NoRound}
    /\ disposed \in {"no", "waiting", "done"}

(***************************************************************************)
(* When nothing is running any more, no model is still shown as restoring, *)
(* whatever happened while a round was running: the call in the middle of  *)
(* a round is made up for (hydrationRerunRequested).  The exceptions are   *)
(* the code's, and concern placeholders: a default model whose restoration *)
(* gave way to an import of the user or to a cancellation on its target    *)
(* stays one until the next change, and so may one that was restored last  *)
(* in a nested round.  Such a round begins when a default model, found to  *)
(* be declared wrongly while a round is being started, is marked           *)
(* unavailable: the hydrator does not remember it, so a call in the middle *)
(* of it may pass over a restoration that is about to be given up.         *)
(***************************************************************************)
Quiet ==
    /\ disposed = "no"
    /\ Free
    /\ ~woken
    /\ Inflight = {}
    /\ \A r \in Rounds : phase[r] = "free"
    /\ \A j \in Restorations : pc[j] = "idle"

GaveWay(m) == IsPlaceholder(m) /\ latest[m] \in Imports \cup {Nobody}

Overlooked(m) ==
    IsPlaceholder(m) /\ \E r \in nested : latest[m] = <<r, m>> /\ pc[<<r, m>>] = "idle"

NoRestorationForgotten ==
    Quiet => \A m \in Models : IsRestoring(m) => GaveWay(m) \/ Overlooked(m)

(***************************************************************************)
(* Rounds do not restore saved models at the same time: they share one     *)
(* worker, where the request of one would cancel the other's and make its  *)
(* model unavailable.  And none is under way when the coordinator has been *)
(* disposed of, although a round is no job of the job manager.  A nested   *)
(* round, begun because a default model is declared wrongly, is excepted:  *)
(* the round it is nested in takes its place as hydrationCompletion.       *)
(***************************************************************************)
OneHydrationAtATime ==
    \A q, r \in Rounds \ nested : queue[q] # <<>> /\ queue[r] # <<>> => q = r

DisposedAfterRestoration ==
    disposed = "done" =>
        /\ Inflight = {}
        /\ \A r \in Rounds \ nested : queue[r] = <<>> /\ phase[r] = "free"

HydrationsContained == OneHydrationAtATime /\ DisposedAfterRestoration

(***************************************************************************)
(* A restoration never takes the place of what a user imported: a model    *)
(* of the user changes only by a later edit or import.                     *)
(***************************************************************************)
ImportsPrevail ==
    [][\A m \in Models : asset[m].src = "user" /\ asset'[m] # asset[m] =>
         \/ edits' # edits
         \/ \E i \in Imports : pc[i] = "committing" /\ pc'[i] = "dispatched"]_vars

(***************************************************************************)
(* A model that is restoring is restored or found unavailable, gives way,  *)
(* is overlooked after a nested round, or goes; and a disposal ends,       *)
(* whatever is being restored.                                             *)
(***************************************************************************)
RestorationSettles ==
    /\ \A m \in Models : IsRestoring(m) ~>
           ~IsRestoring(m) \/ GaveWay(m) \/ Overlooked(m) \/ disposed # "no"
    /\ disposed # "no" ~> disposed = "done"
=============================================================================
