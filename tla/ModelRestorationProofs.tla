----------------------- MODULE ModelRestorationProofs -----------------------
(***************************************************************************)
(* Theorems about ModelRestoration, for any number of models, imports,     *)
(* rounds and edits.                                                       *)
(***************************************************************************)
EXTENDS ModelRestoration, FiniteSetTheorems, TLAPS

(***************************************************************************)
(* The records of the workspace, and the ones undo and redo put back.      *)
(***************************************************************************)
\* The shape of a record, and the steps of a job.
Shapes == [src : {"none", "placeholder", "saved", "built", "user"},
           life : {"none", "restoring", "ready", "unavailable"}]

Stages == {"idle", "retrying", "preparing", "committing", "rollingBack", "failed",
           "dispatched", "collecting", "done", "rejected"}

\* A model of the user is complete from the start.
UsersAreReady(records) == \A m \in Models : records[m].src = "user" => records[m].life = "ready"

\* Placeholders are those of default models.
DefaultsPlaced(records) == \A m \in Models : records[m].src = "placeholder" => m \in Defaults

Workspaces == {w \in [Models -> Shapes] : UsersAreReady(w) /\ DefaultsPlaced(w)}

Edits == [before : Workspaces, after : Workspaces, undone : BOOLEAN]

HistoryInv ==
    /\ asset \in Workspaces
    /\ edit = NoEdit \/ edit \in Edits
    /\ edits \in Nat
    /\ pc \in [Jobs -> Stages]

LEMMA RecordForms ==
    /\ Absent \in Shapes /\ Absent.src = "none"
    /\ Placeholder \in Shapes /\ Placeholder.src = "placeholder"
    /\ \A src \in {"saved", "built", "user"}, life \in {"restoring", "ready", "unavailable"} :
           [src |-> src, life |-> life] \in Shapes
    /\ \A x \in Shapes, life \in {"ready", "unavailable"} :
           [x EXCEPT !.life = life] \in Shapes /\ [x EXCEPT !.life = life].src = x.src
BY DEF Shapes, Absent, Placeholder

\* Replacing one record by one that is complete, or by none of the user's.
LEMMA OneRecord ==
    ASSUME NEW w \in Workspaces, NEW m \in Models, NEW x \in Shapes,
           x.src = "user" => x.life = "ready",
           x.src = "placeholder" => m \in Defaults
    PROVE  [w EXCEPT ![m] = x] \in Workspaces
BY DEF Workspaces, UsersAreReady, DefaultsPlaced

LEMMA RecordingKept ==
    ASSUME HistoryInv, NEW w \in Workspaces, Record(w)
    PROVE  asset' \in Workspaces /\ edit' \in Edits
BY DEF HistoryInv, Record, Dispatch, Edits

\* What a restoration does to the workspace: it completes a model that is restoring
\* and is none of the user's.
OnlyRestores ==
    /\ asset' \in Workspaces
    /\ \A m \in Models : asset[m].src = "user" => asset'[m] = asset[m]

LEMMA MarkRestores ==
    ASSUME HistoryInv, NEW m \in Models, MarkUnavailable(m)
    PROVE  OnlyRestores
<1>1. CASE ~Replaceable(m)
    BY <1>1 DEF MarkUnavailable, Dispatch, OnlyRestores, HistoryInv
<1>2. CASE Replaceable(m)
    <2> DEFINE x == [Placeholder EXCEPT !.life = "unavailable"]
    <2>1. asset[m] = Placeholder /\ asset' = [asset EXCEPT ![m] = x]
        BY <1>2 DEF MarkUnavailable, Dispatch, Replaceable, IsPlaceholder, HistoryInv, Workspaces
    <2>2. x \in Shapes /\ x.src = "placeholder" /\ m \in Defaults
        BY <2>1, RecordForms DEF Shapes, Placeholder, HistoryInv, Workspaces, DefaultsPlaced
    <2>3. asset' \in Workspaces
        BY <2>1, <2>2, OneRecord DEF HistoryInv
    <2> QED
        BY <2>1, <2>3, RecordForms DEF OnlyRestores, HistoryInv, Workspaces
<1> QED
    BY <1>1, <1>2

LEMMA HydrateRestores ==
    ASSUME HistoryInv, NEW s, NEW life \in {"ready", "unavailable"}, HydrateModel(s, life)
    PROVE  OnlyRestores
<1>1. CASE ~IsSnapshot(s) \/ s.id \notin Models
    <2>1. asset' = asset
        BY <1>1 DEF HydrateModel, Dispatch, HistoryInv, Workspaces
    <2> QED
        BY <2>1 DEF OnlyRestores, HistoryInv
<1>2. CASE IsSnapshot(s) /\ s.id \in Models
    <2> DEFINE m == s.id
               x == [asset[m] EXCEPT !.life = life]
    <2>1. asset[m] \in Shapes /\ asset[m].life = "restoring" /\ asset[m].src # "user"
        BY <1>2 DEF IsSnapshot, IsRestoring, HistoryInv, Workspaces, UsersAreReady
    <2>2. asset' = [asset EXCEPT ![m] = x]
        BY <1>2 DEF HydrateModel, Dispatch
    <2>3. x \in Shapes /\ x.src # "user" /\ (x.src = "placeholder" => m \in Defaults)
        BY <1>2, <2>1, RecordForms DEF HistoryInv, Workspaces, DefaultsPlaced
    <2>4. asset' \in Workspaces
        BY <1>2, <2>2, <2>3, OneRecord DEF HistoryInv
    <2> QED
        BY <1>2, <2>1, <2>2, <2>4 DEF OnlyRestores, HistoryInv, Workspaces
<1> QED
    BY <1>1, <1>2

\* A completed default model takes the place of its placeholder.
LEMMA ReplacementRestores ==
    ASSUME HistoryInv, NEW m \in Models, Replaceable(m),
           Dispatch([asset EXCEPT ![m] = [src |-> "built", life |-> "ready"]])
    PROVE  OnlyRestores
<1>1. asset[m] = Placeholder
    BY DEF Replaceable, IsPlaceholder
<1>2. asset' \in Workspaces
    BY RecordForms, OneRecord DEF HistoryInv, Dispatch
<1> QED
    BY <1>1, <1>2, RecordForms DEF OnlyRestores, Dispatch, HistoryInv, Workspaces

\* Resetting targets puts back what a fresh workspace shows there.
LEMMA ResetForms ==
    ASSUME HistoryInv, NEW targets
    PROVE  [m \in Models |-> IF m \in targets THEN FreshWorkspace[m] ELSE asset[m]] \in Workspaces
<1>1. FreshWorkspace \in Workspaces
    BY RecordForms DEF FreshWorkspace, Workspaces, UsersAreReady, DefaultsPlaced
<1> QED
    BY <1>1 DEF HistoryInv, Workspaces, UsersAreReady, DefaultsPlaced

LEMMA HistoryInit == Init => HistoryInv
<1> SUFFICES ASSUME Init PROVE HistoryInv
    OBVIOUS
<1>1. FreshWorkspace \in Workspaces
    BY RecordForms DEF FreshWorkspace, Workspaces, UsersAreReady, DefaultsPlaced
<1>2. SavedWorkspaces \subseteq Workspaces
    BY RecordForms DEF SavedWorkspaces, Workspaces, UsersAreReady, DefaultsPlaced
<1> QED
    BY <1>1, <1>2 DEF Init, HistoryInv, Stages

\* The steps that leave the workspace alone.
Untouched ==
    /\ UNCHANGED stateVars
    /\ pc' \in [Jobs -> Stages]

\* The steps of the user that change it.
Edited ==
    /\ HistoryInv'
    /\ edits' # edits

\* The end of an import.
Imported(i) ==
    /\ HistoryInv'
    /\ pc[i] = "committing"
    /\ pc'[i] = "dispatched"

\* The steps of a restoration.
RestoredStep ==
    /\ OnlyRestores
    /\ UNCHANGED <<edit, edits>>
    /\ pc' \in [Jobs -> Stages]

LEMMA JobHistory ==
    ASSUME HistoryInv, NEW j \in Jobs, Job(j)
    PROVE  Untouched \/ RestoredStep \/ (j \in Imports /\ Imported(j))
<1>1. CASE \/ BeginJob(j) \/ Prepared(j) \/ ImportFails(j) \/ RolledBack(j)
           \/ CommittedLate(j) \/ Collected(j)
    <2>1. UNCHANGED stateVars
        BY <1>1 DEF BeginJob, Prepared, ImportFails, RolledBack, CommittedLate, Collected, stateVars
    <2>2. \E to \in Stages : Goto(j, to)
        BY <1>1 DEF BeginJob, Prepared, ImportFails, RolledBack, CommittedLate, Collected, Stages
    <2> QED
        BY <2>1, <2>2 DEF Goto, Untouched, HistoryInv
<1>2. CASE Committed(j) /\ j \in Imports
    <2>1. PICK t : Record([asset EXCEPT ![t] = [src |-> "user", life |-> "ready"]])
        BY <1>2 DEF Committed
    <2>2. [asset EXCEPT ![t] = [src |-> "user", life |-> "ready"]] \in Workspaces
        <3>1. CASE t \in Models
            BY <3>1, RecordForms, OneRecord DEF HistoryInv
        <3>2. CASE t \notin Models
            <4>1. [asset EXCEPT ![t] = [src |-> "user", life |-> "ready"]] = asset
                BY <3>2 DEF HistoryInv, Workspaces
            <4> QED
                BY <4>1 DEF HistoryInv
        <3> QED
            BY <3>1, <3>2
    <2>3. asset' \in Workspaces /\ edit' \in Edits
        BY <2>1, <2>2, RecordingKept
    <2>4. pc[j] = "committing" /\ pc'[j] = "dispatched" /\ edits' = edits
          /\ pc' \in [Jobs -> Stages]
        BY <1>2 DEF Committed, Goto, Stages, HistoryInv
    <2> QED
        BY <1>2, <2>3, <2>4 DEF Imported, HistoryInv
<1>3. CASE Committed(j) /\ j \notin Imports
    <2>1. j \in Restorations
        BY <1>3 DEF Jobs
    <2>2. Replaceable(target[j])
          /\ Dispatch([asset EXCEPT ![target[j]] = [src |-> "built", life |-> "ready"]])
        BY <1>3, <2>1 DEF Committed, Lapsed
    <2>3. OnlyRestores
        <3>1. CASE target[j] \in Models
            BY <2>2, <3>1, ReplacementRestores
        <3>2. CASE target[j] \notin Models
            BY <2>2, <3>2 DEF Dispatch, OnlyRestores, HistoryInv, Workspaces
        <3> QED
            BY <3>1, <3>2
    <2> QED
        BY <1>3, <2>3 DEF Committed, Goto, Stages, RestoredStep, HistoryInv
<1>4. CASE RestorationSettled(j)
    <2>1. OnlyRestores
        <3>1. CASE pc[j] = "rejected" /\ target[j] \in Models
            BY <1>4, <3>1, MarkRestores DEF RestorationSettled
        <3>2. CASE pc[j] = "rejected" /\ target[j] \notin Models
            <4>1. asset' = asset
                BY <1>4, <3>2 DEF RestorationSettled, MarkUnavailable, Dispatch, HistoryInv, Workspaces
            <4> QED
                BY <4>1 DEF OnlyRestores, HistoryInv
        <3>3. CASE pc[j] # "rejected"
            BY <1>4, <3>3 DEF RestorationSettled, OnlyRestores, HistoryInv
        <3> QED
            BY <3>1, <3>2, <3>3
    <2> QED
        BY <1>4, <2>1 DEF RestorationSettled, Goto, Stages, RestoredStep, HistoryInv
<1> QED
    BY <1>1, <1>2, <1>3, <1>4 DEF Job

LEMMA CallsHistory ==
    ASSUME HistoryInv, Calls
    PROVE  Untouched \/ RestoredStep
<1>1. CASE HydrateModels
    BY <1>1 DEF HydrateModels, Untouched, HistoryInv, stateVars
<1>2. CASE HydrateDefaultModel
    <2>0. UNCHANGED <<edit, edits>>
        BY <1>2 DEF HydrateDefaultModel
    <2>1. CASE \E m \in Broken : MarkUnavailable(m) /\ UNCHANGED pc
        <3>1. PICK m \in Broken : MarkUnavailable(m) /\ UNCHANGED pc
            BY <2>1
        <3>2. m \in Models
            BY RestorationAssumption DEF Models
        <3>3. OnlyRestores
            BY <3>1, <3>2, MarkRestores
        <3> QED
            BY <2>0, <3>1, <3>3 DEF RestoredStep, HistoryInv
    <2>2. CASE ~\E m \in Broken : MarkUnavailable(m) /\ UNCHANGED pc
        <3>1. UNCHANGED asset /\ \E j : \E to \in Admitted : Goto(j, to)
            BY <1>2, <2>2 DEF HydrateDefaultModel
        <3> QED
            BY <2>0, <3>1 DEF Goto, Stages, Admitted, Untouched, HistoryInv, stateVars
    <2> QED
        BY <2>1, <2>2
<1>3. CASE RoundStarted
    BY <1>3 DEF RoundStarted, Untouched, HistoryInv, stateVars, jobVars
<1>4. CASE \E j \in Jobs : Dispatched(j)
    BY <1>4 DEF Dispatched, Goto, Stages, Untouched, HistoryInv, stateVars
<1> QED
    BY <1>1, <1>2, <1>3, <1>4 DEF Calls

LEMMA RoundHistory ==
    ASSUME HistoryInv, NEW r \in Rounds, Round(r)
    PROVE  Untouched \/ RestoredStep
<1>1. CASE RoundSettled(r) \/ RoundEnded(r) \/ Take(r) \/ BeginDecode(r) \/ Decoded(r)
    BY <1>1 DEF RoundSettled, RoundEnded, Take, BeginDecode, Decoded, Untouched, HistoryInv,
                stateVars, jobVars
<1>2. CASE Restored(r)
    <2>1. CASE r \in cancelled
        BY <1>2, <2>1 DEF Restored, Untouched, HistoryInv, stateVars, jobVars
    <2>2. CASE r \notin cancelled
        <3>1. HydrateModel(Current(r), "ready")
            BY <1>2, <2>2 DEF Restored
        <3>2. OnlyRestores
            BY <3>1, HydrateRestores
        <3> QED
            BY <1>2, <3>2 DEF Restored, RestoredStep, HistoryInv, jobVars
    <2> QED
        BY <2>1, <2>2
<1>3. CASE RestorationFails(r)
    <2>1. CASE r \in cancelled
        BY <1>3, <2>1 DEF RestorationFails, Untouched, HistoryInv, stateVars, jobVars
    <2>2. CASE r \notin cancelled
        <3>1. HydrateModel(Current(r), "unavailable")
            BY <1>3, <2>2 DEF RestorationFails
        <3>2. OnlyRestores
            BY <3>1, HydrateRestores
        <3> QED
            BY <1>3, <3>2 DEF RestorationFails, RestoredStep, HistoryInv, jobVars
    <2> QED
        BY <2>1, <2>2
<1> QED
    BY <1>1, <1>2, <1>3 DEF Round

LEMMA UserHistory ==
    ASSUME HistoryInv, User
    PROVE  Untouched \/ Edited
<1>1. CASE \E i \in Imports, t \in Models : ImportBatch(i, t)
    BY <1>1 DEF ImportBatch, Goto, Stages, Admitted, Untouched, HistoryInv, stateVars
<1>2. ASSUME NEW m \in Models, RemoveModel(m)
      PROVE  Edited
    <2>1. [asset EXCEPT ![m] = Absent] \in Workspaces
        BY RecordForms, OneRecord DEF HistoryInv
    <2> QED
        BY <1>2, <2>1, RecordingKept DEF RemoveModel, CountEdit, Edited, HistoryInv, jobVars
<1>3. ASSUME NEW m \in Models, CancelTarget(m)
      PROVE  Edited
    BY <1>3 DEF CancelTarget, CountEdit, Edited, HistoryInv
<1>4. ASSUME NEW targets \in SUBSET Models, ResetTargets(targets)
      PROVE  Edited
    BY <1>4, ResetForms, RecordingKept DEF ResetTargets, CountEdit, Edited, HistoryInv, jobVars
<1>5. CASE UndoRedo
    <2>1. edit \in Edits
        BY <1>5 DEF UndoRedo, HistoryInv
    <2>2. asset' \in Workspaces /\ edit' \in Edits
        BY <1>5, <2>1 DEF UndoRedo, Dispatch, Edits
    <2> QED
        BY <1>5, <2>2 DEF UndoRedo, CountEdit, Edited, HistoryInv, jobVars
<1>6. CASE BeginDispose
    BY <1>6 DEF BeginDispose, Untouched, HistoryInv, stateVars
<1> QED
    BY <1>1, <1>2, <1>3, <1>4, <1>5, <1>6 DEF User

LEMMA HistoryStep ==
    ASSUME HistoryInv, [Next]_vars
    PROVE  Untouched \/ RestoredStep \/ Edited \/ \E i \in Imports : Imported(i)
<1>1. CASE Wake \/ Disposal \/ UNCHANGED vars
    BY <1>1 DEF Wake, Rerun, Disposal, EndDispose, vars, stateVars, jobVars, Untouched, HistoryInv
<1>2. CASE Calls
    BY <1>2, CallsHistory
<1>3. CASE User
    BY <1>3, UserHistory
<1>4. ASSUME NEW j \in Jobs, Job(j)
      PROVE  Untouched \/ RestoredStep \/ \E i \in Imports : Imported(i)
    BY <1>4, JobHistory
<1>5. ASSUME NEW r \in Rounds, Round(r)
      PROVE  Untouched \/ RestoredStep
    BY <1>5, RoundHistory
<1> QED
    BY <1>1, <1>2, <1>3, <1>4, <1>5 DEF Next

LEMMA HistoryKept ==
    ASSUME HistoryInv, [Next]_vars
    PROVE  HistoryInv'
BY HistoryStep DEF Untouched, RestoredStep, OnlyRestores, Edited, Imported, HistoryInv, stateVars

ImportPrevails ==
    \A m \in Models : asset[m].src = "user" /\ asset'[m] # asset[m] =>
        \/ edits' # edits
        \/ \E i \in Imports : pc[i] = "committing" /\ pc'[i] = "dispatched"

LEMMA StepPrevails ==
    ASSUME HistoryInv, [Next]_vars
    PROVE  ImportPrevails
BY HistoryStep DEF Untouched, RestoredStep, OnlyRestores, Edited, Imported, ImportPrevails, stateVars

(***************************************************************************)
(* No restoration takes the place of what a user imported, whatever        *)
(* rounds, undos and imports are under way: the placeholder or the         *)
(* snapshot it restores is looked up again before every dispatch.          *)
(***************************************************************************)
THEOREM ImportsAreKept == Spec => ImportsPrevail
<1>1. Init => HistoryInv
    BY HistoryInit
<1>2. HistoryInv /\ [Next]_vars => HistoryInv'
    BY HistoryKept
<1>3. HistoryInv /\ [Next]_vars => [ImportPrevails]_vars
    BY StepPrevails
<1>4. Spec => [][ImportPrevails]_vars
    BY <1>1, <1>2, <1>3, PTL DEF Spec
<1> QED
    BY <1>4 DEF ImportsPrevail, ImportPrevails
-----------------------------------------------------------------------------
(***************************************************************************)
(* Rounds.  The rounds that are being started form a stack: the first      *)
(* begins between two turns of the event loop, every other one is nested   *)
(* in it, because a default model is marked unavailable while the call is  *)
(* being made.  Apart from nested rounds one is under way at a time: it is *)
(* the first of the stack or the one that is remembered.                   *)
(***************************************************************************)
Phases == {"free", "starting", "running", "collecting"}

NoCall == starting = <<>>

Frames == [round : Rounds, todo : SUBSET Defaults, saved : BOOLEAN]

StackInv ==
    /\ starting \in Seq(Frames)
    /\ \A i \in DOMAIN starting : phase[starting[i].round] = "starting"
    /\ \A r \in Rounds : phase[r] = "starting" => \E i \in DOMAIN starting : starting[i].round = r
    /\ \A i, k \in DOMAIN starting : starting[i].round = starting[k].round => i = k
    /\ \A i \in DOMAIN starting : starting[i].round \in nested <=> i # 1

Remembered ==
    completion # NoRound => completion \in Rounds /\ phase[completion] \in {"running", "collecting"}

RoundInv ==
    /\ Remembered
    /\ \A r \in Rounds \ nested : phase[r] \in {"running", "collecting"} => completion = r
    /\ \A q, r \in Rounds \ nested : phase[q] # "free" /\ phase[r] # "free" => q = r
    /\ \A r \in Rounds : queue[r] # <<>> => phase[r] = "running"

DoneInv ==
    disposed = "done" =>
        /\ NoCall
        /\ \A r \in Rounds \ nested : phase[r] = "free"
        /\ Inflight = {}

RoundTypes ==
    /\ pc \in [Jobs -> Stages]
    /\ phase \in [Rounds -> Phases]
    /\ queue = [r \in Rounds |-> queue[r]]
    /\ nested \subseteq Rounds

SoloInv == RoundTypes /\ StackInv /\ RoundInv /\ DoneInv

LEMMA SoloContained == SoloInv => HydrationsContained
BY DEF SoloInv, RoundInv, DoneInv, HydrationsContained, OneHydrationAtATime,
       DisposedAfterRestoration

LEMMA FramesInStack ==
    ASSUME SoloInv
    PROVE  \A i \in DOMAIN starting :
              /\ starting[i] \in Frames /\ starting[i].round \in Rounds
              /\ starting[i].todo \subseteq Defaults
<1>1. starting \in Seq(Frames)
    BY DEF SoloInv, StackInv
<1>2. \A i \in DOMAIN starting : starting[i] \in Frames
    <2> HIDE DEF Frames
    <2> QED
        BY <1>1
<1>3. \A f \in Frames : f.round \in Rounds /\ f.todo \subseteq Defaults
    BY DEF Frames
<1> QED
    BY <1>2, <1>3

LEMMA SoloInit == Init => SoloInv
BY DEF Init, SoloInv, RoundTypes, StackInv, RoundInv, Remembered, DoneInv, NoCall, Stages, Phases

\* The steps of jobs, of the user and of the hydrator's callers between two calls: they
\* leave the rounds alone.
RoundsAlone == UNCHANGED <<starting, nested, completion, phase, queue, disposed>>

LEMMA AloneKept ==
    ASSUME SoloInv, RoundsAlone, pc' \in [Jobs -> Stages],
           disposed = "done" => \A j \in Jobs : j \in Inflight' => j \in Inflight
    PROVE  SoloInv'
<1>1. RoundTypes' /\ RoundInv' /\ StackInv'
    BY DEF SoloInv, RoundTypes, RoundInv, Remembered, StackInv, RoundsAlone
<1>2. Inflight \subseteq Jobs /\ Inflight' \subseteq Jobs
    BY DEF Inflight
<1>3. DoneInv'
    BY <1>2 DEF SoloInv, DoneInv, RoundsAlone, NoCall
<1> QED
    BY <1>1, <1>3 DEF SoloInv

LEMMA JobSolo ==
    ASSUME SoloInv, NEW j \in Jobs, Job(j)
    PROVE  SoloInv'
<1>1. RoundsAlone
    BY DEF Job, RoundsAlone, callVars, savedVars, BeginJob, Prepared, ImportFails,
           RolledBack, CommittedLate, Committed, Collected, RestorationSettled
<1>2. PICK to \in Stages : Goto(j, to)
                           /\ (to \in {"idle", "done", "rejected"} \/ j \in Inflight)
    <2>1. pc[j] \in Stages
        BY DEF SoloInv, RoundTypes
    <2> QED
        BY <2>1 DEF Job, BeginJob, Prepared, ImportFails, RolledBack, CommittedLate, Committed,
                    Collected, RestorationSettled, Inflight, Stages
<1>3. pc' \in [Jobs -> Stages] /\ \A i \in Jobs : i \in Inflight' => i \in Inflight
    BY <1>2 DEF Goto, SoloInv, RoundTypes, Inflight
<1> QED
    BY <1>1, <1>3, AloneKept

LEMMA UserSolo ==
    ASSUME SoloInv, User
    PROVE  SoloInv'
<1>1. CASE \E i \in Imports, t \in Models : ImportBatch(i, t)
    <2>1. RoundsAlone /\ disposed # "done" /\ pc' \in [Jobs -> Stages]
        BY <1>1 DEF RoundsAlone, callVars, savedVars, ImportBatch, Goto, Admitted, SoloInv, RoundTypes,
                    Stages
    <2> QED
        BY <2>1, AloneKept
<1>2. CASE BeginDispose
    <2>1. UNCHANGED <<pc, starting, nested, completion, phase, queue>> /\ disposed' = "waiting"
        BY <1>2 DEF BeginDispose, callVars
    <2> QED
        BY <2>1 DEF SoloInv, RoundTypes, StackInv, RoundInv, Remembered, DoneInv
<1>3. CASE \/ \E m \in Models : RemoveModel(m) \/ CancelTarget(m)
           \/ \E targets \in SUBSET Models \ {{}} : ResetTargets(targets)
           \/ UndoRedo
    <2>1. RoundsAlone /\ UNCHANGED pc
        BY <1>3 DEF RoundsAlone, callVars, savedVars, jobVars, RemoveModel, CancelTarget,
                    ResetTargets, UndoRedo
    <2>2. pc' \in [Jobs -> Stages] /\ Inflight' = Inflight
        BY <2>1 DEF SoloInv, RoundTypes, Inflight
    <2> QED
        BY <2>1, <2>2, AloneKept
<1> QED
    BY <1>1, <1>2, <1>3 DEF User

(***************************************************************************)
(* The stack of calls: a round is put on it, its innermost frame changes,  *)
(* or the innermost call returns.                                          *)
(***************************************************************************)
\* The call that starts round r.
NewCall(r) ==
    /\ r \in Rounds /\ phase[r] = "free" /\ completion = NoRound
    /\ phase' = [phase EXCEPT ![r] = "starting"]
    /\ starting' = Append(starting, Frame(r, Unattended))
    /\ nested' = IF NoCall THEN nested \ {r} ELSE nested \cup {r}
    /\ UNCHANGED <<rerun, waiting>>

LEMMA FrameForm ==
    ASSUME NEW r \in Rounds
    PROVE  Frame(r, Unattended) \in Frames
BY DEF Frame, Frames, Unattended

LEMMA FrameFields ==
    ASSUME NEW r, NEW models
    PROVE  /\ Frame(r, models).todo = models
           /\ Frame(r, models).saved <=> \E m \in Models : IsRestoring(m) /\ ~IsPlaceholder(m)
<1>1. Frame(r, models).todo = models
    BY DEF Frame
<1>2. Frame(r, models).saved <=> \E m \in Models : IsRestoring(m) /\ ~IsPlaceholder(m)
    BY Zenon DEF Frame
<1> QED
    BY <1>1, <1>2

LEMMA Pushed ==
    ASSUME NEW S, NEW s \in Seq(S), NEW x \in S
    PROVE  /\ Append(s, x) \in Seq(S) /\ Append(s, x) # <<>>
           /\ DOMAIN s \subseteq DOMAIN Append(s, x)
           /\ Len(s) + 1 \in DOMAIN Append(s, x) /\ Len(s) + 1 \notin DOMAIN s
           /\ Append(s, x)[Len(s) + 1] = x
           /\ \A i \in DOMAIN Append(s, x) : i \in DOMAIN s \/ i = Len(s) + 1
           /\ \A i \in DOMAIN s : Append(s, x)[i] = s[i]
OBVIOUS

LEMMA Popped ==
    ASSUME NEW S, NEW s \in Seq(S), s # <<>>
    PROVE  /\ SubSeq(s, 1, Len(s) - 1) \in Seq(S)
           /\ Len(s) \in DOMAIN s /\ s[Len(s)] \in S /\ 1 \in DOMAIN s
           /\ Len(s) \notin DOMAIN SubSeq(s, 1, Len(s) - 1)
           /\ DOMAIN SubSeq(s, 1, Len(s) - 1) \subseteq DOMAIN s
           /\ \A i \in DOMAIN s : i \in DOMAIN SubSeq(s, 1, Len(s) - 1) \/ i = Len(s)
           /\ \A i \in DOMAIN SubSeq(s, 1, Len(s) - 1) : SubSeq(s, 1, Len(s) - 1)[i] = s[i]
           /\ SubSeq(s, 1, Len(s) - 1) = <<>> => Len(s) = 1
OBVIOUS

LEMMA HydrateCases ==
    ASSUME SoloInv, HydrateModels
    PROVE  /\ due /\ ~due'
           /\ UNCHANGED <<asset, pc, target, latest, activeByTarget, activeJobs, completion, woken, queue,
                          cancelled, disposed>>
           /\ \/ disposed # "no" /\ UNCHANGED <<aborted, rerun, waiting, starting, phase, nested>>
              \/ /\ disposed = "no" /\ aborted' = aborted \cup Stale
                 /\ \/ Busy /\ RequestRerun /\ UNCHANGED <<starting, phase, nested>>
                    \/ \E r \in Rounds : NewCall(r)
<1>1. /\ due /\ ~due'
      /\ UNCHANGED <<asset, pc, target, latest, activeByTarget, activeJobs, completion, woken, queue,
                     cancelled, disposed>>
    BY DEF HydrateModels, stateVars, savedVars
<1>2. CASE disposed # "no" \/ Busy
    BY <1>1, <1>2 DEF HydrateModels
<1>3. CASE disposed = "no" /\ ~Busy
    <2> DEFINE r == CHOOSE q \in Rounds : phase[q] = "free"
    <2>1. /\ r \in Rounds /\ phase[r] = "free" /\ completion = NoRound
          /\ phase' = [phase EXCEPT ![r] = "starting"]
          /\ starting' = Append(starting, Frame(r, Unattended))
          /\ nested' = (IF starting = <<>> THEN nested \ {r} ELSE nested \cup {r})
          /\ aborted' = aborted \cup Stale /\ UNCHANGED <<rerun, waiting>>
        BY <1>3 DEF HydrateModels, StartRound, Busy
    <2>2. NewCall(r)
        BY <2>1 DEF NewCall, NoCall
    <2> QED
        BY <1>1, <1>3, <2>1, <2>2
<1> QED
    BY <1>2, <1>3

\* While a round can be started, no round that is not nested is running.
LEMMA NoneRuns ==
    ASSUME SoloInv, completion = NoRound
    PROVE  /\ \A q \in Rounds \ nested : phase[q] \in {"free", "starting"}
           /\ NoCall => \A q \in Rounds : phase[q] # "starting"
BY RestorationAssumption DEF SoloInv, RoundTypes, RoundInv, StackInv, NoCall, Phases

LEMMA NewCallSolo ==
    ASSUME SoloInv, NEW r \in Rounds, NewCall(r), disposed = "no",
           UNCHANGED <<pc, completion, queue, disposed>>
    PROVE  SoloInv'
<1>1. PICK f \in Frames : starting' = Append(starting, f) /\ f.round = r
    BY FrameForm DEF NewCall, Frame
<1>2. phase' = [phase EXCEPT ![r] = "starting"] /\ phase[r] = "free" /\ completion = NoRound
      /\ nested' = IF NoCall THEN nested \ {r} ELSE nested \cup {r}
    BY DEF NewCall
<1>3. RoundTypes'
    BY <1>2 DEF SoloInv, RoundTypes, Phases
<1>4. \A q \in Rounds : phase'[q] = IF q = r THEN "starting" ELSE phase[q]
    BY <1>2 DEF SoloInv, RoundTypes
<1>5. /\ starting \in Seq(Frames)
      /\ \A i \in DOMAIN starting : phase[starting[i].round] = "starting" /\ starting[i].round \in Rounds
                                    /\ starting[i].round # r
      /\ \A i, k \in DOMAIN starting : starting[i].round = starting[k].round => i = k
      /\ \A i \in DOMAIN starting : starting[i].round \in nested <=> i # 1
    <2>1. \A i \in DOMAIN starting : phase[starting[i].round] = "starting"
        BY DEF SoloInv, StackInv
    <2>2. \A i \in DOMAIN starting : starting[i].round # r
        BY <1>2, <2>1
    <2> QED
        BY <2>1, <2>2, FramesInStack DEF SoloInv, StackInv
<1>6. StackInv'
    <2> DEFINE n == Len(starting) + 1
    <2>1. /\ starting' \in Seq(Frames)
          /\ n \in DOMAIN starting' /\ n \notin DOMAIN starting /\ starting'[n] = f
          /\ DOMAIN starting \subseteq DOMAIN starting'
          /\ \A i \in DOMAIN starting' : i \in DOMAIN starting \/ i = n
          /\ \A i \in DOMAIN starting : starting'[i] = starting[i]
        BY <1>1, <1>5, Pushed
    <2>2. n = 1 <=> NoCall
        BY <1>5 DEF NoCall
    <2> HIDE DEF n
    <2>3. \A i \in DOMAIN starting' : phase'[starting'[i].round] = "starting"
        BY <1>1, <1>4, <1>5, <2>1
    <2>4. \A q \in Rounds : phase'[q] = "starting" => \E i \in DOMAIN starting' : starting'[i].round = q
        BY <1>1, <1>4, <2>1 DEF SoloInv, StackInv
    <2>5. \A i, k \in DOMAIN starting' : starting'[i].round = starting'[k].round => i = k
        BY <1>1, <1>5, <2>1
    <2>6. \A i \in DOMAIN starting' : starting'[i].round \in nested' <=> i # 1
        <3>1. starting'[n].round \in nested' <=> n # 1
            BY <1>1, <1>2, <2>1, <2>2
        <3>2. \A i \in DOMAIN starting : starting'[i].round \in nested' <=> starting[i].round \in nested
            BY <1>2, <1>5, <2>1
        <3> QED
            BY <1>5, <2>1, <3>1, <3>2
    <2> QED
        BY <2>1, <2>3, <2>4, <2>5, <2>6 DEF StackInv
<1>7. RoundInv'
    <2>1. \A q \in Rounds \ nested' : q # r => q \notin nested
        BY <1>2
    <2>2. Remembered'
        BY <1>2 DEF Remembered
    <2>3. \A q \in Rounds \ nested' : phase'[q] \notin {"running", "collecting"}
        BY <1>2, <1>4, <2>1, NoneRuns
    <2>4. \A q \in Rounds \ nested' : phase'[q] # "free" => (IF NoCall THEN q = r ELSE q # r)
        BY <1>2, <1>4, <2>1, NoneRuns
    <2>5. \A p, q \in Rounds \ nested' : phase'[p] # "free" /\ phase'[q] # "free" => p = q
        BY <1>4, <2>1, <2>4 DEF SoloInv, RoundInv
    <2>6. \A q \in Rounds : queue'[q] # <<>> => phase'[q] = "running"
        BY <1>2, <1>4 DEF SoloInv, RoundInv
    <2> QED
        BY <2>2, <2>3, <2>5, <2>6 DEF RoundInv
<1>8. DoneInv'
    BY DEF DoneInv
<1> QED
    BY <1>3, <1>6, <1>7, <1>8 DEF SoloInv

LEMMA HydrateSolo ==
    ASSUME SoloInv, HydrateModels
    PROVE  SoloInv'
<1>1. UNCHANGED <<pc, completion, queue, disposed>>
    BY HydrateCases
<1>2. CASE UNCHANGED <<starting, phase, nested>>
    <2>1. RoundsAlone /\ pc' \in [Jobs -> Stages] /\ Inflight' = Inflight
        BY <1>1, <1>2 DEF RoundsAlone, SoloInv, RoundTypes, Inflight
    <2> QED
        BY <2>1, AloneKept
<1>3. CASE disposed = "no" /\ \E r \in Rounds : NewCall(r)
    BY <1>1, <1>3, NewCallSolo
<1> QED
    BY <1>2, <1>3, HydrateCases

\* hydrateDefaultModel takes up a default model of the innermost call.
Taken(m) ==
    /\ m \in Innermost.todo
    /\ starting' = [starting EXCEPT ![Len(starting)].todo = @ \ {m}]
    /\ \/ m \in Broken /\ MarkUnavailable(m) /\ UNCHANGED <<pc, target, latest, aborted>>
       \/ /\ m \notin Broken
          /\ \E to \in Admitted : Goto(<<Innermost.round, m>>, to)
          /\ Reserve(<<Innermost.round, m>>, m)
          /\ UNCHANGED <<asset, due>>

LEMMA DefaultTaken ==
    ASSUME HydrateDefaultModel
    PROVE  /\ starting # <<>> /\ ~due /\ \E m \in Innermost.todo : Taken(m)
           /\ UNCHANGED <<edit, edits, activeByTarget, activeJobs, phase, disposed>>
           /\ UNCHANGED <<completion, rerun, waiting, woken, nested, queue, cancelled>>
<1>1. /\ starting # <<>> /\ ~due
      /\ UNCHANGED <<edit, edits, activeByTarget, activeJobs, phase, disposed>>
      /\ UNCHANGED <<completion, rerun, waiting, woken, nested, queue, cancelled>>
    BY DEF HydrateDefaultModel, callVars, savedVars
<1>2. \E m \in Innermost.todo : Taken(m)
    BY DEF HydrateDefaultModel, Taken
<1> QED
    BY <1>1, <1>2

\* What is left of the frames.
LEMMA FrameTaken ==
    ASSUME starting \in Seq(Frames), starting # <<>>, NEW m \in Innermost.todo, Taken(m)
    PROVE  /\ starting' \in Seq(Frames) /\ DOMAIN starting' = DOMAIN starting
           /\ Len(starting) \in DOMAIN starting /\ Innermost = starting[Len(starting)]
           /\ \A i \in DOMAIN starting :
                 /\ starting'[i].round = starting[i].round
                 /\ starting'[i].saved = starting[i].saved
                 /\ starting'[i].todo = IF i = Len(starting) THEN starting[i].todo \ {m}
                                                             ELSE starting[i].todo
<1> DEFINE n == Len(starting)
           g == [starting[n] EXCEPT !.todo = @ \ {m}]
<1>1. n \in DOMAIN starting /\ starting[n] \in Frames /\ DOMAIN starting = 1 .. n /\ n \in Nat
    OBVIOUS
<1>2. g \in Frames /\ g.round = starting[n].round /\ g.saved = starting[n].saved
      /\ g.todo = starting[n].todo \ {m}
    BY <1>1, ZenonT(30) DEF Frames
<1>3. starting' = [starting EXCEPT ![n] = g]
    BY DEF Taken
<1> HIDE DEF g
<1>4. starting' \in Seq(Frames) /\ DOMAIN starting' = DOMAIN starting
      /\ \A i \in DOMAIN starting : starting'[i] = IF i = n THEN g ELSE starting[i]
    BY <1>1, <1>2, <1>3
<1> QED
    BY <1>1, <1>2, <1>4 DEF Innermost

LEMMA DefaultSolo ==
    ASSUME SoloInv, HydrateDefaultModel
    PROVE  SoloInv'
<1>1. PICK m \in Innermost.todo : Taken(m)
    BY DefaultTaken
<1>2. starting # <<>> /\ UNCHANGED <<completion, phase, nested, queue, disposed>>
    BY DefaultTaken
<1>3. starting \in Seq(Frames)
    BY DEF SoloInv, StackInv
<1>4. /\ starting' \in Seq(Frames) /\ DOMAIN starting' = DOMAIN starting
      /\ \A i \in DOMAIN starting : starting'[i].round = starting[i].round
    BY <1>1, <1>2, <1>3, FrameTaken
<1>5. pc' \in [Jobs -> Stages]
    BY <1>1 DEF Taken, Goto, Admitted, SoloInv, RoundTypes, Stages
<1>6. RoundTypes' /\ RoundInv'
    BY <1>2, <1>5 DEF SoloInv, RoundTypes, RoundInv, Remembered
<1>7. StackInv'
    BY <1>2, <1>4 DEF SoloInv, StackInv
<1>8. DoneInv'
    BY <1>2 DEF SoloInv, DoneInv, NoCall
<1> QED
    BY <1>6, <1>7, <1>8 DEF SoloInv

\* The call of round r returns.
Returned(r, saved) ==
    /\ phase[r] = "starting" /\ starting' = Enclosing /\ completion' = r
    /\ phase' = [phase EXCEPT ![r] = "running"]
    /\ cancelled' = cancelled \ {r}
    /\ IF saved THEN queue' = [queue EXCEPT ![r] = Snapshots] ELSE queue' = queue

LEMMA CallReturns ==
    ASSUME SoloInv, RoundStarted
    PROVE  /\ starting # <<>> /\ Innermost \in Frames /\ Innermost.todo = {}
           /\ Returned(Innermost.round, Innermost.saved)
           /\ UNCHANGED <<asset, due, pc, target, latest, activeByTarget, activeJobs, aborted>>
           /\ UNCHANGED <<rerun, waiting, woken, nested, disposed>>
<1>1. starting # <<>> /\ starting \in Seq(Frames)
    BY DEF RoundStarted, SoloInv, StackInv
<1>2. Innermost \in Frames /\ phase[Innermost.round] = "starting"
    BY <1>1, Popped DEF Innermost, SoloInv, StackInv
<1>3. Innermost.todo = {} /\ Returned(Innermost.round, Innermost.saved)
    BY <1>2 DEF RoundStarted, Returned
<1>4. /\ UNCHANGED <<asset, due, pc, target, latest, activeByTarget, activeJobs, aborted>>
      /\ UNCHANGED <<rerun, waiting, woken, nested, disposed>>
    BY DEF RoundStarted, stateVars, jobVars
<1> QED
    BY <1>1, <1>2, <1>3, <1>4

\* What is left of the stack.
LEMMA StackPopped ==
    ASSUME SoloInv, starting # <<>>, starting' = Enclosing
    PROVE  /\ starting' \in Seq(Frames) /\ DOMAIN starting' \subseteq DOMAIN starting
           /\ Len(starting) \in DOMAIN starting /\ Len(starting) \notin DOMAIN starting'
           /\ Innermost = starting[Len(starting)] /\ 1 \in DOMAIN starting
           /\ \A i \in DOMAIN starting : i \in DOMAIN starting' \/ i = Len(starting)
           /\ \A i \in DOMAIN starting' : starting'[i] = starting[i]
<1>1. starting \in Seq(Frames)
    BY DEF SoloInv, StackInv
<1> QED
    BY <1>1, Popped DEF Innermost, Enclosing

LEMMA StartedSolo ==
    ASSUME SoloInv, RoundStarted
    PROVE  SoloInv'
<1>1. /\ starting # <<>> /\ Innermost \in Frames
      /\ Returned(Innermost.round, Innermost.saved)
      /\ UNCHANGED <<pc, nested, disposed>>
    BY CallReturns
<1>2. PICK r \in Rounds : r = Innermost.round
    BY <1>1 DEF Frames
<1>3. /\ phase[r] = "starting" /\ starting' = Enclosing /\ completion' = r
      /\ phase' = [phase EXCEPT ![r] = "running"]
      /\ queue' = [queue EXCEPT ![r] = Snapshots] \/ queue' = queue
    BY <1>1, <1>2 DEF Returned
<1>4. \A q \in Rounds : phase'[q] = IF q = r THEN "running" ELSE phase[q]
    BY <1>3 DEF SoloInv, RoundTypes
<1> DEFINE n == Len(starting)
<1>5. /\ starting' \in Seq(Frames) /\ DOMAIN starting' \subseteq DOMAIN starting
      /\ n \in DOMAIN starting /\ n \notin DOMAIN starting' /\ starting[n].round = r
      /\ 1 \in DOMAIN starting
      /\ \A i \in DOMAIN starting : i \in DOMAIN starting' \/ i = n
      /\ \A i \in DOMAIN starting' : starting'[i] = starting[i]
    BY <1>1, <1>2, <1>3, StackPopped
<1> HIDE DEF n
<1>6. RoundTypes'
    BY <1>1, <1>3 DEF SoloInv, RoundTypes, Phases
<1>7. StackInv'
    <2>1. \A i \in DOMAIN starting' : starting[i].round # r /\ starting[i].round \in Rounds
        <3>1. \A i \in DOMAIN starting : i # n => starting[i].round # r
            BY <1>5 DEF SoloInv, StackInv
        <3> QED
            BY <1>5, <3>1, FramesInStack
    <2>2. \A i \in DOMAIN starting' : phase'[starting'[i].round] = "starting"
        BY <1>4, <1>5, <2>1 DEF SoloInv, StackInv
    <2>3. \A q \in Rounds : phase'[q] = "starting" => \E i \in DOMAIN starting' : starting'[i].round = q
        BY <1>4, <1>5 DEF SoloInv, StackInv
    <2>4. \A i, k \in DOMAIN starting' : starting'[i].round = starting'[k].round => i = k
        BY <1>5 DEF SoloInv, StackInv
    <2>5. \A i \in DOMAIN starting' : starting'[i].round \in nested' <=> i # 1
        BY <1>1, <1>5 DEF SoloInv, StackInv
    <2> QED
        BY <1>5, <2>2, <2>3, <2>4, <2>5 DEF StackInv
<1>8. RoundInv'
    <2>1. PICK b \in Rounds \ nested : phase[b] = "starting" /\ (r \notin nested => r = b)
        <3>1. starting[1].round \in Rounds \ nested /\ phase[starting[1].round] = "starting"
            BY <1>5, FramesInStack DEF SoloInv, StackInv
        <3>2. r \notin nested => n = 1
            BY <1>5 DEF SoloInv, StackInv
        <3> QED
            BY <1>5, <3>1, <3>2
    <2>2. \A q \in Rounds \ nested : phase[q] # "free" => q = b
        BY <2>1 DEF SoloInv, RoundInv
    <2>3. \A q \in Rounds \ nested : phase'[q] \in {"running", "collecting"} => q = r
        BY <1>4, <2>1, <2>2
    <2>4. Remembered'
        BY <1>3, <1>4 DEF Remembered
    <2>5. \A p, q \in Rounds \ nested : phase'[p] # "free" /\ phase'[q] # "free" => p = q
        BY <1>3, <1>4, <2>2
    <2>6. \A q \in Rounds : queue'[q] # <<>> => phase'[q] = "running"
        <3>1. \A q \in Rounds : q # r => queue'[q] = queue[q]
            BY <1>3 DEF SoloInv, RoundTypes
        <3> QED
            BY <1>4, <3>1 DEF SoloInv, RoundInv
    <2> QED
        BY <1>1, <1>3, <2>3, <2>4, <2>5, <2>6 DEF RoundInv
<1>9. DoneInv'
    BY <1>1 DEF SoloInv, DoneInv, NoCall
<1> QED
    BY <1>6, <1>7, <1>8, <1>9 DEF SoloInv

LEMMA CallsSolo ==
    ASSUME SoloInv, Calls
    PROVE  SoloInv'
<1>1. ASSUME NEW j \in Jobs, Dispatched(j)
      PROVE  SoloInv'
    <2>1. RoundsAlone /\ pc' = [pc EXCEPT ![j] = "collecting"] /\ j \in Inflight
        BY <1>1 DEF Dispatched, Goto, RoundsAlone, callVars, savedVars, Inflight
    <2>2. pc' \in [Jobs -> Stages] /\ \A i \in Jobs : i \in Inflight' => i \in Inflight
        BY <2>1 DEF SoloInv, RoundTypes, Inflight, Stages
    <2> QED
        BY <2>1, <2>2, AloneKept
<1> QED
    BY <1>1, HydrateSolo, DefaultSolo, StartedSolo DEF Calls

LEMMA RoundSolo ==
    ASSUME SoloInv, NEW r \in Rounds, Round(r)
    PROVE  SoloInv'
<1>1. NoCall
    BY DEF Round, Free, NoCall
<1>2. CASE RoundSettled(r)
    <2>1. /\ phase[r] = "running" /\ queue[r] = <<>>
          /\ phase' = [phase EXCEPT ![r] = "collecting"]
          /\ UNCHANGED <<pc, starting, nested, completion, queue, disposed>>
        BY <1>2 DEF RoundSettled, jobVars, callVars
    <2>2. \A q \in Rounds : phase'[q] = IF q = r THEN "collecting" ELSE phase[q]
        BY <2>1 DEF SoloInv, RoundTypes
    <2>3. RoundTypes' /\ StackInv'
        BY <1>1, <2>1, <2>2 DEF SoloInv, RoundTypes, StackInv, NoCall, Phases
    <2>4. RoundInv'
        BY <2>1, <2>2 DEF SoloInv, RoundInv, Remembered
    <2>5. DoneInv'
        BY <2>1, <2>2 DEF SoloInv, DoneInv, NoCall, Inflight
    <2> QED
        BY <2>3, <2>4, <2>5 DEF SoloInv
<1>3. CASE RoundEnded(r)
    <2>1. /\ phase[r] = "collecting"
          /\ phase' = [phase EXCEPT ![r] = "free"]
          /\ completion' = IF completion = r THEN NoRound ELSE completion
          /\ UNCHANGED <<pc, starting, nested, queue, disposed>>
        BY <1>3 DEF RoundEnded, jobVars, savedVars
    <2>2. \A q \in Rounds : phase'[q] = IF q = r THEN "free" ELSE phase[q]
        BY <2>1 DEF SoloInv, RoundTypes
    <2>3. RoundTypes' /\ StackInv'
        BY <1>1, <2>1, <2>2 DEF SoloInv, RoundTypes, StackInv, NoCall, Phases
    <2>4. RoundInv'
        BY <2>1, <2>2, RestorationAssumption DEF SoloInv, RoundInv, Remembered
    <2>5. DoneInv'
        BY <2>1, <2>2 DEF SoloInv, DoneInv, NoCall, Inflight
    <2> QED
        BY <2>3, <2>4, <2>5 DEF SoloInv
<1>4. CASE Take(r) \/ BeginDecode(r) \/ Decoded(r) \/ Restored(r) \/ RestorationFails(r)
    <2>1. UNCHANGED <<pc, starting, nested, completion, phase, disposed>>
        BY <1>4 DEF Take, BeginDecode, Decoded, Restored, RestorationFails, jobVars, callVars
    <2>2. queue[r] # <<>> /\ (queue' = queue \/ queue' = [queue EXCEPT ![r] = Tail(@)])
        BY <1>4 DEF Take, BeginDecode, Decoded, Restored, RestorationFails, At, Goes, Leave
    <2>3. RoundTypes' /\ StackInv' /\ DoneInv'
        BY <1>1, <2>1, <2>2 DEF SoloInv, RoundTypes, StackInv, DoneInv, NoCall, Inflight
    <2>4. RoundInv'
        BY <2>1, <2>2 DEF SoloInv, RoundTypes, RoundInv, Remembered
    <2> QED
        BY <2>3, <2>4 DEF SoloInv
<1> QED
    BY <1>2, <1>3, <1>4 DEF Round

LEMMA DisposalSolo ==
    ASSUME SoloInv, Disposal
    PROVE  SoloInv'
<1>1. /\ NoCall /\ completion = NoRound /\ Inflight = {}
      /\ UNCHANGED <<pc, starting, nested, completion, phase, queue>>
    BY DEF Disposal, Free, EndDispose, Settled, NoCall, jobVars, callVars, savedVars
<1>2. \A r \in Rounds \ nested : phase[r] = "free"
    BY <1>1, NoneRuns
<1>3. Inflight' = {} /\ NoCall'
    BY <1>1 DEF Inflight, NoCall
<1>4. RoundTypes' /\ StackInv' /\ RoundInv'
    BY <1>1 DEF SoloInv, RoundTypes, StackInv, RoundInv, Remembered
<1> QED
    BY <1>1, <1>2, <1>3, <1>4 DEF SoloInv, DoneInv

LEMMA SoloKept ==
    ASSUME SoloInv, [Next]_vars
    PROVE  SoloInv'
<1>1. CASE Wake
    <2>1. RoundsAlone /\ UNCHANGED pc
        BY <1>1 DEF Wake, Rerun, RoundsAlone, jobVars, savedVars
    <2>2. pc' \in [Jobs -> Stages] /\ Inflight' = Inflight
        BY <2>1 DEF SoloInv, RoundTypes, Inflight
    <2> QED
        BY <2>1, <2>2, AloneKept
<1>2. CASE UNCHANGED vars
    <2>1. RoundsAlone /\ UNCHANGED pc
        BY <1>2 DEF vars, jobVars, callVars, savedVars, RoundsAlone
    <2>2. pc' \in [Jobs -> Stages] /\ Inflight' = Inflight
        BY <2>1 DEF SoloInv, RoundTypes, Inflight
    <2> QED
        BY <2>1, <2>2, AloneKept
<1> QED
    BY <1>1, <1>2, JobSolo, UserSolo, CallsSolo, RoundSolo, DisposalSolo DEF Next

(***************************************************************************)
(* Apart from nested rounds, saved models are restored by one round at a   *)
(* time, and when the coordinator has been disposed of no such round and   *)
(* no import is under way: whichever default models are declared wrongly,  *)
(* and however deep the calls are nested that hydrateModels receives       *)
(* because of them while it starts a round.                                *)
(***************************************************************************)
THEOREM OneRoundRestores == Spec => []HydrationsContained
<1>1. Init => SoloInv
    BY SoloInit
<1>2. SoloInv /\ [Next]_vars => SoloInv'
    BY SoloKept
<1>3. SoloInv => HydrationsContained
    BY SoloContained
<1> QED
    BY <1>1, <1>2, <1>3, PTL DEF Spec

-----------------------------------------------------------------------------
(***************************************************************************)
(* Nothing that is restoring is forgotten: a call of hydrateModels is      *)
(* coming that takes it up, or it is in a call that is being made, or in a *)
(* round that runs.  Else it is a placeholder whose restoration gave way,  *)
(* or was last admitted by a nested round.                                 *)
(***************************************************************************)
\* A round that is not over makes up for the calls in the middle of it.
RerunComes == rerun /\ (woken \/ \E r \in Rounds : r \in waiting /\ phase[r] # "free")

CallComes == due \/ RerunComes

\* The steps of a restoration before its last.
Before == {"retrying", "rejected"}

Amid == {"preparing", "committing", "failed"}

Running == {"preparing", "committing", "rollingBack", "failed", "dispatched"}

\* The job j restores the default model m, and nothing has superseded it.
Restores(j, m) ==
    /\ latest[m] = j /\ j \notin aborted
    /\ pc[j] \in Before \/ (pc[j] \in Amid /\ activeByTarget[m] = j)

Importing(m) == \E r \in Rounds : Restores(<<r, m>>, m)

InCall(m) ==
    \E i \in DOMAIN starting :
        IF IsPlaceholder(m) THEN m \in starting[i].todo ELSE starting[i].saved

\* What a round has of a model that it restores.
Snapshot(m) == [id |-> m, src |-> asset[m].src]

InQueue(m) ==
    \E r \in Rounds :
        /\ r \notin cancelled
        /\ \E n \in DOMAIN queue[r] : queue[r][n] = Snapshot(m)

Attended(m) ==
    \/ CallComes
    \/ InCall(m)
    \/ IsPlaceholder(m) /\ Importing(m)
    \/ ~IsPlaceholder(m) /\ InQueue(m)

LastNested(m) == IsPlaceholder(m) /\ \E r \in nested : latest[m] = <<r, m>>

\* The invariant the theorem rests on.
AttendInv ==
    disposed = "no" =>
        \A m \in Models : IsRestoring(m) => Attended(m) \/ GaveWay(m) \/ LastNested(m)

\* Types, and the form of the functions that are updated.
Sources == {"none", "placeholder", "saved", "built", "user"}

BookTypes ==
    /\ target = [j \in Jobs |-> target[j]]
    /\ latest = [t \in Models |-> latest[t]]
    /\ activeByTarget = [t \in Models |-> activeByTarget[t]]
    /\ queue \in [Rounds -> Seq([id : Models, src : Sources])]

\* The job manager's books: what runs at a target is the target's, and only what
\* runs can be aborted.
Books ==
    /\ \A j \in Restorations : target[j] = j[2]
    /\ \A t \in Models : activeByTarget[t] # NoJob =>
          activeByTarget[t] \in activeJobs /\ target[activeByTarget[t]] = t
    /\ aborted \subseteq activeJobs
    /\ \A j \in activeJobs : j \in Jobs /\ pc[j] \in Running

\* A restoration that runs was the last to be admitted to its target, but for the user.
ActiveIsLatest ==
    \A r \in Rounds, m \in Defaults : <<r, m>> \in activeJobs =>
        latest[m] = <<r, m>> \/ latest[m] \in Imports \cup {Nobody}

\* The jobs of a round are under way only while it is, and begin when it has started.
RoundJobs ==
    \A r \in Rounds, m \in Defaults : pc[<<r, m>>] # "idle" =>
        (phase[r] = "starting" /\ pc[<<r, m>>] \in Before) \/ phase[r] = "running"

\* A call takes up placeholders that no running job restores; one that is declared
\* wrongly may be marked while the call waits.
CallsPlaceholders ==
    \A i \in DOMAIN starting : \A m \in starting[i].todo :
        (IsPlaceholder(m) \/ m \in Broken) /\ ~HasJob(m)

BooksInv == BookTypes /\ Books /\ ActiveIsLatest /\ RoundJobs /\ CallsPlaceholders

LEMMA SeqOfSet ==
    ASSUME NEW S, IsFiniteSet(S)
    PROVE  SetToSeq(S) \in Seq(S) /\ \A x \in S : \E n \in DOMAIN SetToSeq(S) : SetToSeq(S)[n] = x
<1> DEFINE N == 1 .. Cardinality(S)
           f == SetToSeq(S)
<1>1. Cardinality(S) \in Nat /\ IsFiniteSet(N) /\ Cardinality(N) = Cardinality(S)
    <2>1. Cardinality(S) \in Nat
        BY FS_CardinalityType
    <2> QED
        BY <2>1, FS_Interval
<1>2. \E g \in [N -> S] : IsInjective(g)
    <2>1. ExistsBijection(N, S)
        BY FS_CardinalityType
    <2>2. PICK g : g \in Bijection(N, S)
        BY <2>1 DEF ExistsBijection
    <2> QED
        BY <2>2 DEF Bijection, Injection, IsInjective
<1>3. f \in [N -> S] /\ IsInjective(f)
    BY <1>2 DEF SetToSeq
<1>4. f \in Injection(N, S)
    BY <1>3 DEF Injection
<1>5. f \in Surjection(N, S)
    BY <1>1, <1>4, FS_Injection
<1> QED
    BY <1>1, <1>3, <1>5 DEF Surjection

LEMMA BooksInit == Init => BooksInv
BY DEF Init, BooksInv, BookTypes, Books, ActiveIsLatest, RoundJobs, CallsPlaceholders, Restorations,
       Jobs

(***************************************************************************)
(* What a step of a job does to the job manager's books.                   *)
(***************************************************************************)
JobMoves(j) ==
    /\ pc[j] # "idle"
    /\ \E to \in Stages :
          /\ Goto(j, to)
          /\ \/ /\ to = "preparing" /\ latest[target[j]] = j
                /\ activeByTarget' = [activeByTarget EXCEPT ![target[j]] = j]
                /\ activeJobs' = activeJobs \cup {j}
                /\ UNCHANGED aborted
             \/ /\ j \in activeJobs => to \in Running
                /\ UNCHANGED <<activeByTarget, activeJobs, aborted>>
             \/ RemoveJob(j)

CallsAlone ==
    UNCHANGED <<starting, nested, completion, phase, queue, rerun, waiting, woken, cancelled,
                disposed>>

LEMMA JobMovesOn ==
    ASSUME HistoryInv, BooksInv, NEW j \in Jobs, Job(j) \/ Dispatched(j)
    PROVE  /\ JobMoves(j) /\ UNCHANGED <<target, latest>> /\ CallsAlone
           /\ starting = <<>>
<1>1. pc[j] \in Stages /\ (j \in activeJobs => pc[j] \in Running)
    BY DEF HistoryInv, BooksInv, Books
<1>2. CASE Dispatched(j)
    BY <1>1, <1>2 DEF Dispatched, JobMoves, CallsAlone, callVars, savedVars, Stages
<1>3. CASE Job(j)
    <2>0. starting = <<>>
        BY <1>3 DEF Job, Free
    <2>1. CASE BeginJob(j)
        BY <1>1, <2>0, <2>1 DEF BeginJob, IsAdmissionCurrent, JobMoves, CallsAlone, callVars,
                                savedVars, Stages, Running
    <2>2. CASE Prepared(j) \/ ImportFails(j) \/ Committed(j)
        BY <1>1, <2>0, <2>2 DEF Prepared, ImportFails, Committed, JobMoves, CallsAlone, callVars, savedVars,
                          Stages, Running
    <2>3. CASE RolledBack(j) \/ CommittedLate(j)
        BY <1>1, <2>0, <2>3 DEF RolledBack, CommittedLate, JobMoves, CallsAlone, callVars, savedVars, Stages
    <2>4. CASE Collected(j) \/ RestorationSettled(j)
        BY <1>1, <2>0, <2>4 DEF Collected, RestorationSettled, JobMoves, CallsAlone, callVars, savedVars,
                          Stages, Running
    <2> QED
        BY <1>3, <2>1, <2>2, <2>3, <2>4 DEF Job
<1> QED
    BY <1>2, <1>3

LEMMA MovesBooks ==
    ASSUME HistoryInv, SoloInv, BooksInv, NEW j \in Jobs,
           JobMoves(j), UNCHANGED <<target, latest>>, CallsAlone, starting = <<>>
    PROVE  BooksInv'
<1>1. PICK to \in Stages :
          /\ Goto(j, to)
          /\ \/ /\ to = "preparing" /\ latest[target[j]] = j
                /\ activeByTarget' = [activeByTarget EXCEPT ![target[j]] = j]
                /\ activeJobs' = activeJobs \cup {j}
                /\ UNCHANGED aborted
             \/ /\ j \in activeJobs => to \in Running
                /\ UNCHANGED <<activeByTarget, activeJobs, aborted>>
             \/ RemoveJob(j)
    BY DEF JobMoves
<1>2. pc' = [pc EXCEPT ![j] = to] /\ pc \in [Jobs -> Stages] /\ pc[j] # "idle"
    BY <1>1 DEF Goto, HistoryInv, JobMoves
<1>3. BookTypes'
    BY <1>1 DEF BooksInv, BookTypes, RemoveJob, CallsAlone
<1>4. Books'
    <2>1. \A k \in Jobs : pc'[k] = IF k = j THEN to ELSE pc[k]
        BY <1>2
    <2>2. (\A k \in Restorations : target'[k] = k[2]) /\ aborted' \subseteq activeJobs'
        BY <1>1 DEF BooksInv, Books, RemoveJob
    <2>3. \A k \in activeJobs' : k \in Jobs /\ pc'[k] \in Running
        BY <1>1, <2>1 DEF BooksInv, Books, RemoveJob, Running
    <2>4. \A t \in Models : activeByTarget'[t] # NoJob =>
              activeByTarget'[t] \in activeJobs' /\ target'[activeByTarget'[t]] = t
        <3> SUFFICES ASSUME NEW t \in Models, activeByTarget'[t] # NoJob
                     PROVE  activeByTarget'[t] \in activeJobs' /\ target[activeByTarget'[t]] = t
            OBVIOUS
        <3>1. CASE activeByTarget'[t] = activeByTarget[t] /\ ~RemoveJob(j)
            BY <1>1, <3>1 DEF BooksInv, Books
        <3>2. CASE RemoveJob(j)
            <4>1. activeByTarget'[t] = activeByTarget[t] /\ activeByTarget[t] # j
                BY <3>2 DEF RemoveJob, BooksInv, BookTypes, Books
            <4> QED
                BY <3>2, <4>1 DEF RemoveJob, BooksInv, Books
        <3>3. CASE activeByTarget'[t] # activeByTarget[t] /\ ~RemoveJob(j)
            <4>1. activeByTarget' = [activeByTarget EXCEPT ![target[j]] = j] /\ j \in activeJobs'
                BY <1>1, <3>3
            <4>2. t = target[j] /\ activeByTarget'[t] = j
                BY <3>3, <4>1 DEF BooksInv, BookTypes
            <4> QED
                BY <4>1, <4>2
        <3> QED
            BY <3>1, <3>2, <3>3
    <2> QED
        BY <2>2, <2>3, <2>4 DEF Books
<1>5. RoundJobs'
    <2> SUFFICES ASSUME NEW r \in Rounds, NEW m \in Defaults, pc'[<<r, m>>] # "idle"
                 PROVE  phase'[r] = "running"
        BY DEF RoundJobs
    <2>1. <<r, m>> \in Jobs /\ pc[<<r, m>>] # "idle"
        BY <1>2 DEF Jobs, Restorations
    <2>2. phase[r] # "starting" /\ phase' = phase
        BY DEF SoloInv, StackInv, CallsAlone
    <2> QED
        BY <2>1, <2>2 DEF BooksInv, RoundJobs
<1>6. ActiveIsLatest'
    <2> SUFFICES ASSUME NEW r \in Rounds, NEW m \in Defaults, <<r, m>> \in activeJobs'
                 PROVE  latest[m] = <<r, m>> \/ latest[m] \in Imports \cup {Nobody}
        BY DEF ActiveIsLatest
    <2>1. CASE <<r, m>> \in activeJobs
        BY <2>1 DEF BooksInv, ActiveIsLatest
    <2>2. CASE <<r, m>> \notin activeJobs
        <3>1. <<r, m>> = j /\ latest[target[j]] = j
            BY <1>1, <2>2 DEF RemoveJob
        <3>2. target[j] = m
            BY <3>1 DEF BooksInv, Books, Restorations
        <3> QED
            BY <3>1, <3>2
    <2> QED
        BY <2>1, <2>2
<1>7. CallsPlaceholders'
    BY DEF CallsPlaceholders, CallsAlone
<1> QED
    BY <1>3, <1>4, <1>5, <1>6, <1>7 DEF BooksInv

LEMMA NoCallTakes ==
    ASSUME starting' = <<>>
    PROVE  CallsPlaceholders'
BY DEF CallsPlaceholders

\* The steps that leave the books alone.
BooksAlone == UNCHANGED <<target, latest, activeByTarget, activeJobs, aborted, pc>>

LEMMA AloneBooks ==
    ASSUME BooksInv, BooksAlone, UNCHANGED <<phase, queue>>, starting' = <<>>
    PROVE  BooksInv'
<1>1. CallsPlaceholders'
    BY NoCallTakes
<1> QED
    BY <1>1 DEF BooksInv, BooksAlone, BookTypes, Books, ActiveIsLatest, RoundJobs

LEMMA UserBooks ==
    ASSUME HistoryInv, SoloInv, BooksInv, User
    PROVE  BooksInv'
<1>0. starting = <<>>
    BY DEF User, Free
<1>1. ASSUME NEW i \in Imports, NEW t \in Models, ImportBatch(i, t)
      PROVE  BooksInv'
    <2>1. /\ pc[i] = "idle" /\ \E to \in Admitted : pc' = [pc EXCEPT ![i] = to]
          /\ target' = [target EXCEPT ![i] = t] /\ latest' = [latest EXCEPT ![t] = i]
          /\ aborted' = aborted \cup ({activeByTarget[t]} \ {NoJob})
          /\ UNCHANGED <<activeByTarget, activeJobs, starting, phase, queue>>
        BY <1>1 DEF ImportBatch, Goto, Reserve, callVars, savedVars
    <2>2. i \notin Restorations /\ i \notin activeJobs /\ i \in Jobs
        BY <2>1, RestorationAssumption DEF BooksInv, Books, Running, Jobs
    <2>3. BookTypes'
        BY <2>1 DEF BooksInv, BookTypes
    <2>4. Books'
        <3>1. \A j \in Restorations : target'[j] = target[j]
            BY <2>1, <2>2 DEF BooksInv, BookTypes, Jobs
        <3>2. \A j \in activeJobs : target'[j] = target[j] /\ pc'[j] = pc[j]
            BY <2>1, <2>2 DEF BooksInv, BookTypes, Books, HistoryInv
        <3> QED
            BY <2>1, <3>1, <3>2 DEF BooksInv, Books
    <2>5. RoundJobs'
        <3>1. \A r \in Rounds, m \in Defaults : pc'[<<r, m>>] = pc[<<r, m>>]
            BY <2>1, <2>2 DEF HistoryInv, Restorations, Jobs
        <3> QED
            BY <2>1, <3>1 DEF BooksInv, RoundJobs
    <2>6. ActiveIsLatest'
        BY <2>1 DEF BooksInv, BookTypes, ActiveIsLatest, Models
    <2>7. CallsPlaceholders'
        BY <1>0, <2>1, NoCallTakes
    <2> QED
        BY <2>3, <2>4, <2>5, <2>6, <2>7 DEF BooksInv
<1>2. CASE BeginDispose
    <2>1. /\ activeByTarget' = [t \in Models |-> NoJob] /\ aborted' = aborted \cup activeJobs
          /\ UNCHANGED <<target, latest, activeJobs, pc, starting, phase, queue>>
        BY <1>2 DEF BeginDispose, callVars
    <2>2. CallsPlaceholders'
        BY <1>0, <2>1, NoCallTakes
    <2> QED
        BY <2>1, <2>2 DEF BooksInv, BookTypes, Books, ActiveIsLatest, RoundJobs
<1>3. CASE \/ \E m \in Models : RemoveModel(m)
           \/ \E targets \in SUBSET Models \ {{}} : ResetTargets(targets)
           \/ UndoRedo
    BY <1>0, <1>3, AloneBooks
    DEF RemoveModel, ResetTargets, UndoRedo, BooksAlone, jobVars, callVars, savedVars
<1>4. ASSUME NEW t \in Models, CancelTarget(t)
      PROVE  BooksInv'
    <2>1. /\ latest' = [latest EXCEPT ![t] = Nobody]
          /\ aborted' = aborted \cup ({activeByTarget[t]} \ {NoJob})
          /\ activeByTarget' = [activeByTarget EXCEPT ![t] = NoJob]
          /\ UNCHANGED <<target, activeJobs, pc, starting, phase, queue>>
        BY <1>4 DEF CancelTarget, callVars, savedVars
    <2>2. BookTypes' /\ Books'
        BY <2>1 DEF BooksInv, BookTypes, Books
    <2>3. ActiveIsLatest'
        BY <2>1 DEF BooksInv, BookTypes, ActiveIsLatest, Models
    <2>4. CallsPlaceholders'
        BY <1>0, <2>1, NoCallTakes
    <2> QED
        BY <2>1, <2>2, <2>3, <2>4 DEF BooksInv, RoundJobs
<1> QED
    BY <1>1, <1>2, <1>3, <1>4 DEF User

LEMMA FunctionIsSeq ==
    ASSUME NEW S, NEW n \in Nat, NEW f \in [1 .. n -> S]
    PROVE  f \in Seq(S)
OBVIOUS

LEMMA SnapshotsListed ==
    ASSUME HistoryInv
    PROVE  /\ Snapshots \in Seq([id : Models, src : Sources])
           /\ \A m \in Models : IsRestoring(m) /\ ~IsPlaceholder(m) =>
                 \E n \in DOMAIN Snapshots : Snapshots[n] = Snapshot(m)
<1> DEFINE S == {m \in Models : IsRestoring(m) /\ ~IsPlaceholder(m)}
           s == SetToSeq(S)
<1>1. S \subseteq Models /\ IsFiniteSet(S)
    <2>1. IsFiniteSet(Models)
        BY RestorationAssumption, FS_Union DEF Models
    <2> QED
        BY <2>1, FS_Subset
<1>2. s \in Seq(S) /\ \A m \in S : \E n \in DOMAIN s : s[n] = m
    BY <1>1, SeqOfSet
<1>3. Snapshots = [n \in 1 .. Len(s) |-> [id |-> s[n], src |-> asset[s[n]].src]]
    BY DEF Snapshots
<1>4. \A m \in Models : asset[m].src \in Sources
    BY DEF HistoryInv, Workspaces, Shapes, Sources
<1> HIDE DEF s
<1>5. \A n \in 1 .. Len(s) : s[n] \in S /\ s[n] \in Models
    BY <1>1, <1>2
<1>6. Snapshots \in Seq([id : Models, src : Sources])
    <2>1. Len(s) \in Nat
        BY <1>2
    <2>2. \A n \in 1 .. Len(s) : [id |-> s[n], src |-> asset[s[n]].src] \in [id : Models, src : Sources]
        BY <1>4, <1>5
    <2>3. Snapshots \in [1 .. Len(s) -> [id : Models, src : Sources]]
        BY <1>3, <2>2
    <2> QED
        BY <2>1, <2>3, FunctionIsSeq
<1>7. ASSUME NEW m \in Models, IsRestoring(m), ~IsPlaceholder(m)
      PROVE  \E n \in DOMAIN Snapshots : Snapshots[n] = Snapshot(m)
    <2>1. PICK n \in DOMAIN s : s[n] = m
        BY <1>2, <1>7
    <2>2. n \in 1 .. Len(s)
        BY <1>2, <2>1
    <2> QED
        BY <1>3, <2>1, <2>2 DEF Snapshot
<1> QED
    BY <1>6, <1>7

LEMMA HydrateBooks ==
    ASSUME HistoryInv, SoloInv, BooksInv, HydrateModels
    PROVE  BooksInv'
<1>1. /\ UNCHANGED <<asset, pc, target, latest, activeByTarget, activeJobs, queue>>
      /\ aborted' = aborted \/ aborted' = aborted \cup Stale
      /\ UNCHANGED <<starting, phase>> \/ \E r \in Rounds : NewCall(r)
    BY HydrateCases
<1>2. BookTypes' /\ Books' /\ ActiveIsLatest'
    BY <1>1 DEF BooksInv, BookTypes, Books, ActiveIsLatest, Stale
<1>3. CASE UNCHANGED <<starting, phase>>
    BY <1>1, <1>2, <1>3 DEF BooksInv, RoundJobs, CallsPlaceholders, IsPlaceholder, HasJob
<1>4. CASE \E r \in Rounds : NewCall(r)
    <2>1. PICK r \in Rounds : NewCall(r)
        BY <1>4
    <2>2. \A q \in Rounds : phase'[q] = IF q = r THEN "starting" ELSE phase[q]
        BY <2>1 DEF NewCall, SoloInv, RoundTypes
    <2>3. RoundJobs'
        BY <1>1, <2>1, <2>2 DEF NewCall, BooksInv, RoundJobs
    <2>4. CallsPlaceholders'
        <3>1. starting \in Seq(Frames)
            BY DEF SoloInv, StackInv
        <3>2. PICK f \in Frames : starting' = Append(starting, f) /\ f.todo = Unattended
            BY <2>1, FrameForm DEF NewCall, Frame
        <3>3. \A i \in DOMAIN starting' :
                  starting'[i] = f \/ (i \in DOMAIN starting /\ starting'[i] = starting[i])
            BY <3>1, <3>2, Pushed
        <3>4. \A m \in f.todo : IsPlaceholder(m) /\ ~HasJob(m)
            BY <3>2 DEF Unattended
        <3> QED
            BY <1>1, <3>3, <3>4 DEF BooksInv, CallsPlaceholders, IsPlaceholder, HasJob
    <2> QED
        BY <1>2, <2>3, <2>4 DEF BooksInv
<1> QED
    BY <1>1, <1>3, <1>4

\* What hydrateDefaultModel does with a default model that it can turn into files.
LEMMA TakenForms ==
    ASSUME SoloInv, BooksInv, starting # <<>>, NEW m \in Innermost.todo, Taken(m)
    PROVE  \E r \in Rounds :
              /\ m \in Defaults /\ m \in Models /\ ~HasJob(m) /\ phase[r] = "starting"
              /\ \/ m \in Broken /\ MarkUnavailable(m) /\ UNCHANGED <<pc, target, latest, aborted>>
                 \/ /\ IsPlaceholder(m) /\ UNCHANGED <<asset, due>>
                    /\ \E to \in Before : pc' = [pc EXCEPT ![<<r, m>>] = to]
                    /\ Reserve(<<r, m>>, m)
<1>1. starting \in Seq(Frames)
    BY DEF SoloInv, StackInv
<1>2. Innermost = starting[Len(starting)] /\ Len(starting) \in DOMAIN starting
    BY <1>1, Popped DEF Innermost
<1>3. /\ Innermost.round \in Rounds /\ m \in Defaults /\ phase[Innermost.round] = "starting"
      /\ (IsPlaceholder(m) \/ m \in Broken) /\ ~HasJob(m)
    BY <1>2, FramesInStack DEF SoloInv, StackInv, BooksInv, CallsPlaceholders
<1>4. m \in Models
    BY <1>3 DEF Models
<1> QED
    BY <1>3, <1>4 DEF Taken, Goto, Admitted, Before

LEMMA DefaultBooks ==
    ASSUME HistoryInv, SoloInv, BooksInv, HydrateDefaultModel
    PROVE  BooksInv'
<1>1. PICK m \in Innermost.todo : Taken(m)
    BY DefaultTaken
<1>2. starting # <<>> /\ UNCHANGED <<activeByTarget, activeJobs, phase, queue>>
    BY DefaultTaken
<1>3. PICK r \in Rounds :
          /\ m \in Defaults /\ m \in Models /\ ~HasJob(m) /\ phase[r] = "starting"
          /\ \/ m \in Broken /\ MarkUnavailable(m) /\ UNCHANGED <<pc, target, latest, aborted>>
             \/ /\ IsPlaceholder(m) /\ UNCHANGED <<asset, due>>
                /\ \E to \in Before : pc' = [pc EXCEPT ![<<r, m>>] = to]
                /\ Reserve(<<r, m>>, m)
    BY <1>1, <1>2, TakenForms
<1>4. CallsPlaceholders'
    <2>1. \A i \in DOMAIN starting' : i \in DOMAIN starting /\ starting'[i].todo \subseteq starting[i].todo
        <3>1. starting \in Seq(Frames)
            BY DEF SoloInv, StackInv
        <3> QED
            BY <1>1, <1>2, <3>1, FrameTaken
    <2>2. \A x \in Models : IsPlaceholder(x) /\ x # m => IsPlaceholder(x)'
        BY <1>3 DEF MarkUnavailable, Dispatch, IsPlaceholder, HistoryInv, Workspaces
    <2>3. asset' = asset \/ m \in Broken
        BY <1>3
    <2>4. \A x \in Defaults : IsPlaceholder(x) \/ x \in Broken => IsPlaceholder(x)' \/ x \in Broken
        BY <2>2, <2>3 DEF IsPlaceholder, Models
    <2> QED
        BY <1>2, <2>1, <2>4, FramesInStack DEF BooksInv, CallsPlaceholders, HasJob
<1>5. CASE UNCHANGED <<pc, target, latest, aborted>>
    BY <1>2, <1>4, <1>5 DEF BooksInv, BookTypes, Books, ActiveIsLatest, RoundJobs
<1>6. CASE (\E to \in Before : pc' = [pc EXCEPT ![<<r, m>>] = to]) /\ Reserve(<<r, m>>, m)
    <2>1. PICK j \in Restorations : j = <<r, m>> /\ j \in Jobs /\ j[2] = m
        BY <1>3 DEF Restorations, Jobs
    <2>2. PICK to \in Before :
              /\ pc' = [pc EXCEPT ![j] = to]
              /\ target' = [target EXCEPT ![j] = m]
              /\ latest' = [latest EXCEPT ![m] = j]
              /\ aborted' = aborted \cup ({activeByTarget[m]} \ {NoJob})
        BY <1>6, <2>1 DEF Reserve
    <2>3. target' = target
        BY <2>1, <2>2 DEF BooksInv, BookTypes, Books
    <2>4. j \notin activeJobs
        BY <1>3, <2>1 DEF HasJob
    <2>5. BookTypes'
        BY <1>2, <2>2, <2>3 DEF BooksInv, BookTypes
    <2>6. Books'
        BY <1>2, <1>3, <2>1, <2>2, <2>3, <2>4 DEF BooksInv, Books, HistoryInv
    <2>7. ActiveIsLatest'
        <3> SUFFICES ASSUME NEW q \in Rounds, NEW x \in Defaults, <<q, x>> \in activeJobs
                     PROVE  latest'[x] = <<q, x>> \/ latest'[x] \in Imports \cup {Nobody}
            BY <1>2 DEF ActiveIsLatest
        <3>1. x # m
            BY <1>3 DEF HasJob
        <3>2. latest'[x] = latest[x]
            BY <2>2, <3>1 DEF BooksInv, BookTypes, Models
        <3> QED
            BY <3>2 DEF BooksInv, ActiveIsLatest
    <2>8. RoundJobs'
        <3> SUFFICES ASSUME NEW q \in Rounds, NEW x \in Defaults, pc'[<<q, x>>] # "idle"
                     PROVE  (phase[q] = "starting" /\ pc'[<<q, x>>] \in Before) \/ phase[q] = "running"
            BY <1>2 DEF RoundJobs
        <3>1. <<q, x>> \in Jobs
            BY DEF Jobs, Restorations
        <3>2. CASE <<q, x>> = j
            BY <1>3, <2>1, <2>2, <3>1, <3>2 DEF HistoryInv
        <3>3. CASE <<q, x>> # j
            BY <2>2, <3>1, <3>3 DEF HistoryInv, BooksInv, RoundJobs
        <3> QED
            BY <3>2, <3>3
    <2> QED
        BY <1>4, <2>5, <2>6, <2>7, <2>8 DEF BooksInv
<1> QED
    BY <1>3, <1>5, <1>6

LEMMA StartedBooks ==
    ASSUME HistoryInv, SoloInv, BooksInv, RoundStarted
    PROVE  BooksInv'
<1>1. /\ starting # <<>> /\ Innermost \in Frames
      /\ Returned(Innermost.round, Innermost.saved)
      /\ UNCHANGED <<asset, pc, target, latest, activeByTarget, activeJobs, aborted>>
    BY CallReturns
<1>2. PICK r \in Rounds : r = Innermost.round
    BY <1>1 DEF Frames
<1>3. /\ starting' = Enclosing
      /\ phase' = [phase EXCEPT ![r] = "running"]
      /\ queue' = queue \/ queue' = [queue EXCEPT ![r] = Snapshots]
    BY <1>1, <1>2 DEF Returned
<1>4. BookTypes'
    BY <1>1, <1>3, SnapshotsListed DEF BooksInv, BookTypes
<1>5. Books' /\ ActiveIsLatest'
    BY <1>1 DEF BooksInv, Books, ActiveIsLatest
<1>6. RoundJobs'
    BY <1>1, <1>3 DEF BooksInv, RoundJobs, SoloInv, RoundTypes
<1>7. CallsPlaceholders'
    <2>1. \A i \in DOMAIN starting' : i \in DOMAIN starting /\ starting'[i] = starting[i]
        BY <1>1, <1>3, StackPopped
    <2> QED
        BY <1>1, <2>1 DEF BooksInv, CallsPlaceholders, IsPlaceholder, HasJob
<1> QED
    BY <1>4, <1>5, <1>6, <1>7 DEF BooksInv

LEMMA CallsBooks ==
    ASSUME HistoryInv, SoloInv, BooksInv, Calls
    PROVE  BooksInv'
<1>1. ASSUME NEW j \in Jobs, Dispatched(j)
      PROVE  BooksInv'
    BY <1>1, JobMovesOn, MovesBooks
<1> QED
    BY <1>1, HydrateBooks, DefaultBooks, StartedBooks DEF Calls

\* What a round does to its queue.
LEMMA QueueSteps ==
    ASSUME NEW r \in Rounds, Round(r)
    PROVE  /\ starting = <<>> /\ starting' = <<>> /\ BooksAlone
           /\ UNCHANGED <<cancelled, disposed, rerun, nested>>
           /\ \/ RoundSettled(r) \/ RoundEnded(r)
              \/ /\ UNCHANGED <<phase, completion, waiting, woken>>
                 /\ \/ queue' = queue
                    \/ queue[r] # <<>> /\ queue' = [queue EXCEPT ![r] = Tail(@)]
<1>1. starting = <<>>
    BY DEF Round, Free
<1>2. CASE RoundSettled(r) \/ RoundEnded(r)
    BY <1>1, <1>2 DEF RoundSettled, RoundEnded, BooksAlone, jobVars, callVars, savedVars
<1>3. CASE Take(r) \/ BeginDecode(r) \/ Decoded(r)
    BY <1>1, <1>3 DEF Take, BeginDecode, Decoded, Goes, Leave, At, BooksAlone, jobVars, callVars
<1>4. CASE Restored(r) \/ RestorationFails(r)
    BY <1>1, <1>4 DEF Restored, RestorationFails, Leave, At, BooksAlone, jobVars, callVars
<1> QED
    BY <1>2, <1>3, <1>4 DEF Round

LEMMA RoundBooks ==
    ASSUME SoloInv, BooksInv, NEW r \in Rounds, Round(r)
    PROVE  BooksInv'
<1>1. starting = <<>> /\ starting' = <<>> /\ BooksAlone
    BY QueueSteps
<1>2. Books' /\ ActiveIsLatest' /\ CallsPlaceholders'
    BY <1>1 DEF BooksInv, Books, ActiveIsLatest, CallsPlaceholders, BooksAlone
<1>3. CASE RoundSettled(r)
    <2>1. /\ phase[r] = "running" /\ phase' = [phase EXCEPT ![r] = "collecting"]
          /\ \A d \in Defaults : pc[<<r, d>>] = "idle"
          /\ UNCHANGED queue
        BY <1>3 DEF RoundSettled
    <2>2. BookTypes' /\ RoundJobs'
        BY <1>1, <2>1 DEF BooksInv, BookTypes, RoundJobs, BooksAlone, SoloInv, RoundTypes
    <2> QED
        BY <1>2, <2>2 DEF BooksInv
<1>4. CASE RoundEnded(r)
    <2>1. /\ phase[r] = "collecting" /\ phase' = [phase EXCEPT ![r] = "free"]
          /\ UNCHANGED queue
        BY <1>4 DEF RoundEnded, savedVars
    <2>2. BookTypes' /\ RoundJobs'
        BY <1>1, <2>1 DEF BooksInv, BookTypes, RoundJobs, BooksAlone, SoloInv, RoundTypes
    <2> QED
        BY <1>2, <2>2 DEF BooksInv
<1>5. CASE /\ UNCHANGED phase
           /\ \/ queue' = queue
              \/ queue[r] # <<>> /\ queue' = [queue EXCEPT ![r] = Tail(@)]
    <2>1. \A s \in Seq([id : Models, src : Sources]) :
              s # <<>> => Tail(s) \in Seq([id : Models, src : Sources])
        OBVIOUS
    <2>2. queue' \in [Rounds -> Seq([id : Models, src : Sources])]
        BY <1>5, <2>1 DEF BooksInv, BookTypes
    <2>3. BookTypes' /\ RoundJobs'
        BY <1>1, <1>5, <2>2 DEF BooksInv, BookTypes, RoundJobs, BooksAlone
    <2> QED
        BY <1>2, <2>3 DEF BooksInv
<1> QED
    BY <1>3, <1>4, <1>5, QueueSteps

LEMMA BooksStep ==
    ASSUME HistoryInv, SoloInv, BooksInv, [Next]_vars
    PROVE  BooksInv'
<1>1. ASSUME NEW j \in Jobs, Job(j)
      PROVE  BooksInv'
    BY <1>1, JobMovesOn, MovesBooks
<1>2. CASE Wake \/ Disposal
    <2>1. starting' = <<>> /\ BooksAlone /\ UNCHANGED <<phase, queue>>
        BY <1>2 DEF Wake, Disposal, Free, Rerun, EndDispose, BooksAlone, jobVars, callVars, savedVars
    <2> QED
        BY <2>1, AloneBooks
<1>3. CASE UNCHANGED vars
    BY <1>3 DEF vars, stateVars, jobVars, callVars, savedVars, BooksInv, BookTypes, Books,
                ActiveIsLatest, RoundJobs, CallsPlaceholders, IsPlaceholder, HasJob
<1> QED
    BY <1>1, <1>2, <1>3, UserBooks, CallsBooks, RoundBooks DEF Next

(***************************************************************************)
(* Every step leaves what is restoring in somebody's hands.                *)
(***************************************************************************)
Handed(m) == Attended(m) \/ GaveWay(m) \/ LastNested(m)

\* A step calls hydrateModels, or leaves the workspace and what is handed alone.
LEMMA HandedOn ==
    ASSUME AttendInv, disposed' = "no" => disposed = "no",
           \/ due'
           \/ disposed' # "no"
           \/ /\ asset' = asset
              /\ \A m \in Models : IsRestoring(m) /\ Handed(m) => Handed(m)'
    PROVE  AttendInv'
BY DEF AttendInv, Handed, Attended, CallComes, IsRestoring

LEMMA ShownIsDefault ==
    ASSUME HistoryInv, NEW m \in Models, IsPlaceholder(m)
    PROVE  m \in Defaults /\ IsRestoring(m)
BY DEF HistoryInv, Workspaces, DefaultsPlaced, IsPlaceholder, IsRestoring, Placeholder

\* What does not touch the calls and the rounds touches at most the imports.
LEMMA HandedAside ==
    ASSUME CallsAlone, asset' = asset, (due' <=> due), NEW m \in Models,
           GaveWay(m) \/ LastNested(m) => Handed(m)',
           IsPlaceholder(m) /\ Importing(m) => Handed(m)',
           Handed(m)
    PROVE  Handed(m)'
<1>1. (CallComes' <=> CallComes) /\ (InCall(m)' <=> InCall(m)) /\ (InQueue(m)' <=> InQueue(m))
      /\ (IsPlaceholder(m)' <=> IsPlaceholder(m))
    BY DEF CallsAlone, CallComes, RerunComes, InCall, InQueue, IsPlaceholder, Snapshot
<1> QED
    BY <1>1 DEF Handed, Attended

\* A job's own steps, until its outcome is dispatched.
LEMMA OwnSteps ==
    ASSUME HistoryInv, BooksInv, disposed = "no", asset' = asset,
           NEW r \in Rounds, NEW m \in Defaults, IsPlaceholder(m), Restores(<<r, m>>, m),
           Job(<<r, m>>) \/ Dispatched(<<r, m>>)
    PROVE  Restores(<<r, m>>, m)'
<1> DEFINE j == <<r, m>>
<1>1. j \in Restorations /\ j \in Jobs /\ m \in Models /\ target[j] = m
    BY DEF Restorations, Jobs, Models, BooksInv, Books
<1> HIDE DEF j
<1>2. latest[m] = j /\ j \notin aborted /\ (pc[j] \in Before \/ (pc[j] \in Amid /\ activeByTarget[m] = j))
    BY DEF Restores, j
<1>3. IsAdmissionCurrent(j) /\ (pc[j] \in Amid => IsCurrent(j))
    BY <1>1, <1>2 DEF IsAdmissionCurrent, IsCurrent, Before, Amid
<1>4. \A to : Goto(j, to) => pc'[j] = to
    BY <1>1 DEF Goto, HistoryInv
<1>5. CASE BeginJob(j)
    BY <1>1, <1>2, <1>3, <1>4, <1>5 DEF BeginJob, BooksInv, BookTypes, Restores, Amid, j
<1>6. CASE Prepared(j) \/ ImportFails(j)
    BY <1>2, <1>3, <1>4, <1>6 DEF Prepared, ImportFails, Restores, Before, Amid, j
<1>7. CASE RolledBack(j)
    BY <1>2, <1>3, <1>4, <1>7 DEF RolledBack, RemoveJob, Restores, Before, Amid, j
<1>8. ~CommittedLate(j) /\ ~Collected(j) /\ ~Dispatched(j)
    BY <1>1, <1>2, <1>3 DEF CommittedLate, Lapsed, Replaceable, Collected, Dispatched, Before, Amid
<1>9. ~Committed(j)
    <2>1. ~(asset' = [asset EXCEPT ![m] = [src |-> "built", life |-> "ready"]])
        BY <1>1 DEF IsPlaceholder, Placeholder, HistoryInv, Workspaces
    <2>2. j \notin Imports
        BY <1>1, RestorationAssumption
    <2> QED
        BY <1>1, <2>1, <2>2 DEF Committed, Dispatch
<1>10. ~RestorationSettled(j)
    <2>1. ~(asset' = [asset EXCEPT ![m].life = "unavailable"])
        BY <1>1 DEF IsPlaceholder, Placeholder, HistoryInv, Workspaces
    <2> QED
        BY <1>1, <1>2, <2>1 DEF RestorationSettled, MarkUnavailable, Replaceable, Dispatch, Before, Amid
<1> QED
    BY <1>5, <1>6, <1>7, <1>8, <1>9, <1>10 DEF Job, j

\* No other job gets in its way.
LEMMA OthersSteps ==
    ASSUME HistoryInv, BooksInv, NEW r \in Rounds, NEW m \in Defaults, Restores(<<r, m>>, m),
           NEW j \in Jobs, j # <<r, m>>, Job(j) \/ Dispatched(j)
    PROVE  Restores(<<r, m>>, m)'
<1> DEFINE k == <<r, m>>
<1>1. k \in Jobs /\ m \in Models /\ latest[m] = k /\ k \notin aborted
      /\ (pc[k] \in Before \/ (pc[k] \in Amid /\ activeByTarget[m] = k))
    BY DEF Restorations, Jobs, Models, Restores
<1>2. JobMoves(j) /\ UNCHANGED <<target, latest>>
    BY JobMovesOn
<1> HIDE DEF k
<1>3. pc'[k] = pc[k] /\ k \notin aborted'
    BY <1>1, <1>2 DEF JobMoves, Goto, RemoveJob, HistoryInv, k
<1>4. activeByTarget[m] = k => activeByTarget'[m] = k
    <2>1. CASE BeginJob(j)
        <3>1. \/ UNCHANGED activeByTarget
              \/ /\ activeByTarget' = [activeByTarget EXCEPT ![target[j]] = j]
                 /\ latest[target[j]] = j
            BY <2>1 DEF BeginJob, IsAdmissionCurrent
        <3>2. latest[target[j]] = j => target[j] # m
            BY <1>1 DEF k
        <3> QED
            BY <1>1, <3>1, <3>2 DEF BooksInv, BookTypes
    <2>2. CASE RemoveJob(j)
        BY <1>1, <2>2 DEF RemoveJob, BooksInv, BookTypes, k
    <2>3. CASE ~BeginJob(j) /\ ~RemoveJob(j)
        <3>1. UNCHANGED activeByTarget
            BY <2>3 DEF Job, Dispatched, Prepared, ImportFails, RolledBack, CommittedLate, Committed,
                        Collected, RestorationSettled
        <3> QED
            BY <3>1
    <2> QED
        BY <2>1, <2>2, <2>3
<1> QED
    BY <1>1, <1>2, <1>3, <1>4 DEF Restores, k

LEMMA JobDispatches ==
    ASSUME NEW j \in Jobs, Job(j) \/ Dispatched(j)
    PROVE  due' \/ (asset' = asset /\ (due' <=> due))
<1>1. ~due
    BY DEF Job, Free, Dispatched
<1>2. CASE Committed(j)
    <2>1. \E records : Dispatch(records)
        BY <1>2 DEF Committed, Record
    <2> QED
        BY <1>1, <2>1 DEF Dispatch
<1>3. CASE RestorationSettled(j)
    <2>1. UNCHANGED <<asset, due>> \/ \E records : Dispatch(records)
        BY <1>3 DEF RestorationSettled, MarkUnavailable
    <2> QED
        BY <1>1, <2>1 DEF Dispatch
<1>4. CASE ~Committed(j) /\ ~RestorationSettled(j)
    BY <1>4 DEF Job, Dispatched, BeginJob, Prepared, ImportFails, RolledBack, CommittedLate, Collected,
                stateVars
<1> QED
    BY <1>2, <1>3, <1>4

LEMMA JobAttends ==
    ASSUME HistoryInv, BooksInv, AttendInv, NEW j \in Jobs, Job(j) \/ Dispatched(j)
    PROVE  AttendInv'
<1>1. UNCHANGED latest /\ CallsAlone
    BY JobMovesOn
<1>2. due' \/ (asset' = asset /\ (due' <=> due))
    BY JobDispatches
<1>3. ASSUME asset' = asset, (due' <=> due), disposed = "no", NEW m \in Models, Handed(m)
      PROVE  Handed(m)'
    <2>1. GaveWay(m) \/ LastNested(m) => Handed(m)'
        BY <1>1, <1>3 DEF GaveWay, LastNested, IsPlaceholder, CallsAlone, Handed
    <2>2. ASSUME IsPlaceholder(m), Importing(m)
          PROVE  Handed(m)'
        <3>1. m \in Defaults
            BY <2>2, ShownIsDefault
        <3>2. PICK r \in Rounds : Restores(<<r, m>>, m)
            BY <2>2 DEF Importing
        <3>3. Restores(<<r, m>>, m)'
            BY <1>3, <2>2, <3>1, <3>2, OwnSteps, OthersSteps
        <3>4. Importing(m)' /\ IsPlaceholder(m)'
            BY <1>3, <2>2, <3>3 DEF Importing, IsPlaceholder
        <3> QED
            BY <3>4 DEF Handed, Attended
    <2> QED
        BY <1>1, <1>3, <2>1, <2>2, HandedAside
<1> QED
    BY <1>1, <1>2, <1>3, HandedOn DEF CallsAlone

\* What a superseding admission or a cancellation does to the other targets.
LEMMA OtherTargets ==
    ASSUME BooksInv, NEW t \in Models, NEW m \in Defaults, m # t, NEW r \in Rounds,
           Restores(<<r, m>>, m), latest'[m] = latest[m],
           aborted' = aborted \cup ({activeByTarget[t]} \ {NoJob}),
           activeByTarget'[m] = activeByTarget[m], pc'[<<r, m>>] = pc[<<r, m>>]
    PROVE  Restores(<<r, m>>, m)'
<1> DEFINE k == <<r, m>>
<1>1. k \in Restorations /\ target[k] = m
    BY DEF Restorations, BooksInv, Books
<1>2. activeByTarget[t] # NoJob => target[activeByTarget[t]] = t
    BY DEF BooksInv, Books
<1>3. k \notin aborted'
    BY <1>1, <1>2 DEF Restores
<1> QED
    BY <1>3 DEF Restores

LEMMA UserAttends ==
    ASSUME HistoryInv, BooksInv, AttendInv, User
    PROVE  AttendInv'
<1>0. ~due /\ starting = <<>>
    BY DEF User, Free
<1>1. ASSUME NEW t \in Models, NEW i \in Imports \cup {Nobody},
             latest' = [latest EXCEPT ![t] = i],
             aborted' = aborted \cup ({activeByTarget[t]} \ {NoJob}),
             \A m \in Models : m # t => activeByTarget'[m] = activeByTarget[m],
             \A j \in Restorations : pc'[j] = pc[j],
             CallsAlone, asset' = asset, (due' <=> due)
      PROVE  AttendInv'
    <2>1. ASSUME NEW m \in Models, IsRestoring(m), Handed(m)
          PROVE  Handed(m)'
        <3>1. latest'[m] = IF m = t THEN i ELSE latest[m]
            BY <1>1 DEF BooksInv, BookTypes
        <3>2. GaveWay(m) \/ LastNested(m) => Handed(m)'
            BY <1>1, <3>1 DEF GaveWay, LastNested, IsPlaceholder, CallsAlone, Handed
        <3>3. ASSUME IsPlaceholder(m), Importing(m)
              PROVE  Handed(m)'
            <4>1. m \in Defaults
                BY <3>3, ShownIsDefault
            <4>2. CASE m = t
                BY <1>1, <3>1, <3>3, <4>2 DEF GaveWay, IsPlaceholder, Handed
            <4>3. CASE m # t
                <5>1. PICK r \in Rounds : Restores(<<r, m>>, m)
                    BY <3>3 DEF Importing
                <5>2. <<r, m>> \in Restorations
                    BY <4>1 DEF Restorations
                <5>3. Restores(<<r, m>>, m)'
                    BY <1>1, <3>1, <4>1, <4>3, <5>1, <5>2, OtherTargets
                <5>4. Importing(m)' /\ IsPlaceholder(m)'
                    BY <1>1, <3>3, <5>3 DEF Importing, IsPlaceholder
                <5> QED
                    BY <5>4 DEF Handed, Attended
            <4> QED
                BY <4>2, <4>3
        <3> QED
            BY <1>1, <2>1, <3>2, <3>3, HandedAside
    <2> QED
        BY <1>1, <2>1, HandedOn DEF CallsAlone
<1>2. ASSUME NEW i \in Imports, NEW t \in Models, ImportBatch(i, t)
      PROVE  AttendInv'
    <2>1. /\ latest' = [latest EXCEPT ![t] = i]
          /\ aborted' = aborted \cup ({activeByTarget[t]} \ {NoJob})
          /\ UNCHANGED <<activeByTarget, asset, due>> /\ CallsAlone
        BY <1>2 DEF ImportBatch, Reserve, CallsAlone, stateVars, callVars, savedVars
    <2>2. \A j \in Restorations : pc'[j] = pc[j]
        BY <1>2, RestorationAssumption DEF ImportBatch, Goto, HistoryInv, Jobs
    <2> QED
        BY <1>1, <2>1, <2>2
<1>3. ASSUME NEW t \in Models, CancelTarget(t)
      PROVE  AttendInv'
    <2>1. /\ latest' = [latest EXCEPT ![t] = Nobody]
          /\ aborted' = aborted \cup ({activeByTarget[t]} \ {NoJob})
          /\ activeByTarget' = [activeByTarget EXCEPT ![t] = NoJob]
          /\ UNCHANGED <<pc, asset, due>> /\ CallsAlone
        BY <1>3 DEF CancelTarget, CallsAlone, callVars, savedVars
    <2>2. \A m \in Models : m # t => activeByTarget'[m] = activeByTarget[m]
        BY <2>1 DEF BooksInv, BookTypes
    <2> QED
        BY <1>1, <2>1, <2>2
<1>4. CASE \/ \E m \in Models : RemoveModel(m)
           \/ \E targets \in SUBSET Models \ {{}} : ResetTargets(targets)
           \/ UndoRedo
    <2>0. CallsAlone /\ UNCHANGED <<latest, pc, aborted, activeByTarget>>
        BY <1>4 DEF RemoveModel, ResetTargets, UndoRedo, CallsAlone, jobVars, callVars, savedVars
    <2>1. \E records : Dispatch(records)
        <3>1. ASSUME NEW m \in Models, RemoveModel(m)
              PROVE  \E records : Dispatch(records)
            BY <3>1 DEF RemoveModel, Record
        <3>2. ASSUME NEW targets \in SUBSET Models \ {{}}, ResetTargets(targets)
              PROVE  \E records : Dispatch(records)
            BY <3>2 DEF ResetTargets, Record
        <3>3. CASE UndoRedo
            BY <3>3 DEF UndoRedo
        <3> QED
            BY <1>4, <3>1, <3>2, <3>3
    <2>2. due' \/ (asset' = asset /\ (due' <=> due))
        BY <1>0, <2>1 DEF Dispatch
    <2>3. ASSUME asset' = asset, (due' <=> due), NEW m \in Models, Handed(m)
          PROVE  Handed(m)'
        <3>1. GaveWay(m) \/ LastNested(m) => Handed(m)'
            BY <2>0, <2>3 DEF GaveWay, LastNested, IsPlaceholder, CallsAlone, Handed
        <3>2. IsPlaceholder(m) /\ Importing(m) => Handed(m)'
            BY <2>0, <2>3 DEF Importing, Restores, IsPlaceholder, Handed, Attended
        <3> QED
            BY <2>0, <2>3, <3>1, <3>2, HandedAside
    <2> QED
        BY <2>0, <2>2, <2>3, HandedOn DEF CallsAlone
<1>5. CASE BeginDispose
    BY <1>5 DEF BeginDispose, AttendInv
<1> QED
    BY <1>2, <1>3, <1>4, <1>5 DEF User

LEMMA HydratesAway ==
    ASSUME HistoryInv, NEW m \in Models, IsRestoring(m), NEW life \in {"ready", "unavailable"},
           HydrateModel(Snapshot(m), life)
    PROVE  asset' # asset
<1>1. asset' = [asset EXCEPT ![m].life = life]
    BY DEF HydrateModel, Snapshot, IsSnapshot, Dispatch
<1>2. asset'[m].life = life /\ asset[m].life = "restoring"
    BY <1>1 DEF HistoryInv, Workspaces, Shapes, IsRestoring
<1> QED
    BY <1>2

\* What a round does not restore now, it keeps.
LEMMA QueueKept ==
    ASSUME HistoryInv, BooksInv, NEW r \in Rounds, Round(r), asset' = asset,
           NEW m \in Models, IsRestoring(m), InQueue(m)
    PROVE  InQueue(m)'
<1>1. PICK q \in Rounds : q \notin cancelled /\ \E n \in DOMAIN queue[q] : queue[q][n] = Snapshot(m)
    BY DEF InQueue
<1>2. PICK n \in DOMAIN queue[q] : queue[q][n] = Snapshot(m)
    BY <1>1
<1>3. cancelled' = cancelled /\ Snapshot(m)' = Snapshot(m)
    BY QueueSteps DEF Snapshot
<1>4. CASE queue'[q] = queue[q]
    BY <1>1, <1>3, <1>4 DEF InQueue
<1>5. CASE queue'[q] # queue[q]
    <2>1. q = r /\ queue[r] # <<>> /\ queue' = [queue EXCEPT ![r] = Tail(@)]
        <3>1. ~RoundSettled(r) /\ ~RoundEnded(r)
            BY <1>5 DEF RoundSettled, RoundEnded, savedVars
        <3> QED
            BY <1>5, <3>1, QueueSteps DEF BooksInv, BookTypes
    <2>2. n # 1
        <3> SUFFICES ASSUME n = 1 PROVE FALSE
            OBVIOUS
        <3>1. Current(r) = Snapshot(m) /\ IsSnapshot(Current(r)) /\ r \notin cancelled
            BY <1>1, <1>2, <2>1 DEF Current, IsSnapshot, Snapshot, BooksInv, BookTypes
        <3>2. ~Restored(r) /\ ~RestorationFails(r)
            BY <3>1, HydratesAway DEF Restored, RestorationFails
        <3>3. ~Take(r) /\ ~BeginDecode(r) /\ ~Decoded(r)
            BY <1>5, <2>1, <3>1 DEF Take, BeginDecode, Decoded, Goes
        <3>4. ~RoundSettled(r) /\ ~RoundEnded(r)
            BY <1>5 DEF RoundSettled, RoundEnded, savedVars
        <3> QED
            BY <3>2, <3>3, <3>4 DEF Round
    <2>3. n - 1 \in DOMAIN Tail(queue[r]) /\ Tail(queue[r])[n - 1] = queue[r][n]
        BY <1>2, <2>1, <2>2 DEF BooksInv, BookTypes
    <2>4. queue'[r] = Tail(queue[r])
        BY <2>1 DEF BooksInv, BookTypes
    <2> QED
        BY <1>1, <1>2, <1>3, <2>1, <2>3, <2>4 DEF InQueue
<1> QED
    BY <1>4, <1>5

LEMMA RoundAttends ==
    ASSUME HistoryInv, SoloInv, BooksInv, AttendInv, NEW r \in Rounds, Round(r)
    PROVE  AttendInv'
<1>1. /\ starting = <<>> /\ starting' = <<>> /\ BooksAlone
      /\ UNCHANGED <<cancelled, disposed, rerun, nested>>
    BY QueueSteps
<1>2. ~due
    BY DEF Round, Free
<1>3. due' \/ (asset' = asset /\ ~due')
    <2>1. CASE Restored(r) \/ RestorationFails(r)
        <3>1. UNCHANGED <<asset, due>> \/ \E records : Dispatch(records)
            BY <2>1 DEF Restored, RestorationFails, HydrateModel
        <3> QED
            BY <1>2, <3>1 DEF Dispatch
    <2>2. CASE ~Restored(r) /\ ~RestorationFails(r)
        BY <1>2, <2>2 DEF Round, RoundSettled, RoundEnded, Take, BeginDecode, Decoded, stateVars
    <2> QED
        BY <2>1, <2>2
<1>4. RerunComes => RerunComes'
    <2>1. CASE RoundSettled(r)
        <3>1. phase' = [phase EXCEPT ![r] = "collecting"] /\ UNCHANGED <<waiting, woken>>
            BY <2>1 DEF RoundSettled, callVars
        <3> QED
            BY <1>1, <3>1 DEF RerunComes, SoloInv, RoundTypes
    <2>2. CASE RoundEnded(r)
        <3>1. /\ phase' = [phase EXCEPT ![r] = "free"]
              /\ woken' = (woken \/ r \in waiting) /\ waiting' = waiting \ {r}
            BY <2>2 DEF RoundEnded
        <3>2. \A q \in Rounds : q \in waiting /\ phase[q] # "free" =>
                  woken' \/ (q \in waiting' /\ phase'[q] # "free")
            BY <3>1 DEF SoloInv, RoundTypes
        <3> QED
            BY <1>1, <3>1, <3>2 DEF RerunComes
    <2>3. CASE UNCHANGED <<phase, waiting, woken>>
        BY <1>1, <2>3 DEF RerunComes
    <2> QED
        BY <2>1, <2>2, <2>3, QueueSteps
<1>5. ASSUME asset' = asset, NEW m \in Models, IsRestoring(m), Handed(m)
      PROVE  Handed(m)'
    <2>1. GaveWay(m) \/ LastNested(m) => GaveWay(m)' \/ LastNested(m)'
        BY <1>1, <1>5 DEF BooksAlone, GaveWay, LastNested, IsPlaceholder
    <2>2. CallComes => CallComes'
        BY <1>2, <1>4 DEF CallComes
    <2>3. ~InCall(m)
        BY <1>1 DEF InCall
    <2>4. IsPlaceholder(m) /\ Importing(m) => IsPlaceholder(m)' /\ Importing(m)'
        BY <1>1, <1>5 DEF IsPlaceholder, Importing, Restores, BooksAlone
    <2>5. ~IsPlaceholder(m) /\ InQueue(m) => ~IsPlaceholder(m)' /\ InQueue(m)'
        BY <1>5, QueueKept DEF IsPlaceholder
    <2> QED
        BY <1>5, <2>1, <2>2, <2>3, <2>4, <2>5 DEF Handed, Attended
<1> QED
    BY <1>1, <1>3, <1>5, HandedOn

(***************************************************************************)
(* The calls take up everything that is restoring.                         *)
(***************************************************************************)
\* A job that runs for a placeholder when a round can be started is a nested round's, or
\* its target was taken over by the user.
LEMMA OthersJob ==
    ASSUME SoloInv, BooksInv, completion = NoRound,
           NEW m \in Defaults, IsPlaceholder(m), HasJob(m),
           NEW r \in Rounds, NewCall(r), UNCHANGED <<asset, latest>>
    PROVE  GaveWay(m)' \/ LastNested(m)'
<1>1. PICK q \in Rounds : <<q, m>> \in activeJobs
    BY DEF HasJob
<1>2. latest[m] = <<q, m>> \/ latest[m] \in Imports \cup {Nobody}
    BY <1>1 DEF BooksInv, ActiveIsLatest
<1>3. phase[q] = "running"
    <2>1. pc[<<q, m>>] \in Running
        BY <1>1 DEF BooksInv, Books
    <2> QED
        BY <2>1 DEF BooksInv, RoundJobs, Running, Before
<1>4. q \in nested'
    <2>1. q \in nested
        BY <1>3, NoneRuns
    <2>2. q # r
        BY <1>3 DEF NewCall
    <2> QED
        BY <2>1, <2>2 DEF NewCall
<1> QED
    BY <1>2, <1>4 DEF GaveWay, LastNested, IsPlaceholder

LEMMA HydrateAttends ==
    ASSUME HistoryInv, SoloInv, BooksInv, AttendInv, HydrateModels
    PROVE  AttendInv'
<1>1. /\ UNCHANGED <<asset, latest, completion, woken, disposed>>
      /\ \/ disposed # "no"
         \/ Busy /\ RequestRerun /\ UNCHANGED phase
         \/ \E r \in Rounds : NewCall(r)
    BY HydrateCases
<1>2. CASE Busy /\ RequestRerun /\ UNCHANGED phase
    <2>1. completion \in Rounds /\ phase[completion] \in {"running", "collecting"}
        BY <1>2 DEF SoloInv, RoundInv, Remembered, Busy
    <2>2. CallComes'
        BY <1>2, <2>1 DEF CallComes, RerunComes, RequestRerun
    <2> QED
        BY <2>2 DEF AttendInv, Attended
<1>3. CASE \E r \in Rounds : NewCall(r)
    <2>1. PICK r \in Rounds : NewCall(r)
        BY <1>3
    <2>2. completion = NoRound
        BY <2>1 DEF NewCall
    <2>3. PICK n \in DOMAIN starting' :
              /\ starting'[n].todo = Unattended
              /\ (\E m \in Models : IsRestoring(m) /\ ~IsPlaceholder(m)) => starting'[n].saved
        <3>1. starting \in Seq(Frames)
            BY DEF SoloInv, StackInv
        <3>2. PICK f \in Frames : starting' = Append(starting, f) /\ f = Frame(r, Unattended)
            BY <2>1, FrameForm DEF NewCall
        <3>3. \E n \in DOMAIN starting' : starting'[n] = f
            BY <3>1, <3>2, Pushed
        <3> QED
            BY <3>2, <3>3, FrameFields
    <2>4. ASSUME NEW m \in Models, IsRestoring(m)
          PROVE  InCall(m)' \/ GaveWay(m)' \/ LastNested(m)'
        <3>1. CASE IsPlaceholder(m) /\ HasJob(m)
            BY <1>1, <2>1, <2>2, <3>1, ShownIsDefault, OthersJob
        <3>2. CASE IsPlaceholder(m) /\ ~HasJob(m)
            <4>1. m \in Unattended
                BY <3>2, ShownIsDefault DEF Unattended
            <4>2. IsPlaceholder(m)'
                BY <1>1, <3>2 DEF IsPlaceholder
            <4> QED
                BY <2>3, <4>1, <4>2 DEF InCall
        <3>3. CASE ~IsPlaceholder(m)
            <4>1. ~IsPlaceholder(m)'
                BY <1>1, <3>3 DEF IsPlaceholder
            <4> QED
                BY <2>3, <2>4, <3>3, <4>1 DEF InCall
        <3> QED
            BY <3>1, <3>2, <3>3
    <2> QED
        BY <1>1, <2>4 DEF AttendInv, Attended, IsRestoring
<1>4. CASE disposed # "no"
    BY <1>1, <1>4 DEF AttendInv
<1> QED
    BY <1>1, <1>2, <1>3, <1>4

LEMMA DefaultAttends ==
    ASSUME HistoryInv, SoloInv, BooksInv, AttendInv, HydrateDefaultModel
    PROVE  AttendInv'
<1>1. PICK t \in Innermost.todo : Taken(t)
    BY DefaultTaken
<1>2. /\ starting # <<>> /\ ~due
      /\ UNCHANGED <<activeByTarget, rerun, waiting, woken, phase, nested, queue, cancelled, disposed>>
    BY DefaultTaken
<1>3. PICK r \in Rounds :
          /\ t \in Defaults /\ t \in Models /\ ~HasJob(t) /\ phase[r] = "starting"
          /\ \/ t \in Broken /\ MarkUnavailable(t) /\ UNCHANGED <<pc, target, latest, aborted>>
             \/ /\ IsPlaceholder(t) /\ UNCHANGED <<asset, due>>
                /\ \E to \in Before : pc' = [pc EXCEPT ![<<r, t>>] = to]
                /\ Reserve(<<r, t>>, t)
    BY <1>1, <1>2, TakenForms
<1>4. \A m \in Models : asset' = asset /\ (m # t \/ ~IsPlaceholder(m)) /\ InCall(m) => InCall(m)'
    <2>1. starting \in Seq(Frames)
        BY DEF SoloInv, StackInv
    <2>2. /\ DOMAIN starting' = DOMAIN starting
          /\ \A i \in DOMAIN starting : /\ starting'[i].saved = starting[i].saved
                                        /\ starting[i].todo \ {t} \subseteq starting'[i].todo
        BY <1>1, <1>2, <2>1, FrameTaken
    <2> QED
        BY <2>2 DEF InCall, IsPlaceholder
<1>5. CASE MarkUnavailable(t) /\ UNCHANGED <<pc, latest, aborted>>
    <2>1. due' \/ (asset' = asset /\ ~IsPlaceholder(t))
        <3>1. CASE IsPlaceholder(t)
            <4>1. asset' = [asset EXCEPT ![t].life = "unavailable"] /\ asset[t].life = "restoring"
                  /\ due' = (asset' # asset)
                BY <1>5, <3>1 DEF MarkUnavailable, Dispatch, Replaceable, IsPlaceholder, Placeholder
            <4>2. asset'[t].life = "unavailable"
                BY <1>3, <4>1 DEF HistoryInv, Workspaces, Shapes
            <4> QED
                BY <4>1, <4>2
        <3>2. CASE ~IsPlaceholder(t)
            BY <1>5, <3>2 DEF MarkUnavailable, Dispatch, Replaceable
        <3> QED
            BY <3>1, <3>2
    <2>2. ASSUME asset' = asset, ~IsPlaceholder(t), NEW m \in Models, Handed(m)
          PROVE  Handed(m)'
        <3>1. GaveWay(m) \/ LastNested(m) => GaveWay(m)' \/ LastNested(m)'
            BY <1>2, <1>5, <2>2 DEF GaveWay, LastNested, IsPlaceholder
        <3>2. CallComes => CallComes'
            BY <1>2 DEF CallComes, RerunComes
        <3>3. InCall(m) => InCall(m)'
            BY <1>4, <2>2
        <3>4. IsPlaceholder(m) /\ Importing(m) => IsPlaceholder(m)' /\ Importing(m)'
            BY <1>2, <1>5, <2>2 DEF IsPlaceholder, Importing, Restores
        <3>5. ~IsPlaceholder(m) /\ InQueue(m) => ~IsPlaceholder(m)' /\ InQueue(m)'
            BY <1>2, <2>2 DEF IsPlaceholder, InQueue, Snapshot
        <3> QED
            BY <2>2, <3>1, <3>2, <3>3, <3>4, <3>5 DEF Handed, Attended
    <2> QED
        BY <1>2, <2>1, <2>2, HandedOn
<1>6. CASE /\ IsPlaceholder(t) /\ UNCHANGED <<asset, due>>
           /\ \E to \in Before : pc' = [pc EXCEPT ![<<r, t>>] = to]
           /\ Reserve(<<r, t>>, t)
    <2>1. PICK j \in Restorations : j = <<r, t>> /\ j \in Jobs
        BY <1>3 DEF Restorations, Jobs
    <2>2. PICK to \in Before :
              /\ pc' = [pc EXCEPT ![j] = to]
              /\ latest' = [latest EXCEPT ![t] = j]
              /\ aborted' = aborted \cup ({activeByTarget[t]} \ {NoJob})
        BY <1>6, <2>1 DEF Reserve
    <2>3. Importing(t)'
        <3>1. j \notin activeJobs
            BY <1>3, <2>1 DEF HasJob
        <3>2. j \notin aborted'
            BY <1>3, <2>2, <3>1 DEF BooksInv, Books
        <3>3. pc'[j] = to /\ latest'[t] = j
            BY <1>3, <2>1, <2>2 DEF HistoryInv, BooksInv, BookTypes
        <3> QED
            BY <2>1, <3>2, <3>3 DEF Importing, Restores
    <2>4. ASSUME NEW m \in Models, IsRestoring(m), Handed(m)
          PROVE  Handed(m)'
        <3>1. CASE m = t
            BY <1>6, <2>3, <3>1 DEF Handed, Attended, IsPlaceholder
        <3>2. CASE m # t
            <4>1. latest'[m] = latest[m]
                BY <2>2, <3>2 DEF BooksInv, BookTypes
            <4>2. GaveWay(m) \/ LastNested(m) => GaveWay(m)' \/ LastNested(m)'
                BY <1>2, <1>6, <4>1 DEF GaveWay, LastNested, IsPlaceholder
            <4>3. CallComes => CallComes'
                BY <1>2, <1>6 DEF CallComes, RerunComes
            <4>4. InCall(m) => InCall(m)'
                BY <1>4, <1>6, <3>2
            <4>5. ASSUME IsPlaceholder(m), Importing(m)
                  PROVE  IsPlaceholder(m)' /\ Importing(m)'
                <5>1. m \in Defaults
                    BY <4>5, ShownIsDefault
                <5>2. PICK q \in Rounds : Restores(<<q, m>>, m)
                    BY <4>5 DEF Importing
                <5>3. pc'[<<q, m>>] = pc[<<q, m>>]
                    BY <2>1, <2>2, <3>2, <5>1 DEF HistoryInv, Jobs, Restorations
                <5>4. Restores(<<q, m>>, m)'
                    BY <1>2, <1>3, <2>2, <3>2, <4>1, <5>1, <5>2, <5>3, OtherTargets
                <5> QED
                    BY <1>6, <4>5, <5>4 DEF IsPlaceholder, Importing
            <4>6. ~IsPlaceholder(m) /\ InQueue(m) => ~IsPlaceholder(m)' /\ InQueue(m)'
                BY <1>2, <1>6 DEF IsPlaceholder, InQueue, Snapshot
            <4> QED
                BY <2>4, <4>2, <4>3, <4>4, <4>5, <4>6 DEF Handed, Attended
        <3> QED
            BY <3>1, <3>2
    <2> QED
        BY <1>2, <1>6, <2>4, HandedOn
<1> QED
    BY <1>3, <1>5, <1>6

LEMMA StartedAttends ==
    ASSUME HistoryInv, SoloInv, BooksInv, AttendInv, RoundStarted
    PROVE  AttendInv'
<1>1. /\ starting # <<>> /\ Innermost \in Frames /\ Innermost.todo = {}
      /\ Returned(Innermost.round, Innermost.saved)
      /\ UNCHANGED <<asset, due, pc, latest, activeByTarget, aborted>>
      /\ UNCHANGED <<rerun, waiting, woken, nested, disposed>>
    BY CallReturns
<1>2. PICK r \in Rounds : r = Innermost.round
    BY <1>1 DEF Frames
<1>3. PICK saved : saved = Innermost.saved
    OBVIOUS
<1>4. /\ phase[r] = "starting" /\ starting' = Enclosing
      /\ phase' = [phase EXCEPT ![r] = "running"]
      /\ cancelled' = cancelled \ {r}
      /\ IF saved THEN queue' = [queue EXCEPT ![r] = Snapshots] ELSE queue' = queue
    BY <1>1, <1>2, <1>3 DEF Returned
<1>5. /\ \A i \in DOMAIN starting : i \in DOMAIN starting' \/ starting[i] = Innermost
      /\ \A i \in DOMAIN starting' : starting'[i] = starting[i]
    BY <1>1, <1>4, StackPopped
<1>6. queue[r] = <<>>
    BY <1>4 DEF SoloInv, RoundInv
<1>7. ASSUME NEW m \in Models, IsRestoring(m), Handed(m)
      PROVE  Handed(m)'
    <2>1. GaveWay(m) \/ LastNested(m) => GaveWay(m)' \/ LastNested(m)'
        BY <1>1 DEF GaveWay, LastNested, IsPlaceholder
    <2>2. CallComes => CallComes'
        BY <1>1, <1>4 DEF CallComes, RerunComes, SoloInv, RoundTypes
    <2>3. IsPlaceholder(m) /\ Importing(m) => IsPlaceholder(m)' /\ Importing(m)'
        BY <1>1 DEF IsPlaceholder, Importing, Restores
    <2>4. Snapshot(m)' = Snapshot(m) /\ (IsPlaceholder(m)' <=> IsPlaceholder(m))
        BY <1>1 DEF Snapshot, IsPlaceholder
    <2>5. InQueue(m) => InQueue(m)'
        <3> SUFFICES ASSUME NEW q \in Rounds, q \notin cancelled,
                            NEW n \in DOMAIN queue[q], queue[q][n] = Snapshot(m)
                     PROVE  InQueue(m)'
            BY DEF InQueue
        <3>1. q # r
            BY <1>6
        <3>2. queue'[q] = queue[q] /\ q \notin cancelled'
            BY <1>4, <3>1 DEF BooksInv, BookTypes
        <3> QED
            BY <2>4, <3>2 DEF InQueue
    <2>6. ASSUME InCall(m)
          PROVE  InCall(m)' \/ (~IsPlaceholder(m)' /\ InQueue(m)')
        <3>1. PICK i \in DOMAIN starting :
                  IF IsPlaceholder(m) THEN m \in starting[i].todo ELSE starting[i].saved
            BY <2>6 DEF InCall
        <3>2. CASE i \in DOMAIN starting'
            BY <1>5, <2>4, <3>1, <3>2 DEF InCall
        <3>3. CASE i \notin DOMAIN starting'
            <4>1. ~IsPlaceholder(m) /\ saved
                BY <1>1, <1>3, <1>5, <3>1, <3>3
            <4>2. queue'[r] = Snapshots /\ r \notin cancelled'
                BY <1>4, <4>1 DEF BooksInv, BookTypes
            <4>3. \E n \in DOMAIN queue'[r] : queue'[r][n] = Snapshot(m)
                BY <1>7, <4>1, <4>2, SnapshotsListed
            <4> QED
                BY <2>4, <4>1, <4>2, <4>3 DEF InQueue
        <3> QED
            BY <3>2, <3>3
    <2> QED
        BY <1>7, <2>1, <2>2, <2>3, <2>4, <2>5, <2>6 DEF Handed, Attended
<1> QED
    BY <1>1, <1>7, HandedOn

LEMMA AttendInit == Init => AttendInv
BY DEF Init, AttendInv, Attended, CallComes

LEMMA AttendStep ==
    ASSUME HistoryInv, SoloInv, BooksInv, AttendInv, [Next]_vars
    PROVE  AttendInv'
<1>1. ASSUME NEW j \in Jobs, Job(j) \/ Dispatched(j)
      PROVE  AttendInv'
    BY <1>1, JobAttends
<1>2. CASE Calls
    BY <1>1, <1>2, HydrateAttends, DefaultAttends, StartedAttends DEF Calls
<1>3. CASE Wake
    <2>1. /\ woken /\ ~due /\ due' = (disposed = "no" /\ rerun)
          /\ UNCHANGED <<asset, pc, latest, activeByTarget, aborted, starting, phase, nested, queue,
                         cancelled, disposed>>
        BY <1>3 DEF Wake, Free, Rerun, stateVars, jobVars, savedVars
    <2>2. ASSUME ~due', disposed = "no", NEW m \in Models, Handed(m)
          PROVE  Handed(m)'
        <3>1. ~CallComes
            BY <2>1, <2>2 DEF CallComes, RerunComes
        <3>2. (InCall(m)' <=> InCall(m)) /\ (InQueue(m)' <=> InQueue(m))
              /\ (Importing(m)' <=> Importing(m)) /\ (IsPlaceholder(m)' <=> IsPlaceholder(m))
              /\ (GaveWay(m)' <=> GaveWay(m)) /\ (LastNested(m)' <=> LastNested(m))
            BY <2>1 DEF InCall, InQueue, Importing, Restores, IsPlaceholder, GaveWay, LastNested, Snapshot
        <3> QED
            BY <2>2, <3>1, <3>2 DEF Handed, Attended
    <2> QED
        BY <2>1, <2>2, HandedOn
<1>4. CASE Disposal
    BY <1>4 DEF Disposal, EndDispose, AttendInv
<1>5. CASE UNCHANGED vars
    <2>1. /\ CallsAlone
          /\ UNCHANGED <<asset, due, pc, latest, activeByTarget, aborted>>
        BY <1>5 DEF vars, stateVars, jobVars, callVars, savedVars, CallsAlone
    <2>2. ASSUME NEW m \in Models, Handed(m)
          PROVE  Handed(m)'
        <3>1. (Importing(m)' <=> Importing(m)) /\ (IsPlaceholder(m)' <=> IsPlaceholder(m))
              /\ (GaveWay(m)' <=> GaveWay(m)) /\ (LastNested(m)' <=> LastNested(m))
            BY <2>1 DEF Importing, Restores, IsPlaceholder, GaveWay, LastNested, CallsAlone
        <3> QED
            BY <2>1, <2>2, <3>1, HandedAside DEF Handed, Attended
    <2> QED
        BY <2>1, <2>2, HandedOn DEF CallsAlone
<1> QED
    BY <1>1, <1>2, <1>3, <1>4, <1>5, UserAttends, RoundAttends DEF Next

LEMMA AttendedWhenQuiet ==
    ASSUME HistoryInv, SoloInv, AttendInv
    PROVE  NoRestorationForgotten
<1> SUFFICES ASSUME Quiet, NEW m \in Models, IsRestoring(m) PROVE GaveWay(m) \/ Overlooked(m)
    BY DEF NoRestorationForgotten
<1>1. ~CallComes /\ ~InCall(m)
    BY DEF Quiet, Free, CallComes, RerunComes, InCall
<1>2. ~(IsPlaceholder(m) /\ Importing(m))
    <2> SUFFICES ASSUME IsPlaceholder(m), NEW r \in Rounds, Restores(<<r, m>>, m) PROVE FALSE
        BY DEF Importing
    <2>1. <<r, m>> \in Restorations
        BY ShownIsDefault DEF Restorations
    <2>2. pc[<<r, m>>] = "idle"
        BY <2>1 DEF Quiet
    <2> QED
        BY <2>2 DEF Restores, Before, Amid
<1>3. ~InQueue(m)
    BY DEF Quiet, SoloInv, RoundInv, InQueue
<1>4. LastNested(m) => Overlooked(m)
    <2> SUFFICES ASSUME IsPlaceholder(m), NEW r \in nested, latest[m] = <<r, m>> PROVE Overlooked(m)
        BY DEF LastNested
    <2>1. m \in Defaults
        BY ShownIsDefault
    <2>2. pc[<<r, m>>] = "idle"
        BY <2>1 DEF Quiet, Restorations, SoloInv, RoundTypes
    <2> QED
        BY <2>2 DEF Overlooked
<1> QED
    BY <1>1, <1>2, <1>3, <1>4 DEF AttendInv, Attended, Quiet

(***************************************************************************)
(* When nothing is running any more, no model is left restoring but        *)
(* placeholders whose restoration gave way to the user or was last         *)
(* admitted by a nested round: whatever is changed while a round runs, the *)
(* call in the middle of it is made up for, and a placeholder whose job    *)
(* was aborted is taken up again.                                          *)
(***************************************************************************)
THEOREM NothingForgotten == Spec => []NoRestorationForgotten
<1> DEFINE Inv == HistoryInv /\ SoloInv /\ BooksInv /\ AttendInv
<1>1. Init => Inv
    BY HistoryInit, SoloInit, BooksInit, AttendInit
<1>2. Inv /\ [Next]_vars => Inv'
    BY HistoryKept, SoloKept, BooksStep, AttendStep
<1>3. Inv => NoRestorationForgotten
    BY AttendedWhenQuiet
<1> QED
    BY <1>1, <1>2, <1>3, PTL DEF Spec
=============================================================================
