--------------------- MODULE WorkspacePersistenceProofs ---------------------
(***************************************************************************)
(* Theorems about WorkspacePersistence, for any number of tabs, versions   *)
(* and workspaces.                                                         *)
(***************************************************************************)
EXTENDS WorkspacePersistence, TLAPS

(***************************************************************************)
(* Flush and the scheduling of a save keep the types of what they assign.  *)
(***************************************************************************)
SaveTypes ==
    /\ saved \in Items
    /\ checkpoint \in [Tabs -> Items]
    /\ paused \in [Tabs -> {"no", "stale", "unavailable"}]
    /\ scheduled \in [Tabs -> BOOLEAN]
    /\ status \in [Tabs -> {"pending", "success"} \cup Failed]
    /\ seen \in [Tabs -> Items]

LEMMA FlushTyping ==
    ASSUME TypeOK, NEW p \in Tabs, NEW w \in Bodies, Flush(p, w)
    PROVE  SaveTypes'
<1>1. [version |-> version[p], body |-> w] \in Items
    BY DEF TypeOK, Items, Snapshots
<1>2. CASE blocked[p] /\ Refuse(p, "incompatible") /\ paused' = paused
    BY <1>2 DEF Flush, Refuse, TypeOK, SaveTypes, Failed
<1>3. CASE paused[p] # "no" /\ Refuse(p, paused[p]) /\ paused' = paused
    BY <1>3 DEF Flush, Refuse, TypeOK, SaveTypes, Failed
<1>4. CASE Refuse(p, "stale") /\ paused' = [paused EXCEPT ![p] = "stale"]
    BY <1>4 DEF Flush, Refuse, TypeOK, SaveTypes, Failed
<1>5. CASE Save(p, w) /\ paused' = paused
    BY <1>1, <1>5 DEF Flush, Save, TypeOK, SaveTypes, Failed
<1>6. CASE Refuse(p, "error") /\ paused' = paused
    BY <1>6 DEF Flush, Refuse, TypeOK, SaveTypes, Failed
<1> QED
    BY <1>2, <1>3, <1>4, <1>5, <1>6 DEF Flush

LEMMA ScheduleTyping ==
    ASSUME TypeOK, NEW p \in Tabs,
           Schedule(p) \/ UNCHANGED <<scheduled, status>>
    PROVE  /\ scheduled' \in [Tabs -> BOOLEAN]
           /\ status' \in [Tabs -> {"pending", "success"} \cup Failed]
BY DEF TypeOK, Schedule, Failed

(***************************************************************************)
(* What every tab knows of the item it expects to find.                    *)
(***************************************************************************)
\* A timer is set only by a mounted controller.
TimersAreMounted == \A p \in Tabs : scheduled[p] => page[p] = "mounted"

\* A checkpoint that admits a save is what the tab loaded or saved itself.
CheckpointIsSeen == \A p \in Tabs : paused[p] = "no" => checkpoint[p] = seen[p]

\* A page that may save expects a workspace of its own version.
CheckpointIsOwnVersion ==
    \A p \in Tabs :
        page[p] # "closed" /\ ~blocked[p] /\ paused[p] = "no"
            /\ checkpoint[p] \in Snapshots
        => checkpoint[p].version = version[p]

Inv == TypeOK /\ TimersAreMounted /\ CheckpointIsSeen /\ CheckpointIsOwnVersion

LEMMA InitInv == Init => Inv
<1> SUFFICES ASSUME Init PROVE Inv
    OBVIOUS
<1>1. TypeOK
    BY DEF Init, TypeOK, Items, Failed
<1>2. TimersAreMounted /\ CheckpointIsSeen
    BY DEF Init, TimersAreMounted, CheckpointIsSeen
<1>3. CheckpointIsOwnVersion
    BY DEF Init, CheckpointIsOwnVersion
<1> QED
    BY <1>1, <1>2, <1>3 DEF Inv

(***************************************************************************)
(* A save keeps the checkpoints: it happens in a page that is loaded.      *)
(***************************************************************************)
LEMMA FlushCheckpoints ==
    ASSUME Inv, NEW p \in Tabs, NEW w \in Bodies, Flush(p, w),
           UNCHANGED <<version, blocked>>,
           page' \in [Tabs -> {"closed", "loaded", "mounted"}],
           page[p] # "closed",
           \A q \in Tabs : q # p => page'[q] = page[q]
    PROVE  /\ TimersAreMounted'
           /\ CheckpointIsSeen'
           /\ CheckpointIsOwnVersion'
<1> USE DEF Inv, TypeOK
<1>1. ~scheduled'[p] /\ \A q \in Tabs : q # p => scheduled'[q] = scheduled[q]
    BY DEF Flush
<1>2. TimersAreMounted'
    BY <1>1 DEF TimersAreMounted
<1>3. CASE UNCHANGED <<checkpoint, seen>> /\ \A q \in Tabs : paused'[q] = "no" => paused[q] = "no"
    <2>1. CheckpointIsSeen'
        BY <1>3 DEF CheckpointIsSeen
    <2>2. CheckpointIsOwnVersion'
        BY <1>3 DEF CheckpointIsOwnVersion
    <2> QED
        BY <1>2, <2>1, <2>2
<1>4. CASE Save(p, w) /\ paused' = paused
    <2>1. checkpoint' = [checkpoint EXCEPT ![p] = saved'] /\ seen' = [seen EXCEPT ![p] = saved']
        BY <1>4 DEF Save
    <2>2. saved'.version = version[p]
        BY <1>4 DEF Save
    <2>3. CheckpointIsSeen'
        BY <1>4, <2>1 DEF CheckpointIsSeen
    <2>4. CheckpointIsOwnVersion'
        BY <1>4, <2>1, <2>2 DEF CheckpointIsOwnVersion
    <2> QED
        BY <1>2, <2>3, <2>4
<1> QED
    BY <1>3, <1>4 DEF Flush, Refuse

(***************************************************************************)
(* The other steps leave checkpoints alone, or set them to what is loaded. *)
(***************************************************************************)
LEMMA ScheduleTimers ==
    ASSUME Inv, NEW p \in Tabs, Schedule(p) \/ UNCHANGED <<scheduled, status>>
    PROVE  \A q \in Tabs : scheduled'[q] => scheduled[q] \/ q = p
BY DEF Inv, TypeOK, Schedule

LEMMA ChangeInv ==
    ASSUME Inv, NEW p \in Tabs, NEW b \in Bodies, NEW isRestoring \in BOOLEAN,
           Changed(p, b), ScheduleWhenHydrated(p, isRestoring),
           buffered' \in [Tabs -> BOOLEAN],
           restoring' \in [Tabs -> BOOLEAN],
           hidden' \in [Tabs -> BOOLEAN]
    PROVE  Inv'
<1>1. (page[p] = "mounted" /\ Schedule(p)) \/ UNCHANGED <<scheduled, status>>
    BY DEF ScheduleWhenHydrated
<1>2. TypeOK'
    <2>1. /\ scheduled' \in [Tabs -> BOOLEAN]
          /\ status' \in [Tabs -> {"pending", "success"} \cup Failed]
        BY <1>1, ScheduleTyping DEF Inv
    <2> QED
        BY <2>1 DEF Inv, TypeOK, Changed, pageVars
<1>3. TimersAreMounted'
    BY <1>1, ScheduleTimers DEF Inv, TypeOK, TimersAreMounted, Changed, pageVars
<1>4. CheckpointIsSeen' /\ CheckpointIsOwnVersion'
    BY DEF Inv, CheckpointIsSeen, CheckpointIsOwnVersion, Changed, pageVars
<1> QED
    BY <1>2, <1>3, <1>4 DEF Inv

LEMMA StepInv == Inv /\ [Next]_vars => Inv'
<1> SUFFICES ASSUME Inv, [Next]_vars PROVE Inv'
    OBVIOUS
<1> USE DEF Inv
<1>1. ASSUME NEW p \in Tabs, Load(p) PROVE Inv'
    <2>1. PICK v \in Versions, b \in Bodies :
              /\ version' = [version EXCEPT ![p] = v]
              /\ workspace' = [workspace EXCEPT ![p] = b]
              /\ blocked' = [blocked EXCEPT ![p] = Incompatible(v)]
              /\ \E r \in BOOLEAN : restoring' = [restoring EXCEPT ![p] = r]
        BY <1>1 DEF Load
    <2>2. Incompatible(v) \in BOOLEAN
        BY DEF Incompatible
    <2>3. TypeOK'
        BY <1>1, <2>1, <2>2 DEF Load, TypeOK
    <2>4. TimersAreMounted'
        BY <1>1 DEF Load, TypeOK, TimersAreMounted
    <2>5. CheckpointIsSeen'
        BY <1>1 DEF Load, TypeOK, CheckpointIsSeen
    <2>6. saved \in Snapshots /\ ~Incompatible(v) => saved.version = v
        BY DEF Incompatible
    <2>7. CheckpointIsOwnVersion'
        BY <1>1, <2>1, <2>6 DEF Load, TypeOK, CheckpointIsOwnVersion
    <2> QED
        BY <2>3, <2>4, <2>5, <2>7
<1>2. ASSUME NEW p \in Tabs, LoadFails(p) PROVE Inv'
    <2>1. TypeOK'
        BY <1>2 DEF LoadFails, TypeOK
    <2>2. TimersAreMounted' /\ CheckpointIsSeen' /\ CheckpointIsOwnVersion'
        BY <1>2 DEF LoadFails, TypeOK, TimersAreMounted, CheckpointIsSeen,
                    CheckpointIsOwnVersion
    <2> QED
        BY <2>1, <2>2
<1>3. ASSUME NEW p \in Tabs, Mount(p) PROVE Inv'
    <2>1. checkpoint' = checkpoint
        BY <1>3 DEF Mount, MountedCheckpoint, TypeOK
    <2>2. \/ Schedule(p)
          \/ scheduled' = scheduled /\ status' = [status EXCEPT ![p] = "incompatible"]
          \/ scheduled' = scheduled /\ status' = [status EXCEPT ![p] = "pending"]
        BY <1>3 DEF Mount
    <2>3. /\ scheduled' \in [Tabs -> BOOLEAN]
          /\ status' \in [Tabs -> {"pending", "success"} \cup Failed]
        BY <2>2, ScheduleTyping DEF TypeOK, Failed
    <2>4. TypeOK'
        BY <1>3, <2>1, <2>3 DEF Mount, TypeOK
    <2>5. \A q \in Tabs : scheduled'[q] => scheduled[q] \/ q = p
        BY <2>2, ScheduleTimers
    <2>6. TimersAreMounted'
        BY <1>3, <2>5 DEF Mount, TypeOK, TimersAreMounted
    <2>7. CheckpointIsSeen'
        BY <1>3, <2>1 DEF Mount, CheckpointIsSeen
    <2>8. CheckpointIsOwnVersion'
        BY <1>3, <2>1 DEF Mount, TypeOK, CheckpointIsOwnVersion
    <2> QED
        BY <2>4, <2>6, <2>7, <2>8
<1>4. ASSUME NEW p \in Tabs, Unmount(p) PROVE Inv'
    <2>1. CASE scheduled[p] \/ status[p] = "pending"
        <3>1. Flush(p, workspace[p]) /\ workspace[p] \in Bodies
            BY <1>4, <2>1 DEF Unmount, TypeOK
        <3>2. TypeOK'
            BY <1>4, <3>1, FlushTyping DEF Unmount, TypeOK, SaveTypes
        <3>3. TimersAreMounted' /\ CheckpointIsSeen' /\ CheckpointIsOwnVersion'
            BY <1>4, <3>1, <3>2, FlushCheckpoints DEF Unmount, TypeOK
        <3> QED
            BY <3>2, <3>3
    <2>2. CASE ~scheduled[p] /\ status[p] # "pending"
        <3>1. UNCHANGED saveVars
            BY <1>4, <2>2 DEF Unmount
        <3>2. TypeOK'
            BY <1>4, <3>1 DEF Unmount, TypeOK, saveVars
        <3>3. TimersAreMounted' /\ CheckpointIsSeen' /\ CheckpointIsOwnVersion'
            BY <1>4, <2>2, <3>1 DEF Unmount, TypeOK, saveVars, TimersAreMounted,
                                    CheckpointIsSeen, CheckpointIsOwnVersion
        <3> QED
            BY <3>2, <3>3
    <2> QED
        BY <2>1, <2>2
<1>5. ASSUME NEW p \in Tabs, TimerFires(p) PROVE Inv'
    <2>1. Flush(p, workspace[p]) /\ workspace[p] \in Bodies /\ page[p] # "closed"
        BY <1>5 DEF TimerFires, TypeOK, TimersAreMounted
    <2>2. TypeOK'
        BY <1>5, <2>1, FlushTyping DEF TimerFires, TypeOK, SaveTypes, pageVars
    <2>3. TimersAreMounted' /\ CheckpointIsSeen' /\ CheckpointIsOwnVersion'
        BY <1>5, <2>1, <2>2, FlushCheckpoints DEF TimerFires, TypeOK, pageVars
    <2> QED
        BY <2>2, <2>3
<1>6. ASSUME NEW p \in Tabs, Edit(p) PROVE Inv'
    <2>1. PICK b \in Bodies : Changed(p, b)
        BY <1>6 DEF Edit
    <2> QED
        BY <1>6, <2>1, ChangeInv DEF Edit, TypeOK
<1>7. ASSUME NEW p \in Tabs, CommitScroll(p) PROVE Inv'
    <2>1. PICK b \in Bodies : Changed(p, b)
        BY <1>7 DEF CommitScroll
    <2> QED
        BY <1>7, <2>1, ChangeInv DEF CommitScroll, TypeOK
<1>8. ASSUME NEW p \in Tabs, Hydrated(p) PROVE Inv'
    <2>1. PICK b \in Bodies : Changed(p, b)
        BY <1>8 DEF Hydrated
    <2> QED
        BY <1>8, <2>1, ChangeInv DEF Hydrated, TypeOK
<1>9. ASSUME NEW p \in Tabs, Hide(p) PROVE Inv'
    <2>1. PICK b \in Bodies : workspace' = [workspace EXCEPT ![p] = b] /\ Flush(p, b)
        BY <1>9 DEF Hide
    <2>2. TypeOK'
        BY <1>9, <2>1, FlushTyping DEF Hide, TypeOK, SaveTypes, pageVars
    <2>3. TimersAreMounted' /\ CheckpointIsSeen' /\ CheckpointIsOwnVersion'
        BY <1>9, <2>1, <2>2, FlushCheckpoints DEF Hide, TypeOK, pageVars
    <2> QED
        BY <2>2, <2>3
<1>10. ASSUME NEW p \in Tabs, Scroll(p) \/ Show(p) PROVE Inv'
    BY <1>10 DEF Scroll, Show, TypeOK, TimersAreMounted, CheckpointIsSeen,
                 CheckpointIsOwnVersion, saveVars, pageVars
<1>11. ASSUME NEW p \in Tabs, Close(p) PROVE Inv'
    BY <1>11 DEF Close, TypeOK, TimersAreMounted, CheckpointIsSeen,
                 CheckpointIsOwnVersion
<1>12. CASE Clear
    BY <1>12 DEF Clear, TypeOK, TimersAreMounted, CheckpointIsSeen,
                 CheckpointIsOwnVersion, pageVars, Items
<1>13. CASE UNCHANGED vars
    BY <1>13 DEF vars, TypeOK, TimersAreMounted, CheckpointIsSeen,
                 CheckpointIsOwnVersion, saveVars, pageVars
<1> QED
    BY <1>1, <1>2, <1>3, <1>4, <1>5, <1>6, <1>7, <1>8, <1>9, <1>10, <1>11, <1>12, <1>13
       DEF Next, Tab

(***************************************************************************)
(* The inductive invariant holds in every reachable state: checkpoints are *)
(* what their tabs loaded or saved, and of the version of their build.     *)
(***************************************************************************)
THEOREM Invariance == Spec => []Inv
BY InitInv, StepInv, PTL DEF Spec

(***************************************************************************)
(* Every variable keeps its type: what is saved is always a workspace in   *)
(* its envelope, and a status is one the controller publishes.             *)
(***************************************************************************)
THEOREM TypeCorrect == Spec => []TypeOK
<1>1. Inv => TypeOK
    BY DEF Inv
<1> QED
    BY <1>1, Invariance, PTL

(***************************************************************************)
(* What a flush writes: nothing, or the workspace over what the tab saw.   *)
(***************************************************************************)
LEMMA FlushWrites ==
    ASSUME Inv, NEW p \in Tabs, NEW w \in Bodies, Flush(p, w)
    PROVE  \/ saved' = saved
           \/ /\ saved' = [version |-> version[p], body |-> w]
              /\ saved = seen[p]
              /\ page[p] # "closed" /\ saved \in Snapshots => saved.version = version[p]
BY DEF Inv, CheckpointIsSeen, CheckpointIsOwnVersion, Flush, Refuse, Save

\* The steps that write a workspace.
LEMMA StepWrites ==
    ASSUME Inv, [Next]_vars, saved' \notin {saved, Nothing}
    PROVE  \E p \in Tabs :
              /\ page[p] # "closed"
              /\ \E w \in Bodies : Flush(p, w) /\ workspace'[p] = w
              /\ version' = version
<1> USE DEF Inv, TypeOK
<1>1. \E p \in Tabs : Unmount(p) \/ TimerFires(p) \/ Hide(p)
    BY DEF Next, Tab, Load, LoadFails, Mount, Edit, Scroll, CommitScroll, Hydrated, Show,
           Close, Clear, Changed, vars, saveVars, pageVars
<1>2. PICK p \in Tabs : Unmount(p) \/ TimerFires(p) \/ Hide(p)
    BY <1>1
<1>3. page[p] # "closed" /\ version' = version
    BY <1>2 DEF Unmount, TimerFires, Hide, TimersAreMounted, pageVars
<1>4. \E w \in Bodies : Flush(p, w) /\ workspace'[p] = w
    <2>1. CASE Unmount(p)
        BY <2>1 DEF Unmount, saveVars
    <2>2. CASE TimerFires(p)
        BY <2>2 DEF TimerFires
    <2>3. CASE Hide(p)
        BY <2>3 DEF Hide
    <2> QED
        BY <1>2, <2>1, <2>2, <2>3
<1> QED
    BY <1>3, <1>4

(***************************************************************************)
(* A tab overwrites only what it has itself loaded or saved.  This is the  *)
(* optimistic guard of the checkpoint, for any number of tabs: it rests on *)
(* the checkpoint being what the tab saw, wherever it has been carried.    *)
(***************************************************************************)
THEOREM OverwritesSeen == Spec => OverwritesOnlySeen
<1>1. Inv /\ [Next]_vars =>
          (saved' \in {saved, Nothing} \/
             \E p \in Tabs : seen[p] = saved /\ saved' = Snapshot(p)')
    <2> SUFFICES ASSUME Inv, [Next]_vars, saved' \notin {saved, Nothing}
                 PROVE  \E p \in Tabs : seen[p] = saved /\ saved' = Snapshot(p)'
        OBVIOUS
    <2>1. PICK p \in Tabs, w \in Bodies :
              page[p] # "closed" /\ Flush(p, w) /\ workspace'[p] = w /\ version' = version
        BY StepWrites
    <2>2. saved' = [version |-> version[p], body |-> w] /\ saved = seen[p]
        BY <2>1, FlushWrites
    <2> QED
        BY <2>1, <2>2 DEF Snapshot
<1> QED
    BY <1>1, Invariance, PTL DEF Spec, OverwritesOnlySeen

(***************************************************************************)
(* A build never replaces the workspace of another version.                *)
(***************************************************************************)
THEOREM VersionsKept == Spec => VersionsAreKept
<1>1. Inv /\ [Next]_vars =>
          ({saved, saved'} \subseteq Snapshots => saved'.version = saved.version)
    <2> SUFFICES ASSUME Inv, [Next]_vars, saved \in Snapshots, saved' \in Snapshots,
                        saved' # saved
                 PROVE  saved'.version = saved.version
        OBVIOUS
    <2>1. saved' # Nothing
        BY ItemsAssumption
    <2>2. PICK p \in Tabs, w \in Bodies : page[p] # "closed" /\ Flush(p, w)
        BY <2>1, StepWrites
    <2> QED
        BY <2>2, FlushWrites
<1> QED
    BY <1>1, Invariance, PTL DEF Spec, VersionsAreKept

(***************************************************************************)
(* What a tab shows of its saves.  The two invariants need two more facts: *)
(* a page that found another version says so, and a hidden page buffers    *)
(* nothing.                                                                *)
(***************************************************************************)
UnsavedKnown(p) ==
    page[p] = "mounted" /\ ~restoring[p] /\ seen[p] # Snapshot(p) =>
        scheduled[p] \/ status[p] \in Failed

HiddenSaved(p) ==
    page[p] = "mounted" /\ hidden[p] /\ status[p] = "success" =>
        ~buffered[p] /\ seen[p] = Snapshot(p)

BlockedIsShown(p) == page[p] = "mounted" /\ blocked[p] => status[p] \in Failed

HiddenIsCommitted(p) == hidden[p] => ~buffered[p]

Told(p) ==
    UnsavedKnown(p) /\ HiddenSaved(p) /\ BlockedIsShown(p) /\ HiddenIsCommitted(p)

AllTold == \A p \in Tabs : Told(p)

LEMMA InitTold == Init => AllTold
BY DEF Init, AllTold, Told, UnsavedKnown, HiddenSaved, BlockedIsShown, HiddenIsCommitted

\* After a flush the workspace is saved, or the status says why it is not.
LEMMA FlushTells ==
    ASSUME TypeOK, NEW p \in Tabs, NEW w \in Bodies, Flush(p, w)
    PROVE  \/ status'[p] \in Failed
           \/ status'[p] = "success" /\ ~blocked[p]
              /\ seen'[p] = [version |-> version[p], body |-> w]
<1>1. CASE \E reason \in Failed : Refuse(p, reason)
    BY <1>1 DEF Refuse, TypeOK
<1>2. CASE Save(p, w) /\ ~blocked[p]
    BY <1>2 DEF Save, TypeOK
<1>3. paused[p] # "no" => paused[p] \in Failed
    BY DEF TypeOK, Failed
<1> QED
    BY <1>1, <1>2, <1>3 DEF Flush, Failed

\* A flush of one tab changes nothing of another.
LEMMA FlushIsLocal ==
    ASSUME TypeOK, NEW p \in Tabs, NEW w \in Bodies, Flush(p, w),
           NEW q \in Tabs, q # p
    PROVE  seen'[q] = seen[q] /\ scheduled'[q] = scheduled[q] /\ status'[q] = status[q]
BY DEF TypeOK, Flush, Refuse, Save

\* Scheduling a save of a mounted page sets the timer or says why it cannot.
LEMMA ScheduleTells ==
    ASSUME TypeOK, NEW p \in Tabs, Schedule(p)
    PROVE  /\ \/ blocked[p] /\ UNCHANGED <<scheduled, status>>
              \/ ~blocked[p] /\ status'[p] \in Failed
              \/ ~blocked[p] /\ status'[p] = "pending" /\ scheduled'[p]
           /\ \A q \in Tabs : q # p =>
                scheduled'[q] = scheduled[q] /\ status'[q] = status[q]
BY DEF TypeOK, Schedule, Failed

LEMMA ChangeTells ==
    ASSUME TypeOK, \A q \in Tabs : Told(q), NEW p \in Tabs, NEW b \in Bodies,
           Changed(p, b), NEW r \in BOOLEAN, ScheduleWhenHydrated(p, r),
           restoring' = restoring \/ restoring' = [restoring EXCEPT ![p] = r],
           restoring'[p] = r, hidden' = hidden,
           ~hidden[p] \/ ~r, \A q \in Tabs : hidden'[q] => ~buffered'[q]
    PROVE  \A q \in Tabs : Told(q)'
<1> SUFFICES ASSUME NEW q \in Tabs PROVE Told(q)'
    OBVIOUS
<1> USE DEF TypeOK, Told, UnsavedKnown, HiddenSaved, BlockedIsShown,
            HiddenIsCommitted, Snapshot, Changed, pageVars, ScheduleWhenHydrated
<1>1. CASE q # p
    BY <1>1, ScheduleTells
<1>2. CASE q = p /\ page[p] = "mounted" /\ ~r
    BY <1>2, ScheduleTells DEF Failed
<1>3. CASE q = p /\ (page[p] # "mounted" \/ r)
    BY <1>3
<1> QED
    BY <1>1, <1>2, <1>3

LEMMA StepTells ==
    Inv /\ AllTold /\ [Next]_vars => AllTold'
<1> SUFFICES ASSUME Inv, \A p \in Tabs : Told(p), [Next]_vars
             PROVE  \A p \in Tabs : Told(p)'
    BY DEF AllTold
<1> USE DEF Inv, TypeOK
<1>1. ASSUME NEW p \in Tabs, Load(p) PROVE \A q \in Tabs : Told(q)'
    BY <1>1 DEF Load, Told, UnsavedKnown, HiddenSaved, BlockedIsShown,
                HiddenIsCommitted, Snapshot
<1>2. ASSUME NEW p \in Tabs, LoadFails(p) PROVE \A q \in Tabs : Told(q)'
    BY <1>2 DEF LoadFails, Told, UnsavedKnown, HiddenSaved, BlockedIsShown,
                HiddenIsCommitted, Snapshot
<1>3. ASSUME NEW p \in Tabs, Mount(p) PROVE \A q \in Tabs : Told(q)'
    <2> SUFFICES ASSUME NEW q \in Tabs PROVE Told(q)'
        OBVIOUS
    <2> USE DEF Told, UnsavedKnown, HiddenSaved, BlockedIsShown, HiddenIsCommitted,
                Snapshot, Mount
    <2>1. CASE q # p
        BY <1>3, <2>1, ScheduleTells
    <2>2. CASE q = p /\ blocked[p]
        BY <1>3, <2>2 DEF Failed
    <2>3. CASE q = p /\ ~blocked[p] /\ restoring[p]
        BY <1>3, <2>3
    <2>4. CASE q = p /\ ~blocked[p] /\ ~restoring[p]
        BY <1>3, <2>4, ScheduleTells DEF Failed
    <2> QED
        BY <2>1, <2>2, <2>3, <2>4
<1>4. ASSUME NEW p \in Tabs, Unmount(p) PROVE \A q \in Tabs : Told(q)'
    <2> SUFFICES ASSUME NEW q \in Tabs PROVE Told(q)'
        OBVIOUS
    <2> USE DEF Told, UnsavedKnown, HiddenSaved, BlockedIsShown, HiddenIsCommitted,
                Snapshot, Unmount
    <2>1. CASE q # p
        BY <1>4, <2>1, FlushIsLocal DEF saveVars
    <2>2. CASE q = p
        BY <1>4, <2>2
    <2> QED
        BY <2>1, <2>2
<1>5. ASSUME NEW p \in Tabs, TimerFires(p) PROVE \A q \in Tabs : Told(q)'
    <2> SUFFICES ASSUME NEW q \in Tabs PROVE Told(q)'
        OBVIOUS
    <2> USE DEF Told, UnsavedKnown, HiddenSaved, BlockedIsShown, HiddenIsCommitted,
                Snapshot, TimerFires, pageVars
    <2>1. CASE q # p
        BY <1>5, <2>1, FlushIsLocal
    <2>2. CASE q = p
        BY <1>5, <2>2, FlushTells DEF Failed
    <2> QED
        BY <2>1, <2>2
<1>6. ASSUME NEW p \in Tabs, Edit(p) PROVE \A q \in Tabs : Told(q)'
    BY <1>6, ChangeTells DEF Edit, Told, HiddenIsCommitted
<1>7. ASSUME NEW p \in Tabs, Scroll(p) PROVE \A q \in Tabs : Told(q)'
    BY <1>7 DEF Scroll, saveVars, pageVars, Told, UnsavedKnown, HiddenSaved,
                BlockedIsShown, HiddenIsCommitted, Snapshot
<1>8. ASSUME NEW p \in Tabs, CommitScroll(p) PROVE \A q \in Tabs : Told(q)'
    <2>1. ~hidden[p] /\ \A q \in Tabs : hidden'[q] => ~buffered'[q]
        BY <1>8 DEF CommitScroll, Told, HiddenIsCommitted
    <2> QED
        BY <1>8, <2>1, ChangeTells DEF CommitScroll
<1>9. ASSUME NEW p \in Tabs, Hydrated(p) PROVE \A q \in Tabs : Told(q)'
    <2>1. restoring'[p] = FALSE /\ \A q \in Tabs : hidden'[q] => ~buffered'[q]
        BY <1>9 DEF Hydrated, Told, HiddenIsCommitted
    <2> QED
        BY <1>9, <2>1, ChangeTells DEF Hydrated
<1>10. ASSUME NEW p \in Tabs, Hide(p) PROVE \A q \in Tabs : Told(q)'
    <2> SUFFICES ASSUME NEW q \in Tabs PROVE Told(q)'
        OBVIOUS
    <2> USE DEF Told, UnsavedKnown, HiddenSaved, BlockedIsShown, HiddenIsCommitted,
                Snapshot, Hide, pageVars
    <2>1. CASE q # p
        BY <1>10, <2>1, FlushIsLocal
    <2>2. CASE q = p
        BY <1>10, <2>2, FlushTells DEF Failed
    <2> QED
        BY <2>1, <2>2
<1>11. ASSUME NEW p \in Tabs, Show(p) \/ Close(p) PROVE \A q \in Tabs : Told(q)'
    BY <1>11 DEF Show, Close, saveVars, pageVars, Told, UnsavedKnown, HiddenSaved,
                 BlockedIsShown, HiddenIsCommitted, Snapshot
<1>12. CASE Clear \/ UNCHANGED vars
    BY <1>12 DEF Clear, vars, saveVars, pageVars, Told, UnsavedKnown, HiddenSaved,
                 BlockedIsShown, HiddenIsCommitted, Snapshot
<1> QED
    BY <1>1, <1>2, <1>3, <1>4, <1>5, <1>6, <1>7, <1>8, <1>9, <1>10, <1>11, <1>12
       DEF Next, Tab

LEMMA ToldAlways == Spec => []AllTold
BY InitTold, StepTells, Invariance, PTL DEF Spec

(***************************************************************************)
(* No edit is forgotten: in every tab an unsaved change has a save under   *)
(* way or a status that says why it has none, whatever was restored,       *)
(* remounted or refused before.                                            *)
(***************************************************************************)
THEOREM EditsAreKnown == Spec => []UnsavedIsKnown
<1>1. AllTold => UnsavedIsKnown
    BY DEF AllTold, Told, UnsavedKnown, UnsavedIsKnown
<1> QED
    BY <1>1, ToldAlways, PTL

(***************************************************************************)
(* A hidden page that reports success has saved its whole workspace, its   *)
(* buffered scroll position included.                                      *)
(***************************************************************************)
THEOREM HidingSaves == Spec => []HiddenIsSaved
<1>1. AllTold => HiddenIsSaved
    BY DEF AllTold, Told, HiddenSaved, HiddenIsSaved
<1> QED
    BY <1>1, ToldAlways, PTL
=============================================================================
