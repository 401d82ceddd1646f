------------------------ MODULE WorkspacePersistence ------------------------
(***************************************************************************)
(* Saving the workspace in localStorage                                    *)
(* (src/src/toolcraft/runtime/state/persistence-controller.ts, its React   *)
(* effect and the bootstrap that reads it when a page loads).              *)
(*                                                                         *)
(* All tabs of the origin save under one key.  A tab writes only while     *)
(* the key still holds what the tab loaded or last saved: its checkpoint,  *)
(* which outlives the controller that uses it.  A tab that finds something *)
(* else pauses until it is reloaded.  A save is due some time after the    *)
(* last change; hiding the page saves at once.  Reading, comparing and     *)
(* writing is one step: the tabs share one event loop or storage lock.     *)
(***************************************************************************)
CONSTANTS
    Tabs,       \* tabs that show the application
    Versions,   \* schema versions of its builds
    Bodies,     \* contents of a workspace
    Faults      \* storage failures that may happen in this instance

CONSTANTS
    Nothing,    \* the key has no item
    Garbage     \* the item under the key is not a workspace

ASSUME FaultsAssumption == Faults \subseteq {"read", "write", "snapshot"}

VARIABLES
    saved,       \* the item in localStorage
    page,        \* a tab has no page, a page, or a page with a controller
    version,     \* version of the build that the page runs
    workspace,   \* the committed state, as far as it is saved
    buffered,    \* a scroll position is not yet committed to the state
    restoring,   \* media assets are still being restored
    hidden,      \* the page is hidden
    checkpoint,  \* item the tab expects to find, owned by the store
    paused,      \* why the checkpoint admits no save, or "no"
    blocked,     \* the page found a workspace of another version
    scheduled,   \* the timer of a save is set
    status,      \* status of the controller
    seen         \* history: the item the tab itself last loaded or saved

pageVars == <<page, version, blocked>>
saveVars == <<saved, checkpoint, paused, scheduled, status, seen>>
vars == <<saveVars, pageVars, workspace, buffered, restoring, hidden>>

Snapshots == [version : Versions, body : Bodies]

Items == Snapshots \cup {Nothing, Garbage}

ASSUME ItemsAssumption == Nothing # Garbage /\ Nothing \notin Snapshots /\ Garbage \notin Snapshots

Failed == {"stale", "unavailable", "incompatible", "error"}

Init ==
    /\ saved \in {Nothing, Garbage}
    /\ page = [p \in Tabs |-> "closed"]
    /\ version \in [Tabs -> Versions]
    /\ workspace \in [Tabs -> Bodies]
    /\ buffered = [p \in Tabs |-> FALSE]
    /\ restoring = [p \in Tabs |-> FALSE]
    /\ hidden = [p \in Tabs |-> FALSE]
    /\ checkpoint = [p \in Tabs |-> Nothing]
    /\ paused = [p \in Tabs |-> "no"]
    /\ blocked = [p \in Tabs |-> FALSE]
    /\ scheduled = [p \in Tabs |-> FALSE]
    /\ status = [p \in Tabs |-> "pending"]
    /\ seen = [p \in Tabs |-> Nothing]

(***************************************************************************)
(* Loading a page.  Reading migrates and normalises the saved body, so the *)
(* workspace may start from any body; media assets may have to be restored *)
(* from the binary asset repository.                                       *)
(***************************************************************************)
\* Mutant: a workspace of another version is loaded like any other.
NeverIncompatible(v) == FALSE

\* The item is a workspace of another version.
Incompatible(v) == saved \in Snapshots /\ saved.version # v

Load(p) ==
    /\ page[p] = "closed"
    /\ page' = [page EXCEPT ![p] = "loaded"]
    /\ \E v \in Versions, b \in Bodies :
          /\ version' = [version EXCEPT ![p] = v]
          /\ workspace' = [workspace EXCEPT ![p] = b]
          /\ blocked' = [blocked EXCEPT ![p] = Incompatible(v)]
          /\ \E r \in BOOLEAN :
                /\ r => saved \in Snapshots /\ ~Incompatible(v)
                /\ restoring' = [restoring EXCEPT ![p] = r]
    /\ checkpoint' = [checkpoint EXCEPT ![p] = saved]
    /\ paused' = [paused EXCEPT ![p] = "no"]
    /\ seen' = [seen EXCEPT ![p] = saved]
    /\ UNCHANGED <<saved, buffered, hidden, scheduled, status>>

\* localStorage cannot be read: the page starts anew and never saves.
LoadFails(p) ==
    /\ "read" \in Faults
    /\ page[p] = "closed"
    /\ page' = [page EXCEPT ![p] = "loaded"]
    /\ \E b \in Bodies : workspace' = [workspace EXCEPT ![p] = b]
    /\ blocked' = [blocked EXCEPT ![p] = FALSE]
    /\ restoring' = [restoring EXCEPT ![p] = FALSE]
    /\ paused' = [paused EXCEPT ![p] = "unavailable"]
    /\ UNCHANGED <<saved, version, buffered, hidden, checkpoint, scheduled,
                   status, seen>>

(***************************************************************************)
(* schedule: a change of the saved parts of the state, while a controller  *)
(* is mounted and nothing is being restored, sets the timer anew.          *)
(***************************************************************************)
Schedule(p) ==
    \/ /\ blocked[p]
       /\ UNCHANGED <<scheduled, status>>
    \/ /\ ~blocked[p]
       /\ paused[p] # "no"
       /\ status' = [status EXCEPT ![p] = paused[p]]
       /\ scheduled' = scheduled
    \/ /\ ~blocked[p]
       /\ paused[p] = "no"
       /\ status' = [status EXCEPT ![p] = "pending"]
       /\ scheduled' = [scheduled EXCEPT ![p] = TRUE]

ScheduleWhenHydrated(p, isRestoring) ==
    IF page[p] = "mounted" /\ ~isRestoring THEN Schedule(p)
    ELSE UNCHANGED <<scheduled, status>>

\* Mutant: every controller reads the item it expects to find by itself.
AdoptedCheckpoint(p) == saved

\* The checkpoint a new controller starts with: the one of the store.
MountedCheckpoint(p) == checkpoint[p]

\* The effect starts a controller.
Mount(p) ==
    /\ page[p] = "loaded"
    /\ page' = [page EXCEPT ![p] = "mounted"]
    /\ checkpoint' = [checkpoint EXCEPT ![p] = MountedCheckpoint(p)]
    /\ IF blocked[p]
       THEN /\ status' = [status EXCEPT ![p] = "incompatible"]
            /\ scheduled' = scheduled
       ELSE IF restoring[p]
       THEN /\ status' = [status EXCEPT ![p] = "pending"]
            /\ scheduled' = scheduled
       ELSE Schedule(p)
    /\ UNCHANGED <<saved, version, blocked, workspace, buffered, restoring,
                   hidden, paused, seen>>

(***************************************************************************)
(* flush: save the workspace w of tab p.                                   *)
(***************************************************************************)
Refuse(p, reason) ==
    /\ status' = [status EXCEPT ![p] = reason]
    /\ UNCHANGED <<saved, checkpoint, seen>>

Save(p, w) ==
    /\ saved' = [version |-> version[p], body |-> w]
    /\ checkpoint' = [checkpoint EXCEPT ![p] = saved']
    /\ seen' = [seen EXCEPT ![p] = saved']
    /\ status' = [status EXCEPT ![p] = "success"]

Flush(p, w) ==
    /\ scheduled' = [scheduled EXCEPT ![p] = FALSE]
    /\ \/ /\ blocked[p]
          /\ Refuse(p, "incompatible")
          /\ paused' = paused
       \/ /\ ~blocked[p]
          /\ paused[p] # "no"
          /\ Refuse(p, paused[p])
          /\ paused' = paused
       \/ /\ ~blocked[p]
          /\ paused[p] = "no"
          /\ saved # checkpoint[p]
          /\ Refuse(p, "stale")
          /\ paused' = [paused EXCEPT ![p] = "stale"]
       \/ /\ ~blocked[p]
          /\ paused[p] = "no"
          /\ saved = checkpoint[p]
          /\ Save(p, w)
          /\ paused' = paused
       \/ \* The snapshot cannot be made, or the item read or written.
          /\ ~blocked[p]
          /\ paused[p] = "no"
          /\ \/ "read" \in Faults
             \/ /\ "write" \in Faults
                /\ saved = checkpoint[p]
                /\ saved # [version |-> version[p], body |-> w]
             \/ "snapshot" \in Faults
          /\ Refuse(p, "error")
          /\ paused' = paused

TimerFires(p) ==
    /\ scheduled[p]
    /\ Flush(p, workspace[p])
    /\ UNCHANGED <<pageVars, workspace, buffered, restoring, hidden>>

\* The controller is disposed of: it saves what is pending.
Unmount(p) ==
    /\ page[p] = "mounted"
    /\ page' = [page EXCEPT ![p] = "loaded"]
    /\ IF scheduled[p] \/ status[p] = "pending" THEN Flush(p, workspace[p])
       ELSE UNCHANGED saveVars
    /\ UNCHANGED <<version, blocked, workspace, buffered, restoring, hidden>>

(***************************************************************************)
(* The user and the rest of the application.                               *)
(***************************************************************************)
Changed(p, b) ==
    /\ workspace' = [workspace EXCEPT ![p] = b]
    /\ UNCHANGED <<pageVars, saved, checkpoint, paused, seen>>

Edit(p) ==
    /\ page[p] # "closed"
    /\ ~hidden[p]
    /\ \E b \in Bodies : Changed(p, b)
    /\ ScheduleWhenHydrated(p, restoring[p])
    /\ UNCHANGED <<buffered, restoring, hidden>>

Scroll(p) ==
    /\ page[p] # "closed"
    /\ ~hidden[p]
    /\ buffered' = [buffered EXCEPT ![p] = TRUE]
    /\ UNCHANGED <<saveVars, pageVars, workspace, restoring, hidden>>

CommitScroll(p) ==
    /\ buffered[p]
    /\ \E b \in Bodies : Changed(p, b)
    /\ buffered' = [buffered EXCEPT ![p] = FALSE]
    /\ ScheduleWhenHydrated(p, restoring[p])
    /\ UNCHANGED <<restoring, hidden>>

\* Mutant: the end of the restoration is no change to save.
HydratedSilently(p) ==
    /\ restoring[p]
    /\ restoring' = [restoring EXCEPT ![p] = FALSE]
    /\ \E b \in Bodies : Changed(p, b)
    /\ UNCHANGED <<scheduled, status, buffered, hidden>>

\* The last asset is restored or found unavailable.
Hydrated(p) ==
    /\ restoring[p]
    /\ restoring' = [restoring EXCEPT ![p] = FALSE]
    /\ \E b \in Bodies : Changed(p, b)
    /\ ScheduleWhenHydrated(p, FALSE)
    /\ UNCHANGED <<buffered, hidden>>

\* Mutant: the buffers are not committed before the page is saved.
HideUnprepared(p) ==
    /\ page[p] = "mounted"
    /\ ~hidden[p]
    /\ hidden' = [hidden EXCEPT ![p] = TRUE]
    /\ Flush(p, workspace[p])
    /\ UNCHANGED <<pageVars, workspace, buffered, restoring>>

\* pagehide: the buffers are committed, then the workspace is saved.
Hide(p) ==
    /\ page[p] = "mounted"
    /\ ~hidden[p]
    /\ hidden' = [hidden EXCEPT ![p] = TRUE]
    /\ buffered' = [buffered EXCEPT ![p] = FALSE]
    /\ \E b \in Bodies :
          /\ ~buffered[p] => b = workspace[p]
          /\ workspace' = [workspace EXCEPT ![p] = b]
          /\ Flush(p, b)
    /\ UNCHANGED <<pageVars, restoring>>

\* A page that is shown again goes on; one that is gone loses its memory.
Show(p) ==
    /\ hidden[p]
    /\ hidden' = [hidden EXCEPT ![p] = FALSE]
    /\ UNCHANGED <<saveVars, pageVars, workspace, buffered, restoring>>

Close(p) ==
    /\ page[p] # "closed"
    /\ page' = [page EXCEPT ![p] = "closed"]
    /\ buffered' = [buffered EXCEPT ![p] = FALSE]
    /\ restoring' = [restoring EXCEPT ![p] = FALSE]
    /\ hidden' = [hidden EXCEPT ![p] = FALSE]
    /\ scheduled' = [scheduled EXCEPT ![p] = FALSE]
    /\ UNCHANGED <<saved, version, workspace, checkpoint, paused, blocked, status,
                   seen>>

\* The user clears the storage of the site.
Clear ==
    /\ saved' = Nothing
    /\ UNCHANGED <<checkpoint, paused, scheduled, status, seen, pageVars, workspace,
                   buffered, restoring, hidden>>

Tab(p) ==
    \/ Load(p) \/ LoadFails(p) \/ Mount(p) \/ Unmount(p) \/ TimerFires(p)
    \/ Edit(p) \/ Scroll(p) \/ CommitScroll(p) \/ Hydrated(p)
    \/ Hide(p) \/ Show(p) \/ Close(p)

Next == (\E p \in Tabs : Tab(p)) \/ Clear

Spec == Init /\ [][Next]_vars

-----------------------------------------------------------------------------
TypeOK ==
    /\ saved \in Items
    /\ page \in [Tabs -> {"closed", "loaded", "mounted"}]
    /\ version \in [Tabs -> Versions]
    /\ workspace \in [Tabs -> Bodies]
    /\ buffered \in [Tabs -> BOOLEAN]
    /\ restoring \in [Tabs -> BOOLEAN]
    /\ hidden \in [Tabs -> BOOLEAN]
    /\ checkpoint \in [Tabs -> Items]
    /\ paused \in [Tabs -> {"no", "stale", "unavailable"}]
    /\ blocked \in [Tabs -> BOOLEAN]
    /\ scheduled \in [Tabs -> BOOLEAN]
    /\ status \in [Tabs -> {"pending", "success"} \cup Failed]
    /\ seen \in [Tabs -> Items]

Snapshot(p) == [version |-> version[p], body |-> workspace[p]]

(***************************************************************************)
(* No edit is forgotten: once nothing is being restored, a tab whose       *)
(* workspace differs from what it last saved has a save under way or shows *)
(* why it has none, whatever was restored, remounted or refused before.    *)
(***************************************************************************)
UnsavedIsKnown ==
    \A p \in Tabs : page[p] = "mounted" /\ ~restoring[p] /\ seen[p] # Snapshot(p) =>
        scheduled[p] \/ status[p] \in Failed

(***************************************************************************)
(* When a hidden page reports success, the whole workspace is saved, the   *)
(* buffered scroll position included (handlePageHide).                     *)
(***************************************************************************)
HiddenIsSaved ==
    \A p \in Tabs : page[p] = "mounted" /\ hidden[p] /\ status[p] = "success" =>
        ~buffered[p] /\ seen[p] = Snapshot(p)

(***************************************************************************)
(* A tab overwrites only what it has itself loaded or saved: remounting    *)
(* the controller never makes it adopt the workspace of another tab        *)
(* (ToolcraftPersistenceCheckpoint).                                       *)
(***************************************************************************)
OverwritesOnlySeen ==
    [][saved' \in {saved, Nothing} \/
       \E p \in Tabs : seen[p] = saved /\ saved' = Snapshot(p)']_vars

(***************************************************************************)
(* A build never replaces the workspace of another version, however the    *)
(* tabs of the two builds load, save and reload.                           *)
(***************************************************************************)
VersionsAreKept ==
    [][({saved, saved'} \subseteq Snapshots) => saved'.version = saved.version]_vars
=============================================================================
