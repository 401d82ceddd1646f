--------------------------- MODULE ToolcraftStore ---------------------------
(***************************************************************************)
(* The store of the document: the committed state with its undo and redo   *)
(* stacks, the two transient lanes (playback and viewport) that gestures   *)
(* move without committing, one authored edit that previews a command, and *)
(* the state that is shown.  A command dispatched during a gesture is      *)
(* reduced twice, from the committed state and from the shown one, and     *)
(* the results are merged with their history.                              *)
(*                                                                         *)
(* The document has plain values, one item of a collection whose field may *)
(* have a keyframe track, a timeline and a viewport.  Patches are modelled *)
(* by the fields they carry; labels, layers, media and panels are left out.*)
(***************************************************************************)
EXTENDS Naturals, Sequences, SequencesExt, FiniteSets

CONSTANTS
    Targets,      \* the plain values of the document
    Values,       \* what a value or the field of the item may be
    Times,        \* the times a command may name
    Durations,    \* the durations of the timeline
    Viewports,    \* the offsets and zooms a gesture gives the canvas
    Origin,       \* its first offset
    FullScale,    \* its first zoom
    Commands,     \* the commands dispatched
    Edits,        \* the commands an authored edit previews
    MaxHistory,   \* bound: commands recorded and not undone
    None          \* an absent field, lane, selection or group

Offsets == {Origin} \cup {v.offset : v \in Viewports}

Zooms == {FullScale} \cup ({v.zoom : v \in Viewports} \ {None})

\* Commands that set a value, which an authored edit may preview.
ControlCommands ==
    [type : {"setValue"}, target : Targets, value : Values,
     history : {"record", "merge", "skip"}, group : STRING \cup {None}]
    \cup [type : {"setField"}, value : Values,
          history : {"record", "merge", "skip"}, group : STRING \cup {None}]

StoreCommands ==
    ControlCommands
    \cup [type : {"addKey", "selectKey"}, at : Nat \cup {None}]
    \cup [type : {"deleteKey"}, at : Nat]
    \cup [type : {"setDuration"}, duration : Durations]
    \cup [type : {"setTime"}, time : Nat]
    \cup [type : {"setViewport"}, offset : Offsets, zoom : Zooms \cup {None}]
    \cup [type : {"import"}, values : UNION {[ts -> Values] : ts \in SUBSET Targets},
          duration : Durations, time : Nat]
    \cup [type : {"togglePlayback", "reset", "undo", "redo"}]

ASSUME StoreAssumption ==
    /\ Times \subseteq Nat
    /\ Durations \subseteq Nat \ {0}
    /\ \E d \in Durations : \A e \in Durations : e <= d
    /\ Values # {}
    /\ MaxHistory \in Nat
    /\ None \notin Nat \cup Values \cup Offsets \cup Zooms
    /\ Commands \subseteq StoreCommands /\ Edits \subseteq ControlCommands

VARIABLES
    committed,    \* committedState, with its history
    lanes,        \* playbackTimeSeconds and viewport, None where not moved
    edit,         \* the authored edit: is it active, and what it previews
    shown         \* effectiveState, as it was last projected

vars == <<committed, lanes, edit, shown>>

AtMost(t, limit) == IF t > limit THEN limit ELSE t

-----------------------------------------------------------------------------
(* States and patches *)

Fresh ==
    [values |-> [t \in Targets |-> CHOOSE v \in Values : TRUE],
     item |-> CHOOSE v \in Values : TRUE,
     timeline |-> [keys |-> <<>>, selected |-> None, time |-> 0, playing |-> FALSE,
                   duration |-> CHOOSE d \in Durations : \A e \in Durations : e <= d],
     offset |-> Origin,
     zoom |-> FullScale,
     undo |-> <<>>,
     redo |-> <<>>]

Fields == {"item", "timeline", "offset", "zoom"}

\* The function of both, f where it is defined.
Over(f, g) == [x \in DOMAIN f \cup DOMAIN g |-> IF x \in DOMAIN f THEN f[x] ELSE g[x]]

\* A patch carries the values of `targets` and `fields` in two states.
Side(s, targets, fields) ==
    [values |-> Restrict(s.values, targets), fields |-> Restrict(s, fields)]

Patch(s, t, targets, fields, group) ==
    [before |-> Side(s, targets, fields), after |-> Side(t, targets, fields),
     group |-> group, reset |-> FALSE, new |-> TRUE]

Applied(s, side) == [Over(side.fields, s) EXCEPT !.values = Over(side.values, @)]

\* First before, latest after (the mutant: latest before).
MergedPatchLatest(previous, next) ==
    [next EXCEPT
        !.before = [values |-> Over(@.values, previous.before.values),
                    fields |-> Over(@.fields, previous.before.fields)],
        !.after = [values |-> Over(@.values, previous.after.values),
                   fields |-> Over(@.fields, previous.after.fields)]]

MergedPatch(previous, next) ==
    [next EXCEPT
        !.before = [values |-> Over(previous.before.values, @.values),
                    fields |-> Over(previous.before.fields, @.fields)],
        !.after = [values |-> Over(@.values, previous.after.values),
                   fields |-> Over(@.fields, previous.after.fields)]]

Merges(s, patch) ==
    /\ patch.group # None
    /\ s.undo # <<>>
    /\ Last(s.undo).group = patch.group

Recorded(s, patch) ==
    [s EXCEPT !.redo = <<>>,
              !.undo = IF Merges(s, patch)
                       THEN Append(Front(@), MergedPatch(Last(@), patch))
                       ELSE Append(@, patch)]

-----------------------------------------------------------------------------
(* The reducers *)

Group(c) == IF c.history = "merge" THEN c.group ELSE None

\* A control's value, with the timeline that follows from it.
Replaced(s, t, targets, fields, c) ==
    IF c.history = "skip" THEN t ELSE Recorded(t, Patch(s, t, targets, fields, Group(c)))

SetValue(s, c) ==
    IF s.values[c.target] = c.value THEN s
    ELSE Replaced(s, [s EXCEPT !.values[c.target] = c.value], {c.target}, {}, c)

\* timeline.upsertControlKeyframe
WithKey(timeline, at, value) ==
    LET t == AtMost(at, timeline.duration)
    IN  [timeline EXCEPT !.keys = Over([x \in {t} |-> value], @), !.selected = t]

\* A tracked field is keyed at the selected key, else at the current time.
FieldTime(s) ==
    IF s.timeline.selected \in DOMAIN s.timeline.keys
    THEN s.timeline.selected ELSE s.timeline.time

SetField(s, c) ==
    LET keyed == WithKey(s.timeline, FieldTime(s), c.value)
        tracked == s.timeline.keys # <<>>
    IN  Replaced(s, [s EXCEPT !.item = c.value,
                              !.timeline = IF tracked THEN keyed ELSE @],
                 {}, {"item"} \cup (IF tracked THEN {"timeline"} ELSE {}), c)

\* A structural patch carries the whole timeline.
SetTimeline(s, timeline) ==
    LET t == [s EXCEPT !.timeline = timeline]
    IN  Recorded(t, Patch(s, t, {}, {"timeline"}, None))

AddKey(s, c) ==
    SetTimeline(s, WithKey(s.timeline, IF c.at = None THEN s.timeline.time ELSE c.at, s.item))

DeleteKey(s, c) ==
    IF c.at \notin DOMAIN s.timeline.keys THEN s
    ELSE SetTimeline(s, [s.timeline EXCEPT
                            !.keys = Restrict(@, DOMAIN @ \ {c.at}), !.selected = None])

SetDuration(s, c) ==
    SetTimeline(s, [s.timeline EXCEPT !.time = AtMost(@, c.duration),
                                      !.duration = c.duration])

SelectKey(s, c) == [s EXCEPT !.timeline.selected = c.at]

SetTime(s, c) == [s EXCEPT !.timeline.time = AtMost(c.time, s.timeline.duration)]

TogglePlayback(s) ==
    [s EXCEPT !.timeline.playing = ~@,
              !.timeline.time = IF ~s.timeline.playing /\ @ >= s.timeline.duration
                                THEN 0 ELSE @]

SetViewport(s, c) ==
    [s EXCEPT !.offset = c.offset, !.zoom = IF c.zoom = None THEN @ ELSE c.zoom]

\* controls.reset to saved defaults replaces the whole workspace.
Reset(s) ==
    LET t == [Fresh EXCEPT !.undo = s.undo, !.redo = s.redo]
    IN  Recorded(t, [Patch(s, t, Targets, Fields, None) EXCEPT !.reset = TRUE])

\* settings.apply
Import(s, c) ==
    LET t == [s EXCEPT
                !.values = Over(c.values, @),
                !.timeline = [@ EXCEPT !.duration = c.duration, !.playing = FALSE,
                                       !.time = AtMost(c.time, c.duration)]]
    IN  Recorded(t, Patch(s, t, {x \in Targets : t.values[x] # s.values[x]},
                          {"timeline", "offset"}, None))

Undo(s) ==
    IF s.undo = <<>> THEN s
    ELSE [Applied(s, Last(s.undo).before) EXCEPT
             !.undo = Front(@), !.redo = Append(@, Last(s.undo))]

Redo(s) ==
    IF s.redo = <<>> THEN s
    ELSE [Applied(s, Last(s.redo).after) EXCEPT
             !.undo = Append(@, Last(s.redo)), !.redo = Front(@)]

Reduce(s, c) ==
    CASE c.type = "setValue" -> SetValue(s, c)
      [] c.type = "setField" -> SetField(s, c)
      [] c.type = "addKey" -> AddKey(s, c)
      [] c.type = "deleteKey" -> DeleteKey(s, c)
      [] c.type = "selectKey" -> SelectKey(s, c)
      [] c.type = "setDuration" -> SetDuration(s, c)
      [] c.type = "setTime" -> SetTime(s, c)
      [] c.type = "togglePlayback" -> TogglePlayback(s)
      [] c.type = "setViewport" -> SetViewport(s, c)
      [] c.type = "reset" -> Reset(s)
      [] c.type = "import" -> Import(s, c)
      [] c.type = "undo" -> Undo(s)
      [] c.type = "redo" -> Redo(s)

-----------------------------------------------------------------------------
(* What is shown *)

Idle == [active |-> FALSE, command |-> None]
NoLanes == [time |-> None, offset |-> None, zoom |-> None]

Effective(s, l) ==
    [s EXCEPT !.timeline.time = IF l.time = None THEN @ ELSE l.time,
              !.offset = IF l.offset = None THEN @ ELSE l.offset,
              !.zoom = IF l.zoom = None THEN @ ELSE l.zoom]

\* The preview is never recorded.
Previewed(s, e) ==
    IF e.command = None THEN s
    ELSE [Reduce(s, [e.command EXCEPT !.history = "skip"])
             EXCEPT !.undo = s.undo, !.redo = s.redo]

Projected(s, l, e) == Effective(Previewed(s, e), l)

\* A lane that shows what is committed is dropped.
Normalized(l, s) ==
    [time |-> IF l.time = s.timeline.time THEN None ELSE l.time,
     offset |-> IF l.offset = s.offset THEN None ELSE l.offset,
     zoom |-> IF l.zoom = s.zoom THEN None ELSE l.zoom]

-----------------------------------------------------------------------------
(* A command dispatched during a gesture *)

\* The patch an undo or a redo applies, if any.
AppliedPatch(s, c) ==
    CASE c.type = "undo" /\ s.undo # <<>> -> Last(s.undo)
      [] c.type = "redo" /\ s.redo # <<>> -> Last(s.redo)
      [] OTHER -> None

PatchMovesTime(p) ==
    "timeline" \in DOMAIN p.before.fields
    /\ p.before.fields.timeline.time # p.after.fields.timeline.time

\* The fields of the lanes that the command itself changes.
Touched(s, e, s2, e2, c) ==
    LET p == AppliedPatch(s, c)
        stops == IF e.timeline.playing /\ ~e2.timeline.playing THEN {"time"} ELSE {}
    IN  stops \cup
        IF p = None THEN
            {f \in {"offset", "zoom"} : s[f] # s2[f] \/ e[f] # e2[f]}
            \cup (IF s.timeline.time # s2.timeline.time \/ e.timeline.time # e2.timeline.time
                  THEN {"time"} ELSE {})
        ELSE IF p.reset THEN {"time", "offset", "zoom"}
        ELSE IF PatchMovesTime(p) THEN {"time"} ELSE {}

\* A timeline in a patch gets the committed time of its side.
AtTime(side, time) ==
    IF "timeline" \in DOMAIN side.fields
    THEN [side EXCEPT !.fields.timeline.time = time] ELSE side

MergedNew(p, s, t) ==
    IF p.reset THEN p
    ELSE [p EXCEPT !.before = AtTime(@, s.timeline.time),
                   !.after = AtTime(@, t.timeline.time)]

\* Patches of this command are merged, older ones kept as they are.
MergedStack(es, cs, s, t) ==
    [i \in 1..(IF Len(es) >= Len(cs) THEN Len(es) ELSE Len(cs)) |->
        CASE i <= Len(es) /\ (es[i].new \/ i > Len(cs) \/ ~cs[i].new) ->
                IF es[i].new THEN MergedNew(es[i], s, t) ELSE es[i]
          [] OTHER -> IF cs[i].new THEN MergedNew(cs[i], s, t) ELSE cs[i]]

Settled(stack) == [i \in DOMAIN stack |-> [stack[i] EXCEPT !.new = FALSE]]

\* Mutant: the time and the viewport of the gesture are kept.
MergedStateShown(s, s2, e2, touched) ==
    [e2 EXCEPT !.undo = MergedStack(e2.undo, s2.undo, s, e2),
               !.redo = MergedStack(e2.redo, s2.redo, s, e2)]

\* The state is that of the shown result, the lanes' fields those of the
\* committed result unless the command touched them.
MergedState(s, s2, e2, touched) ==
    LET t == [e2 EXCEPT
                !.timeline.time = IF "time" \in touched THEN @ ELSE s2.timeline.time,
                !.offset = IF "offset" \in touched THEN @ ELSE s2.offset,
                !.zoom = IF "zoom" \in touched THEN @ ELSE s2.zoom]
    IN  [t EXCEPT !.undo = MergedStack(e2.undo, s2.undo, s, t),
                  !.redo = MergedStack(e2.redo, s2.redo, s, t)]

Published(s) == [s EXCEPT !.undo = Settled(@), !.redo = Settled(@)]

\* The reducer returns the state itself.
Ignored(s, c) ==
    \/ c.type = "setValue" /\ s.values[c.target] = c.value
    \/ c.type = "deleteKey" /\ c.at \notin DOMAIN s.timeline.keys
    \/ c.type = "undo" /\ s.undo = <<>>
    \/ c.type = "redo" /\ s.redo = <<>>

\* dispatch, from the shown state `e`
Dispatched(c, e) ==
    LET s2 == Reduce(committed, c)
        e2 == Reduce(e, c)
        touched == Touched(committed, e, s2, e2, c)
        next == Published(IF lanes = NoLanes THEN s2
                          ELSE MergedState(committed, s2, e2, touched))
        kept == [f \in DOMAIN lanes |-> IF f \in touched THEN None ELSE lanes[f]]
    IN  IF Ignored(committed, c) /\ (lanes = NoLanes \/ Ignored(e, c))
        THEN /\ shown' = e
             /\ UNCHANGED <<committed, lanes>>
        ELSE /\ committed' = next
             /\ lanes' = IF lanes = NoLanes THEN lanes ELSE Normalized(kept, next)
             /\ shown' = Effective(next, lanes')

Records(c) ==
    c.type \notin {"undo", "redo", "selectKey", "setTime", "togglePlayback", "setViewport"}

HasRoom(c) == Records(c) => Len(committed.undo) < MaxHistory

-----------------------------------------------------------------------------
(* Operations *)

Init ==
    /\ committed = Fresh
    /\ lanes = NoLanes
    /\ edit = Idle
    /\ shown = Fresh

\* Mutant: the edit is cancelled without being published.
DispatchUnpublished(c) ==
    /\ HasRoom(c)
    /\ ~(edit.active /\ c.type \in {"undo", "redo"})
    /\ edit' = Idle
    /\ Dispatched(c, shown)

\* The edit is cancelled by the command, and published before it runs.
Dispatch(c) ==
    /\ HasRoom(c)
    /\ ~(edit.active /\ c.type \in {"undo", "redo"})
    /\ edit' = Idle
    /\ LET e == IF edit.active THEN Effective(committed, lanes) ELSE shown
       IN  Dispatched(c, e)

\* An undo during an edit cancels the edit and nothing else; a redo throws.
UndoEdit ==
    /\ edit.active
    /\ edit' = Idle
    /\ shown' = Effective(committed, lanes)
    /\ UNCHANGED <<committed, lanes>>

\* dispatchTransient of timeline.setCurrentTime
MoveTime(time) ==
    LET t == AtMost(time, shown.timeline.duration)
    IN  /\ t # shown.timeline.time
        /\ lanes' = Normalized([lanes EXCEPT !.time = t], committed)
        /\ shown' = Projected(committed, lanes', edit)
        /\ UNCHANGED <<committed, edit>>

\* dispatchTransient of canvas.setOffset (no zoom) or canvas.setViewport
MoveViewport(offset, zoom) ==
    LET e == IF edit.active THEN Effective(committed, lanes) ELSE shown
        moved == [lanes EXCEPT !.offset = offset,
                               !.zoom = IF zoom = None THEN @ ELSE zoom]
        still == e.offset = offset /\ (zoom = None \/ e.zoom = zoom)
    IN  /\ edit' = Idle
        /\ lanes' = IF still THEN lanes ELSE Normalized(moved, committed)
        /\ shown' = IF still THEN e ELSE Projected(committed, lanes', Idle)
        /\ UNCHANGED committed

\* commitTransient; what is shown is kept.
CommitTime ==
    /\ lanes.time # None
    /\ committed' = SetTime(committed, [time |-> lanes.time])
    /\ lanes' = [lanes EXCEPT !.time = None]
    /\ UNCHANGED <<edit, shown>>

CommitViewport ==
    /\ lanes.offset # None \/ lanes.zoom # None
    /\ committed' = SetViewport(committed,
           [offset |-> IF lanes.offset = None THEN committed.offset ELSE lanes.offset,
            zoom |-> lanes.zoom])
    /\ lanes' = [lanes EXCEPT !.offset = None, !.zoom = None]
    /\ UNCHANGED <<edit, shown>>

BeginEdit ==
    /\ ~edit.active
    /\ edit' = [active |-> TRUE, command |-> None]
    /\ shown' = Projected(committed, lanes, edit')
    /\ UNCHANGED <<committed, lanes>>

UpdateEdit(c) ==
    /\ edit.active
    /\ edit' = [edit EXCEPT !.command = c]
    /\ shown' = Projected(committed, lanes, edit')
    /\ UNCHANGED <<committed, lanes>>

\* The previewed command is dispatched from the state without the preview.
EndEdit ==
    /\ edit.active
    /\ edit.command # None => HasRoom(edit.command)
    /\ edit' = Idle
    /\ IF edit.command = None
       THEN /\ shown' = Effective(committed, lanes)
            /\ UNCHANGED <<committed, lanes>>
       ELSE Dispatched([edit.command EXCEPT !.history = "record"],
                       Effective(committed, lanes))

CancelEdit ==
    /\ edit.active
    /\ edit' = Idle
    /\ shown' = Effective(committed, lanes)
    /\ UNCHANGED <<committed, lanes>>

\* A step of the store, given the commands and viewport gestures it gets.
Steps(commands, viewports) ==
    \/ \E c \in commands : Dispatch(c)
    \/ UndoEdit
    \/ \E t \in Times : MoveTime(t)
    \/ \E v \in viewports : MoveViewport(v.offset, v.zoom)
    \/ CommitTime
    \/ CommitViewport
    \/ BeginEdit
    \/ \E c \in Edits : UpdateEdit(c)
    \/ EndEdit
    \/ CancelEdit

Next == Steps(Commands, Viewports)

Spec == Init /\ [][Next]_vars

-----------------------------------------------------------------------------
(* Properties *)

Content(s) ==
    [values |-> s.values, item |-> s.item, keys |-> s.timeline.keys,
     duration |-> s.timeline.duration]

\* Commands that change values without a record of it.
Unrecorded == {c \in Commands : c \in ControlCommands /\ c.history = "skip"}

RecordedTargets ==
    {t \in Targets : \A c \in Unrecorded : c.type = "setValue" => c.target # t}

FieldRecorded == \A c \in Unrecorded : c.type # "setField"

\* What of a content no command changes without a record of it.
OnRecord(k) ==
    [values |-> Restrict(k.values, RecordedTargets),
     item |-> IF FieldRecorded THEN k.item ELSE None,
     keys |-> IF FieldRecorded THEN k.keys ELSE None,
     duration |-> k.duration]

Kept(s) == OnRecord(Content(s))

\* The states that undoing, or redoing, one command after the other goes through.
Undone(s) ==
    LET back[n \in 0..Len(s.undo)] == IF n = 0 THEN s ELSE Undo(back[n - 1])
    IN  back

Redone(s) ==
    LET forth[n \in 0..Len(s.redo)] == IF n = 0 THEN s ELSE Redo(forth[n - 1])
    IN  forth

\* Undoing every command returns to the first content, and each undo and redo
\* takes back exactly what the other did, however commands were grouped,
\* merged with a gesture, previewed or undone in between: but for the values
\* that some command sets without a record.
HistoryIsExact ==
    LET back == Undone(committed)
        forth == Redone(committed)
    IN  /\ Kept(back[Len(committed.undo)]) = Kept(Fresh)
        /\ \A n \in 1..Len(committed.undo) : Kept(Redo(back[n])) = Kept(back[n - 1])
        /\ \A n \in 1..Len(committed.redo) : Kept(Undo(forth[n])) = Kept(forth[n - 1])

\* The edit previews a key at the current time: its field has a track of
\* which no key is selected.
FollowsTime ==
    /\ edit.command # None
    /\ committed.timeline.keys # <<>>
    /\ committed.timeline.selected \notin DOMAIN committed.timeline.keys

\* What is shown is what a new projection of the committed state, the gestures
\* and the edit gives, although a step keeps or computes it on its own.  Two
\* exceptions: a playhead that an undo left beyond the duration is shown there
\* after its gesture is committed at the duration, and a preview keyed at the
\* current time is not keyed again when a scrub is committed.
ShownIsProjected ==
    LET p == Projected(committed, lanes, edit)
    IN  /\ [shown EXCEPT !.timeline = p.timeline] = p
        /\ shown.timeline.duration = p.timeline.duration
        /\ shown.timeline.playing = p.timeline.playing
        /\ shown.timeline.time # p.timeline.time
           => shown.timeline.time > p.timeline.time /\ p.timeline.time = p.timeline.duration
        /\ shown.timeline # [p.timeline EXCEPT !.time = shown.timeline.time] => FollowsTime

Moved(s) == <<s.timeline.time, s.offset, s.zoom>>

\* The patch a step records or moves between the stacks.
Handled(p) ==
    \/ /\ Len(committed'.undo) >= Len(committed.undo)
       /\ committed'.undo # committed.undo /\ p = Last(committed'.undo)
    \/ Len(committed'.redo) > Len(committed.redo) /\ p = Last(committed'.redo)

\* What a step may do to a gesture and to an edit.
GestureStep ==
    /\ \A p \in ToSet(committed'.undo) \cup ToSet(committed'.redo) :
          Handled(p) /\ DOMAIN p.before.fields \subseteq {"item"}
          => /\ Moved(committed') = Moved(committed)
             /\ lanes' = lanes
             /\ shown.timeline.time <= shown.timeline.duration
                => Moved(shown') = Moved(shown)
    /\ EndEdit => FollowsTime \/ Content(shown') = Content(shown)

\* A gesture and a change of the document do not disturb each other: a command,
\* undo or redo that changes values only moves neither the committed playhead
\* and viewport nor the shown ones, and ends no gesture; and an edit ends with
\* the content it previewed, unless it follows the current time.
GesturesApart == [][GestureStep]_vars
==========================================================================
