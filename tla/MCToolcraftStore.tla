-------------------------- MODULE MCToolcraftStore --------------------------
(***************************************************************************)
(* An instance of ToolcraftStore for TLC.  A behaviour plays one of three  *)
(* scenes, chosen once: one without gestures on the viewport, one without  *)
(* playback, and one where a value is also set without a record.           *)
(***************************************************************************)
EXTENDS ToolcraftStore

CONSTANTS x, y

VARIABLE scene

SetX(v) == [type |-> "setValue", target |-> x, value |-> v, history |-> "merge", group |-> "g"]
SetY(v) == [type |-> "setValue", target |-> y, value |-> v, history |-> "skip", group |-> None]
SetItem(v) == [type |-> "setField", value |-> v, history |-> "record", group |-> None]

\* One command of every kind.
MCCommands ==
    {SetX(v) : v \in Values} \cup {SetY(1)}
    \cup {[type |-> "addKey", at |-> None],
          [type |-> "deleteKey", at |-> 0],
          [type |-> "selectKey", at |-> None],
          [type |-> "setDuration", duration |-> 1],
          [type |-> "togglePlayback"],
          [type |-> "setViewport", offset |-> 0, zoom |-> None],
          [type |-> "reset"], [type |-> "undo"], [type |-> "redo"],
          [type |-> "import", values |-> [t \in {x} |-> 1], duration |-> 2, time |-> 0]}

MCViewports == {[offset |-> 1, zoom |-> 2]}

MCEdits == {SetItem(1)}

Without(type) == {c \in Commands : c.type # type /\ c # SetY(1)}

ValuesOnly == {c \in Commands : c.type \in {"setValue", "reset", "undo", "redo"}}

Scenes ==
    {[commands |-> Without("setViewport"), viewports |-> {}],
     [commands |-> Without("togglePlayback"), viewports |-> Viewports],
     [commands |-> ValuesOnly, viewports |-> {}]}

MCInit == Init /\ scene \in Scenes

MCNext == Steps(scene.commands, scene.viewports) /\ UNCHANGED scene

MCSpec == MCInit /\ [][MCNext]_<<vars, scene>>
=============================================================================
