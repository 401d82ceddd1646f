------------------------ MODULE ToolcraftStoreProofs ------------------------
(***************************************************************************)
(* Theorems of ToolcraftStore: what a patch takes back, what a merged      *)
(* patch stands for, that what is shown is what is projected, that         *)
(* gestures and changes of the document do not disturb each other, and     *)
(* that undo and redo are exact.                                           *)
(***************************************************************************)
EXTENDS ToolcraftStore, FiniteSetTheorems, SequenceTheorems, WellFoundedInduction, TLAPS

LEMMA OverTwice ==
    ASSUME NEW f, NEW g, NEW h
    PROVE  Over(f, Over(g, h)) = Over(Over(f, g), h)
BY DEF Over

\* A side of a patch is applied to the fields of a state and to its values.
LEMMA AppliedForm ==
    ASSUME NEW s, "values" \in DOMAIN s, NEW side, "values" \notin DOMAIN side.fields
    PROVE  Applied(s, side) = [x \in DOMAIN side.fields \cup DOMAIN s |->
               IF x = "values" THEN Over(side.values, s.values) ELSE Over(side.fields, s)[x]]
BY DEF Applied, Over

LEMMA AppliedFields ==
    ASSUME NEW s, "values" \in DOMAIN s, NEW side, "values" \notin DOMAIN side.fields
    PROVE  /\ Applied(s, side).values = Over(side.values, s.values)
           /\ DOMAIN Applied(s, side) = DOMAIN side.fields \cup DOMAIN s
           /\ \A x \in DOMAIN Applied(s, side) :
                 x # "values" => Applied(s, side)[x] = Over(side.fields, s)[x]
BY DEF Applied, Over

\* Applying two sides, one after the other, is applying what they merge to.
LEMMA AppliedTwice ==
    ASSUME NEW s, "values" \in DOMAIN s,
           NEW a, "values" \notin DOMAIN a.fields,
           NEW b, "values" \notin DOMAIN b.fields,
           NEW c, c.values = Over(b.values, a.values), c.fields = Over(b.fields, a.fields),
           NEW t, t = Applied(s, a)
    PROVE  Applied(t, b) = Applied(s, c)
<1>1. "values" \notin DOMAIN c.fields
    BY DEF Over
<1>2. /\ t.values = Over(a.values, s.values)
      /\ DOMAIN t = DOMAIN a.fields \cup DOMAIN s
      /\ \A x \in DOMAIN t : x # "values" => t[x] = Over(a.fields, s)[x]
    <2>1. /\ Applied(s, a).values = Over(a.values, s.values)
          /\ DOMAIN Applied(s, a) = DOMAIN a.fields \cup DOMAIN s
          /\ \A x \in DOMAIN Applied(s, a) :
                 x # "values" => Applied(s, a)[x] = Over(a.fields, s)[x]
        BY AppliedFields, Zenon
    <2> QED
        BY <2>1
<1>3. Applied(t, b) = [x \in DOMAIN b.fields \cup DOMAIN t |->
          IF x = "values" THEN Over(b.values, t.values) ELSE Over(b.fields, t)[x]]
    <2>1. "values" \in DOMAIN t
        BY <1>2
    <2>2. ASSUME NEW u, "values" \in DOMAIN u
          PROVE  Applied(u, b) = [x \in DOMAIN b.fields \cup DOMAIN u |->
                     IF x = "values" THEN Over(b.values, u.values) ELSE Over(b.fields, u)[x]]
        BY <2>2, AppliedForm, ZenonT(30)
    <2> QED
        BY <2>1, <2>2, Zenon
<1>4. Applied(s, c) = [x \in DOMAIN c.fields \cup DOMAIN s |->
          IF x = "values" THEN Over(c.values, s.values) ELSE Over(c.fields, s)[x]]
    BY <1>1, AppliedForm, Zenon
<1>5. DOMAIN b.fields \cup DOMAIN t = DOMAIN c.fields \cup DOMAIN s
    BY <1>2 DEF Over
<1>6. Over(b.values, t.values) = Over(c.values, s.values)
    BY <1>2, OverTwice
<1>7. ASSUME NEW x \in DOMAIN c.fields \cup DOMAIN s, x # "values"
      PROVE  Over(b.fields, t)[x] = Over(c.fields, s)[x]
    BY <1>2, <1>7 DEF Over
<1> QED
    BY <1>3, <1>4, <1>5, <1>6, <1>7

PatchForm(p) ==
    /\ p = [before |-> p.before, after |-> p.after, group |-> p.group,
            reset |-> p.reset, new |-> p.new]
    /\ "values" \notin DOMAIN p.before.fields
    /\ "values" \notin DOMAIN p.after.fields

(***************************************************************************)
(* Commands of one history group become one entry: undoing or redoing it   *)
(* does what undoing or redoing each of them does (mergeToolcraftHistory-  *)
(* Patch keeps the first values before and the latest after).              *)
(***************************************************************************)
THEOREM MergedPatchIsBoth ==
    ASSUME NEW s, "values" \in DOMAIN s,
           NEW previous, PatchForm(previous), NEW next, PatchForm(next)
    PROVE  /\ Applied(s, MergedPatch(previous, next).before)
              = Applied(Applied(s, next.before), previous.before)
           /\ Applied(s, MergedPatch(previous, next).after)
              = Applied(Applied(s, previous.after), next.after)
<1>1. MergedPatch(previous, next).before
      = [values |-> Over(previous.before.values, next.before.values),
         fields |-> Over(previous.before.fields, next.before.fields)]
    BY DEF MergedPatch, PatchForm
<1>2. MergedPatch(previous, next).after
      = [values |-> Over(next.after.values, previous.after.values),
         fields |-> Over(next.after.fields, previous.after.fields)]
    BY DEF MergedPatch, PatchForm
<1>3. Applied(Applied(s, next.before), previous.before)
      = Applied(s, MergedPatch(previous, next).before)
    BY <1>1, AppliedTwice DEF PatchForm
<1>4. Applied(Applied(s, previous.after), next.after)
      = Applied(s, MergedPatch(previous, next).after)
    BY <1>2, AppliedTwice DEF PatchForm
<1> QED
    BY <1>3, <1>4

\* Two states differ at most in the values of `targets` and in `fields`.
DifferIn(s, t, targets, fields) ==
    /\ DOMAIN s = DOMAIN t /\ "values" \in DOMAIN s
    /\ DOMAIN s.values = DOMAIN t.values /\ targets \subseteq DOMAIN s.values
    /\ fields \subseteq DOMAIN s \ {"values"}
    /\ \A x \in DOMAIN s.values \ targets : s.values[x] = t.values[x]
    /\ \A f \in DOMAIN s \ (fields \cup {"values"}) : s[f] = t[f]
    /\ s = [f \in DOMAIN s |-> s[f]] /\ t = [f \in DOMAIN t |-> t[f]]
    /\ s.values = [x \in DOMAIN s.values |-> s.values[x]]
    /\ t.values = [x \in DOMAIN t.values |-> t.values[x]]

(***************************************************************************)
(* A patch that carries every field in which two states differ takes one   *)
(* of them to the other, in both directions.                               *)
(***************************************************************************)
THEOREM PatchConnects ==
    ASSUME NEW s, NEW t, NEW targets, NEW fields, NEW group, DifferIn(s, t, targets, fields)
    PROVE  /\ Applied(t, Patch(s, t, targets, fields, group).before) = s
           /\ Applied(s, Patch(s, t, targets, fields, group).after) = t
<1>1. ASSUME NEW u, NEW w, DifferIn(u, w, targets, fields)
      PROVE  Applied(w, Side(u, targets, fields)) = u
    <2>0. PICK side : side = Side(u, targets, fields)
        OBVIOUS
    <2>1. side.values = [x \in targets |-> u.values[x]] /\ side.fields = [f \in fields |-> u[f]]
        BY <2>0 DEF Side, Restrict
    <2>2. Over(side.values, w.values) = u.values
        BY <1>1, <2>1 DEF Over, DifferIn
    <2>3. \A f \in DOMAIN u \ {"values"} : Over(side.fields, w)[f] = u[f]
        BY <1>1, <2>1 DEF Over, DifferIn
    <2>7. "values" \in DOMAIN w /\ "values" \notin DOMAIN side.fields
        BY <1>1, <2>1 DEF DifferIn
    <2>4. Applied(w, side) = [x \in DOMAIN side.fields \cup DOMAIN w |->
             IF x = "values" THEN Over(side.values, w.values) ELSE Over(side.fields, w)[x]]
        BY <2>7, AppliedForm, ZenonT(30)
    <2>5. DOMAIN side.fields \cup DOMAIN w = DOMAIN u
        BY <1>1, <2>1 DEF DifferIn
    <2>6. Applied(w, side) = [x \in DOMAIN u |-> u[x]]
        BY <2>2, <2>3, <2>4, <2>5
    <2> QED
        BY <1>1, <2>0, <2>6 DEF DifferIn
<1>2. DifferIn(t, s, targets, fields)
    BY DEF DifferIn
<1> QED
    BY <1>1, <1>2 DEF Patch

(***************************************************************************)
(* Types.                                                                  *)
(***************************************************************************)
Keys == UNION {[ts -> Values] : ts \in SUBSET Nat}

Timelines ==
    [keys : Keys, selected : Nat \cup {None}, time : Nat, playing : BOOLEAN, duration : Durations]

ValueMaps == UNION {[ts -> Values] : ts \in SUBSET Targets}

\* The fields of a state that a patch carries.
FieldMaps ==
    {m \in UNION {[fs -> Values \cup Timelines \cup Offsets \cup Zooms] : fs \in SUBSET Fields} :
        /\ "item" \in DOMAIN m => m["item"] \in Values
        /\ "timeline" \in DOMAIN m => m["timeline"] \in Timelines
        /\ "offset" \in DOMAIN m => m["offset"] \in Offsets
        /\ "zoom" \in DOMAIN m => m["zoom"] \in Zooms}

Sides == [values : ValueMaps, fields : FieldMaps]

Patches ==
    [before : Sides, after : Sides, group : STRING \cup {None}, reset : BOOLEAN, new : BOOLEAN]

States ==
    [values : [Targets -> Values], item : Values, timeline : Timelines, offset : Offsets, zoom : Zooms,
     undo : Seq(Patches), redo : Seq(Patches)]

Lanes == [time : Nat \cup {None}, offset : Offsets \cup {None}, zoom : Zooms \cup {None}]

AuthoredEdits == [active : BOOLEAN, command : ControlCommands \cup {None}]

TypeInv ==
    /\ committed \in States
    /\ shown \in States
    /\ lanes \in Lanes
    /\ edit \in AuthoredEdits
    /\ ~edit.active => edit = Idle

LEMMA SideForm ==
    ASSUME NEW side \in Sides
    PROVE  /\ DOMAIN side.fields \subseteq Fields /\ side.values \in ValueMaps
           /\ DOMAIN side.values \subseteq Targets
           /\ "item" \in DOMAIN side.fields => side.fields["item"] \in Values
           /\ "timeline" \in DOMAIN side.fields => side.fields["timeline"] \in Timelines
           /\ "offset" \in DOMAIN side.fields => side.fields["offset"] \in Offsets
           /\ "zoom" \in DOMAIN side.fields => side.fields["zoom"] \in Zooms
           /\ \A t \in DOMAIN side.values : side.values[t] \in Values
BY DEF Sides, ValueMaps, FieldMaps

\* Applying a side of a patch to a state, field by field.
LEMMA AppliedState ==
    ASSUME NEW s \in States, NEW side \in Sides
    PROVE  /\ Applied(s, side) \in States
           /\ Applied(s, side).values = Over(side.values, s.values)
           /\ Applied(s, side).item = IF "item" \in DOMAIN side.fields THEN side.fields["item"] ELSE s.item
           /\ Applied(s, side).timeline
              = IF "timeline" \in DOMAIN side.fields THEN side.fields["timeline"] ELSE s.timeline
           /\ Applied(s, side).offset
              = IF "offset" \in DOMAIN side.fields THEN side.fields["offset"] ELSE s.offset
           /\ Applied(s, side).zoom = IF "zoom" \in DOMAIN side.fields THEN side.fields["zoom"] ELSE s.zoom
           /\ Applied(s, side).undo = s.undo /\ Applied(s, side).redo = s.redo
<1>1. DOMAIN s = {"values", "item", "timeline", "offset", "zoom", "undo", "redo"}
    BY DEF States
<1>2. DOMAIN side.fields \subseteq {"item", "timeline", "offset", "zoom"}
    BY SideForm DEF Fields
<1> DEFINE t == Applied(s, side)
<1>3. t = [x \in DOMAIN side.fields \cup DOMAIN s |->
               IF x = "values" THEN Over(side.values, s.values) ELSE Over(side.fields, s)[x]]
    BY <1>1, <1>2, AppliedForm
<1>4. DOMAIN side.fields \cup DOMAIN s = {"values", "item", "timeline", "offset", "zoom", "undo", "redo"}
    BY <1>1, <1>2
<1> HIDE DEF t
<1>5. t = [values |-> t.values, item |-> t.item, timeline |-> t.timeline, offset |-> t.offset,
           zoom |-> t.zoom, undo |-> t.undo, redo |-> t.redo]
    BY <1>3, <1>4
<1>6. t.values = Over(side.values, s.values)
    BY <1>3, <1>4
<1>7. /\ t.item = IF "item" \in DOMAIN side.fields THEN side.fields["item"] ELSE s.item
      /\ t.timeline = IF "timeline" \in DOMAIN side.fields THEN side.fields["timeline"] ELSE s.timeline
      /\ t.offset = IF "offset" \in DOMAIN side.fields THEN side.fields["offset"] ELSE s.offset
      /\ t.zoom = IF "zoom" \in DOMAIN side.fields THEN side.fields["zoom"] ELSE s.zoom
      /\ t.undo = s.undo /\ t.redo = s.redo
    BY <1>1, <1>2, <1>3, <1>4 DEF Over
<1>8. t.values \in [Targets -> Values]
    BY <1>6, SideForm DEF Over, States
<1>9. t \in States
    BY <1>5, <1>7, <1>8, SideForm DEF States
<1> QED
    BY <1>6, <1>7, <1>9 DEF t

\* Restricting a state to fields.
LEMMA SideType ==
    ASSUME NEW s \in States, NEW targets \in SUBSET Targets, NEW fields \in SUBSET Fields
    PROVE  /\ Side(s, targets, fields) \in Sides
           /\ Side(s, targets, fields).values = [x \in targets |-> s.values[x]]
           /\ Side(s, targets, fields).fields = [f \in fields |-> s[f]]
<1> DEFINE m == [f \in fields |-> s[f]]
<1>1. \A f \in fields : /\ f = "item" => s[f] \in Values
                        /\ f = "timeline" => s[f] \in Timelines
                        /\ f = "offset" => s[f] \in Offsets
                        /\ f = "zoom" => s[f] \in Zooms
                        /\ f \in {"item", "timeline", "offset", "zoom"}
    BY DEF States, Fields
<1>2. m \in FieldMaps
    <2>1. m \in [fields -> Values \cup Timelines \cup Offsets \cup Zooms]
        BY <1>1
    <2> QED
        BY <1>1, <2>1 DEF FieldMaps
<1>3. [x \in targets |-> s.values[x]] \in ValueMaps
    BY DEF States, ValueMaps
<1>4. Side(s, targets, fields) = [values |-> [x \in targets |-> s.values[x]], fields |-> m]
    BY DEF Side, Restrict
<1> QED
    BY <1>2, <1>3, <1>4 DEF Sides

LEMMA PatchType ==
    ASSUME NEW s \in States, NEW t \in States, NEW targets \in SUBSET Targets,
           NEW fields \in SUBSET Fields, NEW group \in STRING \cup {None}
    PROVE  Patch(s, t, targets, fields, group) \in Patches
BY SideType DEF Patch, Patches

LEMMA OverValues ==
    ASSUME NEW f \in ValueMaps, NEW g \in ValueMaps
    PROVE  Over(f, g) \in ValueMaps
<1> DEFINE D == DOMAIN f \cup DOMAIN g
<1>1. Over(f, g) \in [D -> Values] /\ D \in SUBSET Targets
    BY DEF Over, ValueMaps
<1> QED
    BY <1>1 DEF ValueMaps

LEMMA OverFields ==
    ASSUME NEW f \in FieldMaps, NEW g \in FieldMaps
    PROVE  Over(f, g) \in FieldMaps
<1> DEFINE D == DOMAIN f \cup DOMAIN g
<1>1. Over(f, g) \in [D -> Values \cup Timelines \cup Offsets \cup Zooms] /\ D \in SUBSET Fields
    BY DEF Over, FieldMaps
<1>2. /\ "item" \in D => Over(f, g)["item"] \in Values
      /\ "timeline" \in D => Over(f, g)["timeline"] \in Timelines
      /\ "offset" \in D => Over(f, g)["offset"] \in Offsets
      /\ "zoom" \in D => Over(f, g)["zoom"] \in Zooms
    BY DEF Over, FieldMaps
<1> QED
    BY <1>1, <1>2 DEF FieldMaps

LEMMA MergedType ==
    ASSUME NEW p \in Patches, NEW q \in Patches
    PROVE  MergedPatch(p, q) \in Patches
BY OverValues, OverFields DEF MergedPatch, Patches, Sides

LEMMA StackTypes ==
    ASSUME NEW stack \in Seq(Patches), stack # <<>>
    PROVE  /\ Last(stack) \in Patches /\ Front(stack) \in Seq(Patches)
           /\ Last(stack) = stack[Len(stack)] /\ Len(stack) \in Nat \ {0}
           /\ Len(Front(stack)) = Len(stack) - 1
           /\ \A i \in 1 .. Len(stack) - 1 : Front(stack)[i] = stack[i]
<1>1. Len(stack) \in Nat \ {0} /\ \A i \in 1 .. Len(stack) : stack[i] \in Patches
    BY EmptySeq
<1>2. Front(stack) = SubSeq(stack, 1, Len(stack) - 1)
    BY DEF Front
<1>3. /\ SubSeq(stack, 1, Len(stack) - 1) \in Seq(Patches)
      /\ Len(SubSeq(stack, 1, Len(stack) - 1)) = Len(stack) - 1
      /\ \A i \in 1 .. Len(stack) - 1 : SubSeq(stack, 1, Len(stack) - 1)[i] = stack[i]
    <2> DEFINE n == Len(stack) - 1
    <2>1. n \in Nat /\ \A i \in 1 .. n : stack[i] \in Patches
        BY <1>1
    <2> HIDE DEF n
    <2>2. /\ SubSeq(stack, 1, n) \in Seq(Patches)
          /\ Len(SubSeq(stack, 1, n)) = IF 1 <= n THEN n - 1 + 1 ELSE 0
          /\ \A i \in 1 .. n - 1 + 1 : SubSeq(stack, 1, n)[i] = stack[1 + i - 1]
        BY <2>1, SubSeqProperties
    <2>3. Len(SubSeq(stack, 1, n)) = n /\ \A i \in 1 .. n : SubSeq(stack, 1, n)[i] = stack[i]
        BY <2>1, <2>2
    <2> QED
        BY <2>2, <2>3 DEF n
<1>4. Last(stack) = stack[Len(stack)]
    BY DEF Last
<1> QED
    BY <1>1, <1>2, <1>3, <1>4

LEMMA RecordedType ==
    ASSUME NEW s \in States, NEW p \in Patches
    PROVE  /\ Recorded(s, p) \in States
           /\ \E stack \in Seq(Patches) : Recorded(s, p) = [s EXCEPT !.undo = stack, !.redo = <<>>]
           /\ Recorded(s, p).undo = IF Merges(s, p) THEN Append(Front(s.undo), MergedPatch(Last(s.undo), p))
                                                    ELSE Append(s.undo, p)
<1> DEFINE stack == IF Merges(s, p) THEN Append(Front(s.undo), MergedPatch(Last(s.undo), p))
                                    ELSE Append(s.undo, p)
<1>1. stack \in Seq(Patches)
    <2>1. CASE Merges(s, p)
        BY <2>1, StackTypes, MergedType DEF Merges, States
    <2>2. CASE ~Merges(s, p)
        BY <2>2 DEF States
    <2> QED
        BY <2>1, <2>2
<1>2. Recorded(s, p) = [[s EXCEPT !.redo = <<>>] EXCEPT !.undo = stack]
    BY DEF Recorded, States
<1> HIDE DEF stack
<1>3. Recorded(s, p) = [s EXCEPT !.undo = stack, !.redo = <<>>]
    BY <1>2 DEF States
<1>4. Recorded(s, p) \in States /\ Recorded(s, p).undo = stack
    <2>1. <<>> \in Seq(Patches)
        BY EmptySeq
    <2> QED
        BY <1>1, <1>3, <2>1 DEF States
<1> QED
    BY <1>1, <1>3, <1>4 DEF stack

(***************************************************************************)
(* The reducer.  A command is ignored, moves something that is no content  *)
(* of the document, sets a value, records a patch, or goes back or forth.  *)
(***************************************************************************)
LEMMA AtMostIs ==
    ASSUME NEW t \in Nat, NEW d \in Durations
    PROVE  AtMost(t, d) \in Nat /\ AtMost(t, d) <= d /\ AtMost(t, d) <= t
BY StoreAssumption DEF AtMost

LEMMA KeysOver ==
    ASSUME NEW keys \in Keys, NEW t \in Nat, NEW v \in Values, NEW ts \in SUBSET Nat
    PROVE  Over([x \in {t} |-> v], keys) \in Keys /\ Restrict(keys, DOMAIN keys \ ts) \in Keys
<1> DEFINE f == Over([x \in {t} |-> v], keys)
           g == Restrict(keys, DOMAIN keys \ ts)
           D == {t} \cup DOMAIN keys
<1>1. DOMAIN keys \in SUBSET Nat /\ \A x \in DOMAIN keys : keys[x] \in Values
    BY DEF Keys
<1>2. f \in [D -> Values] /\ D \in SUBSET Nat
    BY <1>1 DEF Over
<1>3. g \in [DOMAIN keys \ ts -> Values] /\ DOMAIN keys \ ts \in SUBSET Nat
    BY <1>1 DEF Restrict
<1> QED
    BY <1>2, <1>3 DEF Keys

LEMMA KeyedTimeline ==
    ASSUME NEW timeline \in Timelines, NEW at \in Nat, NEW v \in Values
    PROVE  /\ WithKey(timeline, at, v) \in Timelines
           /\ WithKey(timeline, at, v).time = timeline.time
           /\ WithKey(timeline, at, v).playing = timeline.playing
           /\ WithKey(timeline, at, v).duration = timeline.duration
<1> DEFINE t == AtMost(at, timeline.duration)
           keys == Over([x \in {t} |-> v], timeline.keys)
<1>1. t \in Nat
    BY AtMostIs DEF Timelines
<1> HIDE DEF t
<1>2. keys \in Keys
    BY <1>1, KeysOver DEF Timelines
<1>3. WithKey(timeline, at, v) = [timeline EXCEPT !.keys = keys, !.selected = t]
    BY DEF WithKey, t
<1> HIDE DEF keys
<1> QED
    BY <1>1, <1>2, <1>3 DEF Timelines

\* What a command for a value sets, whatever its history.
NextValues(values, c) == IF c.type = "setValue" THEN [values EXCEPT ![c.target] = c.value] ELSE values

NextItem(item, c) == IF c.type = "setField" THEN c.value ELSE item

NextTimeline(s, c) ==
    IF c.type = "setField" /\ s.timeline.keys # <<>>
    THEN WithKey(s.timeline, FieldTime(s), c.value) ELSE s.timeline

WithControl(s, c) ==
    [s EXCEPT !.values = NextValues(s.values, c), !.item = NextItem(s.item, c),
              !.timeline = NextTimeline(s, c)]

ControlTargets(c) == IF c.type = "setValue" THEN {c.target} ELSE {}

ControlFields(s, c) ==
    IF c.type = "setField" THEN {"item"} \cup (IF s.timeline.keys # <<>> THEN {"timeline"} ELSE {})
    ELSE {}

ControlPatch(s, c) == Patch(s, WithControl(s, c), ControlTargets(c), ControlFields(s, c), Group(c))

LEMMA FieldTimeType ==
    ASSUME NEW s \in States
    PROVE  FieldTime(s) \in Nat
BY DEF FieldTime, States, Timelines, Keys

LEMMA WithControlType ==
    ASSUME NEW s \in States, NEW c \in ControlCommands
    PROVE  /\ WithControl(s, c) \in States
           /\ WithControl(s, c).values = NextValues(s.values, c)
           /\ WithControl(s, c).item = NextItem(s.item, c)
           /\ WithControl(s, c).timeline = NextTimeline(s, c)
           /\ WithControl(s, c).offset = s.offset /\ WithControl(s, c).zoom = s.zoom
           /\ WithControl(s, c).undo = s.undo /\ WithControl(s, c).redo = s.redo
           /\ NextTimeline(s, c) \in Timelines
           /\ NextTimeline(s, c).time = s.timeline.time
           /\ NextTimeline(s, c).playing = s.timeline.playing
           /\ NextTimeline(s, c).duration = s.timeline.duration
<1>1. NextValues(s.values, c) \in [Targets -> Values] /\ NextItem(s.item, c) \in Values
    BY DEF NextValues, NextItem, States, ControlCommands
<1>2. /\ NextTimeline(s, c) \in Timelines
      /\ NextTimeline(s, c).time = s.timeline.time
      /\ NextTimeline(s, c).playing = s.timeline.playing
      /\ NextTimeline(s, c).duration = s.timeline.duration
    <2>1. CASE c.type = "setField"
        <3>1. c.value \in Values /\ s.timeline \in Timelines
            BY <2>1 DEF ControlCommands, States
        <3> QED
            BY <3>1, FieldTimeType, KeyedTimeline DEF NextTimeline
    <2>2. CASE c.type # "setField"
        BY <2>2 DEF NextTimeline, States
    <2> QED
        BY <2>1, <2>2
<1> QED
    BY <1>1, <1>2 DEF WithControl, States

LEMMA ControlReduced ==
    ASSUME NEW s \in States, NEW c \in ControlCommands
    PROVE  /\ Ignored(s, c) => Reduce(s, c) = s /\ WithControl(s, c) = s
           /\ ~Ignored(s, c) => Reduce(s, c) = IF c.history = "skip" THEN WithControl(s, c)
                                               ELSE Recorded(WithControl(s, c), ControlPatch(s, c))
<1>1. CASE c.type = "setValue"
    <2>1. WithControl(s, c) = [s EXCEPT !.values[c.target] = c.value]
        BY <1>1 DEF WithControl, NextValues, NextItem, NextTimeline, States
    <2>2. Reduce(s, c) = SetValue(s, c) /\ (Ignored(s, c) <=> s.values[c.target] = c.value)
        BY <1>1 DEF Reduce, Ignored
    <2>3. s.values[c.target] = c.value => [s EXCEPT !.values[c.target] = c.value] = s
        BY <1>1 DEF States, ControlCommands
    <2> QED
        BY <1>1, <2>1, <2>2, <2>3 DEF SetValue, Replaced, ControlPatch, ControlTargets, ControlFields
<1>2. CASE c.type = "setField"
    <2>1. WithControl(s, c) = [s EXCEPT !.item = c.value,
              !.timeline = IF s.timeline.keys # <<>> THEN WithKey(s.timeline, FieldTime(s), c.value) ELSE @]
        BY <1>2 DEF WithControl, NextValues, NextItem, NextTimeline, States
    <2>2. Reduce(s, c) = SetField(s, c) /\ ~Ignored(s, c)
        BY <1>2 DEF Reduce, Ignored
    <2> QED
        BY <1>2, <2>1, <2>2 DEF SetField, Replaced, ControlPatch, ControlTargets, ControlFields
<1> QED
    BY <1>1, <1>2 DEF ControlCommands

\* The content of two states is the same outside a patch's values and fields.
ContentCovered(s, t, targets, fields) ==
    /\ \A x \in Targets \ targets : t.values[x] = s.values[x]
    /\ "item" \notin fields => t.item = s.item
    /\ "timeline" \notin fields => t.timeline = s.timeline
    /\ fields \subseteq {"item"} => t.offset = s.offset /\ t.zoom = s.zoom

CommandGroup(c) == IF c \in ControlCommands THEN Group(c) ELSE None

\* A new patch from s to t.
NewPatch(s, t, targets, fields, group, reset) ==
    [before |-> Side(s, targets, fields), after |-> Side(t, targets, fields),
     group |-> group, reset |-> reset, new |-> TRUE]

\* The command records a patch from s to `base`.
Recording(s, c, base, targets, fields, t) ==
    /\ base \in States /\ base.undo = s.undo /\ base.redo = s.redo
    /\ targets \subseteq Targets /\ fields \subseteq Fields
    /\ ContentCovered(s, base, targets, fields)
    /\ \E reset \in BOOLEAN :
          /\ reset => c.type = "reset" /\ fields = Fields
          /\ t = Recorded(base, NewPatch(s, base, targets, fields, CommandGroup(c), reset))

\* Commands that are recorded when they are not ignored.
Recordable(c) == Records(c) /\ (c \in ControlCommands => c.history # "skip")

\* The fields that the patch of a command carries.
CommandFields(s, c) ==
    IF c \in ControlCommands THEN ControlFields(s, c)
    ELSE IF c.type = "reset" THEN Fields
    ELSE IF c.type = "import" THEN {"timeline", "offset"}
    ELSE {"timeline"}

RecordsFrom(s, c, t) ==
    \E base \in States : \E targets \in SUBSET Targets :
        Recording(s, c, base, targets, CommandFields(s, c), t)

LEMMA GroupType ==
    ASSUME NEW c
    PROVE  CommandGroup(c) \in STRING \cup {None}
BY DEF CommandGroup, Group, ControlCommands

LEMMA ControlRecords ==
    ASSUME NEW s \in States, NEW c \in ControlCommands, ~Ignored(s, c), c.history # "skip"
    PROVE  RecordsFrom(s, c, Reduce(s, c))
<1> DEFINE base == WithControl(s, c)
           targets == ControlTargets(c)
           fields == ControlFields(s, c)
<1>1. Reduce(s, c) = Recorded(base, NewPatch(s, base, targets, fields, CommandGroup(c), FALSE))
    BY ControlReduced DEF ControlPatch, CommandGroup, Patch, NewPatch
<1>2. base \in States /\ base.undo = s.undo /\ base.redo = s.redo
    BY WithControlType
<1>3. targets \in SUBSET Targets /\ fields \in SUBSET Fields
    BY DEF ControlTargets, ControlFields, ControlCommands, Fields
<1>4. ContentCovered(s, base, targets, fields)
    BY WithControlType DEF ContentCovered, ControlTargets, ControlFields, NextValues, NextItem,
                           NextTimeline, States
<1> HIDE DEF base, targets, fields
<1>5. Recording(s, c, base, targets, fields, Reduce(s, c))
    BY <1>1, <1>2, <1>3, <1>4 DEF Recording
<1> QED
    BY <1>2, <1>3, <1>5 DEF RecordsFrom, CommandFields, fields

LEMMA TimelineRecords ==
    ASSUME NEW s \in States, NEW c, c \notin ControlCommands, c.type \notin {"reset", "import"}, NEW timeline \in Timelines
    PROVE  RecordsFrom(s, c, SetTimeline(s, timeline))
<1> DEFINE base == [s EXCEPT !.timeline = timeline]
<1>1. base \in States /\ base.undo = s.undo /\ base.redo = s.redo
    BY DEF States
<1>2. ContentCovered(s, base, {}, {"timeline"})
    BY DEF ContentCovered, States
<1>3. SetTimeline(s, timeline)
      = Recorded(base, NewPatch(s, base, {}, {"timeline"}, CommandGroup(c), FALSE))
    BY DEF SetTimeline, CommandGroup, Patch, NewPatch
<1>4. {"timeline"} \in SUBSET Fields /\ {} \in SUBSET Targets
    BY DEF Fields
<1> HIDE DEF base
<1>5. Recording(s, c, base, {}, {"timeline"}, SetTimeline(s, timeline))
    BY <1>1, <1>2, <1>3, <1>4 DEF Recording
<1> QED
    BY <1>1, <1>4, <1>5 DEF RecordsFrom, CommandFields

LEMMA FreshType ==
    /\ Fresh \in States
    /\ Fresh.undo = <<>> /\ Fresh.redo = <<>>
<1> DEFINE v == CHOOSE v \in Values : TRUE
           d == CHOOSE d \in Durations : \A e \in Durations : e <= d
<1>1. v \in Values /\ d \in Durations
    BY StoreAssumption
<1>2. <<>> \in Keys
    <2>1. <<>> \in [{} -> Values]
        OBVIOUS
    <2> QED
        BY <2>1 DEF Keys
<1>3. <<>> \in Seq(Patches)
    BY EmptySeq
<1> HIDE DEF v, d
<1>4. Fresh = [values |-> [t \in Targets |-> v], item |-> v,
               timeline |-> [keys |-> <<>>, selected |-> None, time |-> 0, playing |-> FALSE, duration |-> d],
               offset |-> Origin, zoom |-> FullScale, undo |-> <<>>, redo |-> <<>>]
    BY DEF Fresh, v, d
<1>5. Origin \in Offsets /\ FullScale \in Zooms
    BY DEF Offsets, Zooms
<1> QED
    BY <1>1, <1>2, <1>3, <1>4, <1>5 DEF States, Timelines

LEMMA PatchReset ==
    ASSUME NEW a, NEW b, NEW g, NEW q, NEW r, NEW n
    PROVE  [[before |-> a, after |-> b, group |-> g, reset |-> q, new |-> n] EXCEPT !.reset = r]
           = [before |-> a, after |-> b, group |-> g, reset |-> r, new |-> n]
OBVIOUS

LEMMA ResetRecords ==
    ASSUME NEW s \in States, NEW c, c.type = "reset"
    PROVE  RecordsFrom(s, c, Reset(s))
<1> DEFINE base == [Fresh EXCEPT !.undo = s.undo, !.redo = s.redo]
<1>1. base \in States /\ base.undo = s.undo /\ base.redo = s.redo
    BY FreshType DEF States
<1>2. ContentCovered(s, base, Targets, Fields)
    BY DEF ContentCovered, Fields
<1>3. Reset(s) = Recorded(base, NewPatch(s, base, Targets, Fields, CommandGroup(c), TRUE))
    <2>1. CommandGroup(c) = None
        BY DEF CommandGroup, ControlCommands
    <2>2. [Patch(s, base, Targets, Fields, None) EXCEPT !.reset = TRUE]
          = NewPatch(s, base, Targets, Fields, None, TRUE)
        <3> DEFINE a == Side(s, Targets, Fields)
                   b == Side(base, Targets, Fields)
                   q == FALSE
                   r == TRUE
        <3>1. [[before |-> a, after |-> b, group |-> None, reset |-> q, new |-> r] EXCEPT !.reset = r]
              = [before |-> a, after |-> b, group |-> None, reset |-> r, new |-> r]
            <4> HIDE DEF a, b, q, r
            <4> QED
                BY PatchReset
        <3> QED
            BY <3>1 DEF Patch, NewPatch
    <2> QED
        BY <2>1, <2>2 DEF Reset
<1> HIDE DEF base
<1>5. Recording(s, c, base, Targets, Fields, Reset(s))
    BY <1>1, <1>2, <1>3 DEF Recording
<1> QED
    BY <1>1, <1>5 DEF RecordsFrom, CommandFields, ControlCommands

LEMMA ImportRecords ==
    ASSUME NEW s \in States, NEW c \in StoreCommands, c.type = "import"
    PROVE  RecordsFrom(s, c, Import(s, c))
<1>0. c.values \in ValueMaps /\ c.duration \in Durations /\ c.time \in Nat
    BY DEF StoreCommands, ControlCommands, ValueMaps
<1> DEFINE values == Over(c.values, s.values)
           timeline == [s.timeline EXCEPT !.duration = c.duration, !.playing = FALSE,
                                          !.time = AtMost(c.time, c.duration)]
           base == [s EXCEPT !.values = values, !.timeline = timeline]
           targets == {x \in Targets : base.values[x] # s.values[x]}
           fields == {"timeline", "offset"}
<1>1. values \in [Targets -> Values]
    BY <1>0 DEF Over, ValueMaps, States
<1>2. timeline \in Timelines
    BY <1>0, AtMostIs DEF States, Timelines
<1> HIDE DEF values, timeline
<1>3. base \in States /\ base.undo = s.undo /\ base.redo = s.redo
    BY <1>1, <1>2 DEF States
<1>4. ContentCovered(s, base, targets, fields)
    BY <1>1 DEF ContentCovered, States
<1>5. targets \in SUBSET Targets /\ fields \in SUBSET Fields
    BY DEF Fields
<1>6. CommandGroup(c) = None
    BY DEF CommandGroup, ControlCommands
<1>7. Import(s, c) = Recorded(base, NewPatch(s, base, targets, fields, CommandGroup(c), FALSE))
    BY <1>6 DEF Import, Patch, NewPatch, values, timeline
<1> HIDE DEF base, targets
<1>8. Recording(s, c, base, targets, fields, Import(s, c))
    BY <1>3, <1>4, <1>5, <1>7 DEF Recording
<1> QED
    BY <1>3, <1>5, <1>8 DEF RecordsFrom, CommandFields, ControlCommands, fields

\* A command that is not recorded leaves the content and the history.
Quiet == {"selectKey", "setTime", "togglePlayback", "setViewport"}

LEMMA CommandForms ==
    ASSUME NEW c \in StoreCommands
    PROVE  /\ c.type \in {"setValue", "setField"} <=> c \in ControlCommands
           /\ c.type \in {"setValue", "setField", "addKey", "deleteKey", "selectKey", "setDuration",
                          "setTime", "togglePlayback", "setViewport", "reset", "import", "undo", "redo"}
           /\ c.type \in {"addKey", "selectKey"} => c.at \in Nat \cup {None}
           /\ c.type = "deleteKey" => c.at \in Nat
           /\ c.type = "setDuration" => c.duration \in Durations
           /\ c.type = "setTime" => c.time \in Nat
           /\ c.type = "setViewport" => c.offset \in Offsets /\ c.zoom \in Zooms \cup {None}
BY DEF StoreCommands, ControlCommands

LEMMA QuietReduced ==
    ASSUME NEW s \in States, NEW c \in StoreCommands, c.type \in Quiet
    PROVE  /\ Reduce(s, c) \in States
           /\ Reduce(s, c).undo = s.undo /\ Reduce(s, c).redo = s.redo
           /\ Content(Reduce(s, c)) = Content(s)
           /\ ~Ignored(s, c)
<1>1. ASSUME NEW timeline \in Timelines, timeline.keys = s.timeline.keys,
             timeline.duration = s.timeline.duration,
             NEW t, t = [s EXCEPT !.timeline = timeline]
      PROVE  t \in States /\ t.undo = s.undo /\ t.redo = s.redo /\ Content(t) = Content(s)
    BY <1>1 DEF States, Content
<1>2. s.timeline \in Timelines /\ s.timeline.duration \in Durations
    BY DEF States, Timelines
<1>3. CASE c.type = "selectKey"
    <2> DEFINE timeline == [s.timeline EXCEPT !.selected = c.at]
    <2>1. /\ timeline \in Timelines /\ timeline.keys = s.timeline.keys
          /\ timeline.duration = s.timeline.duration
        BY <1>2, <1>3, CommandForms DEF Timelines
    <2>2. Reduce(s, c) = [s EXCEPT !.timeline = timeline]
        BY <1>3 DEF Reduce, SelectKey
    <2> HIDE DEF timeline
    <2> QED
        BY <1>1, <1>3, <2>1, <2>2 DEF Ignored
<1>4. CASE c.type = "setTime"
    <2> DEFINE timeline == [s.timeline EXCEPT !.time = AtMost(c.time, s.timeline.duration)]
    <2>1. /\ timeline \in Timelines /\ timeline.keys = s.timeline.keys
          /\ timeline.duration = s.timeline.duration
        BY <1>2, <1>4, CommandForms, AtMostIs DEF Timelines
    <2>2. Reduce(s, c) = [s EXCEPT !.timeline = timeline]
        BY <1>4 DEF Reduce, SetTime
    <2> HIDE DEF timeline
    <2> QED
        BY <1>1, <1>4, <2>1, <2>2 DEF Ignored
<1>5. CASE c.type = "togglePlayback"
    <2> DEFINE timeline ==
            [s.timeline EXCEPT !.playing = ~@,
                               !.time = IF ~s.timeline.playing /\ @ >= s.timeline.duration THEN 0 ELSE @]
    <2>1. /\ timeline \in Timelines /\ timeline.keys = s.timeline.keys
          /\ timeline.duration = s.timeline.duration
        BY <1>2 DEF Timelines
    <2>2. Reduce(s, c) = [s EXCEPT !.timeline = timeline]
        BY <1>2, <1>5 DEF Reduce, TogglePlayback, States
    <2> HIDE DEF timeline
    <2> QED
        BY <1>1, <1>5, <2>1, <2>2 DEF Ignored
<1>6. CASE c.type = "setViewport"
    <2>1. Reduce(s, c) = [s EXCEPT !.offset = c.offset, !.zoom = IF c.zoom = None THEN @ ELSE c.zoom]
        BY <1>6 DEF Reduce, SetViewport
    <2> QED
        BY <1>6, <2>1, CommandForms DEF States, Content, Ignored
<1> QED
    BY <1>3, <1>4, <1>5, <1>6 DEF Quiet

LEMMA RecordedReduces ==
    ASSUME NEW s \in States, NEW c \in StoreCommands, Recordable(c), ~Ignored(s, c)
    PROVE  RecordsFrom(s, c, Reduce(s, c))
<1>0. s.timeline \in Timelines /\ s.item \in Values
    BY DEF States
<1>1. CASE c \in ControlCommands
    BY <1>1, ControlRecords DEF Recordable
<1>2. CASE c.type = "addKey"
    <2> DEFINE at == IF c.at = None THEN s.timeline.time ELSE c.at
    <2>1. at \in Nat
        BY <1>0, <1>2, CommandForms DEF Timelines
    <2>2. WithKey(s.timeline, at, s.item) \in Timelines
        BY <1>0, <2>1, KeyedTimeline
    <2>3. Reduce(s, c) = SetTimeline(s, WithKey(s.timeline, at, s.item))
        BY <1>2 DEF Reduce, AddKey
    <2> QED
        BY <1>2, <2>2, <2>3, TimelineRecords, CommandForms
<1>3. CASE c.type = "deleteKey"
    <2> DEFINE timeline ==
            [s.timeline EXCEPT !.keys = Restrict(@, DOMAIN @ \ {c.at}), !.selected = None]
    <2>1. Restrict(s.timeline.keys, DOMAIN s.timeline.keys \ {c.at}) \in Keys
        <3>1. {c.at} \in SUBSET Nat /\ s.timeline.keys \in Keys
            BY <1>0, <1>3, CommandForms DEF Timelines
        <3>2. PICK v : v \in Values
            BY StoreAssumption
        <3>3. 0 \in Nat
            OBVIOUS
        <3> QED
            BY <3>1, <3>2, <3>3, KeysOver
    <2>2. timeline \in Timelines
        BY <1>0, <2>1 DEF Timelines
    <2>3. Reduce(s, c) = SetTimeline(s, timeline)
        BY <1>3 DEF Reduce, DeleteKey, Ignored
    <2> HIDE DEF timeline
    <2> QED
        BY <1>3, <2>2, <2>3, TimelineRecords, CommandForms
<1>4. CASE c.type = "setDuration"
    <2> DEFINE timeline ==
            [s.timeline EXCEPT !.time = AtMost(@, c.duration), !.duration = c.duration]
    <2>1. timeline \in Timelines
        BY <1>0, <1>4, CommandForms, AtMostIs DEF Timelines
    <2>2. Reduce(s, c) = SetTimeline(s, timeline)
        BY <1>4 DEF Reduce, SetDuration
    <2> HIDE DEF timeline
    <2> QED
        BY <1>4, <2>1, <2>2, TimelineRecords, CommandForms
<1>5. CASE c.type = "reset"
    BY <1>5, ResetRecords DEF Reduce
<1>6. CASE c.type = "import"
    BY <1>6, ImportRecords DEF Reduce
<1> QED
    BY <1>1, <1>2, <1>3, <1>4, <1>5, <1>6, CommandForms DEF Recordable, Records

LEMMA SkipReduced ==
    ASSUME NEW s \in States, NEW c \in ControlCommands, c.history = "skip"
    PROVE  Reduce(s, c) = WithControl(s, c)
BY ControlReduced

LEMMA NewPatchType ==
    ASSUME NEW s \in States, NEW t \in States, NEW targets \in SUBSET Targets,
           NEW fields \in SUBSET Fields, NEW group \in STRING \cup {None}, NEW reset \in BOOLEAN
    PROVE  NewPatch(s, t, targets, fields, group, reset) \in Patches
BY SideType DEF NewPatch, Patches

LEMMA RecordsType ==
    ASSUME NEW s \in States, NEW c, NEW t, RecordsFrom(s, c, t)
    PROVE  t \in States
<1>1. PICK base \in States, targets \in SUBSET Targets, fields \in SUBSET Fields :
          Recording(s, c, base, targets, fields, t)
    <2>1. CommandFields(s, c) \in SUBSET Fields
        BY DEF CommandFields, ControlFields, Fields
    <2> QED
        BY <2>1 DEF RecordsFrom
<1>2. PICK reset \in BOOLEAN :
          t = Recorded(base, NewPatch(s, base, targets, fields, CommandGroup(c), reset))
    BY <1>1 DEF Recording
<1>3. NewPatch(s, base, targets, fields, CommandGroup(c), reset) \in Patches
    BY NewPatchType, GroupType
<1> QED
    BY <1>2, <1>3, RecordedType

\* Two states are the same but for their history.
SameFields(s, t) ==
    /\ s.values = t.values /\ s.item = t.item /\ s.timeline = t.timeline
    /\ s.offset = t.offset /\ s.zoom = t.zoom

LEMMA UndoForm ==
    ASSUME NEW s \in States, s.undo # <<>>
    PROVE  /\ Undo(s) \in States
           /\ Undo(s).undo = Front(s.undo) /\ Undo(s).redo = Append(s.redo, Last(s.undo))
           /\ SameFields(Undo(s), Applied(s, Last(s.undo).before))
<1>1. s.undo \in Seq(Patches) /\ s.redo \in Seq(Patches)
    BY DEF States
<1>2. Last(s.undo).before \in Sides /\ Last(s.undo) \in Patches
    BY <1>1, StackTypes DEF Patches
<1> DEFINE a == Applied(s, Last(s.undo).before)
           u == Front(s.undo)
           r == Append(s.redo, Last(s.undo))
<1>3. a \in States /\ a.redo = s.redo
    BY <1>2, AppliedState
<1>4. u \in Seq(Patches) /\ r \in Seq(Patches)
    BY <1>1, <1>2, StackTypes
<1>5. Undo(s) = [a EXCEPT !.undo = Front(a.undo), !.redo = Append(a.redo, Last(s.undo))] /\ a.undo = s.undo
    BY <1>2, <1>3, AppliedState DEF Undo, States
<1>6. Undo(s) = [a EXCEPT !.undo = u, !.redo = r]
    <2> HIDE DEF a
    <2> QED
        BY <1>3, <1>5
<1> HIDE DEF a, u, r
<1>7. /\ Undo(s) \in States /\ Undo(s).undo = u /\ Undo(s).redo = r
      /\ SameFields(Undo(s), a)
    <2>1. PICK t : t = Undo(s)
        OBVIOUS
    <2>2. t \in States /\ t.undo = u /\ t.redo = r /\ SameFields(t, a)
        <3>1. t = [a EXCEPT !.undo = u, !.redo = r]
            BY <1>6, <2>1
        <3> QED
            BY <1>3, <1>4, <3>1 DEF SameFields, States
    <2> QED
        BY <2>1, <2>2
<1> QED
    BY <1>7 DEF a, u, r

LEMMA RedoForm ==
    ASSUME NEW s \in States, s.redo # <<>>
    PROVE  /\ Redo(s) \in States
           /\ Redo(s).undo = Append(s.undo, Last(s.redo)) /\ Redo(s).redo = Front(s.redo)
           /\ SameFields(Redo(s), Applied(s, Last(s.redo).after))
<1>1. s.undo \in Seq(Patches) /\ s.redo \in Seq(Patches)
    BY DEF States
<1>2. Last(s.redo).after \in Sides /\ Last(s.redo) \in Patches
    BY <1>1, StackTypes DEF Patches
<1> DEFINE a == Applied(s, Last(s.redo).after)
           u == Append(s.undo, Last(s.redo))
           r == Front(s.redo)
<1>3. a \in States /\ a.redo = s.redo
    BY <1>2, AppliedState
<1>4. u \in Seq(Patches) /\ r \in Seq(Patches)
    BY <1>1, <1>2, StackTypes
<1>5. Redo(s) = [a EXCEPT !.undo = Append(a.undo, Last(s.redo)), !.redo = Front(a.redo)] /\ a.undo = s.undo
    BY <1>2, <1>3, AppliedState DEF Redo, States
<1>6. Redo(s) = [a EXCEPT !.undo = u, !.redo = r]
    <2> HIDE DEF a
    <2> QED
        BY <1>3, <1>5
<1> HIDE DEF a, u, r
<1>7. /\ Redo(s) \in States /\ Redo(s).undo = u /\ Redo(s).redo = r
      /\ SameFields(Redo(s), a)
    <2>1. PICK t : t = Redo(s)
        OBVIOUS
    <2>2. t \in States /\ t.undo = u /\ t.redo = r /\ SameFields(t, a)
        <3>1. t = [a EXCEPT !.undo = u, !.redo = r]
            BY <1>6, <2>1
        <3> QED
            BY <1>3, <1>4, <3>1 DEF SameFields, States
    <2> QED
        BY <2>1, <2>2
<1> QED
    BY <1>7 DEF a, u, r

LEMMA ReduceType ==
    ASSUME NEW s \in States, NEW c \in StoreCommands
    PROVE  Reduce(s, c) \in States /\ (Ignored(s, c) => Reduce(s, c) = s)
<1>1. CASE c \in ControlCommands /\ (Ignored(s, c) \/ c.history = "skip")
    BY <1>1, ControlReduced, WithControlType
<1>2. CASE Recordable(c) /\ ~Ignored(s, c)
    BY <1>2, RecordedReduces, RecordsType
<1>3. CASE c.type = "deleteKey" /\ Ignored(s, c)
    BY <1>3 DEF Reduce, DeleteKey, Ignored
<1>4. CASE c.type \in Quiet
    BY <1>4, QuietReduced
<1>5. CASE c.type = "undo"
    <2>1. Reduce(s, c) = Undo(s) /\ (Ignored(s, c) <=> s.undo = <<>>)
        BY <1>5 DEF Reduce, Ignored
    <2> QED
        BY <2>1, UndoForm DEF Undo
<1>6. CASE c.type = "redo"
    <2>1. Reduce(s, c) = Redo(s) /\ (Ignored(s, c) <=> s.redo = <<>>)
        BY <1>6 DEF Reduce, Ignored
    <2> QED
        BY <2>1, RedoForm DEF Redo
<1>7. Ignored(s, c) => c \in ControlCommands \/ c.type \in {"deleteKey", "undo", "redo"}
    BY CommandForms DEF Ignored
<1>8. c \notin ControlCommands /\ c.type \notin Quiet \cup {"undo", "redo"} => Recordable(c)
    BY CommandForms DEF Recordable, Records, Quiet
<1>9. c \in ControlCommands => Recordable(c) \/ c.history = "skip"
    BY CommandForms DEF Recordable, Records
<1> QED
    BY <1>1, <1>2, <1>3, <1>4, <1>5, <1>6, <1>7, <1>8, <1>9

(***************************************************************************)
(* What is shown, and a command dispatched during a gesture.               *)
(***************************************************************************)
LEMMA AtTimeForm ==
    ASSUME NEW side \in Sides, NEW time \in Nat
    PROVE  /\ AtTime(side, time) \in Sides
           /\ DOMAIN AtTime(side, time).fields = DOMAIN side.fields
           /\ AtTime(side, time).values = side.values
           /\ \A f \in DOMAIN side.fields \ {"timeline"} : AtTime(side, time).fields[f] = side.fields[f]
           /\ "timeline" \in DOMAIN side.fields
              => AtTime(side, time).fields["timeline"] = [side.fields["timeline"] EXCEPT !.time = time]
           /\ "timeline" \notin DOMAIN side.fields => AtTime(side, time) = side
<1>1. CASE "timeline" \notin DOMAIN side.fields
    BY <1>1 DEF AtTime
<1>2. CASE "timeline" \in DOMAIN side.fields
    <2> DEFINE timeline == [side.fields["timeline"] EXCEPT !.time = time]
               fields == [side.fields EXCEPT !["timeline"] = timeline]
    <2>1. timeline \in Timelines
        BY <1>2, SideForm DEF Timelines
    <2>2. AtTime(side, time) = [side EXCEPT !.fields = fields]
        BY <1>2 DEF AtTime
    <2> HIDE DEF timeline
    <2>3. fields \in FieldMaps
        <3>1. side.fields \in FieldMaps
            BY DEF Sides
        <3>2. PICK fs \in SUBSET Fields : side.fields \in [fs -> Values \cup Timelines \cup Offsets \cup Zooms]
            BY <3>1 DEF FieldMaps
        <3>3. fields \in [fs -> Values \cup Timelines \cup Offsets \cup Zooms]
            BY <1>2, <2>1, <3>2
        <3> QED
            BY <2>1, <3>1, <3>2, <3>3 DEF FieldMaps
    <2>4. DOMAIN fields = DOMAIN side.fields /\ fields["timeline"] = timeline
          /\ \A f \in DOMAIN side.fields \ {"timeline"} : fields[f] = side.fields[f]
        BY <1>2
    <2> HIDE DEF fields
    <2>5. AtTime(side, time) \in Sides /\ AtTime(side, time).values = side.values
          /\ AtTime(side, time).fields = fields
        BY <2>2, <2>3 DEF Sides
    <2> QED
        BY <1>2, <2>4, <2>5 DEF timeline
<1> QED
    BY <1>1, <1>2

\* What a merge changes of a patch is the time of its timelines.
LEMMA MergedNewForm ==
    ASSUME NEW p \in Patches, NEW s \in States, NEW t \in States
    PROVE  /\ MergedNew(p, s, t) \in Patches
           /\ MergedNew(p, s, t).before \in {p.before, AtTime(p.before, s.timeline.time)}
           /\ MergedNew(p, s, t).after \in {p.after, AtTime(p.after, t.timeline.time)}
           /\ MergedNew(p, s, t).group = p.group /\ MergedNew(p, s, t).reset = p.reset
           /\ MergedNew(p, s, t).new = p.new
           /\ DOMAIN p.before.fields \subseteq {"item"} /\ DOMAIN p.after.fields \subseteq {"item"}
              => MergedNew(p, s, t) = p
<1>1. s.timeline.time \in Nat /\ t.timeline.time \in Nat
    BY DEF States, Timelines
<1>2. AtTime(p.before, s.timeline.time) \in Sides /\ AtTime(p.after, t.timeline.time) \in Sides
    BY <1>1, AtTimeForm DEF Patches
<1>3. /\ DOMAIN p.before.fields \subseteq {"item"} => AtTime(p.before, s.timeline.time) = p.before
      /\ DOMAIN p.after.fields \subseteq {"item"} => AtTime(p.after, t.timeline.time) = p.after
    BY <1>1, AtTimeForm DEF Patches
<1> QED
    BY <1>2, <1>3 DEF MergedNew, Patches

LEMMA MergedStackType ==
    ASSUME NEW es \in Seq(Patches), NEW cs \in Seq(Patches), NEW s \in States, NEW t \in States
    PROVE  /\ MergedStack(es, cs, s, t) \in Seq(Patches)
           /\ Len(es) >= Len(cs) => Len(MergedStack(es, cs, s, t)) = Len(es)
           /\ Len(es) < Len(cs) => Len(MergedStack(es, cs, s, t)) = Len(cs)
<1> DEFINE n == IF Len(es) >= Len(cs) THEN Len(es) ELSE Len(cs)
           F(i) == CASE i <= Len(es) /\ (es[i].new \/ i > Len(cs) \/ ~cs[i].new) ->
                             IF es[i].new THEN MergedNew(es[i], s, t) ELSE es[i]
                     [] OTHER -> IF cs[i].new THEN MergedNew(cs[i], s, t) ELSE cs[i]
           m == [i \in 1 .. n |-> F(i)]
<1>1. n \in Nat
    OBVIOUS
<1>2. ASSUME NEW i \in 1 .. n
      PROVE  F(i) \in Patches
    <2>1. \A p \in Patches : MergedNew(p, s, t) \in Patches
        BY MergedNewForm
    <2>2. CASE i <= Len(es) /\ (es[i].new \/ i > Len(cs) \/ ~cs[i].new)
        BY <2>1, <2>2
    <2>3. CASE ~(i <= Len(es) /\ (es[i].new \/ i > Len(cs) \/ ~cs[i].new))
        <3>1. i <= Len(cs)
            BY <2>3
        <3> QED
            BY <2>1, <2>3, <3>1
    <2> QED
        BY <2>2, <2>3
<1>3. MergedStack(es, cs, s, t) = m
    BY DEF MergedStack
<1> HIDE DEF n, F
<1>4. m \in Seq(Patches) /\ Len(m) = n /\ \A i \in 1 .. n : m[i] = F(i)
    BY <1>1, <1>2
<1>5. (Len(es) >= Len(cs) => n = Len(es)) /\ (Len(es) < Len(cs) => n = Len(cs))
    BY DEF n
<1> HIDE DEF m
<1> QED
    BY <1>3, <1>4, <1>5

LEMMA MergedStackNew ==
    ASSUME NEW es \in Seq(Patches), NEW cs \in Seq(Patches), NEW s \in States, NEW t \in States,
           NEW i \in 1 .. Len(es), es[i].new
    PROVE  MergedStack(es, cs, s, t)[i] = MergedNew(es[i], s, t)
<1>1. i \in 1 .. (IF Len(es) >= Len(cs) THEN Len(es) ELSE Len(cs)) /\ i <= Len(es)
    OBVIOUS
<1> QED
    BY <1>1 DEF MergedStack

LEMMA MergedStackOld ==
    ASSUME NEW es \in Seq(Patches), NEW cs \in Seq(Patches), NEW s \in States, NEW t \in States,
           NEW i \in 1 .. Len(es), ~es[i].new, i > Len(cs) \/ ~cs[i].new
    PROVE  MergedStack(es, cs, s, t)[i] = es[i]
<1>1. i \in 1 .. (IF Len(es) >= Len(cs) THEN Len(es) ELSE Len(cs)) /\ i <= Len(es)
    OBVIOUS
<1> QED
    BY <1>1 DEF MergedStack

LEMMA SettledForm ==
    ASSUME NEW stack \in Seq(Patches)
    PROVE  /\ Settled(stack) \in Seq(Patches) /\ Len(Settled(stack)) = Len(stack)
           /\ \A i \in 1 .. Len(stack) :
                 /\ Settled(stack)[i] = [stack[i] EXCEPT !.new = FALSE]
                 /\ Settled(stack)[i].before = stack[i].before /\ Settled(stack)[i].after = stack[i].after
                 /\ Settled(stack)[i].group = stack[i].group /\ Settled(stack)[i].reset = stack[i].reset
                 /\ ~Settled(stack)[i].new
<1> DEFINE E(p) == [p EXCEPT !.new = FALSE]
           m == [i \in 1 .. Len(stack) |-> E(stack[i])]
<1>1. Len(stack) \in Nat /\ DOMAIN stack = 1 .. Len(stack) /\ \A i \in 1 .. Len(stack) : stack[i] \in Patches
    OBVIOUS
<1>2. ASSUME NEW p \in Patches
      PROVE  /\ E(p) \in Patches /\ ~E(p).new
             /\ E(p).before = p.before /\ E(p).after = p.after
             /\ E(p).group = p.group /\ E(p).reset = p.reset
    BY DEF Patches
<1>3. Settled(stack) = m
    BY <1>1 DEF Settled
<1>4. m \in Seq(Patches) /\ Len(m) = Len(stack) /\ \A i \in 1 .. Len(stack) : m[i] = E(stack[i])
    <2> HIDE DEF E
    <2> QED
        BY <1>1, <1>2
<1>5. \A i \in 1 .. Len(stack) :
          /\ ~m[i].new
          /\ m[i].before = stack[i].before /\ m[i].after = stack[i].after
          /\ m[i].group = stack[i].group /\ m[i].reset = stack[i].reset
    <2> HIDE DEF E, m
    <2> QED
        BY <1>1, <1>2, <1>4
<1>6. \A i \in 1 .. Len(stack) : m[i] = [stack[i] EXCEPT !.new = FALSE]
    BY <1>4
<1> HIDE DEF m, E
<1> QED
    BY <1>3, <1>4, <1>5, <1>6

LEMMA PublishedForm ==
    ASSUME NEW s \in States
    PROVE  /\ Published(s) \in States
           /\ Published(s).undo = Settled(s.undo) /\ Published(s).redo = Settled(s.redo)
           /\ SameFields(Published(s), s)
BY SettledForm DEF Published, States, SameFields

LEMMA EffectiveForm ==
    ASSUME NEW s \in States, NEW l \in Lanes
    PROVE  /\ Effective(s, l) \in States
           /\ Effective(s, l).values = s.values /\ Effective(s, l).item = s.item
           /\ Effective(s, l).undo = s.undo /\ Effective(s, l).redo = s.redo
           /\ Effective(s, l).timeline
              = [s.timeline EXCEPT !.time = IF l.time = None THEN s.timeline.time ELSE l.time]
           /\ Effective(s, l).offset = IF l.offset = None THEN s.offset ELSE l.offset
           /\ Effective(s, l).zoom = IF l.zoom = None THEN s.zoom ELSE l.zoom
<1> DEFINE timeline == [s.timeline EXCEPT !.time = IF l.time = None THEN s.timeline.time ELSE l.time]
           offset == IF l.offset = None THEN s.offset ELSE l.offset
           zoom == IF l.zoom = None THEN s.zoom ELSE l.zoom
<1>1. timeline \in Timelines /\ offset \in Offsets /\ zoom \in Zooms
    BY DEF States, Lanes, Timelines
<1>2. Effective(s, l) = [s EXCEPT !.timeline = timeline, !.offset = offset, !.zoom = zoom]
    BY DEF Effective, States, Timelines
<1> HIDE DEF timeline, offset, zoom
<1>3. /\ Effective(s, l) \in States
      /\ Effective(s, l).values = s.values /\ Effective(s, l).item = s.item
      /\ Effective(s, l).undo = s.undo /\ Effective(s, l).redo = s.redo
      /\ Effective(s, l).timeline = timeline /\ Effective(s, l).offset = offset
      /\ Effective(s, l).zoom = zoom
    BY <1>1, <1>2 DEF States
<1> QED
    BY <1>3 DEF timeline, offset, zoom

LEMMA NormalizedType ==
    ASSUME NEW s \in States, NEW l \in Lanes
    PROVE  Normalized(l, s) \in Lanes
BY DEF Normalized, Lanes

\* The state with the previewed command, if there is one.
WithPreview(s, e) == IF e.command = None THEN s ELSE WithControl(s, e.command)

LEMMA OtherHistory ==
    ASSUME NEW s, NEW c \in ControlCommands, NEW h \in {"record", "merge", "skip"}
    PROVE  /\ [c EXCEPT !.history = h] \in ControlCommands
           /\ WithControl(s, [c EXCEPT !.history = h]) = WithControl(s, c)
           /\ [c EXCEPT !.history = h].type = c.type /\ [c EXCEPT !.history = h].history = h
<1> DEFINE d == [c EXCEPT !.history = h]
<1>1. CASE c.type = "setValue"
    <2>1. d \in ControlCommands /\ d.type = c.type /\ d.target = c.target /\ d.value = c.value /\ d.history = h
        BY <1>1 DEF ControlCommands
    <2> HIDE DEF d
    <2>2. WithControl(s, d) = WithControl(s, c)
        BY <1>1, <2>1 DEF WithControl, NextValues, NextItem, NextTimeline
    <2> QED
        BY <2>1, <2>2 DEF d
<1>2. CASE c.type = "setField"
    <2>1. d \in ControlCommands /\ d.type = c.type /\ d.value = c.value /\ d.history = h
        BY <1>2 DEF ControlCommands
    <2> HIDE DEF d
    <2>2. WithControl(s, d) = WithControl(s, c)
        BY <1>2, <2>1 DEF WithControl, NextValues, NextItem, NextTimeline
    <2> QED
        BY <2>1, <2>2 DEF d
<1> QED
    BY <1>1, <1>2 DEF ControlCommands

LEMMA PreviewedForm ==
    ASSUME NEW s \in States, NEW e \in AuthoredEdits
    PROVE  /\ Previewed(s, e) = WithPreview(s, e)
           /\ WithPreview(s, e) \in States
           /\ WithPreview(s, e).undo = s.undo /\ WithPreview(s, e).redo = s.redo
           /\ WithPreview(s, e).offset = s.offset /\ WithPreview(s, e).zoom = s.zoom
           /\ WithPreview(s, e).timeline.time = s.timeline.time
           /\ WithPreview(s, e).timeline.playing = s.timeline.playing
           /\ WithPreview(s, e).timeline.duration = s.timeline.duration
<1>1. CASE e.command = None
    BY <1>1 DEF Previewed, WithPreview
<1>2. CASE e.command # None
    <2>1. e.command \in ControlCommands
        BY <1>2 DEF AuthoredEdits
    <2> DEFINE c == [e.command EXCEPT !.history = "skip"]
               t == WithControl(s, e.command)
    <2>2. Reduce(s, c) = t
        <3>1. c \in ControlCommands /\ WithControl(s, c) = t /\ c.history = "skip"
            <4>1. PICK b \in ControlCommands : b = e.command
                BY <2>1
            <4>2. PICK h : h = "skip"
                OBVIOUS
            <4>3. /\ [b EXCEPT !.history = h] \in ControlCommands
                  /\ WithControl(s, [b EXCEPT !.history = h]) = WithControl(s, b)
                  /\ [b EXCEPT !.history = h].history = h
                BY <4>2, OtherHistory, ZenonT(30)
            <4> QED
                BY <4>1, <4>2, <4>3
        <3> HIDE DEF c, t
        <3> QED
            BY <3>1, SkipReduced
    <2>3. /\ t \in States /\ t.undo = s.undo /\ t.redo = s.redo
          /\ t.offset = s.offset /\ t.zoom = s.zoom
          /\ t.timeline.time = s.timeline.time /\ t.timeline.playing = s.timeline.playing
          /\ t.timeline.duration = s.timeline.duration
        BY <2>1, WithControlType
    <2>4. Previewed(s, e) = [t EXCEPT !.undo = s.undo, !.redo = s.redo] /\ WithPreview(s, e) = t
        BY <1>2, <2>2 DEF Previewed, WithPreview
    <2> HIDE DEF t
    <2>5. [t EXCEPT !.undo = s.undo, !.redo = s.redo] = t
        BY <2>3 DEF States
    <2> QED
        BY <2>3, <2>4, <2>5
<1> QED
    BY <1>1, <1>2

LEMMA ProjectedType ==
    ASSUME NEW s \in States, NEW l \in Lanes, NEW e \in AuthoredEdits
    PROVE  Projected(s, l, e) \in States /\ Projected(s, l, e) = Effective(WithPreview(s, e), l)
BY PreviewedForm, EffectiveForm DEF Projected

LEMMA MergedStateForm ==
    ASSUME NEW s \in States, NEW s2 \in States, NEW e2 \in States, NEW touched
    PROVE  /\ MergedState(s, s2, e2, touched) \in States
           /\ MergedState(s, s2, e2, touched).values = e2.values
           /\ MergedState(s, s2, e2, touched).item = e2.item
           /\ MergedState(s, s2, e2, touched).timeline.keys = e2.timeline.keys
           /\ MergedState(s, s2, e2, touched).timeline.duration = e2.timeline.duration
           /\ MergedState(s, s2, e2, touched).timeline.time
              = IF "time" \in touched THEN e2.timeline.time ELSE s2.timeline.time
           /\ MergedState(s, s2, e2, touched).offset = IF "offset" \in touched THEN e2.offset ELSE s2.offset
           /\ MergedState(s, s2, e2, touched).zoom = IF "zoom" \in touched THEN e2.zoom ELSE s2.zoom
           /\ \E t \in States :
                 /\ MergedState(s, s2, e2, touched).undo = MergedStack(e2.undo, s2.undo, s, t)
                 /\ MergedState(s, s2, e2, touched).redo = MergedStack(e2.redo, s2.redo, s, t)
<1> DEFINE timeline == [e2.timeline EXCEPT
                            !.time = IF "time" \in touched THEN e2.timeline.time ELSE s2.timeline.time]
           offset == IF "offset" \in touched THEN e2.offset ELSE s2.offset
           zoom == IF "zoom" \in touched THEN e2.zoom ELSE s2.zoom
           t == [e2 EXCEPT !.timeline = timeline, !.offset = offset, !.zoom = zoom]
           u == MergedStack(e2.undo, s2.undo, s, t)
           r == MergedStack(e2.redo, s2.redo, s, t)
<1>1. timeline \in Timelines /\ offset \in Offsets /\ zoom \in Zooms
    BY DEF States, Timelines
<1>2. MergedState(s, s2, e2, touched) = [t EXCEPT !.undo = u, !.redo = r]
    <2>1. [e2 EXCEPT
                !.timeline.time = IF "time" \in touched THEN @ ELSE s2.timeline.time,
                !.offset = IF "offset" \in touched THEN @ ELSE s2.offset,
                !.zoom = IF "zoom" \in touched THEN @ ELSE s2.zoom] = t
        BY DEF States, Timelines
    <2> QED
        BY <2>1 DEF MergedState
<1> HIDE DEF timeline, offset, zoom
<1>3. /\ t \in States /\ t.values = e2.values /\ t.item = e2.item /\ t.timeline = timeline
      /\ t.offset = offset /\ t.zoom = zoom
    BY <1>1 DEF States
<1>4. u \in Seq(Patches) /\ r \in Seq(Patches)
    <2> HIDE DEF t
    <2>1. \A es, cs \in Seq(Patches) : MergedStack(es, cs, s, t) \in Seq(Patches)
        BY <1>3, MergedStackType
    <2> QED
        BY <2>1 DEF States
<1>5. PICK m : m = MergedState(s, s2, e2, touched)
    OBVIOUS
<1>6. m \in States /\ m.undo = u /\ m.redo = r /\ SameFields(m, t)
    <2> HIDE DEF t, u, r
    <2> QED
        BY <1>2, <1>3, <1>4, <1>5 DEF SameFields, States
<1>7. /\ timeline.keys = e2.timeline.keys /\ timeline.duration = e2.timeline.duration
      /\ timeline.time = IF "time" \in touched THEN e2.timeline.time ELSE s2.timeline.time
    BY DEF timeline, States, Timelines
<1> QED
    <2> HIDE DEF t
    <2> QED
        BY <1>3, <1>5, <1>6, <1>7 DEF SameFields, offset, zoom

(***************************************************************************)
(* What is shown is what is projected.                                     *)
(***************************************************************************)
Follows(s, e) ==
    e.command # None /\ s.timeline.keys # <<>> /\ s.timeline.selected \notin DOMAIN s.timeline.keys

ShownAs(s, l, e, w) ==
    LET p == Projected(s, l, e)
    IN  /\ [w EXCEPT !.timeline = p.timeline] = p
        /\ w.timeline.duration = p.timeline.duration
        /\ w.timeline.playing = p.timeline.playing
        /\ w.timeline.time # p.timeline.time
           => w.timeline.time > p.timeline.time /\ p.timeline.time = p.timeline.duration
        /\ w.timeline # [p.timeline EXCEPT !.time = w.timeline.time] => Follows(s, e)

LEMMA ShownIs == ShownIsProjected <=> ShownAs(committed, lanes, edit, shown)
BY DEF ShownIsProjected, ShownAs, FollowsTime, Follows

LEMMA ExactShown ==
    ASSUME NEW s \in States, NEW l \in Lanes, NEW e \in AuthoredEdits
    PROVE  ShownAs(s, l, e, Projected(s, l, e)) /\ Projected(s, l, e) \in States
<1>1. PICK p : p = Projected(s, l, e)
    OBVIOUS
<1>2. p \in States
    BY <1>1, ProjectedType
<1>3. [p EXCEPT !.timeline = p.timeline] = p
    BY <1>2 DEF States
<1>4. [p.timeline EXCEPT !.time = p.timeline.time] = p.timeline
    BY <1>2 DEF States, Timelines
<1> QED
    BY <1>1, <1>2, <1>3, <1>4 DEF ShownAs

LEMMA IdleShown ==
    ASSUME NEW s \in States, NEW l \in Lanes
    PROVE  /\ Effective(s, l) = Projected(s, l, Idle) /\ Idle \in AuthoredEdits
           /\ Effective(s, l) = Projected(s, l, [active |-> TRUE, command |-> None])
           /\ [active |-> TRUE, command |-> None] \in AuthoredEdits
BY DEF Projected, Previewed, Idle, AuthoredEdits

\* The fields of a projection.
LEMMA ProjectedFields ==
    ASSUME NEW s \in States, NEW l \in Lanes, NEW e \in AuthoredEdits
    PROVE  /\ Projected(s, l, e) \in States
           /\ Projected(s, l, e).values = WithPreview(s, e).values
           /\ Projected(s, l, e).item = WithPreview(s, e).item
           /\ Projected(s, l, e).undo = s.undo /\ Projected(s, l, e).redo = s.redo
           /\ Projected(s, l, e).timeline
              = [WithPreview(s, e).timeline EXCEPT !.time = IF l.time = None THEN s.timeline.time ELSE l.time]
           /\ Projected(s, l, e).timeline.time = IF l.time = None THEN s.timeline.time ELSE l.time
           /\ Projected(s, l, e).timeline.playing = s.timeline.playing
           /\ Projected(s, l, e).timeline.duration = s.timeline.duration
           /\ Projected(s, l, e).offset = IF l.offset = None THEN s.offset ELSE l.offset
           /\ Projected(s, l, e).zoom = IF l.zoom = None THEN s.zoom ELSE l.zoom
<1>1. PICK w : w = WithPreview(s, e)
    OBVIOUS
<1>2. /\ w \in States /\ w.undo = s.undo /\ w.redo = s.redo /\ w.offset = s.offset /\ w.zoom = s.zoom
      /\ w.timeline.time = s.timeline.time /\ w.timeline.playing = s.timeline.playing
      /\ w.timeline.duration = s.timeline.duration
    BY <1>1, PreviewedForm
<1>3. PICK p : p = Effective(w, l)
    OBVIOUS
<1>4. p = Projected(s, l, e)
    BY <1>1, <1>3, ProjectedType
<1>5. /\ p \in States /\ p.values = w.values /\ p.item = w.item /\ p.undo = w.undo /\ p.redo = w.redo
      /\ p.timeline = [w.timeline EXCEPT !.time = IF l.time = None THEN w.timeline.time ELSE l.time]
      /\ p.offset = IF l.offset = None THEN w.offset ELSE l.offset
      /\ p.zoom = IF l.zoom = None THEN w.zoom ELSE l.zoom
    BY <1>2, <1>3, EffectiveForm
<1>6. /\ p.timeline.time = IF l.time = None THEN s.timeline.time ELSE l.time
      /\ p.timeline.playing = s.timeline.playing /\ p.timeline.duration = s.timeline.duration
    BY <1>2, <1>5 DEF States, Timelines
<1> QED
    BY <1>1, <1>2, <1>4, <1>5, <1>6

\* The preview of a state with another time is the preview, and its timeline
\* but for the time is the same unless the edit follows the time.
LEMMA PreviewAtTime ==
    ASSUME NEW s \in States, NEW time \in Nat, NEW e \in AuthoredEdits
    PROVE  LET t == [s EXCEPT !.timeline.time = time]
           IN  /\ t \in States /\ t.undo = s.undo /\ t.redo = s.redo /\ t.offset = s.offset /\ t.zoom = s.zoom
               /\ t.timeline = [s.timeline EXCEPT !.time = time]
               /\ t.values = s.values /\ t.item = s.item
               /\ WithPreview(t, e).values = WithPreview(s, e).values
               /\ WithPreview(t, e).item = WithPreview(s, e).item
               /\ Follows(t, e) <=> Follows(s, e)
               /\ ~Follows(s, e)
                  => WithPreview(t, e).timeline = [WithPreview(s, e).timeline EXCEPT !.time = time]
<1>0. PICK t : t = [s EXCEPT !.timeline.time = time]
    OBVIOUS
<1>1. /\ t \in States /\ t.undo = s.undo /\ t.redo = s.redo /\ t.offset = s.offset /\ t.zoom = s.zoom
      /\ t.timeline = [s.timeline EXCEPT !.time = time] /\ t.values = s.values /\ t.item = s.item
    BY <1>0 DEF States, Timelines
<1>2. /\ t.timeline.keys = s.timeline.keys /\ t.timeline.selected = s.timeline.selected
      /\ t.timeline.duration = s.timeline.duration
    BY <1>1 DEF States, Timelines
<1>3. Follows(t, e) <=> Follows(s, e)
    BY <1>2 DEF Follows
<1>4. CASE e.command = None
    BY <1>0, <1>1, <1>3, <1>4 DEF WithPreview
<1>5. CASE e.command # None
    <2>1. PICK c \in ControlCommands : c = e.command
        BY <1>5 DEF AuthoredEdits
    <2>2. WithPreview(t, e) = WithControl(t, c) /\ WithPreview(s, e) = WithControl(s, c)
        BY <1>5, <2>1 DEF WithPreview
    <2>3. /\ WithPreview(t, e).values = WithPreview(s, e).values
          /\ WithPreview(t, e).item = WithPreview(s, e).item
        BY <1>1, <2>2, WithControlType
    <2>4. WithPreview(t, e).timeline = NextTimeline(t, c) /\ WithPreview(s, e).timeline = NextTimeline(s, c)
        BY <1>1, <2>2, WithControlType
    <2>5. ASSUME ~Follows(s, e)
          PROVE  NextTimeline(t, c) = [NextTimeline(s, c) EXCEPT !.time = time]
        <3>1. CASE c.type = "setField" /\ s.timeline.keys # <<>>
            <4>1. FieldTime(t) = FieldTime(s) /\ FieldTime(s) \in Nat
                BY <1>2, <1>5, <2>5, <3>1, FieldTimeType DEF FieldTime, Follows
            <4>2. PICK at \in Nat : at = FieldTime(s)
                BY <4>1
            <4>3. WithKey(t.timeline, at, c.value) = [WithKey(s.timeline, at, c.value) EXCEPT !.time = time]
                BY <1>1, <1>2 DEF WithKey, States, Timelines
            <4> QED
                BY <1>2, <3>1, <4>1, <4>2, <4>3 DEF NextTimeline
        <3>2. CASE ~(c.type = "setField" /\ s.timeline.keys # <<>>)
            BY <1>1, <1>2, <3>2 DEF NextTimeline
        <3> QED
            BY <3>1, <3>2
    <2> QED
        BY <1>0, <1>1, <1>3, <2>3, <2>4, <2>5
<1> QED
    BY <1>4, <1>5

LEMMA SameState ==
    ASSUME NEW s \in States, NEW t \in States, SameFields(s, t), s.undo = t.undo, s.redo = t.redo
    PROVE  s = t
<1>1. \A x \in States : x = [values |-> x.values, item |-> x.item, timeline |-> x.timeline,
                             offset |-> x.offset, zoom |-> x.zoom, undo |-> x.undo, redo |-> x.redo]
    BY DEF States
<1>2. s = [values |-> s.values, item |-> s.item, timeline |-> s.timeline,
           offset |-> s.offset, zoom |-> s.zoom, undo |-> s.undo, redo |-> s.redo]
    BY <1>1, Zenon
<1>3. t = [values |-> t.values, item |-> t.item, timeline |-> t.timeline,
           offset |-> t.offset, zoom |-> t.zoom, undo |-> t.undo, redo |-> t.redo]
    BY <1>1, Zenon
<1> QED
    BY <1>2, <1>3 DEF SameFields

\* Committing a scrub stops at the duration, where what is shown may be beyond.
LEMMA CommitTimeKeeps ==
    ASSUME NEW s \in States, NEW l \in Lanes, NEW e \in AuthoredEdits, NEW w \in States,
           ShownAs(s, l, e, w), l.time # None
    PROVE  /\ SetTime(s, [time |-> l.time]) \in States /\ [l EXCEPT !.time = None] \in Lanes
           /\ ShownAs(SetTime(s, [time |-> l.time]), [l EXCEPT !.time = None], e, w)
<1> DEFINE at == AtMost(l.time, s.timeline.duration)
<1>1. PICK t : t = SetTime(s, [time |-> l.time])
    OBVIOUS
<1>2. PICK m : m = [l EXCEPT !.time = None]
    OBVIOUS
<1>3. PICK p : p = Projected(s, l, e)
    OBVIOUS
<1>4. PICK q : q = Projected(t, m, e)
    OBVIOUS
<1>5. m \in Lanes /\ m.time = None /\ m.offset = l.offset /\ m.zoom = l.zoom /\ l.time \in Nat
    BY <1>2 DEF Lanes
<1>6. s.timeline.duration \in Durations
    BY DEF States, Timelines
<1>7. at \in Nat /\ at <= l.time /\ (at # l.time => at < l.time /\ at = s.timeline.duration)
    BY <1>5, <1>6, StoreAssumption DEF AtMost
<1>8. t = [s EXCEPT !.timeline.time = at]
    BY <1>1 DEF SetTime
<1> HIDE DEF at
<1>9. /\ t \in States /\ t.undo = s.undo /\ t.redo = s.redo /\ t.offset = s.offset /\ t.zoom = s.zoom
      /\ t.timeline = [s.timeline EXCEPT !.time = at]
      /\ WithPreview(t, e).values = WithPreview(s, e).values
      /\ WithPreview(t, e).item = WithPreview(s, e).item
      /\ Follows(t, e) <=> Follows(s, e)
      /\ ~Follows(s, e) => WithPreview(t, e).timeline = [WithPreview(s, e).timeline EXCEPT !.time = at]
    BY <1>7, <1>8, PreviewAtTime
<1>10. /\ t.timeline.time = at /\ t.timeline.duration = s.timeline.duration
       /\ t.timeline.playing = s.timeline.playing
    BY <1>7, <1>9 DEF States, Timelines
<1>11. /\ p \in States /\ p.values = WithPreview(s, e).values /\ p.item = WithPreview(s, e).item
       /\ p.undo = s.undo /\ p.redo = s.redo /\ p.timeline.time = l.time
       /\ p.timeline = [WithPreview(s, e).timeline EXCEPT !.time = l.time]
       /\ p.timeline.playing = s.timeline.playing /\ p.timeline.duration = s.timeline.duration
       /\ p.offset = (IF l.offset = None THEN s.offset ELSE l.offset)
       /\ p.zoom = (IF l.zoom = None THEN s.zoom ELSE l.zoom)
    BY <1>3, ProjectedFields
<1>12. /\ q \in States /\ q.values = WithPreview(t, e).values /\ q.item = WithPreview(t, e).item
       /\ q.undo = t.undo /\ q.redo = t.redo /\ q.timeline.time = t.timeline.time
       /\ q.timeline = [WithPreview(t, e).timeline EXCEPT !.time = t.timeline.time]
       /\ q.timeline.playing = t.timeline.playing /\ q.timeline.duration = t.timeline.duration
       /\ q.offset = (IF m.offset = None THEN t.offset ELSE m.offset)
       /\ q.zoom = (IF m.zoom = None THEN t.zoom ELSE m.zoom)
    <2>1. t \in States /\ m \in Lanes
        BY <1>5, <1>9
    <2>2. \A a \in States, b \in Lanes :
              /\ Projected(a, b, e) \in States
              /\ Projected(a, b, e).values = WithPreview(a, e).values
              /\ Projected(a, b, e).item = WithPreview(a, e).item
              /\ Projected(a, b, e).undo = a.undo /\ Projected(a, b, e).redo = a.redo
              /\ Projected(a, b, e).timeline
                 = [WithPreview(a, e).timeline EXCEPT !.time = IF b.time = None THEN a.timeline.time ELSE b.time]
              /\ Projected(a, b, e).timeline.time = IF b.time = None THEN a.timeline.time ELSE b.time
              /\ Projected(a, b, e).timeline.playing = a.timeline.playing
              /\ Projected(a, b, e).timeline.duration = a.timeline.duration
              /\ Projected(a, b, e).offset = IF b.offset = None THEN a.offset ELSE b.offset
              /\ Projected(a, b, e).zoom = IF b.zoom = None THEN a.zoom ELSE b.zoom
        BY ProjectedFields
    <2> QED
        BY <1>4, <1>5, <2>1, <2>2
<1>13. /\ [w EXCEPT !.timeline = p.timeline] = p
       /\ w.timeline.duration = p.timeline.duration /\ w.timeline.playing = p.timeline.playing
       /\ w.timeline.time # p.timeline.time
          => w.timeline.time > p.timeline.time /\ p.timeline.time = p.timeline.duration
       /\ w.timeline # [p.timeline EXCEPT !.time = w.timeline.time] => Follows(s, e)
    BY <1>3 DEF ShownAs
<1>14. /\ w.values = p.values /\ w.item = p.item /\ w.offset = p.offset /\ w.zoom = p.zoom
       /\ w.undo = p.undo /\ w.redo = p.redo
    BY <1>13 DEF States
<1>15. [w EXCEPT !.timeline = q.timeline] = q
    <2>1. /\ w.values = q.values /\ w.item = q.item /\ w.offset = q.offset /\ w.zoom = q.zoom
          /\ w.undo = q.undo /\ w.redo = q.redo
        BY <1>5, <1>9, <1>11, <1>12, <1>14
    <2> QED
        BY <1>12, <2>1 DEF States
<1>16. w.timeline.time # q.timeline.time
       => w.timeline.time > q.timeline.time /\ q.timeline.time = q.timeline.duration
    <2>1. w.timeline.time \in Nat /\ l.time \in Nat /\ p.timeline.duration \in Nat
        BY <1>5, <1>11, StoreAssumption DEF States, Timelines
    <2>2. q.timeline.time = at /\ p.timeline.time = l.time /\ q.timeline.duration = p.timeline.duration
          /\ s.timeline.duration = p.timeline.duration
        BY <1>10, <1>11, <1>12
    <2> QED
        BY <1>7, <1>13, <2>1, <2>2
<1>17. ASSUME ~Follows(s, e)
       PROVE  w.timeline = [q.timeline EXCEPT !.time = w.timeline.time]
    <2>1. WithPreview(t, e).timeline = [WithPreview(s, e).timeline EXCEPT !.time = at]
        BY <1>9, <1>17
    <2>2. PICK a : a = WithPreview(s, e).timeline
        OBVIOUS
    <2>3. q.timeline = [[a EXCEPT !.time = at] EXCEPT !.time = at] /\ p.timeline = [a EXCEPT !.time = l.time]
        BY <1>10, <1>11, <1>12, <2>1, <2>2
    <2>4. [q.timeline EXCEPT !.time = w.timeline.time] = [p.timeline EXCEPT !.time = w.timeline.time]
        BY <2>3
    <2> QED
        BY <1>13, <1>17, <2>4
<1>18. ShownAs(t, m, e, w)
    <2>1. w.timeline.duration = q.timeline.duration /\ w.timeline.playing = q.timeline.playing
        BY <1>10, <1>11, <1>12, <1>13
    <2> QED
        BY <1>4, <1>9, <1>15, <1>16, <1>17, <2>1 DEF ShownAs
<1> QED
    BY <1>1, <1>2, <1>5, <1>9, <1>18

\* Committing a pan or a zoom changes nothing of the projection.
LEMMA CommitViewportKeeps ==
    ASSUME NEW s \in States, NEW l \in Lanes, NEW e \in AuthoredEdits, NEW w \in States,
           ShownAs(s, l, e, w), NEW offset \in Offsets,
           offset = (IF l.offset = None THEN s.offset ELSE l.offset)
    PROVE  /\ SetViewport(s, [offset |-> offset, zoom |-> l.zoom]) \in States
           /\ [l EXCEPT !.offset = None, !.zoom = None] \in Lanes
           /\ ShownAs(SetViewport(s, [offset |-> offset, zoom |-> l.zoom]),
                      [l EXCEPT !.offset = None, !.zoom = None], e, w)
<1> DEFINE zoom == IF l.zoom = None THEN s.zoom ELSE l.zoom
<1>12. PICK t : t = SetViewport(s, [offset |-> offset, zoom |-> l.zoom])
    OBVIOUS
<1>13. PICK m : m = [l EXCEPT !.offset = None, !.zoom = None]
    OBVIOUS
<1>1. offset \in Offsets /\ zoom \in Zooms
    BY DEF Lanes, States
<1>2. t = [s EXCEPT !.offset = offset, !.zoom = zoom]
    BY <1>12 DEF SetViewport
<1>3. m \in Lanes /\ m.time = l.time /\ m.offset = None /\ m.zoom = None
    BY <1>13 DEF Lanes
<1> HIDE DEF zoom
<1>4. /\ t \in States /\ t.values = s.values /\ t.item = s.item /\ t.timeline = s.timeline
      /\ t.undo = s.undo /\ t.redo = s.redo /\ t.offset = offset /\ t.zoom = zoom
    BY <1>1, <1>2 DEF States
<1>5. Follows(t, e) <=> Follows(s, e)
    BY <1>4 DEF Follows
<1>6. /\ WithPreview(t, e).values = WithPreview(s, e).values
      /\ WithPreview(t, e).item = WithPreview(s, e).item
      /\ WithPreview(t, e).timeline = WithPreview(s, e).timeline
    <2>1. CASE e.command = None
        BY <1>4, <2>1 DEF WithPreview
    <2>2. CASE e.command # None
        <3>1. PICK c \in ControlCommands : c = e.command
            BY <2>2 DEF AuthoredEdits
        <3>2. NextTimeline(t, c) = NextTimeline(s, c)
            BY <1>4 DEF NextTimeline, FieldTime
        <3> QED
            BY <1>4, <2>2, <3>1, <3>2, WithControlType DEF WithPreview
    <2> QED
        BY <2>1, <2>2
<1>7. PICK p : p = Projected(s, l, e)
    OBVIOUS
<1>8. PICK q : q = Projected(t, m, e)
    OBVIOUS
<1>9. /\ p \in States /\ p.values = WithPreview(s, e).values /\ p.item = WithPreview(s, e).item
      /\ p.undo = s.undo /\ p.redo = s.redo
      /\ p.timeline = [WithPreview(s, e).timeline EXCEPT
                           !.time = IF l.time = None THEN s.timeline.time ELSE l.time]
      /\ p.offset = offset /\ p.zoom = zoom
    BY <1>7, ProjectedFields DEF zoom
<1>10. /\ q \in States /\ q.values = WithPreview(t, e).values /\ q.item = WithPreview(t, e).item
       /\ q.undo = t.undo /\ q.redo = t.redo
       /\ q.timeline = [WithPreview(t, e).timeline EXCEPT
                           !.time = IF m.time = None THEN t.timeline.time ELSE m.time]
       /\ q.offset = offset /\ q.zoom = zoom
    <2>1. t \in States /\ m \in Lanes
        BY <1>3, <1>4
    <2>2. \A a \in States, b \in Lanes :
              /\ Projected(a, b, e) \in States
              /\ Projected(a, b, e).values = WithPreview(a, e).values
              /\ Projected(a, b, e).item = WithPreview(a, e).item
              /\ Projected(a, b, e).undo = a.undo /\ Projected(a, b, e).redo = a.redo
              /\ Projected(a, b, e).timeline
                 = [WithPreview(a, e).timeline EXCEPT !.time = IF b.time = None THEN a.timeline.time ELSE b.time]
              /\ Projected(a, b, e).offset = IF b.offset = None THEN a.offset ELSE b.offset
              /\ Projected(a, b, e).zoom = IF b.zoom = None THEN a.zoom ELSE b.zoom
        BY ProjectedFields
    <2>3. /\ q \in States /\ q.values = WithPreview(t, e).values /\ q.item = WithPreview(t, e).item
          /\ q.undo = t.undo /\ q.redo = t.redo
          /\ q.timeline = [WithPreview(t, e).timeline EXCEPT
                              !.time = IF m.time = None THEN t.timeline.time ELSE m.time]
          /\ q.offset = (IF m.offset = None THEN t.offset ELSE m.offset)
          /\ q.zoom = (IF m.zoom = None THEN t.zoom ELSE m.zoom)
        BY <1>8, <2>1, <2>2
    <2> QED
        BY <1>3, <1>4, <2>3
<1>11. p = q
    <2>1. /\ p.values = q.values /\ p.item = q.item /\ p.timeline = q.timeline
          /\ p.offset = q.offset /\ p.zoom = q.zoom /\ p.undo = q.undo /\ p.redo = q.redo
        BY <1>3, <1>4, <1>6, <1>9, <1>10
    <2> QED
        BY <1>9, <1>10, <2>1, SameState DEF SameFields
<1> QED
    BY <1>3, <1>4, <1>5, <1>7, <1>8, <1>11, <1>12, <1>13 DEF ShownAs

LEMMA DispatchedKeeps ==
    ASSUME TypeInv, NEW c \in StoreCommands, NEW e \in States, Dispatched(c, e)
    PROVE  /\ committed' \in States /\ lanes' \in Lanes /\ shown' \in States
           /\ \/ shown' = e /\ committed' = committed /\ lanes' = lanes
              \/ shown' = Effective(committed', lanes')
<1> DEFINE s2 == Reduce(committed, c)
           e2 == Reduce(e, c)
           touched == Touched(committed, e, s2, e2, c)
           next == Published(IF lanes = NoLanes THEN s2 ELSE MergedState(committed, s2, e2, touched))
           kept == [f \in DOMAIN lanes |-> IF f \in touched THEN None ELSE lanes[f]]
<1>1. committed \in States /\ lanes \in Lanes
    BY DEF TypeInv
<1>2. s2 \in States /\ e2 \in States
    BY <1>1, ReduceType
<1>3. /\ Ignored(committed, c) /\ (lanes = NoLanes \/ Ignored(e, c))
         => shown' = e /\ committed' = committed /\ lanes' = lanes
      /\ ~(Ignored(committed, c) /\ (lanes = NoLanes \/ Ignored(e, c)))
         => /\ committed' = next
            /\ lanes' = IF lanes = NoLanes THEN lanes ELSE Normalized(kept, next)
            /\ shown' = Effective(committed', lanes')
    BY DEF Dispatched
<1> HIDE DEF s2, e2, touched
<1>4. MergedState(committed, s2, e2, touched) \in States
    BY <1>1, <1>2, MergedStateForm
<1>5. next \in States
    BY <1>2, <1>4, PublishedForm
<1>6. kept \in Lanes
    <2>1. kept = [time |-> kept.time, offset |-> kept.offset, zoom |-> kept.zoom]
        BY <1>1 DEF Lanes
    <2>2. kept.time \in {None, lanes.time} /\ kept.offset \in {None, lanes.offset}
          /\ kept.zoom \in {None, lanes.zoom}
        BY <1>1 DEF Lanes
    <2> HIDE DEF kept
    <2> QED
        BY <1>1, <2>1, <2>2 DEF Lanes
<1> HIDE DEF next, kept
<1>7. Normalized(kept, next) \in Lanes
    BY <1>5, <1>6, NormalizedType
<1>8. CASE Ignored(committed, c) /\ (lanes = NoLanes \/ Ignored(e, c))
    BY <1>1, <1>3, <1>8
<1>9. CASE ~(Ignored(committed, c) /\ (lanes = NoLanes \/ Ignored(e, c)))
    <2>1. committed' \in States /\ lanes' \in Lanes /\ shown' = Effective(committed', lanes')
        BY <1>1, <1>3, <1>5, <1>7, <1>9
    <2> QED
        BY <2>1, EffectiveForm
<1> QED
    BY <1>8, <1>9

LEMMA ShownIsNext == ShownIsProjected' <=> ShownAs(committed', lanes', edit', shown')
BY DEF ShownIsProjected, ShownAs, FollowsTime, Follows

LEMMA ExactNext ==
    ASSUME committed' \in States, lanes' \in Lanes, edit' \in AuthoredEdits,
           shown' = Projected(committed', lanes', edit')
    PROVE  shown' \in States /\ ShownIsProjected'
<1>1. shown' \in States /\ ShownAs(committed', lanes', edit', shown')
    BY ExactShown
<1> QED
    BY <1>1, ShownIsNext


LEMMA ShownStep ==
    ASSUME TypeInv, ShownIsProjected, [Next]_vars
    PROVE  TypeInv' /\ ShownIsProjected'
<1>0. /\ committed \in States /\ lanes \in Lanes /\ edit \in AuthoredEdits /\ shown \in States
      /\ ~edit.active => edit = Idle
      /\ ShownAs(committed, lanes, edit, shown)
    BY ShownIs DEF TypeInv
<1> DEFINE Exact ==
        /\ committed' \in States /\ lanes' \in Lanes /\ edit' \in AuthoredEdits
        /\ shown' = Projected(committed', lanes', edit')
        /\ ~edit'.active => edit' = Idle
<1>1. ASSUME Exact PROVE TypeInv' /\ ShownIsProjected'
    BY <1>1, ExactNext DEF TypeInv
<1>2. ASSUME edit' = Idle, shown' = Effective(committed', lanes'), committed' \in States, lanes' \in Lanes
      PROVE  Exact
    <2>1. Effective(committed', lanes') = Projected(committed', lanes', Idle) /\ Idle \in AuthoredEdits
        BY <1>2, IdleShown
    <2> QED
        BY <1>2, <2>1
<1>3. ASSUME edit' = Idle, edit = Idle, UNCHANGED <<committed, lanes, shown>>
      PROVE  TypeInv' /\ ShownIsProjected'
    BY <1>0, <1>3, ShownIsNext DEF TypeInv
<1>4. /\ Effective(committed, lanes) \in States
      /\ Commands \subseteq StoreCommands /\ Edits \subseteq ControlCommands
      /\ ControlCommands \subseteq StoreCommands
    BY <1>0, EffectiveForm, StoreAssumption DEF StoreCommands
<1>5. ASSUME NEW c \in StoreCommands, NEW e, e \in {Effective(committed, lanes), shown},
             e = shown => edit = Idle \/ shown = Effective(committed, lanes),
             edit' = Idle, Dispatched(c, e)
      PROVE  TypeInv' /\ ShownIsProjected'
    <2>1. e \in States
        BY <1>0, <1>4, <1>5
    <2>2. /\ committed' \in States /\ lanes' \in Lanes
          /\ \/ shown' = e /\ committed' = committed /\ lanes' = lanes
             \/ shown' = Effective(committed', lanes')
        BY <1>5, <2>1, DispatchedKeeps
    <2>3. CASE shown' = Effective(committed', lanes')
        BY <1>1, <1>2, <1>5, <2>2, <2>3
    <2>4. CASE shown' = e /\ committed' = committed /\ lanes' = lanes /\ e = Effective(committed, lanes)
        BY <1>1, <1>2, <1>5, <2>2, <2>4
    <2>5. CASE shown' = shown /\ committed' = committed /\ lanes' = lanes /\ edit = Idle
        BY <1>3, <1>5, <2>5
    <2> QED
        BY <1>5, <2>2, <2>3, <2>4, <2>5
<1>6. ASSUME NEW c \in Commands, Dispatch(c)
      PROVE  TypeInv' /\ ShownIsProjected'
    <2> DEFINE e == IF edit.active THEN Effective(committed, lanes) ELSE shown
    <2>1. edit' = Idle /\ Dispatched(c, e)
        BY <1>6 DEF Dispatch
    <2>2. e \in {Effective(committed, lanes), shown} /\ c \in StoreCommands
          /\ (e = shown => edit = Idle \/ shown = Effective(committed, lanes))
        BY <1>0, <1>4
    <2> HIDE DEF e
    <2> QED
        BY <1>5, <2>1, <2>2
<1>7. ASSUME UndoEdit \/ CancelEdit
      PROVE  TypeInv' /\ ShownIsProjected'
    BY <1>0, <1>1, <1>2, <1>7 DEF UndoEdit, CancelEdit
<1>8. ASSUME NEW t \in Times, MoveTime(t)
      PROVE  TypeInv' /\ ShownIsProjected'
    <2> DEFINE at == AtMost(t, shown.timeline.duration)
    <2>1. /\ lanes' = Normalized([lanes EXCEPT !.time = at], committed)
          /\ shown' = Projected(committed, lanes', edit) /\ UNCHANGED <<committed, edit>>
        BY <1>8 DEF MoveTime
    <2>2. at \in Nat
        BY <1>0, AtMostIs, StoreAssumption DEF States, Timelines
    <2> HIDE DEF at
    <2>3. [lanes EXCEPT !.time = at] \in Lanes
        BY <1>0, <2>2 DEF Lanes
    <2> QED
        BY <1>0, <1>1, <2>1, <2>3, NormalizedType
<1>9. ASSUME NEW v \in Viewports, MoveViewport(v.offset, v.zoom)
      PROVE  TypeInv' /\ ShownIsProjected'
    <2> DEFINE e == IF edit.active THEN Effective(committed, lanes) ELSE shown
               moved == [lanes EXCEPT !.offset = v.offset, !.zoom = IF v.zoom = None THEN @ ELSE v.zoom]
               still == e.offset = v.offset /\ (v.zoom = None \/ e.zoom = v.zoom)
    <2>1. /\ edit' = Idle /\ committed' = committed
          /\ lanes' = IF still THEN lanes ELSE Normalized(moved, committed)
          /\ shown' = IF still THEN e ELSE Projected(committed, lanes', Idle)
        BY <1>9 DEF MoveViewport
    <2>2. moved \in Lanes
        BY <1>0 DEF Lanes, Offsets, Zooms
    <2> HIDE DEF moved, still
    <2>3. CASE still /\ edit.active
        BY <1>0, <1>1, <1>2, <2>1, <2>3
    <2>4. CASE still /\ ~edit.active
        BY <1>0, <1>3, <2>1, <2>4
    <2>5. CASE ~still
        <3>1. lanes' \in Lanes /\ shown' = Projected(committed', lanes', edit')
            BY <1>0, <2>1, <2>2, <2>5, NormalizedType
        <3> QED
            BY <1>0, <1>1, <2>1, <3>1, IdleShown
    <2> QED
        BY <2>3, <2>4, <2>5
<1>10. ASSUME CommitTime
       PROVE  TypeInv' /\ ShownIsProjected'
    <2>1. /\ lanes.time # None /\ committed' = SetTime(committed, [time |-> lanes.time])
          /\ lanes' = [lanes EXCEPT !.time = None] /\ UNCHANGED <<edit, shown>>
        BY <1>10 DEF CommitTime
    <2>2. committed' \in States /\ lanes' \in Lanes /\ ShownAs(committed', lanes', edit, shown)
        BY <1>0, <2>1, CommitTimeKeeps
    <2> QED
        BY <1>0, <2>1, <2>2, ShownIsNext DEF TypeInv
<1>11. ASSUME CommitViewport
       PROVE  TypeInv' /\ ShownIsProjected'
    <2>1. /\ committed' = SetViewport(committed,
                 [offset |-> IF lanes.offset = None THEN committed.offset ELSE lanes.offset,
                  zoom |-> lanes.zoom])
          /\ lanes' = [lanes EXCEPT !.offset = None, !.zoom = None] /\ UNCHANGED <<edit, shown>>
        BY <1>11 DEF CommitViewport
    <2>2. committed' \in States /\ lanes' \in Lanes /\ ShownAs(committed', lanes', edit, shown)
        <3>1. PICK o : o = IF lanes.offset = None THEN committed.offset ELSE lanes.offset
            OBVIOUS
        <3>2. o \in Offsets
            BY <1>0, <3>1 DEF States, Lanes
        <3>3. committed' = SetViewport(committed, [offset |-> o, zoom |-> lanes.zoom])
            BY <2>1, <3>1
        <3> QED
            BY <1>0, <2>1, <3>1, <3>2, <3>3, CommitViewportKeeps
    <2> QED
        BY <1>0, <2>1, <2>2, ShownIsNext DEF TypeInv
<1>12. ASSUME BeginEdit
       PROVE  TypeInv' /\ ShownIsProjected'
    BY <1>0, <1>1, <1>12, IdleShown DEF BeginEdit
<1>13. ASSUME NEW c \in Edits, UpdateEdit(c)
       PROVE  TypeInv' /\ ShownIsProjected'
    <2>1. edit' \in AuthoredEdits /\ edit'.active
        BY <1>0, <1>4, <1>13 DEF UpdateEdit, AuthoredEdits
    <2> QED
        BY <1>0, <1>1, <1>13, <2>1 DEF UpdateEdit
<1>14. ASSUME EndEdit
       PROVE  TypeInv' /\ ShownIsProjected'
    <2>1. CASE edit.command = None
        BY <1>0, <1>1, <1>2, <1>14, <2>1 DEF EndEdit
    <2>2. CASE edit.command # None
        <3> DEFINE c == [edit.command EXCEPT !.history = "record"]
                   e == Effective(committed, lanes)
        <3>1. edit' = Idle /\ Dispatched(c, e)
            BY <1>14, <2>2 DEF EndEdit
        <3>2. c \in StoreCommands
            <4>1. PICK b \in ControlCommands : b = edit.command
                BY <1>0, <2>2 DEF AuthoredEdits
            <4>2. PICK h \in {"record", "merge", "skip"} : h = "record"
                OBVIOUS
            <4>3. [b EXCEPT !.history = h] \in ControlCommands
                BY OtherHistory
            <4> QED
                BY <1>4, <4>1, <4>2, <4>3
        <3>3. e = shown => shown = Effective(committed, lanes)
            OBVIOUS
        <3>4. e \in {Effective(committed, lanes), shown}
            OBVIOUS
        <3> HIDE DEF c, e
        <3> QED
            BY <1>5, <3>1, <3>2, <3>3, <3>4
    <2> QED
        BY <2>1, <2>2
<1>15. CASE UNCHANGED vars
    BY <1>0, <1>15, ShownIsNext DEF vars, TypeInv
<1> QED
    BY <1>6, <1>7, <1>8, <1>9, <1>10, <1>11, <1>12, <1>13, <1>14, <1>15 DEF Next, Steps

LEMMA InitShown ==
    ASSUME Init
    PROVE  TypeInv /\ ShownIsProjected
<1>1. committed \in States /\ NoLanes \in Lanes /\ Idle \in AuthoredEdits
    BY FreshType DEF Init, NoLanes, Lanes, Idle, AuthoredEdits
<1>2. shown = Projected(committed, lanes, edit)
    <2>1. Effective(Fresh, NoLanes) = Fresh
        <3>1. \A s \in States : Effective(s, NoLanes) = s
            BY DEF Effective, NoLanes, States, Timelines
        <3> QED
            BY <3>1, FreshType
    <2> QED
        BY <1>1, <2>1, IdleShown, FreshType DEF Init
<1>3. shown \in States /\ ShownAs(committed, lanes, edit, shown)
    BY <1>1, <1>2, ExactShown DEF Init
<1> QED
    BY <1>1, <1>3, ShownIs DEF Init, TypeInv

(***************************************************************************)
(* What is shown is what a new projection of the committed state, the      *)
(* gestures and the edit gives (ToolcraftStateStore's cached effective     *)
(* state), with the two exceptions that the invariant names.               *)
(***************************************************************************)
THEOREM ShownStaysProjected == Spec => []ShownIsProjected
<1>1. Init => TypeInv /\ ShownIsProjected
    BY InitShown
<1>2. TypeInv /\ ShownIsProjected /\ [Next]_vars => TypeInv' /\ ShownIsProjected'
    BY ShownStep
<1> QED
    BY <1>1, <1>2, PTL DEF Spec

(***************************************************************************)
(* Gestures and changes of the document.                                   *)
(***************************************************************************)
SoundPatch(p) ==
    /\ DOMAIN p.before.fields = DOMAIN p.after.fields
    /\ p.reset => "timeline" \in DOMAIN p.before.fields

SoundStack(stack) == \A i \in 1 .. Len(stack) : SoundPatch(stack[i])

OldStack(stack) == \A i \in 1 .. Len(stack) : ~stack[i].new

\* States that differ at most in what gestures move.
Alike(e, s) ==
    /\ e.values = s.values /\ e.item = s.item /\ e.undo = s.undo /\ e.redo = s.redo
    /\ e.timeline = [s.timeline EXCEPT !.time = e.timeline.time]

LEMMA AlikeTimeline ==
    ASSUME NEW e \in States, NEW s \in States, Alike(e, s)
    PROVE  /\ e.timeline.keys = s.timeline.keys /\ e.timeline.selected = s.timeline.selected
           /\ e.timeline.playing = s.timeline.playing /\ e.timeline.duration = s.timeline.duration
BY DEF Alike, States, Timelines

LEMMA AlikeReducer ==
    ASSUME NEW e \in States, NEW s \in States, Alike(e, s), NEW c
    PROVE  /\ Ignored(e, c) <=> Ignored(s, c)
           /\ CommandFields(e, c) = CommandFields(s, c)
BY AlikeTimeline DEF Alike, Ignored, CommandFields, ControlFields

LEMMA EffectiveAlike ==
    ASSUME NEW s \in States, NEW l \in Lanes
    PROVE  Alike(Effective(s, l), s)
<1>1. PICK e : e = Effective(s, l)
    OBVIOUS
<1>2. /\ e \in States /\ e.values = s.values /\ e.item = s.item /\ e.undo = s.undo /\ e.redo = s.redo
      /\ e.timeline = [s.timeline EXCEPT !.time = IF l.time = None THEN s.timeline.time ELSE l.time]
    BY <1>1, EffectiveForm
<1>3. e.timeline = [s.timeline EXCEPT !.time = e.timeline.time]
    BY <1>2 DEF States, Timelines
<1> QED
    BY <1>1, <1>2, <1>3 DEF Alike

\* Without an edit, what is shown differs in the gestures only.
LEMMA IdleAlike ==
    ASSUME NEW s \in States, NEW l \in Lanes, NEW w \in States, ShownAs(s, l, Idle, w)
    PROVE  Alike(w, s)
<1>1. PICK p : p = Effective(s, l)
    OBVIOUS
<1>2. p = Projected(s, l, Idle) /\ ~Follows(s, Idle) /\ p \in States
    BY <1>1, IdleShown, EffectiveForm DEF Follows, Idle
<1>3. [w EXCEPT !.timeline = p.timeline] = p /\ w.timeline = [p.timeline EXCEPT !.time = w.timeline.time]
    BY <1>2 DEF ShownAs
<1>4. w.values = p.values /\ w.item = p.item /\ w.undo = p.undo /\ w.redo = p.redo
    BY <1>3 DEF States
<1>5. Alike(p, s)
    BY <1>1, EffectiveAlike
<1>6. w.timeline = [s.timeline EXCEPT !.time = w.timeline.time]
    <2>1. p.timeline = [s.timeline EXCEPT !.time = p.timeline.time]
        BY <1>5 DEF Alike
    <2>2. [p.timeline EXCEPT !.time = w.timeline.time] = [s.timeline EXCEPT !.time = w.timeline.time]
        BY <2>1
    <2> QED
        BY <1>3, <2>2
<1> QED
    BY <1>4, <1>5, <1>6 DEF Alike

(* Stacks *)

LEMMA SameSequence ==
    ASSUME NEW a \in Seq(Patches), NEW b \in Seq(Patches), Len(a) = Len(b),
           \A i \in 1 .. Len(a) : a[i] = b[i]
    PROVE  a = b
OBVIOUS

LEMMA MergedStackLength ==
    ASSUME NEW es \in Seq(Patches), NEW cs \in Seq(Patches), NEW s \in States, NEW t \in States
    PROVE  /\ MergedStack(es, cs, s, t) \in Seq(Patches)
           /\ Len(MergedStack(es, cs, s, t)) = (IF Len(es) >= Len(cs) THEN Len(es) ELSE Len(cs))
           /\ Len(es) = Len(cs) => Len(MergedStack(es, cs, s, t)) = Len(es)
<1>1. MergedStack(es, cs, s, t) \in Seq(Patches)
    BY MergedStackType
<1>2. DOMAIN MergedStack(es, cs, s, t) = 1 .. IF Len(es) >= Len(cs) THEN Len(es) ELSE Len(cs)
    BY DEF MergedStack
<1>3. Len(es) \in Nat /\ Len(cs) \in Nat
    OBVIOUS
<1> QED
    BY <1>1, <1>2, <1>3

LEMMA OldMerged ==
    ASSUME NEW stack \in Seq(Patches), OldStack(stack), NEW s \in States, NEW t \in States
    PROVE  MergedStack(stack, stack, s, t) = stack /\ Settled(stack) = stack
<1>1. PICK m : m = MergedStack(stack, stack, s, t)
    OBVIOUS
<1>2. /\ m \in Seq(Patches) /\ Len(m) = Len(stack)
      /\ \A i \in 1 .. Len(stack) : m[i] = stack[i]
    <2>1. \A i \in 1 .. Len(stack) : ~stack[i].new
        BY DEF OldStack
    <2>2. m \in Seq(Patches) /\ Len(m) = Len(stack)
        BY <1>1, MergedStackLength
    <2>3. ASSUME NEW i \in 1 .. Len(stack) PROVE m[i] = stack[i]
        BY <1>1, <2>1, MergedStackOld
    <2> QED
        BY <2>2, <2>3
<1>3. m = stack
    BY <1>2, SameSequence
<1>4. \A p \in Patches : p.new = FALSE => [p EXCEPT !.new = FALSE] = p
    BY DEF Patches
<1>5. \A i \in 1 .. Len(stack) : stack[i] \in Patches /\ stack[i].new = FALSE
    <2>1. \A i \in 1 .. Len(stack) : stack[i] \in Patches /\ ~stack[i].new
        BY DEF OldStack
    <2>2. \A p \in Patches : ~p.new => p.new = FALSE
        BY DEF Patches
    <2> QED
        BY <2>1, <2>2
<1>6. \A i \in 1 .. Len(stack) : Settled(stack)[i] = stack[i]
    BY <1>4, <1>5, SettledForm
<1>7. Settled(stack) = stack
    BY <1>6, SettledForm, SameSequence
<1> QED
    BY <1>1, <1>3, <1>7

LEMMA EmptyMerged ==
    ASSUME NEW s \in States, NEW t \in States
    PROVE  MergedStack(<<>>, <<>>, s, t) = <<>> /\ Settled(<<>>) = <<>>
<1>1. <<>> \in Seq(Patches) /\ OldStack(<<>>)
    BY DEF OldStack
<1> QED
    BY <1>1, OldMerged

LEMMA SettledSound ==
    ASSUME NEW stack \in Seq(Patches), SoundStack(stack)
    PROVE  SoundStack(Settled(stack)) /\ OldStack(Settled(stack))
<1>1. PICK m : m = Settled(stack)
    OBVIOUS
<1>2. /\ Len(m) = Len(stack)
      /\ \A i \in 1 .. Len(stack) :
            /\ m[i].before = stack[i].before /\ m[i].after = stack[i].after
            /\ m[i].reset = stack[i].reset /\ ~m[i].new
    BY <1>1, SettledForm
<1>3. SoundStack(m) /\ OldStack(m)
    BY <1>2 DEF SoundStack, SoundPatch, OldStack
<1> QED
    BY <1>1, <1>3

LEMMA MergedSound ==
    ASSUME NEW es \in Seq(Patches), NEW cs \in Seq(Patches), NEW s \in States, NEW t \in States,
           SoundStack(es), SoundStack(cs)
    PROVE  SoundStack(MergedStack(es, cs, s, t))
<1>1. ASSUME NEW p \in Patches, SoundPatch(p)
      PROVE  SoundPatch(MergedNew(p, s, t))
    <2>1. s.timeline.time \in Nat /\ t.timeline.time \in Nat
        BY DEF States, Timelines
    <2>2. \A side \in Sides, time \in Nat : DOMAIN AtTime(side, time).fields = DOMAIN side.fields
        BY AtTimeForm
    <2>3. /\ DOMAIN MergedNew(p, s, t).before.fields = DOMAIN p.before.fields
          /\ DOMAIN MergedNew(p, s, t).after.fields = DOMAIN p.after.fields
          /\ MergedNew(p, s, t).reset = p.reset
        <3>1. PICK q : q = MergedNew(p, s, t)
            OBVIOUS
        <3>2. /\ q.before \in {p.before, AtTime(p.before, s.timeline.time)}
              /\ q.after \in {p.after, AtTime(p.after, t.timeline.time)}
              /\ q.reset = p.reset
            BY <3>1, MergedNewForm
        <3>3. p.before \in Sides /\ p.after \in Sides
            BY DEF Patches
        <3> QED
            BY <2>1, <2>2, <3>1, <3>2, <3>3
    <2> QED
        BY <1>1, <2>3 DEF SoundPatch
<1>2. ASSUME NEW i \in 1 .. Len(MergedStack(es, cs, s, t))
      PROVE  \E p \in Patches : SoundPatch(p) /\ MergedStack(es, cs, s, t)[i] \in {p, MergedNew(p, s, t)}
    <2>1. Len(MergedStack(es, cs, s, t)) = (IF Len(es) >= Len(cs) THEN Len(es) ELSE Len(cs))
        BY MergedStackLength
    <2>2. i \in 1 .. (IF Len(es) >= Len(cs) THEN Len(es) ELSE Len(cs))
        BY <2>1
    <2>3. MergedStack(es, cs, s, t)[i] =
          CASE i <= Len(es) /\ (es[i].new \/ i > Len(cs) \/ ~cs[i].new) ->
                  IF es[i].new THEN MergedNew(es[i], s, t) ELSE es[i]
            [] OTHER -> IF cs[i].new THEN MergedNew(cs[i], s, t) ELSE cs[i]
        BY <2>2 DEF MergedStack
    <2>4. CASE i <= Len(es) /\ (es[i].new \/ i > Len(cs) \/ ~cs[i].new)
        <3>1. es[i] \in Patches /\ SoundPatch(es[i])
            BY <2>2, <2>4 DEF SoundStack
        <3> QED
            BY <2>3, <2>4, <3>1
    <2>5. CASE ~(i <= Len(es) /\ (es[i].new \/ i > Len(cs) \/ ~cs[i].new))
        <3>1. i \in 1 .. Len(cs)
            BY <2>2, <2>5
        <3>2. cs[i] \in Patches /\ SoundPatch(cs[i])
            BY <3>1 DEF SoundStack
        <3> QED
            BY <2>3, <2>5, <3>2
    <2> QED
        BY <2>4, <2>5
<1> QED
    BY <1>1, <1>2 DEF SoundStack

LEMMA NewPatchSound ==
    ASSUME NEW s \in States, NEW t \in States, NEW targets \in SUBSET Targets, NEW fields \in SUBSET Fields,
           NEW group \in STRING \cup {None}, NEW reset \in BOOLEAN, reset => fields = Fields
    PROVE  /\ NewPatch(s, t, targets, fields, group, reset) \in Patches
           /\ SoundPatch(NewPatch(s, t, targets, fields, group, reset))
           /\ NewPatch(s, t, targets, fields, group, reset).new
           /\ DOMAIN NewPatch(s, t, targets, fields, group, reset).before.fields = fields
           /\ NewPatch(s, t, targets, fields, group, reset).group = group
<1>0. PICK p : p = NewPatch(s, t, targets, fields, group, reset)
    OBVIOUS
<1>1. p \in Patches
    BY <1>0, NewPatchType
<1>2. /\ p.before = Side(s, targets, fields) /\ p.after = Side(t, targets, fields)
      /\ p.group = group /\ p.reset = reset /\ p.new = TRUE
    BY <1>0, Zenon DEF NewPatch
<1>3. DOMAIN p.before.fields = fields /\ DOMAIN p.after.fields = fields
    <2>1. ASSUME NEW u \in States PROVE DOMAIN Side(u, targets, fields).fields = fields
        <3>1. Side(u, targets, fields).fields = [f \in fields |-> u[f]]
            BY SideType
        <3> QED
            BY <3>1
    <2> QED
        BY <1>2, <2>1
<1> QED
    BY <1>0, <1>1, <1>2, <1>3 DEF SoundPatch, Fields

\* A recorded patch is on top of the stack, alone or merged.
LEMMA RecordedTop ==
    ASSUME NEW s \in States, NEW p \in Patches, SoundPatch(p), SoundStack(s.undo)
    PROVE  /\ Recorded(s, p) \in States /\ SameFields(Recorded(s, p), s)
           /\ Recorded(s, p).redo = <<>>
           /\ Len(Recorded(s, p).undo) = Len(s.undo) + (IF Merges(s, p) THEN 0 ELSE 1)
           /\ Len(Recorded(s, p).undo) \in Nat \ {0}
           /\ Last(Recorded(s, p).undo).new = p.new
           /\ DOMAIN p.before.fields \subseteq DOMAIN Last(Recorded(s, p).undo).before.fields
           /\ SoundStack(Recorded(s, p).undo)
<1>1. PICK r : r = Recorded(s, p)
    OBVIOUS
<1>2. /\ r \in States /\ \E stack \in Seq(Patches) : r = [s EXCEPT !.undo = stack, !.redo = <<>>]
      /\ r.undo = IF Merges(s, p) THEN Append(Front(s.undo), MergedPatch(Last(s.undo), p))
                                  ELSE Append(s.undo, p)
    BY <1>1, RecordedType
<1>3. SameFields(r, s) /\ r.redo = <<>>
    BY <1>2 DEF States, SameFields
<1>4. s.undo \in Seq(Patches)
    BY DEF States
<1>5. ASSUME NEW front \in Seq(Patches), NEW q \in Patches, SoundStack(front), SoundPatch(q),
             r.undo = Append(front, q)
      PROVE  /\ Len(r.undo) = Len(front) + 1 /\ Last(r.undo) = q /\ SoundStack(r.undo)
    BY <1>5 DEF Last, SoundStack
<1>6. CASE Merges(s, p)
    <2>1. /\ Last(s.undo) \in Patches /\ Front(s.undo) \in Seq(Patches)
          /\ Last(s.undo) = s.undo[Len(s.undo)] /\ Len(s.undo) \in Nat \ {0}
          /\ Len(Front(s.undo)) = Len(s.undo) - 1
          /\ \A i \in 1 .. Len(s.undo) - 1 : Front(s.undo)[i] = s.undo[i]
        BY <1>4, <1>6, StackTypes DEF Merges
    <2>2. SoundStack(Front(s.undo)) /\ SoundPatch(Last(s.undo))
        BY <2>1 DEF SoundStack
    <2>3. PICK prev \in Patches : prev = Last(s.undo)
        BY <2>1
    <2>4. PICK q : q = MergedPatch(prev, p)
        OBVIOUS
    <2>5. /\ q \in Patches /\ q.new = p.new /\ q.reset = p.reset
          /\ DOMAIN q.before.fields = DOMAIN prev.before.fields \cup DOMAIN p.before.fields
          /\ DOMAIN q.after.fields = DOMAIN prev.after.fields \cup DOMAIN p.after.fields
        <3>1. q \in Patches
            BY <2>4, MergedType
        <3>2. q = [p EXCEPT
                      !.before = [values |-> Over(prev.before.values, p.before.values),
                                  fields |-> Over(prev.before.fields, p.before.fields)],
                      !.after = [values |-> Over(p.after.values, prev.after.values),
                                 fields |-> Over(p.after.fields, prev.after.fields)]]
            BY <2>4 DEF MergedPatch, Patches
        <3>3. /\ q.new = p.new /\ q.reset = p.reset
              /\ q.before.fields = Over(prev.before.fields, p.before.fields)
              /\ q.after.fields = Over(p.after.fields, prev.after.fields)
            BY <3>2 DEF Patches
        <3> QED
            BY <3>1, <3>3 DEF Over
    <2>6. SoundPatch(q)
        BY <2>2, <2>3, <2>5 DEF SoundPatch
    <2>7. r.undo = Append(Front(s.undo), q)
        BY <1>2, <1>6, <2>3, <2>4
    <2>8. /\ Len(r.undo) = Len(Front(s.undo)) + 1 /\ Last(r.undo) = q /\ SoundStack(r.undo)
        BY <1>5, <2>1, <2>2, <2>5, <2>6, <2>7
    <2> QED
        BY <1>1, <1>2, <1>3, <1>6, <2>1, <2>5, <2>8
<1>7. CASE ~Merges(s, p)
    BY <1>1, <1>2, <1>3, <1>4, <1>5, <1>7
<1> QED
    BY <1>6, <1>7

(* A command dispatched from the committed state s and the shown state e. *)

NextOf(s, e, l, c) ==
    Published(IF l = NoLanes THEN Reduce(s, c)
              ELSE MergedState(s, Reduce(s, c), Reduce(e, c),
                               Touched(s, e, Reduce(s, c), Reduce(e, c), c)))

KeptOf(s, e, l, c) ==
    [f \in DOMAIN l |-> IF f \in Touched(s, e, Reduce(s, c), Reduce(e, c), c) THEN None ELSE l[f]]

LanesOf(s, e, l, c) == IF l = NoLanes THEN l ELSE Normalized(KeptOf(s, e, l, c), NextOf(s, e, l, c))

LEMMA DispatchedIs ==
    ASSUME NEW c, NEW e, Dispatched(c, e)
    PROVE  \/ /\ Ignored(committed, c) /\ (lanes = NoLanes \/ Ignored(e, c))
              /\ shown' = e /\ committed' = committed /\ lanes' = lanes
           \/ /\ ~(Ignored(committed, c) /\ (lanes = NoLanes \/ Ignored(e, c)))
              /\ committed' = NextOf(committed, e, lanes, c)
              /\ lanes' = LanesOf(committed, e, lanes, c)
              /\ shown' = Effective(committed', lanes')
BY DEF Dispatched, NextOf, KeptOf, LanesOf

LEMMA KeptType ==
    ASSUME NEW l \in Lanes, NEW touched
    PROVE  LET kept == [f \in DOMAIN l |-> IF f \in touched THEN None ELSE l[f]]
           IN  kept \in Lanes /\ (touched = {} => kept = l)
<1> DEFINE kept == [f \in DOMAIN l |-> IF f \in touched THEN None ELSE l[f]]
<1>1. kept = [time |-> kept.time, offset |-> kept.offset, zoom |-> kept.zoom]
    BY DEF Lanes
<1>2. kept.time \in {None, l.time} /\ kept.offset \in {None, l.offset} /\ kept.zoom \in {None, l.zoom}
    BY DEF Lanes
<1>3. touched = {} => kept = l
    BY DEF Lanes
<1> HIDE DEF kept
<1>4. kept \in Lanes
    BY <1>1, <1>2 DEF Lanes
<1> QED
    BY <1>3, <1>4 DEF kept

LEMMA NextType ==
    ASSUME NEW s \in States, NEW e \in States, NEW l \in Lanes, NEW c \in StoreCommands
    PROVE  NextOf(s, e, l, c) \in States /\ KeptOf(s, e, l, c) \in Lanes /\ LanesOf(s, e, l, c) \in Lanes
<1>1. /\ Reduce(s, c) \in States
      /\ MergedState(s, Reduce(s, c), Reduce(e, c), Touched(s, e, Reduce(s, c), Reduce(e, c), c)) \in States
    BY ReduceType, MergedStateForm
<1>2. NextOf(s, e, l, c) \in States
    BY <1>1, PublishedForm DEF NextOf
<1>3. KeptOf(s, e, l, c) \in Lanes
    BY KeptType DEF KeptOf
<1> QED
    BY <1>2, <1>3, NormalizedType DEF LanesOf

\* No lane shows what is committed.
LanesApart(l, s) == l.time # s.timeline.time /\ l.offset # s.offset /\ l.zoom # s.zoom

LEMMA NormalizedApart ==
    ASSUME NEW s \in States, NEW l
    PROVE  LanesApart(Normalized(l, s), s)
BY StoreAssumption DEF LanesApart, Normalized, States, Timelines

LEMMA NoLanesApart ==
    ASSUME NEW s \in States
    PROVE  LanesApart(NoLanes, s)
BY StoreAssumption DEF LanesApart, NoLanes, States, Timelines

LEMMA NormalizedSame ==
    ASSUME NEW l \in Lanes, NEW s, LanesApart(l, s)
    PROVE  Normalized(l, s) = l
BY DEF LanesApart, Normalized, Lanes

LEMMA LanesStayApart ==
    ASSUME NEW s \in States, NEW e \in States, NEW l \in Lanes, NEW c \in StoreCommands
    PROVE  LanesApart(LanesOf(s, e, l, c), NextOf(s, e, l, c))
BY NextType, NormalizedApart, NoLanesApart DEF LanesOf

SameMoved(s, t) ==
    s.timeline.time = t.timeline.time /\ s.offset = t.offset /\ s.zoom = t.zoom

\* A command that moves neither state ends no gesture.
LEMMA StillMoved ==
    ASSUME NEW s \in States, NEW e \in States, NEW l \in Lanes, NEW c \in StoreCommands,
           LanesApart(l, s),
           SameMoved(Reduce(s, c), s), SameMoved(Reduce(e, c), e),
           Reduce(e, c).timeline.playing = e.timeline.playing,
           NEW p, p = AppliedPatch(s, c),
           p = None \/ (~p.reset /\ "timeline" \notin DOMAIN p.before.fields)
    PROVE  Moved(NextOf(s, e, l, c)) = Moved(s) /\ LanesOf(s, e, l, c) = l
<1>1. PICK s2 : s2 = Reduce(s, c)
    OBVIOUS
<1>2. PICK e2 : e2 = Reduce(e, c)
    OBVIOUS
<1>3. s2 \in States /\ e2 \in States
    BY <1>1, <1>2, ReduceType
<1>4. PICK touched : touched = Touched(s, e, s2, e2, c)
    OBVIOUS
<1>5. touched = {}
    <2>1. ~(e.timeline.playing /\ ~e2.timeline.playing)
        BY <1>2
    <2>2. /\ s.offset = s2.offset /\ s.zoom = s2.zoom /\ e.offset = e2.offset /\ e.zoom = e2.zoom
          /\ s.timeline.time = s2.timeline.time /\ e.timeline.time = e2.timeline.time
        BY <1>1, <1>2 DEF SameMoved
    <2>3. {f \in {"offset", "zoom"} : s[f] # s2[f] \/ e[f] # e2[f]} = {}
        BY <2>2
    <2> QED
        BY <1>4, <2>1, <2>2, <2>3 DEF Touched, PatchMovesTime
<1>6. PICK m : m = IF l = NoLanes THEN s2 ELSE MergedState(s, s2, e2, touched)
    OBVIOUS
<1>7. m \in States /\ Moved(m) = Moved(s)
    <2>1. CASE l = NoLanes
        BY <1>1, <1>3, <1>6, <2>1 DEF SameMoved, Moved
    <2>2. CASE l # NoLanes
        <3>1. /\ m \in States
              /\ m.timeline.time = (IF "time" \in touched THEN e2.timeline.time ELSE s2.timeline.time)
              /\ m.offset = (IF "offset" \in touched THEN e2.offset ELSE s2.offset)
              /\ m.zoom = (IF "zoom" \in touched THEN e2.zoom ELSE s2.zoom)
            <4>1. m = MergedState(s, s2, e2, touched)
                BY <1>6, <2>2
            <4>2. /\ MergedState(s, s2, e2, touched) \in States
                  /\ MergedState(s, s2, e2, touched).timeline.time
                     = (IF "time" \in touched THEN e2.timeline.time ELSE s2.timeline.time)
                  /\ MergedState(s, s2, e2, touched).offset
                     = (IF "offset" \in touched THEN e2.offset ELSE s2.offset)
                  /\ MergedState(s, s2, e2, touched).zoom
                     = (IF "zoom" \in touched THEN e2.zoom ELSE s2.zoom)
                BY <1>3, MergedStateForm
            <4> QED
                BY <4>1, <4>2
        <3>2. m.timeline.time = s2.timeline.time /\ m.offset = s2.offset /\ m.zoom = s2.zoom
            BY <1>3, <1>5, <3>1 DEF States, Timelines
        <3> QED
            BY <1>1, <3>1, <3>2 DEF SameMoved, Moved
    <2> QED
        BY <2>1, <2>2
<1>8. PICK n : n = NextOf(s, e, l, c)
    OBVIOUS
<1>9. n = Published(m)
    BY <1>1, <1>2, <1>4, <1>6, <1>8 DEF NextOf
<1>10. n \in States /\ Moved(n) = Moved(s)
    BY <1>7, <1>9, PublishedForm DEF SameFields, Moved
<1>11. KeptOf(s, e, l, c) = l
    BY <1>1, <1>2, <1>4, <1>5, KeptType DEF KeptOf
<1>12. LanesApart(l, n)
    BY <1>10 DEF LanesApart, Moved
<1> QED
    BY <1>8, <1>10, <1>11, <1>12, NormalizedSame DEF LanesOf

\* Stacks on which the command puts no patch of its own.
LEMMA OldNext ==
    ASSUME NEW s \in States, NEW e \in States, NEW l \in Lanes, NEW c \in StoreCommands,
           Reduce(e, c).undo = Reduce(s, c).undo, Reduce(e, c).redo = Reduce(s, c).redo,
           OldStack(Reduce(s, c).undo), OldStack(Reduce(s, c).redo)
    PROVE  NextOf(s, e, l, c).undo = Reduce(s, c).undo /\ NextOf(s, e, l, c).redo = Reduce(s, c).redo
<1>1. PICK s2 : s2 = Reduce(s, c)
    OBVIOUS
<1>2. PICK e2 : e2 = Reduce(e, c)
    OBVIOUS
<1>3. /\ s2 \in States /\ e2 \in States /\ s2.undo \in Seq(Patches) /\ s2.redo \in Seq(Patches)
      /\ OldStack(s2.undo) /\ OldStack(s2.redo) /\ e2.undo = s2.undo /\ e2.redo = s2.redo
    BY <1>1, <1>2, ReduceType DEF States
<1>4. PICK touched : touched = Touched(s, e, s2, e2, c)
    OBVIOUS
<1>5. PICK m : m = IF l = NoLanes THEN s2 ELSE MergedState(s, s2, e2, touched)
    OBVIOUS
<1>6. m \in States /\ m.undo = s2.undo /\ m.redo = s2.redo
    <2>1. CASE l = NoLanes
        BY <1>3, <1>5, <2>1
    <2>2. CASE l # NoLanes
        <3>1. m \in States /\ \E t \in States : /\ m.undo = MergedStack(e2.undo, s2.undo, s, t)
                                                /\ m.redo = MergedStack(e2.redo, s2.redo, s, t)
            <4>1. m = MergedState(s, s2, e2, touched)
                BY <1>5, <2>2
            <4>2. /\ MergedState(s, s2, e2, touched) \in States
                  /\ \E t \in States :
                        /\ MergedState(s, s2, e2, touched).undo = MergedStack(e2.undo, s2.undo, s, t)
                        /\ MergedState(s, s2, e2, touched).redo = MergedStack(e2.redo, s2.redo, s, t)
                BY <1>3, MergedStateForm
            <4> QED
                BY <4>1, <4>2
        <3> QED
            BY <1>3, <3>1, OldMerged
    <2> QED
        BY <2>1, <2>2
<1>7. NextOf(s, e, l, c) = Published(m)
    BY <1>1, <1>2, <1>4, <1>5 DEF NextOf
<1>8. PICK n : n = Published(m)
    OBVIOUS
<1>9. n.undo = s2.undo /\ n.redo = s2.redo
    BY <1>3, <1>6, <1>8, PublishedForm, OldMerged
<1> QED
    BY <1>1, <1>7, <1>8, <1>9

\* A command that is neither recorded nor goes back or forth.
Silent(c) == c.type \in Quiet \/ (c \in ControlCommands /\ c.history = "skip")

LEMMA SilentReduced ==
    ASSUME NEW s \in States, NEW c \in StoreCommands, Silent(c)
    PROVE  Reduce(s, c).undo = s.undo /\ Reduce(s, c).redo = s.redo
<1>1. CASE c.type \in Quiet
    BY <1>1, QuietReduced
<1>2. CASE c \in ControlCommands /\ c.history = "skip"
    BY <1>2, SkipReduced, WithControlType
<1> QED
    BY <1>1, <1>2 DEF Silent

LEMMA CommandKinds ==
    ASSUME NEW c \in StoreCommands
    PROVE  Silent(c) \/ Recordable(c) \/ c.type = "undo" \/ c.type = "redo"
BY CommandForms DEF Silent, Recordable, Records, Quiet

MergesWith(undo, group) == group # None /\ undo # <<>> /\ Last(undo).group = group

LEMMA RecordsTop ==
    ASSUME NEW s \in States, NEW c \in StoreCommands, NEW t, RecordsFrom(s, c, t), SoundStack(s.undo)
    PROVE  /\ t \in States /\ t.redo = <<>> /\ SoundStack(t.undo)
           /\ Len(t.undo) = Len(s.undo) + (IF MergesWith(s.undo, CommandGroup(c)) THEN 0 ELSE 1)
           /\ Len(t.undo) \in Nat \ {0} /\ Last(t.undo).new
           /\ CommandFields(s, c) \subseteq DOMAIN Last(t.undo).before.fields
           /\ CommandFields(s, c) \subseteq {"item"}
              => t.timeline = s.timeline /\ t.offset = s.offset /\ t.zoom = s.zoom
<1>1. PICK fields : fields = CommandFields(s, c)
    OBVIOUS
<1>2. PICK base \in States, targets \in SUBSET Targets : Recording(s, c, base, targets, fields, t)
    BY <1>1 DEF RecordsFrom
<1>3. /\ base.undo = s.undo /\ fields \in SUBSET Fields /\ ContentCovered(s, base, targets, fields)
    BY <1>2 DEF Recording
<1>4. PICK reset \in BOOLEAN :
          /\ reset => fields = Fields
          /\ t = Recorded(base, NewPatch(s, base, targets, fields, CommandGroup(c), reset))
    BY <1>2 DEF Recording
<1>5. PICK p : p = NewPatch(s, base, targets, fields, CommandGroup(c), reset)
    OBVIOUS
<1>6. /\ p \in Patches /\ SoundPatch(p) /\ p.new /\ DOMAIN p.before.fields = fields
      /\ p.group = CommandGroup(c)
    <2>1. PICK fs \in SUBSET Fields, group \in STRING \cup {None} : fs = fields /\ group = CommandGroup(c)
        BY <1>3, GroupType
    <2>2. reset => fs = Fields
        BY <1>4, <2>1
    <2>3. PICK q : q = NewPatch(s, base, targets, fs, group, reset)
        OBVIOUS
    <2>4. q \in Patches /\ SoundPatch(q) /\ q.new /\ DOMAIN q.before.fields = fs /\ q.group = group
        BY <2>2, <2>3, NewPatchSound
    <2>5. p = q
        BY <1>5, <2>1, <2>3
    <2> QED
        BY <2>1, <2>4, <2>5
<1>7. PICK r : r = Recorded(base, p)
    OBVIOUS
<1>8. r = t
    BY <1>4, <1>5, <1>7
<1>9. /\ r \in States /\ SameFields(r, base) /\ r.redo = <<>>
      /\ Len(r.undo) = Len(base.undo) + (IF Merges(base, p) THEN 0 ELSE 1)
      /\ Len(r.undo) \in Nat \ {0} /\ Last(r.undo).new = p.new
      /\ DOMAIN p.before.fields \subseteq DOMAIN Last(r.undo).before.fields
      /\ SoundStack(r.undo)
    <2>1. SoundStack(base.undo)
        BY <1>3
    <2> QED
        BY <1>6, <1>7, <2>1, RecordedTop
<1>10. Merges(base, p) <=> MergesWith(s.undo, CommandGroup(c))
    BY <1>3, <1>6 DEF Merges, MergesWith
<1>11. fields \subseteq {"item"} => r.timeline = s.timeline /\ r.offset = s.offset /\ r.zoom = s.zoom
    BY <1>3, <1>9 DEF ContentCovered, SameFields
<1> QED
    BY <1>1, <1>3, <1>6, <1>8, <1>9, <1>10, <1>11

\* The patch a dispatched command puts on top of the stack carries its fields.
LEMMA RecordedNext ==
    ASSUME NEW s \in States, NEW e \in States, NEW l \in Lanes, NEW c \in StoreCommands,
           Alike(e, s), SoundStack(s.undo), ~Ignored(s, c), Recordable(c),
           NEW n, n = NextOf(s, e, l, c)
    PROVE  /\ n \in States /\ n.redo = <<>> /\ Len(n.undo) \in Nat \ {0}
           /\ CommandFields(s, c) \subseteq DOMAIN n.undo[Len(n.undo)].before.fields
<1>1. PICK s2 : s2 = Reduce(s, c)
    OBVIOUS
<1>2. PICK e2 : e2 = Reduce(e, c)
    OBVIOUS
<1>3. ~Ignored(e, c) /\ CommandFields(e, c) = CommandFields(s, c) /\ e.undo = s.undo
    BY AlikeReducer DEF Alike
<1>4. PICK k : k = Len(s.undo) + (IF MergesWith(s.undo, CommandGroup(c)) THEN 0 ELSE 1)
    OBVIOUS
<1>5. /\ s2 \in States /\ s2.redo = <<>> /\ Len(s2.undo) = k /\ k \in Nat \ {0} /\ Last(s2.undo).new
      /\ CommandFields(s, c) \subseteq DOMAIN Last(s2.undo).before.fields
    <2>1. RecordsFrom(s, c, s2)
        BY <1>1, RecordedReduces
    <2> QED
        BY <1>4, <2>1, RecordsTop
<1>6. /\ e2 \in States /\ e2.redo = <<>> /\ Len(e2.undo) = k /\ Last(e2.undo).new
      /\ CommandFields(s, c) \subseteq DOMAIN Last(e2.undo).before.fields
    <2>1. RecordsFrom(e, c, e2) /\ SoundStack(e.undo)
        BY <1>2, <1>3, RecordedReduces
    <2>2. /\ e2 \in States /\ e2.redo = <<>> /\ Last(e2.undo).new
          /\ Len(e2.undo) = Len(e.undo) + (IF MergesWith(e.undo, CommandGroup(c)) THEN 0 ELSE 1)
          /\ CommandFields(e, c) \subseteq DOMAIN Last(e2.undo).before.fields
        BY <2>1, RecordsTop
    <2> QED
        BY <1>3, <1>4, <2>2
<1>7. PICK touched : touched = Touched(s, e, s2, e2, c)
    OBVIOUS
<1>8. PICK m : m = IF l = NoLanes THEN s2 ELSE MergedState(s, s2, e2, touched)
    OBVIOUS
<1>9. /\ m \in States /\ m.redo = <<>> /\ Len(m.undo) = k
      /\ CommandFields(s, c) \subseteq DOMAIN m.undo[k].before.fields
    <2>1. CASE l = NoLanes
        BY <1>5, <1>8, <2>1 DEF Last
    <2>2. CASE l # NoLanes
        <3>1. m = MergedState(s, s2, e2, touched)
            BY <1>8, <2>2
        <3>2. m \in States /\ \E t \in States : /\ m.undo = MergedStack(e2.undo, s2.undo, s, t)
                                                /\ m.redo = MergedStack(e2.redo, s2.redo, s, t)
            BY <1>5, <1>6, <3>1, MergedStateForm
        <3>3. PICK t \in States : /\ m.undo = MergedStack(e2.undo, s2.undo, s, t)
                                  /\ m.redo = MergedStack(e2.redo, s2.redo, s, t)
            BY <3>2
        <3>4. m.redo = <<>>
            BY <1>5, <1>6, <3>3, EmptyMerged
        <3>5. e2.undo \in Seq(Patches) /\ s2.undo \in Seq(Patches)
            BY <1>5, <1>6 DEF States
        <3>6. e2.undo[k] \in Patches /\ e2.undo[k].new /\ e2.undo[k] = Last(e2.undo)
            BY <1>5, <1>6, <3>5 DEF Last
        <3>7. Len(m.undo) = k /\ m.undo[k] = MergedNew(e2.undo[k], s, t)
            <4>1. PICK u \in Seq(Patches), v \in Seq(Patches) : u = e2.undo /\ v = s2.undo
                BY <3>5
            <4>2. Len(u) = k /\ Len(v) = k /\ k \in 1 .. Len(u) /\ u[k].new
                BY <1>5, <1>6, <3>6, <4>1
            <4>3. Len(MergedStack(u, v, s, t)) = k
                BY <4>2, MergedStackLength
            <4>4. MergedStack(u, v, s, t)[k] = MergedNew(u[k], s, t)
                BY <4>2, MergedStackNew
            <4> QED
                BY <3>3, <4>1, <4>3, <4>4
        <3>8. DOMAIN MergedNew(e2.undo[k], s, t).before.fields = DOMAIN e2.undo[k].before.fields
            <4>1. PICK q \in Patches : q = e2.undo[k]
                BY <3>6
            <4>2. MergedNew(q, s, t).before \in {q.before, AtTime(q.before, s.timeline.time)}
                BY MergedNewForm
            <4>3. q.before \in Sides /\ s.timeline.time \in Nat
                BY DEF Patches, States, Timelines
            <4>4. DOMAIN AtTime(q.before, s.timeline.time).fields = DOMAIN q.before.fields
                BY <4>3, AtTimeForm
            <4> QED
                BY <4>1, <4>2, <4>4
        <3> QED
            BY <1>6, <3>2, <3>4, <3>6, <3>7, <3>8
    <2> QED
        BY <2>1, <2>2
<1>10. n = Published(m)
    BY <1>1, <1>2, <1>7, <1>8 DEF NextOf
<1>11. /\ n \in States /\ n.undo = Settled(m.undo) /\ n.redo = Settled(m.redo)
    BY <1>9, <1>10, PublishedForm
<1>12. m.undo \in Seq(Patches)
    BY <1>9 DEF States
<1>13. Len(n.undo) = k /\ n.undo[k].before = m.undo[k].before /\ n.redo = <<>>
    <2>1. Settled(<<>>) = <<>>
        BY EmptyMerged
    <2>2. k \in 1 .. Len(m.undo)
        BY <1>5, <1>9
    <2> QED
        BY <1>9, <1>11, <1>12, <2>1, <2>2, SettledForm
<1> QED
    BY <1>5, <1>9, <1>11, <1>13

SoundHistory(s) == SoundStack(s.undo) /\ SoundStack(s.redo)
OldHistory(s) == OldStack(s.undo) /\ OldStack(s.redo)

\* A patch moved from the top of one stack to the other.
LEMMA StackMoved ==
    ASSUME NEW a \in Seq(Patches), a # <<>>, NEW b \in Seq(Patches)
    PROVE  /\ Front(a) \in Seq(Patches) /\ Append(b, Last(a)) \in Seq(Patches) /\ Last(a) \in Patches
           /\ SoundStack(a) /\ SoundStack(b)
              => SoundStack(Front(a)) /\ SoundStack(Append(b, Last(a))) /\ SoundPatch(Last(a))
           /\ OldStack(a) /\ OldStack(b) => OldStack(Front(a)) /\ OldStack(Append(b, Last(a)))
           /\ Len(Front(a)) < Len(a) /\ Len(Append(b, Last(a))) > Len(b)
           /\ Last(Append(b, Last(a))) = Last(a)
<1>1. PICK f, p : f = Front(a) /\ p = Last(a)
    OBVIOUS
<1>2. /\ p \in Patches /\ f \in Seq(Patches) /\ p = a[Len(a)] /\ Len(a) \in Nat \ {0}
      /\ Len(f) = Len(a) - 1 /\ \A i \in 1 .. Len(a) - 1 : f[i] = a[i]
    BY <1>1, StackTypes
<1>3. PICK r : r = Append(b, p)
    OBVIOUS
<1>4. /\ r \in Seq(Patches) /\ Len(r) = Len(b) + 1 /\ r[Len(r)] = p
      /\ \A i \in 1 .. Len(b) : r[i] = b[i]
    BY <1>2, <1>3
<1>5. Last(r) = p
    BY <1>4 DEF Last
<1>6. /\ \A i \in 1 .. Len(f) : i \in 1 .. Len(a) /\ f[i] = a[i]
      /\ \A i \in 1 .. Len(r) : r[i] = p \/ (i \in 1 .. Len(b) /\ r[i] = b[i])
      /\ Len(a) \in 1 .. Len(a)
    <2>1. Len(b) \in Nat
        OBVIOUS
    <2> QED
        BY <1>2, <1>4, <2>1
<1>7. SoundStack(a) /\ SoundStack(b) => SoundStack(f) /\ SoundStack(r) /\ SoundPatch(p)
    <2> SUFFICES ASSUME SoundStack(a), SoundStack(b) PROVE SoundStack(f) /\ SoundStack(r) /\ SoundPatch(p)
        OBVIOUS
    <2>1. SoundPatch(p)
        BY <1>2, <1>6 DEF SoundStack
    <2> QED
        BY <1>6, <2>1, Zenon DEF SoundStack
<1>8. OldStack(a) /\ OldStack(b) => OldStack(f) /\ OldStack(r)
    <2> SUFFICES ASSUME OldStack(a), OldStack(b) PROVE OldStack(f) /\ OldStack(r)
        OBVIOUS
    <2>1. ~p.new
        BY <1>2, <1>6 DEF OldStack
    <2> QED
        BY <1>6, <2>1, Zenon DEF OldStack
<1> QED
    BY <1>1, <1>2, <1>3, <1>4, <1>5, <1>7, <1>8

LEMMA ReduceSound ==
    ASSUME NEW s \in States, NEW c \in StoreCommands, SoundHistory(s)
    PROVE  SoundHistory(Reduce(s, c))
<1>0. s.undo \in Seq(Patches) /\ s.redo \in Seq(Patches)
    BY DEF States
<1>1. CASE Ignored(s, c)
    BY <1>1, ReduceType
<1>2. CASE ~Ignored(s, c) /\ Silent(c)
    BY <1>2, SilentReduced DEF SoundHistory
<1>3. CASE ~Ignored(s, c) /\ Recordable(c)
    <2>1. RecordsFrom(s, c, Reduce(s, c))
        BY <1>3, RecordedReduces
    <2>2. PICK t : t = Reduce(s, c)
        OBVIOUS
    <2>3. SoundStack(t.undo) /\ t.redo = <<>>
        BY <2>1, <2>2, RecordsTop DEF SoundHistory
    <2> QED
        BY <2>2, <2>3 DEF SoundHistory, SoundStack
<1>4. CASE ~Ignored(s, c) /\ c.type = "undo"
    <2>1. Reduce(s, c) = Undo(s) /\ s.undo # <<>>
        BY <1>4 DEF Reduce, Ignored
    <2>2. Undo(s).undo = Front(s.undo) /\ Undo(s).redo = Append(s.redo, Last(s.undo))
        BY <2>1, UndoForm
    <2> QED
        BY <1>0, <2>1, <2>2, StackMoved DEF SoundHistory
<1>5. CASE ~Ignored(s, c) /\ c.type = "redo"
    <2>1. Reduce(s, c) = Redo(s) /\ s.redo # <<>>
        BY <1>5 DEF Reduce, Ignored
    <2>2. Redo(s).redo = Front(s.redo) /\ Redo(s).undo = Append(s.undo, Last(s.redo))
        BY <2>1, RedoForm
    <2> QED
        BY <1>0, <2>1, <2>2, StackMoved DEF SoundHistory
<1> QED
    BY <1>1, <1>2, <1>3, <1>4, <1>5, CommandKinds

LEMMA NextHistory ==
    ASSUME NEW s \in States, NEW e \in States, NEW l \in Lanes, NEW c \in StoreCommands,
           SoundHistory(s), SoundHistory(e)
    PROVE  SoundHistory(NextOf(s, e, l, c)) /\ OldHistory(NextOf(s, e, l, c))
<1>1. PICK s2 : s2 = Reduce(s, c)
    OBVIOUS
<1>2. PICK e2 : e2 = Reduce(e, c)
    OBVIOUS
<1>3. s2 \in States /\ e2 \in States /\ SoundHistory(s2) /\ SoundHistory(e2)
    BY <1>1, <1>2, ReduceType, ReduceSound
<1>4. PICK touched : touched = Touched(s, e, s2, e2, c)
    OBVIOUS
<1>5. PICK m : m = IF l = NoLanes THEN s2 ELSE MergedState(s, s2, e2, touched)
    OBVIOUS
<1>6. m \in States /\ SoundHistory(m)
    <2>1. CASE l = NoLanes
        BY <1>3, <1>5, <2>1
    <2>2. CASE l # NoLanes
        <3>1. m = MergedState(s, s2, e2, touched)
            BY <1>5, <2>2
        <3>2. m \in States /\ \E t \in States : /\ m.undo = MergedStack(e2.undo, s2.undo, s, t)
                                                /\ m.redo = MergedStack(e2.redo, s2.redo, s, t)
            BY <1>3, <3>1, MergedStateForm
        <3>3. PICK t \in States : /\ m.undo = MergedStack(e2.undo, s2.undo, s, t)
                                  /\ m.redo = MergedStack(e2.redo, s2.redo, s, t)
            BY <3>2
        <3>4. /\ e2.undo \in Seq(Patches) /\ s2.undo \in Seq(Patches)
              /\ e2.redo \in Seq(Patches) /\ s2.redo \in Seq(Patches)
            BY <1>3 DEF States
        <3> QED
            BY <1>3, <3>2, <3>3, <3>4, MergedSound DEF SoundHistory
    <2> QED
        BY <2>1, <2>2
<1>7. PICK n : n = Published(m)
    OBVIOUS
<1>8. n.undo = Settled(m.undo) /\ n.redo = Settled(m.redo) /\ m.undo \in Seq(Patches) /\ m.redo \in Seq(Patches)
    BY <1>6, <1>7, PublishedForm DEF States
<1>9. SoundHistory(n) /\ OldHistory(n)
    BY <1>6, <1>8, SettledSound DEF SoundHistory, OldHistory
<1>10. n = NextOf(s, e, l, c)
    BY <1>1, <1>2, <1>4, <1>5, <1>7 DEF NextOf
<1> QED
    BY <1>9, <1>10

\* What Handled says of the committed states before and after a step.
HandledIn(s, n, p) ==
    \/ Len(n.undo) >= Len(s.undo) /\ n.undo # s.undo /\ p = Last(n.undo)
    \/ Len(n.redo) > Len(s.redo) /\ p = Last(n.redo)

\* Applying a side without a timeline and viewport moves nothing.
LEMMA AppliedMovesNothing ==
    ASSUME NEW s \in States, NEW side \in Sides, DOMAIN side.fields \subseteq {"item"}
    PROVE  /\ Applied(s, side).timeline = s.timeline /\ Applied(s, side).offset = s.offset
           /\ Applied(s, side).zoom = s.zoom
<1>1. "timeline" \notin DOMAIN side.fields /\ "offset" \notin DOMAIN side.fields /\ "zoom" \notin DOMAIN side.fields
    OBVIOUS
<1> QED
    BY <1>1, AppliedState

\* An undo, of the committed or the shown state.
LEMMA UndoMoves ==
    ASSUME NEW s \in States, NEW c, c.type = "undo", s.undo # <<>>, SoundStack(s.undo)
    PROVE  /\ AppliedPatch(s, c) = Last(s.undo) /\ Last(s.undo) \in Patches
           /\ Reduce(s, c).undo = Front(s.undo) /\ Reduce(s, c).redo = Append(s.redo, Last(s.undo))
           /\ DOMAIN Last(s.undo).before.fields \subseteq {"item"}
              => /\ SameMoved(Reduce(s, c), s) /\ Reduce(s, c).timeline.playing = s.timeline.playing
                 /\ ~Last(s.undo).reset /\ "timeline" \notin DOMAIN Last(s.undo).before.fields
<1>1. s.undo \in Seq(Patches) /\ <<>> \in Seq(Patches)
    BY DEF States
<1>2. PICK q : q = Last(s.undo)
    OBVIOUS
<1>3. q \in Patches /\ SoundPatch(q)
    <2>1. SoundStack(<<>>)
        BY DEF SoundStack
    <2> QED
        BY <1>1, <1>2, <2>1, StackMoved
<1>4. PICK u : u = Undo(s)
    OBVIOUS
<1>5. /\ u.undo = Front(s.undo) /\ u.redo = Append(s.redo, q)
      /\ SameFields(u, Applied(s, q.before))
    BY <1>2, <1>4, UndoForm
<1>6. q.before \in Sides
    BY <1>3 DEF Patches
<1>7. DOMAIN q.before.fields \subseteq {"item"} => SameMoved(u, s) /\ u.timeline.playing = s.timeline.playing
    BY <1>5, <1>6, AppliedMovesNothing DEF SameMoved, SameFields
<1>8. DOMAIN q.before.fields \subseteq {"item"} => ~q.reset /\ "timeline" \notin DOMAIN q.before.fields
    BY <1>3 DEF SoundPatch
<1>9. Reduce(s, c) = u
    BY <1>4 DEF Reduce
<1>10. AppliedPatch(s, c) = q
    BY <1>2 DEF AppliedPatch
<1> QED
    BY <1>2, <1>3, <1>5, <1>7, <1>8, <1>9, <1>10

LEMMA RedoMoves ==
    ASSUME NEW s \in States, NEW c, c.type = "redo", s.redo # <<>>, SoundStack(s.redo)
    PROVE  /\ AppliedPatch(s, c) = Last(s.redo) /\ Last(s.redo) \in Patches
           /\ Reduce(s, c).undo = Append(s.undo, Last(s.redo)) /\ Reduce(s, c).redo = Front(s.redo)
           /\ DOMAIN Last(s.redo).before.fields \subseteq {"item"}
              => /\ SameMoved(Reduce(s, c), s) /\ Reduce(s, c).timeline.playing = s.timeline.playing
                 /\ ~Last(s.redo).reset /\ "timeline" \notin DOMAIN Last(s.redo).before.fields
<1>1. s.redo \in Seq(Patches) /\ <<>> \in Seq(Patches)
    BY DEF States
<1>2. PICK q : q = Last(s.redo)
    OBVIOUS
<1>3. q \in Patches /\ SoundPatch(q)
    <2>1. SoundStack(<<>>)
        BY DEF SoundStack
    <2> QED
        BY <1>1, <1>2, <2>1, StackMoved
<1>4. PICK u : u = Redo(s)
    OBVIOUS
<1>5. /\ u.redo = Front(s.redo) /\ u.undo = Append(s.undo, q)
      /\ SameFields(u, Applied(s, q.after))
    BY <1>2, <1>4, RedoForm
<1>6. q.after \in Sides /\ DOMAIN q.after.fields = DOMAIN q.before.fields
    BY <1>3 DEF Patches, SoundPatch
<1>7. DOMAIN q.before.fields \subseteq {"item"} => SameMoved(u, s) /\ u.timeline.playing = s.timeline.playing
    BY <1>5, <1>6, AppliedMovesNothing DEF SameMoved, SameFields
<1>8. DOMAIN q.before.fields \subseteq {"item"} => ~q.reset /\ "timeline" \notin DOMAIN q.before.fields
    BY <1>3 DEF SoundPatch
<1>9. Reduce(s, c) = u
    BY <1>4 DEF Reduce
<1>10. AppliedPatch(s, c) = q
    BY <1>2 DEF AppliedPatch
<1> QED
    BY <1>2, <1>3, <1>5, <1>7, <1>8, <1>9, <1>10

LEMMA RecordedMoves ==
    ASSUME NEW s \in States, NEW c \in StoreCommands, Recordable(c), ~Ignored(s, c), SoundStack(s.undo),
           CommandFields(s, c) \subseteq {"item"}
    PROVE  /\ SameMoved(Reduce(s, c), s) /\ Reduce(s, c).timeline.playing = s.timeline.playing
           /\ AppliedPatch(s, c) = None
<1>1. PICK t : t = Reduce(s, c)
    OBVIOUS
<1>2. RecordsFrom(s, c, t)
    BY <1>1, RecordedReduces
<1>3. t.timeline = s.timeline /\ t.offset = s.offset /\ t.zoom = s.zoom
    BY <1>2, RecordsTop
<1>4. AppliedPatch(s, c) = None
    BY DEF AppliedPatch, Recordable, Records
<1> QED
    BY <1>1, <1>3, <1>4 DEF SameMoved

\* A command that handles a patch without timeline and viewport moves nothing.
LEMMA CommandApart ==
    ASSUME NEW s \in States, NEW e \in States, NEW l \in Lanes, NEW c \in StoreCommands,
           Alike(e, s), SoundHistory(s), OldHistory(s), LanesApart(l, s), ~Ignored(s, c),
           NEW n, n = NextOf(s, e, l, c),
           NEW p, HandledIn(s, n, p), DOMAIN p.before.fields \subseteq {"item"}
    PROVE  Moved(n) = Moved(s) /\ LanesOf(s, e, l, c) = l
<1>1. /\ s.undo \in Seq(Patches) /\ s.redo \in Seq(Patches) /\ e.undo = s.undo /\ e.redo = s.redo
      /\ SoundStack(s.undo) /\ SoundStack(s.redo) /\ OldStack(s.undo) /\ OldStack(s.redo)
      /\ ~Ignored(e, c) /\ CommandFields(e, c) = CommandFields(s, c)
    BY AlikeReducer DEF States, Alike, SoundHistory, OldHistory
<1>2. CASE Silent(c)
    <2>1. /\ Reduce(s, c).undo = s.undo /\ Reduce(s, c).redo = s.redo
          /\ Reduce(e, c).undo = e.undo /\ Reduce(e, c).redo = e.redo
        BY <1>2, SilentReduced
    <2>2. n.undo = s.undo /\ n.redo = s.redo
        BY <1>1, <2>1, OldNext
    <2>3. Len(s.redo) \in Nat
        BY <1>1
    <2> QED
        BY <2>2, <2>3 DEF HandledIn
<1>3. CASE c.type = "undo"
    <2>1. s.undo # <<>> /\ e.undo # <<>> /\ SoundStack(e.undo)
        BY <1>1, <1>3 DEF Ignored
    <2>2. PICK q, u, r : q = Last(s.undo) /\ u = Front(s.undo) /\ r = Append(s.redo, q)
        OBVIOUS
    <2>3. /\ AppliedPatch(s, c) = q /\ Reduce(s, c).undo = u /\ Reduce(s, c).redo = r
          /\ Reduce(e, c).undo = u /\ Reduce(e, c).redo = r
          /\ DOMAIN q.before.fields \subseteq {"item"}
             => /\ SameMoved(Reduce(s, c), s) /\ SameMoved(Reduce(e, c), e)
                /\ Reduce(e, c).timeline.playing = e.timeline.playing
                /\ ~q.reset /\ "timeline" \notin DOMAIN q.before.fields
        BY <1>1, <1>3, <2>1, <2>2, UndoMoves
    <2>4. /\ OldStack(u) /\ OldStack(r) /\ Last(r) = q
          /\ Len(u) < Len(s.undo) /\ u \in Seq(Patches)
        BY <1>1, <2>1, <2>2, StackMoved
    <2>5. n.undo = u /\ n.redo = r
        BY <2>3, <2>4, OldNext
    <2>6. p = q
        <3>1. ~(Len(u) >= Len(s.undo))
            BY <1>1, <2>4
        <3> QED
            BY <2>4, <2>5, <3>1 DEF HandledIn
    <2> QED
        BY <2>3, <2>6, StillMoved
<1>4. CASE c.type = "redo"
    <2>1. s.redo # <<>> /\ e.redo # <<>> /\ SoundStack(e.redo)
        BY <1>1, <1>4 DEF Ignored
    <2>2. PICK q, u, r : q = Last(s.redo) /\ u = Append(s.undo, q) /\ r = Front(s.redo)
        OBVIOUS
    <2>3. /\ AppliedPatch(s, c) = q /\ Reduce(s, c).undo = u /\ Reduce(s, c).redo = r
          /\ Reduce(e, c).undo = u /\ Reduce(e, c).redo = r
          /\ DOMAIN q.before.fields \subseteq {"item"}
             => /\ SameMoved(Reduce(s, c), s) /\ SameMoved(Reduce(e, c), e)
                /\ Reduce(e, c).timeline.playing = e.timeline.playing
                /\ ~q.reset /\ "timeline" \notin DOMAIN q.before.fields
        BY <1>1, <1>4, <2>1, <2>2, RedoMoves
    <2>4. /\ OldStack(u) /\ OldStack(r) /\ Last(u) = q
          /\ Len(r) < Len(s.redo) /\ r \in Seq(Patches)
        BY <1>1, <2>1, <2>2, StackMoved
    <2>5. n.undo = u /\ n.redo = r
        BY <2>3, <2>4, OldNext
    <2>6. p = q
        <3>1. ~(Len(r) > Len(s.redo))
            BY <1>1, <2>4
        <3> QED
            BY <2>4, <2>5, <3>1 DEF HandledIn
    <2> QED
        BY <2>3, <2>6, StillMoved
<1>5. CASE Recordable(c)
    <2>1. /\ n \in States /\ n.redo = <<>> /\ Len(n.undo) \in Nat \ {0}
          /\ CommandFields(s, c) \subseteq DOMAIN n.undo[Len(n.undo)].before.fields
        BY <1>1, <1>5, RecordedNext
    <2>2. p = n.undo[Len(n.undo)]
        <3>1. ~(Len(n.redo) > Len(s.redo))
            BY <1>1, <2>1
        <3> QED
            BY <3>1 DEF HandledIn, Last
    <2>3. CommandFields(s, c) \subseteq {"item"}
        BY <2>1, <2>2
    <2>4. /\ SameMoved(Reduce(s, c), s) /\ SameMoved(Reduce(e, c), e)
          /\ Reduce(e, c).timeline.playing = e.timeline.playing /\ AppliedPatch(s, c) = None
        <3>1. /\ SameMoved(Reduce(s, c), s) /\ AppliedPatch(s, c) = None
            BY <1>1, <1>5, <2>3, RecordedMoves
        <3>2. SameMoved(Reduce(e, c), e) /\ Reduce(e, c).timeline.playing = e.timeline.playing
            BY <1>1, <1>5, <2>3, RecordedMoves
        <3> QED
            BY <3>1, <3>2
    <2> QED
        BY <2>4, StillMoved
<1> QED
    BY <1>2, <1>3, <1>4, <1>5, CommandKinds

\* An edit ends with the content it previewed.
SameContent(s, t) ==
    /\ s.values = t.values /\ s.item = t.item
    /\ s.timeline.keys = t.timeline.keys /\ s.timeline.duration = t.timeline.duration

LEMMA AlikeControl ==
    ASSUME NEW s \in States, NEW e \in States, Alike(e, s), NEW c \in ControlCommands,
           s.timeline.keys = <<>> \/ s.timeline.selected \in DOMAIN s.timeline.keys
    PROVE  SameContent(WithControl(e, c), WithControl(s, c))
<1>1. /\ e.timeline.keys = s.timeline.keys /\ e.timeline.selected = s.timeline.selected
      /\ e.timeline.duration = s.timeline.duration /\ e.values = s.values /\ e.item = s.item
    BY AlikeTimeline DEF Alike
<1>2. PICK a, b : a = WithControl(e, c) /\ b = WithControl(s, c)
    OBVIOUS
<1>3. /\ a.values = NextValues(s.values, c) /\ b.values = NextValues(s.values, c)
      /\ a.item = NextItem(s.item, c) /\ b.item = NextItem(s.item, c)
      /\ a.timeline = NextTimeline(e, c) /\ b.timeline = NextTimeline(s, c)
    BY <1>1, <1>2, WithControlType
<1>4. /\ NextTimeline(e, c).keys = NextTimeline(s, c).keys
      /\ NextTimeline(e, c).duration = NextTimeline(s, c).duration
    <2>1. CASE c.type = "setField" /\ s.timeline.keys # <<>>
        <3>1. PICK at \in Nat : at = FieldTime(s)
            BY FieldTimeType
        <3>2. FieldTime(e) = at
            BY <1>1, <2>1, <3>1 DEF FieldTime
        <3>3. PICK t \in Timelines, w \in Timelines : t = s.timeline /\ w = e.timeline
            BY DEF States
        <3>4. /\ WithKey(t, at, c.value).keys = WithKey(w, at, c.value).keys
              /\ WithKey(t, at, c.value).duration = WithKey(w, at, c.value).duration
            BY <1>1, <3>3 DEF WithKey, Timelines
        <3> QED
            BY <1>1, <2>1, <3>1, <3>2, <3>3, <3>4 DEF NextTimeline
    <2>2. CASE ~(c.type = "setField" /\ s.timeline.keys # <<>>)
        BY <1>1, <2>2 DEF NextTimeline
    <2> QED
        BY <2>1, <2>2
<1> QED
    BY <1>2, <1>3, <1>4 DEF SameContent

LEMMA ControlNext ==
    ASSUME NEW s \in States, NEW e \in States, NEW l \in Lanes, Alike(e, s),
           NEW c \in ControlCommands, c.history # "skip", ~Ignored(s, c),
           s.timeline.keys = <<>> \/ s.timeline.selected \in DOMAIN s.timeline.keys
    PROVE  SameContent(NextOf(s, e, l, c), WithControl(s, c))
<1>1. ASSUME NEW u \in States, ~Ignored(u, c)
      PROVE  Reduce(u, c) \in States /\ SameFields(Reduce(u, c), WithControl(u, c))
    <2>1. PICK w \in States : w = WithControl(u, c)
        BY WithControlType
    <2>2. ControlPatch(u, c) \in Patches
        <3>1. PICK targets \in SUBSET Targets : targets = ControlTargets(c)
            BY DEF ControlTargets, ControlCommands
        <3>2. PICK fields \in SUBSET Fields : fields = ControlFields(u, c)
            BY DEF ControlFields, Fields
        <3>3. PICK group \in STRING \cup {None} : group = Group(c)
            BY DEF Group, ControlCommands
        <3> QED
            BY <2>1, <3>1, <3>2, <3>3, PatchType DEF ControlPatch
    <2>3. PICK p \in Patches : p = ControlPatch(u, c)
        BY <2>2
    <2>4. PICK r : r = Recorded(w, p)
        OBVIOUS
    <2>5. r \in States /\ SameFields(r, w)
        <3>1. r \in States /\ \E stack \in Seq(Patches) : r = [w EXCEPT !.undo = stack, !.redo = <<>>]
            BY <2>4, RecordedType
        <3> QED
            BY <3>1 DEF SameFields, States
    <2>6. Reduce(u, c) = r
        BY <1>1, <2>1, <2>3, <2>4, ControlReduced
    <2> QED
        BY <2>1, <2>5, <2>6
<1>2. PICK s2, e2 : s2 = Reduce(s, c) /\ e2 = Reduce(e, c)
    OBVIOUS
<1>3. PICK a, b : a = WithControl(s, c) /\ b = WithControl(e, c)
    OBVIOUS
<1>4. s2 \in States /\ e2 \in States /\ SameFields(s2, a) /\ SameFields(e2, b) /\ SameContent(b, a)
    <2>1. ~Ignored(e, c)
        BY AlikeReducer
    <2> QED
        BY <1>1, <1>2, <1>3, <2>1, AlikeControl
<1>5. PICK touched : touched = Touched(s, e, s2, e2, c)
    OBVIOUS
<1>6. PICK m : m = IF l = NoLanes THEN s2 ELSE MergedState(s, s2, e2, touched)
    OBVIOUS
<1>7. m \in States /\ SameContent(m, a)
    <2>1. CASE l = NoLanes
        BY <1>4, <1>6, <2>1 DEF SameContent, SameFields
    <2>2. CASE l # NoLanes
        <3>1. m = MergedState(s, s2, e2, touched)
            BY <1>6, <2>2
        <3>2. /\ m \in States /\ m.values = e2.values /\ m.item = e2.item
              /\ m.timeline.keys = e2.timeline.keys /\ m.timeline.duration = e2.timeline.duration
            BY <1>4, <3>1, MergedStateForm
        <3> QED
            BY <1>4, <3>2 DEF SameContent, SameFields
    <2> QED
        BY <2>1, <2>2
<1>8. PICK n : n = Published(m)
    OBVIOUS
<1>9. SameContent(n, a)
    BY <1>7, <1>8, PublishedForm DEF SameContent, SameFields
<1>10. n = NextOf(s, e, l, c)
    BY <1>2, <1>5, <1>6, <1>8 DEF NextOf
<1> QED
    BY <1>3, <1>9, <1>10

LEMMA EffectiveContent ==
    ASSUME NEW s \in States, NEW l \in Lanes
    PROVE  SameContent(Effective(s, l), s)
<1>1. PICK e : e = Effective(s, l)
    OBVIOUS
<1>2. /\ e.values = s.values /\ e.item = s.item
      /\ e.timeline = [s.timeline EXCEPT !.time = IF l.time = None THEN s.timeline.time ELSE l.time]
    BY <1>1, EffectiveForm
<1>3. e.timeline.keys = s.timeline.keys /\ e.timeline.duration = s.timeline.duration
    BY <1>2 DEF States, Timelines
<1> QED
    BY <1>1, <1>2, <1>3 DEF SameContent

\* The content shown is that of the preview, unless the edit follows the time.
LEMMA ShownContent ==
    ASSUME NEW s \in States, NEW l \in Lanes, NEW a \in AuthoredEdits, NEW w \in States,
           ShownAs(s, l, a, w), ~Follows(s, a)
    PROVE  SameContent(w, WithPreview(s, a))
<1>1. PICK p : p = Projected(s, l, a)
    OBVIOUS
<1>2. PICK q : q = WithPreview(s, a)
    OBVIOUS
<1>3. p \in States /\ q \in States /\ SameContent(p, q)
    <2>1. q \in States
        BY <1>2, PreviewedForm
    <2> QED
        BY <1>1, <1>2, <2>1, ProjectedType, EffectiveContent
<1>4. [w EXCEPT !.timeline = p.timeline] = p /\ w.timeline = [p.timeline EXCEPT !.time = w.timeline.time]
    BY <1>1 DEF ShownAs
<1>5. w.values = p.values /\ w.item = p.item
    BY <1>3, <1>4 DEF States
<1>6. w.timeline.keys = p.timeline.keys /\ w.timeline.duration = p.timeline.duration
    BY <1>3, <1>4 DEF States, Timelines
<1> QED
    BY <1>2, <1>3, <1>5, <1>6 DEF SameContent

\* The gesture shown, unless the playhead is beyond the duration.
LEMMA ShownMoved ==
    ASSUME NEW s \in States, NEW l \in Lanes, NEW a \in AuthoredEdits, NEW w \in States,
           ShownAs(s, l, a, w), w.timeline.time <= w.timeline.duration
    PROVE  Moved(w) = Moved(Effective(s, l))
<1>1. PICK p : p = Projected(s, l, a)
    OBVIOUS
<1>2. PICK e : e = Effective(s, l)
    OBVIOUS
<1>3. /\ p \in States /\ p.timeline.time = IF l.time = None THEN s.timeline.time ELSE l.time
      /\ p.offset = IF l.offset = None THEN s.offset ELSE l.offset
      /\ p.zoom = IF l.zoom = None THEN s.zoom ELSE l.zoom
    BY <1>1, ProjectedFields
<1>4. /\ e.timeline = [s.timeline EXCEPT !.time = IF l.time = None THEN s.timeline.time ELSE l.time]
      /\ e.offset = IF l.offset = None THEN s.offset ELSE l.offset
      /\ e.zoom = IF l.zoom = None THEN s.zoom ELSE l.zoom
    BY <1>2, EffectiveForm
<1>5. e.timeline.time = IF l.time = None THEN s.timeline.time ELSE l.time
    BY <1>4 DEF States, Timelines
<1>6. /\ [w EXCEPT !.timeline = p.timeline] = p /\ w.timeline.duration = p.timeline.duration
      /\ w.timeline.time # p.timeline.time
         => w.timeline.time > p.timeline.time /\ p.timeline.time = p.timeline.duration
    BY <1>1 DEF ShownAs
<1>7. w.offset = p.offset /\ w.zoom = p.zoom
    BY <1>3, <1>6 DEF States
<1>8. w.timeline.time = p.timeline.time
    <2>1. w.timeline.time \in Nat /\ p.timeline.time \in Nat
        BY <1>3 DEF States, Timelines
    <2> QED
        BY <1>6, <2>1
<1> QED
    BY <1>2, <1>3, <1>4, <1>5, <1>7, <1>8 DEF Moved

StackInv == SoundHistory(committed) /\ OldHistory(committed) /\ LanesApart(lanes, committed)

\* The first conjunct of GestureStep.
PatchesApart ==
    \A p : Handled(p) /\ DOMAIN p.before.fields \subseteq {"item"}
           => /\ Moved(committed') = Moved(committed)
              /\ lanes' = lanes
              /\ shown.timeline.time <= shown.timeline.duration => Moved(shown') = Moved(shown)

LEMMA HistoryKept ==
    ASSUME TypeInv, committed'.undo = committed.undo, committed'.redo = committed.redo
    PROVE  PatchesApart
<1>1. Len(committed.redo) \in Nat
    BY DEF TypeInv, States
<1> QED
    BY <1>1 DEF PatchesApart, Handled

LEMMA DispatchedApart ==
    ASSUME TypeInv, ShownIsProjected, StackInv, NEW c \in StoreCommands,
           NEW e \in States, Alike(e, committed), Dispatched(c, e)
    PROVE  StackInv' /\ PatchesApart
<1>1. committed \in States /\ lanes \in Lanes /\ edit \in AuthoredEdits /\ shown \in States
      /\ ShownAs(committed, lanes, edit, shown)
    BY ShownIs DEF TypeInv
<1>2. CASE committed' = committed /\ lanes' = lanes
    BY <1>2, HistoryKept DEF StackInv
<1>3. CASE /\ ~Ignored(committed, c)
           /\ committed' = NextOf(committed, e, lanes, c)
           /\ lanes' = LanesOf(committed, e, lanes, c)
           /\ shown' = Effective(committed', lanes')
    <2>1. SoundHistory(e)
        BY DEF Alike, StackInv, SoundHistory
    <2>2. PICK n : n = NextOf(committed, e, lanes, c)
        OBVIOUS
    <2>3. /\ n \in States /\ LanesOf(committed, e, lanes, c) \in Lanes
          /\ SoundHistory(n) /\ OldHistory(n) /\ LanesApart(LanesOf(committed, e, lanes, c), n)
        BY <1>1, <2>1, <2>2, NextType, NextHistory, LanesStayApart DEF StackInv
    <2>4. StackInv'
        BY <1>3, <2>2, <2>3 DEF StackInv, SoundHistory, OldHistory, LanesApart
    <2>5. ASSUME NEW p, Handled(p), DOMAIN p.before.fields \subseteq {"item"}
          PROVE  /\ Moved(committed') = Moved(committed) /\ lanes' = lanes
                 /\ shown.timeline.time <= shown.timeline.duration => Moved(shown') = Moved(shown)
        <3>1. HandledIn(committed, n, p)
            BY <1>3, <2>2, <2>5 DEF Handled, HandledIn
        <3>2. Moved(n) = Moved(committed) /\ LanesOf(committed, e, lanes, c) = lanes
            BY <1>1, <1>3, <2>2, <2>5, <3>1, CommandApart DEF StackInv
        <3>3. lanes' = lanes /\ committed' = n /\ shown' = Effective(n, lanes)
            BY <1>3, <2>2, <3>2
        <3>4. Moved(Effective(n, lanes)) = Moved(Effective(committed, lanes))
            <4>1. ASSUME NEW s \in States
                  PROVE  Moved(Effective(s, lanes))
                         = <<IF lanes.time = None THEN s.timeline.time ELSE lanes.time,
                             IF lanes.offset = None THEN s.offset ELSE lanes.offset,
                             IF lanes.zoom = None THEN s.zoom ELSE lanes.zoom>>
                <5>1. PICK w : w = Effective(s, lanes)
                    OBVIOUS
                <5>2. /\ w.timeline = [s.timeline EXCEPT !.time = IF lanes.time = None THEN s.timeline.time
                                                                                     ELSE lanes.time]
                      /\ w.offset = IF lanes.offset = None THEN s.offset ELSE lanes.offset
                      /\ w.zoom = IF lanes.zoom = None THEN s.zoom ELSE lanes.zoom
                    BY <1>1, <5>1, EffectiveForm
                <5>3. w.timeline.time = IF lanes.time = None THEN s.timeline.time ELSE lanes.time
                    BY <5>2 DEF States, Timelines
                <5> QED
                    BY <5>1, <5>2, <5>3 DEF Moved
            <4>2. /\ n.timeline.time = committed.timeline.time /\ n.offset = committed.offset
                  /\ n.zoom = committed.zoom
                BY <3>2 DEF Moved
            <4> QED
                BY <1>1, <2>3, <4>1, <4>2
        <3>5. shown.timeline.time <= shown.timeline.duration
              => Moved(shown) = Moved(Effective(committed, lanes))
            BY <1>1, ShownMoved
        <3> QED
            BY <3>2, <3>3, <3>4, <3>5 DEF Moved
    <2> QED
        BY <2>4, <2>5 DEF PatchesApart
<1> QED
    BY <1>2, <1>3, DispatchedIs, AlikeReducer, <1>1

\* The second conjunct of GestureStep.
LEMMA EndedAsShown ==
    ASSUME TypeInv, ShownIsProjected, EndEdit
    PROVE  FollowsTime \/ Content(shown') = Content(shown)
<1>1. /\ committed \in States /\ lanes \in Lanes /\ edit \in AuthoredEdits /\ shown \in States
      /\ ShownAs(committed, lanes, edit, shown)
    BY ShownIs DEF TypeInv
<1> SUFFICES ASSUME ~FollowsTime PROVE SameContent(shown', shown)
    BY DEF SameContent, Content
<1>2. ~Follows(committed, edit)
    BY DEF FollowsTime, Follows
<1>3. SameContent(shown, WithPreview(committed, edit))
    BY <1>1, <1>2, ShownContent
<1>4. PICK e : e = Effective(committed, lanes)
    OBVIOUS
<1>5. e \in States /\ Alike(e, committed) /\ SameContent(e, committed)
    BY <1>1, <1>4, EffectiveForm, EffectiveAlike, EffectiveContent
<1>6. CASE edit.command = None
    <2>1. shown' = e /\ WithPreview(committed, edit) = committed
        BY <1>4, <1>6 DEF EndEdit, WithPreview
    <2> QED
        BY <1>3, <1>5, <2>1 DEF SameContent
<1>7. CASE edit.command # None
    <2>1. PICK b \in ControlCommands, h \in {"record", "merge", "skip"} : b = edit.command /\ h = "record"
        BY <1>1, <1>7 DEF AuthoredEdits
    <2>2. PICK c : c = [b EXCEPT !.history = h]
        OBVIOUS
    <2>3. /\ c \in ControlCommands /\ c \in StoreCommands /\ c.history = "record"
          /\ WithControl(committed, c) = WithControl(committed, b)
        <3>1. c \in ControlCommands /\ c.history = h /\ WithControl(committed, c) = WithControl(committed, b)
            <4>1. /\ [b EXCEPT !.history = h] \in ControlCommands
                  /\ WithControl(committed, [b EXCEPT !.history = h]) = WithControl(committed, b)
                  /\ [b EXCEPT !.history = h].history = h
                BY OtherHistory, ZenonT(30)
            <4> QED
                BY <2>2, <4>1
        <3>2. c \in StoreCommands
            BY <3>1 DEF StoreCommands
        <3> QED
            BY <2>1, <3>1, <3>2
    <2>4. Dispatched(c, e)
        BY <1>4, <1>7, <2>1, <2>2 DEF EndEdit
    <2>5. WithPreview(committed, edit) = WithControl(committed, c)
        BY <1>7, <2>1, <2>3 DEF WithPreview
    <2>6. SameContent(shown, WithControl(committed, c))
        BY <1>3, <2>5
    <2>7. Ignored(e, c) <=> Ignored(committed, c)
        BY <1>1, <1>5, AlikeReducer
    <2>8. CASE Ignored(committed, c)
        <3>1. shown' = e
            BY <2>4, <2>7, <2>8, DispatchedIs
        <3>2. WithControl(committed, c) = committed
            BY <1>1, <2>3, <2>8, ControlReduced
        <3> QED
            BY <1>5, <2>6, <3>1, <3>2 DEF SameContent
    <2>9. CASE ~Ignored(committed, c)
        <3>1. /\ committed' = NextOf(committed, e, lanes, c)
              /\ lanes' = LanesOf(committed, e, lanes, c) /\ shown' = Effective(committed', lanes')
            BY <2>4, <2>9, DispatchedIs
        <3>2. committed' \in States /\ lanes' \in Lanes
            BY <1>1, <1>5, <2>3, <3>1, NextType
        <3>3. SameContent(shown', committed')
            BY <3>1, <3>2, EffectiveContent
        <3>4. committed.timeline.keys = <<>> \/ committed.timeline.selected \in DOMAIN committed.timeline.keys
            BY <1>2, <1>7 DEF Follows
        <3>5. SameContent(committed', WithControl(committed, c))
            BY <1>1, <1>5, <2>3, <2>9, <3>1, <3>4, ControlNext
        <3> QED
            BY <2>6, <3>3, <3>5 DEF SameContent
    <2> QED
        BY <2>8, <2>9
<1> QED
    BY <1>6, <1>7

LEMMA StackStep ==
    ASSUME TypeInv, ShownIsProjected, StackInv, [Next]_vars
    PROVE  StackInv' /\ PatchesApart
<1>0. /\ committed \in States /\ lanes \in Lanes /\ edit \in AuthoredEdits /\ shown \in States
      /\ ~edit.active => edit = Idle
      /\ ShownAs(committed, lanes, edit, shown)
      /\ Commands \subseteq StoreCommands /\ ControlCommands \subseteq StoreCommands
    BY ShownIs, StoreAssumption DEF TypeInv, StoreCommands
<1>1. ASSUME committed' = committed, lanes' = lanes
      PROVE  StackInv' /\ PatchesApart
    BY <1>1, HistoryKept DEF StackInv
<1>2. ASSUME committed' = committed, LanesApart(lanes', committed)
      PROVE  StackInv' /\ PatchesApart
    BY <1>2, HistoryKept DEF StackInv
<1>3. ASSUME committed'.undo = committed.undo, committed'.redo = committed.redo,
             LanesApart(lanes', committed')
      PROVE  StackInv' /\ PatchesApart
    BY <1>3, HistoryKept DEF StackInv, SoundHistory, OldHistory
<1>4. Effective(committed, lanes) \in States /\ Alike(Effective(committed, lanes), committed)
    BY <1>0, EffectiveForm, EffectiveAlike
<1>5. ASSUME NEW c \in Commands, Dispatch(c)
      PROVE  StackInv' /\ PatchesApart
    <2>1. PICK e : e = IF edit.active THEN Effective(committed, lanes) ELSE shown
        OBVIOUS
    <2>2. Dispatched(c, e) /\ c \in StoreCommands
        BY <1>0, <1>5, <2>1 DEF Dispatch
    <2>3. e \in States /\ Alike(e, committed)
        BY <1>0, <1>4, <2>1, IdleAlike
    <2> QED
        BY <2>2, <2>3, DispatchedApart
<1>6. ASSUME UndoEdit \/ CancelEdit \/ BeginEdit
      PROVE  StackInv' /\ PatchesApart
    BY <1>1, <1>6 DEF UndoEdit, CancelEdit, BeginEdit
<1>7. ASSUME NEW t \in Times, MoveTime(t)
      PROVE  StackInv' /\ PatchesApart
    <2>1. committed' = committed /\ \E l : lanes' = Normalized(l, committed)
        BY <1>7 DEF MoveTime
    <2> QED
        BY <1>0, <1>2, <2>1, NormalizedApart
<1>8. ASSUME NEW v \in Viewports, MoveViewport(v.offset, v.zoom)
      PROVE  StackInv' /\ PatchesApart
    <2>1. committed' = committed /\ (lanes' = lanes \/ \E l : lanes' = Normalized(l, committed))
        BY <1>8 DEF MoveViewport
    <2> QED
        BY <1>0, <1>1, <1>2, <2>1, NormalizedApart
<1>9. ASSUME CommitTime
      PROVE  StackInv' /\ PatchesApart
    <2>1. PICK t : t = AtMost(lanes.time, committed.timeline.duration)
        OBVIOUS
    <2>2. lanes.time \in Nat /\ t \in Nat
        BY <1>0, <1>9, <2>1, AtMostIs DEF CommitTime, Lanes, States, Timelines
    <2>3. committed' = [committed EXCEPT !.timeline.time = t] /\ lanes' = [lanes EXCEPT !.time = None]
        BY <1>9, <2>1 DEF CommitTime, SetTime
    <2>4. /\ committed'.undo = committed.undo /\ committed'.redo = committed.redo
          /\ committed'.offset = committed.offset /\ committed'.zoom = committed.zoom
          /\ committed'.timeline.time = t
        BY <1>0, <2>2, <2>3 DEF States, Timelines
    <2>5. lanes'.time = None /\ lanes'.offset = lanes.offset /\ lanes'.zoom = lanes.zoom
        BY <1>0, <2>3 DEF Lanes
    <2>6. LanesApart(lanes', committed')
        BY <2>2, <2>4, <2>5, StoreAssumption DEF LanesApart, StackInv
    <2> QED
        BY <1>3, <2>4, <2>6
<1>10. ASSUME CommitViewport
       PROVE  StackInv' /\ PatchesApart
    <2>1. PICK o, z : /\ o = IF lanes.offset = None THEN committed.offset ELSE lanes.offset
                      /\ z = IF lanes.zoom = None THEN committed.zoom ELSE lanes.zoom
        OBVIOUS
    <2>2. o \in Offsets /\ z \in Zooms
        BY <1>0, <2>1 DEF States, Lanes
    <2>3. /\ committed' = [committed EXCEPT !.offset = o, !.zoom = z]
          /\ lanes' = [lanes EXCEPT !.offset = None, !.zoom = None]
        BY <1>0, <1>10, <2>1 DEF CommitViewport, SetViewport, States
    <2>4. /\ committed'.undo = committed.undo /\ committed'.redo = committed.redo
          /\ committed'.offset = o /\ committed'.zoom = z
          /\ committed'.timeline = committed.timeline
        BY <1>0, <2>3 DEF States
    <2>5. lanes'.time = lanes.time /\ lanes'.offset = None /\ lanes'.zoom = None
        BY <1>0, <2>3 DEF Lanes
    <2>6. LanesApart(lanes', committed')
        BY <2>2, <2>4, <2>5, StoreAssumption DEF LanesApart, StackInv
    <2> QED
        BY <1>3, <2>4, <2>6
<1>11. ASSUME NEW c \in Edits, UpdateEdit(c)
       PROVE  StackInv' /\ PatchesApart
    BY <1>1, <1>11 DEF UpdateEdit
<1>12. ASSUME EndEdit
       PROVE  StackInv' /\ PatchesApart
    <2>1. CASE edit.command = None
        BY <1>1, <1>12, <2>1 DEF EndEdit
    <2>2. CASE edit.command # None
        <3>1. PICK c : c = [edit.command EXCEPT !.history = "record"]
            OBVIOUS
        <3>2. Dispatched(c, Effective(committed, lanes))
            BY <1>12, <2>2, <3>1 DEF EndEdit
        <3>3. c \in StoreCommands
            <4>1. PICK b \in ControlCommands : b = edit.command
                BY <1>0, <2>2 DEF AuthoredEdits
            <4>2. PICK h \in {"record", "merge", "skip"} : h = "record"
                OBVIOUS
            <4>3. [b EXCEPT !.history = h] \in ControlCommands
                BY OtherHistory
            <4> QED
                BY <1>0, <3>1, <4>1, <4>2, <4>3
        <3> QED
            BY <1>4, <3>2, <3>3, DispatchedApart
    <2> QED
        BY <2>1, <2>2
<1>13. CASE UNCHANGED vars
    BY <1>1, <1>13 DEF vars
<1> QED
    BY <1>5, <1>6, <1>7, <1>8, <1>9, <1>10, <1>11, <1>12, <1>13 DEF Next, Steps

(***************************************************************************)
(* Gestures and changes of the document do not disturb each other          *)
(* (mergeCommandResult and the lanes it drops), and an edit ends with the  *)
(* content it previewed.                                                   *)
(***************************************************************************)
THEOREM GesturesStayApart == Spec => GesturesApart
<1> DEFINE Inv == TypeInv /\ ShownIsProjected /\ StackInv
<1>1. Init => Inv
    <2> SUFFICES ASSUME Init PROVE Inv
        OBVIOUS
    <2>1. TypeInv /\ ShownIsProjected
        BY InitShown
    <2>2. committed \in States /\ committed.undo = <<>> /\ committed.redo = <<>> /\ lanes = NoLanes
        BY FreshType DEF Init
    <2>3. StackInv
        BY <2>2, NoLanesApart DEF StackInv, SoundHistory, OldHistory, SoundStack, OldStack
    <2> QED
        BY <2>1, <2>3
<1>2. Inv /\ [Next]_vars => Inv'
    BY ShownStep, StackStep
<1>3. Inv /\ [Next]_vars => [GestureStep]_vars
    <2> SUFFICES ASSUME Inv, [Next]_vars PROVE GestureStep
        OBVIOUS
    <2>1. PatchesApart
        BY StackStep
    <2>2. EndEdit => FollowsTime \/ Content(shown') = Content(shown)
        BY EndedAsShown
    <2> QED
        BY <2>1, <2>2 DEF GestureStep, PatchesApart
<1> QED
    BY <1>1, <1>2, <1>3, PTL DEF Spec, GesturesApart

(***************************************************************************)
(* Undo and redo.  A patch on a stack connects two contents, and the       *)
(* patches of a stack one content with the next.                           *)
(***************************************************************************)
Contents == [values : [Targets -> Values], item : Values, keys : Keys, duration : Durations]

ContentAfter(k, side) ==
    [values |-> Over(side.values, k.values),
     item |-> IF "item" \in DOMAIN side.fields THEN side.fields["item"] ELSE k.item,
     keys |-> IF "timeline" \in DOMAIN side.fields THEN side.fields["timeline"].keys ELSE k.keys,
     duration |-> IF "timeline" \in DOMAIN side.fields THEN side.fields["timeline"].duration
                  ELSE k.duration]

Kepts == {OnRecord(k) : k \in Contents}

\* Of two contents only what is on record is known.
Connects(p, a, b) ==
    /\ \A k \in Contents : OnRecord(k) = b => OnRecord(ContentAfter(k, p.before)) = a
    /\ \A k \in Contents : OnRecord(k) = a => OnRecord(ContentAfter(k, p.after)) = b

LEMMA ContentType ==
    ASSUME NEW s \in States
    PROVE  Content(s) \in Contents /\ Kept(s) = OnRecord(Content(s)) /\ Kept(s) \in Kepts
<1>1. Content(s) \in Contents
    BY DEF Content, Contents, States, Timelines
<1> QED
    BY <1>1 DEF Kept, Kepts

LEMMA AppliedContent ==
    ASSUME NEW s \in States, NEW side \in Sides
    PROVE  Content(Applied(s, side)) = ContentAfter(Content(s), side)
<1>1. PICK w : w = Applied(s, side)
    OBVIOUS
<1>2. /\ w.values = Over(side.values, s.values)
      /\ w.item = IF "item" \in DOMAIN side.fields THEN side.fields["item"] ELSE s.item
      /\ w.timeline = IF "timeline" \in DOMAIN side.fields THEN side.fields["timeline"] ELSE s.timeline
    BY <1>1, AppliedState
<1>3. /\ w.timeline.keys = (IF "timeline" \in DOMAIN side.fields THEN side.fields["timeline"].keys ELSE s.timeline.keys)
      /\ w.timeline.duration
         = (IF "timeline" \in DOMAIN side.fields THEN side.fields["timeline"].duration ELSE s.timeline.duration)
    BY <1>2
<1>4. Content(w) = ContentAfter(Content(s), side)
    BY <1>2, <1>3 DEF Content, ContentAfter
<1> QED
    BY <1>1, <1>4

LEMMA ContentAfterType ==
    ASSUME NEW k \in Contents, NEW side \in Sides
    PROVE  ContentAfter(k, side) \in Contents
<1>1. Over(side.values, k.values) \in [Targets -> Values]
    <2>1. /\ DOMAIN side.values \subseteq Targets /\ \A t \in DOMAIN side.values : side.values[t] \in Values
          /\ k.values \in [Targets -> Values]
        BY SideForm DEF Contents
    <2> QED
        BY <2>1 DEF Over
<1>2. /\ "item" \in DOMAIN side.fields => side.fields["item"] \in Values
      /\ "timeline" \in DOMAIN side.fields => side.fields["timeline"].keys \in Keys
                                              /\ side.fields["timeline"].duration \in Durations
    BY SideForm DEF Timelines
<1> QED
    BY <1>1, <1>2 DEF ContentAfter, Contents

\* Sides that change the content alike.
SameSide(a, b) ==
    /\ a.values = b.values /\ DOMAIN a.fields = DOMAIN b.fields
    /\ "item" \in DOMAIN a.fields => a.fields["item"] = b.fields["item"]
    /\ "timeline" \in DOMAIN a.fields
       => /\ a.fields["timeline"].keys = b.fields["timeline"].keys
          /\ a.fields["timeline"].duration = b.fields["timeline"].duration

SamePatch(p, q) == SameSide(p.before, q.before) /\ SameSide(p.after, q.after)

LEMMA SameConnects ==
    ASSUME NEW p, NEW q, SamePatch(p, q), NEW a, NEW b
    PROVE  Connects(p, a, b) <=> Connects(q, a, b)
<1>1. ASSUME NEW x, NEW y, SameSide(x, y), NEW k PROVE ContentAfter(k, x) = ContentAfter(k, y)
    BY <1>1 DEF SameSide, ContentAfter
<1>2. \A k : /\ ContentAfter(k, p.before) = ContentAfter(k, q.before)
             /\ ContentAfter(k, p.after) = ContentAfter(k, q.after)
    BY <1>1 DEF SamePatch
<1> QED
    BY <1>2 DEF Connects

LEMMA AtTimeSame ==
    ASSUME NEW side \in Sides, NEW time \in Nat
    PROVE  SameSide(AtTime(side, time), side)
<1>1. PICK a : a = AtTime(side, time)
    OBVIOUS
<1>2. /\ DOMAIN a.fields = DOMAIN side.fields /\ a.values = side.values
      /\ \A f \in DOMAIN side.fields \ {"timeline"} : a.fields[f] = side.fields[f]
      /\ "timeline" \in DOMAIN side.fields
         => a.fields["timeline"] = [side.fields["timeline"] EXCEPT !.time = time]
    BY <1>1, AtTimeForm
<1>3. "timeline" \in DOMAIN side.fields => side.fields["timeline"] \in Timelines
    BY SideForm
<1>4. SameSide(a, side)
    BY <1>2, <1>3 DEF SameSide, Timelines
<1> QED
    BY <1>1, <1>4

LEMMA MergedNewSame ==
    ASSUME NEW p \in Patches, NEW s \in States, NEW t \in States
    PROVE  SamePatch(MergedNew(p, s, t), p)
<1>1. PICK q : q = MergedNew(p, s, t)
    OBVIOUS
<1>2. q.before \in {p.before, AtTime(p.before, s.timeline.time)}
      /\ q.after \in {p.after, AtTime(p.after, t.timeline.time)}
    BY <1>1, MergedNewForm
<1>3. /\ p.before \in Sides /\ p.after \in Sides /\ s.timeline.time \in Nat /\ t.timeline.time \in Nat
    BY DEF Patches, States, Timelines
<1>4. SameSide(p.before, p.before) /\ SameSide(p.after, p.after)
    BY DEF SameSide
<1>5. SamePatch(q, p)
    BY <1>2, <1>3, <1>4, AtTimeSame DEF SamePatch
<1> QED
    BY <1>1, <1>5

\* A merged patch connects what its two patches connect.
LEMMA MergedConnects ==
    ASSUME NEW p \in Patches, NEW q \in Patches, NEW a, NEW b, NEW c,
           Connects(p, a, b), Connects(q, b, c)
    PROVE  Connects(MergedPatch(p, q), a, c)
<1>1. PICK m : m = MergedPatch(p, q)
    OBVIOUS
<1>2. /\ m.before = [values |-> Over(p.before.values, q.before.values),
                     fields |-> Over(p.before.fields, q.before.fields)]
      /\ m.after = [values |-> Over(q.after.values, p.after.values),
                    fields |-> Over(q.after.fields, p.after.fields)]
    BY <1>1 DEF MergedPatch, Patches
<1>3. ASSUME NEW x, NEW y, NEW z, z = [values |-> Over(x.values, y.values), fields |-> Over(x.fields, y.fields)],
             NEW k
      PROVE  ContentAfter(ContentAfter(k, y), x) = ContentAfter(k, z)
    <2>1. PICK l, n : l = ContentAfter(k, y) /\ n = ContentAfter(l, x)
        OBVIOUS
    <2>2. n.values = Over(z.values, k.values)
        <3>1. n.values = Over(x.values, l.values) /\ l.values = Over(y.values, k.values)
            BY <2>1 DEF ContentAfter
        <3> QED
            BY <1>3, <3>1, OverTwice
    <2>3. /\ DOMAIN z.fields = DOMAIN x.fields \cup DOMAIN y.fields
          /\ \A f \in DOMAIN x.fields : z.fields[f] = x.fields[f]
          /\ \A f \in DOMAIN y.fields \ DOMAIN x.fields : z.fields[f] = y.fields[f]
        BY <1>3 DEF Over
    <2>4. n = [values |-> n.values, item |-> n.item, keys |-> n.keys, duration |-> n.duration]
        BY <2>1 DEF ContentAfter
    <2>5. n.item = IF "item" \in DOMAIN z.fields THEN z.fields["item"] ELSE k.item
        BY <2>1, <2>3 DEF ContentAfter
    <2>6. n.keys = IF "timeline" \in DOMAIN z.fields THEN z.fields["timeline"].keys ELSE k.keys
        BY <2>1, <2>3 DEF ContentAfter
    <2>7. n.duration = IF "timeline" \in DOMAIN z.fields THEN z.fields["timeline"].duration ELSE k.duration
        BY <2>1, <2>3 DEF ContentAfter
    <2>8. n = ContentAfter(k, z)
        BY <2>2, <2>4, <2>5, <2>6, <2>7 DEF ContentAfter
    <2> QED
        BY <2>1, <2>8
<1>4. /\ p.before \in Sides /\ p.after \in Sides /\ q.before \in Sides /\ q.after \in Sides
    BY DEF Patches
<1>5. ASSUME NEW k \in Contents, OnRecord(k) = c PROVE OnRecord(ContentAfter(k, m.before)) = a
    <2>1. PICK l \in Contents : l = ContentAfter(k, q.before)
        BY <1>4, ContentAfterType
    <2>2. OnRecord(l) = b
        BY <1>5, <2>1 DEF Connects
    <2>3. OnRecord(ContentAfter(l, p.before)) = a
        BY <2>2 DEF Connects
    <2>4. ContentAfter(l, p.before) = ContentAfter(k, m.before)
        BY <1>2, <1>3, <2>1
    <2> QED
        BY <2>3, <2>4
<1>6. ASSUME NEW k \in Contents, OnRecord(k) = a PROVE OnRecord(ContentAfter(k, m.after)) = c
    <2>1. PICK l \in Contents : l = ContentAfter(k, p.after)
        BY <1>4, ContentAfterType
    <2>2. OnRecord(l) = b
        BY <1>6, <2>1 DEF Connects
    <2>3. OnRecord(ContentAfter(l, q.after)) = c
        BY <2>2 DEF Connects
    <2>4. ContentAfter(l, q.after) = ContentAfter(k, m.after)
        BY <1>2, <1>3, <2>1
    <2> QED
        BY <2>3, <2>4
<1> QED
    BY <1>1, <1>5, <1>6 DEF Connects

LEMMA NewConnects ==
    ASSUME NEW s \in States, NEW t \in States, NEW targets \in SUBSET Targets, NEW fields \in SUBSET Fields,
           ContentCovered(s, t, targets, fields), NEW group, NEW reset
    PROVE  Connects(NewPatch(s, t, targets, fields, group, reset), Kept(s), Kept(t))
<1>1. ASSUME NEW u \in States, NEW w \in States,
             \A x \in Targets \ targets : u.values[x] = w.values[x],
             "item" \notin fields => u.item = w.item, "timeline" \notin fields => u.timeline = w.timeline,
             NEW k \in Contents, OnRecord(k) = Kept(w)
      PROVE  OnRecord(ContentAfter(k, Side(u, targets, fields))) = Kept(u)
    <2>1. PICK side : side = Side(u, targets, fields)
        OBVIOUS
    <2>2. side.values = [x \in targets |-> u.values[x]] /\ side.fields = [f \in fields |-> u[f]]
        BY <2>1, SideType
    <2>3. PICK n : n = ContentAfter(k, side)
        OBVIOUS
    <2>4. /\ \A x \in RecordedTargets : k.values[x] = w.values[x]
          /\ FieldRecorded => k.item = w.item /\ k.keys = w.timeline.keys
          /\ k.duration = w.timeline.duration
        <3>1. /\ OnRecord(k).values = Restrict(k.values, RecordedTargets)
              /\ OnRecord(k).item = IF FieldRecorded THEN k.item ELSE None
              /\ OnRecord(k).keys = IF FieldRecorded THEN k.keys ELSE None
              /\ OnRecord(k).duration = k.duration
            BY DEF OnRecord
        <3>2. /\ Kept(w).values = Restrict(w.values, RecordedTargets)
              /\ Kept(w).item = IF FieldRecorded THEN w.item ELSE None
              /\ Kept(w).keys = IF FieldRecorded THEN w.timeline.keys ELSE None
              /\ Kept(w).duration = w.timeline.duration
            BY DEF OnRecord, Kept, Content
        <3>3. Restrict(k.values, RecordedTargets) = Restrict(w.values, RecordedTargets)
            BY <1>1, <3>1, <3>2
        <3>4. \A x \in RecordedTargets : k.values[x] = w.values[x]
            BY <3>3 DEF Restrict
        <3>5. FieldRecorded => k.item = w.item /\ k.keys = w.timeline.keys
            BY <1>1, <3>1, <3>2
        <3> QED
            BY <1>1, <3>1, <3>2, <3>4, <3>5
    <2>5. Restrict(n.values, RecordedTargets) = Restrict(u.values, RecordedTargets)
        <3>1. /\ u.values \in [Targets -> Values] /\ w.values \in [Targets -> Values]
              /\ k.values \in [Targets -> Values] /\ RecordedTargets \subseteq Targets
            BY DEF States, Contents, RecordedTargets
        <3>2. DOMAIN side.values = targets /\ \A x \in targets : side.values[x] = u.values[x]
            BY <2>2
        <3>3. n.values = Over(side.values, k.values)
            BY <2>3 DEF ContentAfter
        <3>4. \A x \in Targets : n.values[x] = IF x \in targets THEN side.values[x] ELSE k.values[x]
            BY <3>1, <3>2, <3>3 DEF Over
        <3>5. \A x \in RecordedTargets : n.values[x] = u.values[x]
            BY <1>1, <2>4, <3>1, <3>2, <3>4
        <3> QED
            BY <3>5 DEF Restrict
    <2>6. /\ DOMAIN side.fields = fields
          /\ "item" \in fields => side.fields["item"] = u.item
          /\ "timeline" \in fields => side.fields["timeline"] = u.timeline
        BY <2>2
    <2>7. FieldRecorded => n.item = u.item /\ n.keys = u.timeline.keys
        BY <1>1, <2>3, <2>4, <2>6 DEF ContentAfter
    <2>8. n.duration = u.timeline.duration
        BY <1>1, <2>3, <2>4, <2>6 DEF ContentAfter
    <2>9. OnRecord(n) = Kept(u)
        BY <2>5, <2>7, <2>8 DEF OnRecord, Kept, Content
    <2> QED
        BY <2>1, <2>3, <2>9
<1>2. \A x \in Targets \ targets : s.values[x] = t.values[x] /\ t.values[x] = s.values[x]
    BY DEF ContentCovered
<1>3. /\ "item" \notin fields => s.item = t.item
      /\ "timeline" \notin fields => s.timeline = t.timeline
    BY DEF ContentCovered
<1>4. \A k \in Contents : OnRecord(k) = Kept(t) => OnRecord(ContentAfter(k, Side(s, targets, fields))) = Kept(s)
    BY <1>1, <1>2, <1>3
<1>5. \A k \in Contents : OnRecord(k) = Kept(s) => OnRecord(ContentAfter(k, Side(t, targets, fields))) = Kept(t)
    BY <1>1, <1>2, <1>3
<1> QED
    BY <1>4, <1>5 DEF Connects, NewPatch

\* What one patch of the undo (or redo) stack connects, from the bottom up.
Linked(stack, p, a, b) == IF stack = "undo" THEN Connects(p, a, b) ELSE Connects(p, b, a)

\* The patches lead from the kept content `bottom` to `top`.
Chain(d, stack, bottom, top) ==
    \E U \in [0 .. Len(stack) -> Kepts] :
        /\ U[0] = bottom /\ U[Len(stack)] = top
        /\ \A i \in 1 .. Len(stack) : Linked(d, stack[i], U[i - 1], U[i])

LEMMA ChainEmpty ==
    ASSUME NEW d, NEW k \in Kepts, NEW l
    PROVE  Chain(d, <<>>, k, l) <=> k = l
<1>1. ASSUME k = l PROVE Chain(d, <<>>, k, l)
    <2>1. PICK U : U = [i \in 0 .. 0 |-> k]
        OBVIOUS
    <2>2. U \in [0 .. Len(<<>>) -> Kepts] /\ U[0] = k /\ U[Len(<<>>)] = l
        BY <1>1, <2>1
    <2>3. \A i \in 1 .. Len(<<>>) : FALSE
        OBVIOUS
    <2> QED
        BY <2>2, <2>3, Zenon DEF Chain
<1>2. ASSUME Chain(d, <<>>, k, l) PROVE k = l
    BY <1>2 DEF Chain
<1> QED
    BY <1>1, <1>2

LEMMA ChainPush ==
    ASSUME NEW d, NEW stack \in Seq(Patches), NEW p \in Patches, NEW z, NEW k, NEW l \in Kepts,
           Chain(d, stack, z, k), Linked(d, p, k, l)
    PROVE  Chain(d, Append(stack, p), z, l)
<1>1. PICK U \in [0 .. Len(stack) -> Kepts] :
          /\ U[0] = z /\ U[Len(stack)] = k
          /\ \A i \in 1 .. Len(stack) : Linked(d, stack[i], U[i - 1], U[i])
    BY DEF Chain
<1>2. PICK n \in Nat : n = Len(stack)
    OBVIOUS
<1>3. PICK r : r = Append(stack, p)
    OBVIOUS
<1>4. Len(r) = n + 1 /\ r[n + 1] = p /\ \A i \in 1 .. n : r[i] = stack[i]
    BY <1>2, <1>3
<1>5. PICK V : V = [i \in 0 .. n + 1 |-> IF i = n + 1 THEN l ELSE U[i]]
    OBVIOUS
<1>6. V \in [0 .. n + 1 -> Kepts] /\ V[n + 1] = l /\ \A i \in 0 .. n : V[i] = U[i]
    BY <1>2, <1>5
<1>7. ASSUME NEW i \in 1 .. n + 1 PROVE Linked(d, r[i], V[i - 1], V[i])
    <2>1. CASE i \in 1 .. n
        <3>1. V[i - 1] = U[i - 1] /\ V[i] = U[i] /\ r[i] = stack[i]
            BY <1>4, <1>6, <2>1
        <3> QED
            BY <1>1, <1>2, <2>1, <3>1
    <2>2. CASE i = n + 1
        <3>1. V[i - 1] = k /\ V[i] = l /\ r[i] = p
            BY <1>1, <1>2, <1>4, <1>6, <2>2
        <3> QED
            BY <3>1
    <2> QED
        BY <2>1, <2>2
<1>8. Chain(d, r, z, l)
    <2>1. V[0] = z
        BY <1>1, <1>2, <1>6
    <2> QED
        BY <1>4, <1>6, <1>7, <2>1 DEF Chain
<1> QED
    BY <1>3, <1>8

LEMMA ChainPop ==
    ASSUME NEW d, NEW stack \in Seq(Patches), stack # <<>>, NEW z, NEW l, Chain(d, stack, z, l)
    PROVE  \E k \in Kepts : Chain(d, Front(stack), z, k) /\ Linked(d, Last(stack), k, l)
<1>1. PICK U \in [0 .. Len(stack) -> Kepts] :
          /\ U[0] = z /\ U[Len(stack)] = l
          /\ \A i \in 1 .. Len(stack) : Linked(d, stack[i], U[i - 1], U[i])
    BY DEF Chain
<1>2. PICK f, p : f = Front(stack) /\ p = Last(stack)
    OBVIOUS
<1>3. /\ f \in Seq(Patches) /\ p = stack[Len(stack)] /\ Len(stack) \in Nat \ {0}
       /\ Len(f) = Len(stack) - 1 /\ \A i \in 1 .. Len(stack) - 1 : f[i] = stack[i]
    BY <1>2, StackTypes
<1>4. PICK n \in Nat : n = Len(f)
    BY <1>3
<1>5. Len(stack) = n + 1 /\ p = stack[n + 1] /\ \A i \in 1 .. n : f[i] = stack[i]
    BY <1>4, <1>3
<1>6. PICK V : V = [i \in 0 .. n |-> U[i]]
    OBVIOUS
<1>7. V \in [0 .. n -> Kepts] /\ \A i \in 0 .. n : V[i] = U[i]
    BY <1>1, <1>5, <1>6
<1>8. ASSUME NEW i \in 1 .. n PROVE Linked(d, f[i], V[i - 1], V[i])
    <2>1. V[i - 1] = U[i - 1] /\ V[i] = U[i] /\ f[i] = stack[i] /\ i \in 1 .. Len(stack)
        BY <1>5, <1>7
    <2> QED
        BY <1>1, <2>1
<1>9. Chain(d, f, z, V[n]) /\ V[n] \in Kepts
    <2>1. V[0] = z /\ V[n] \in Kepts
        BY <1>1, <1>7
    <2>2. /\ V \in [0 .. Len(f) -> Kepts] /\ V[Len(f)] = V[n]
          /\ \A i \in 1 .. Len(f) : Linked(d, f[i], V[i - 1], V[i])
        BY <1>4, <1>7, <1>8
    <2> QED
        BY <2>1, <2>2 DEF Chain
<1>10. Linked(d, p, V[n], l)
    <2>1. n + 1 \in 1 .. Len(stack) /\ U[n + 1] = l /\ U[n] = V[n] /\ stack[n + 1] = p
        BY <1>1, <1>5, <1>7
    <2>2. Linked(d, stack[n + 1], U[n + 1 - 1], U[n + 1])
        BY <1>1, <2>1
    <2>3. n + 1 - 1 = n
        OBVIOUS
    <2> QED
        BY <2>1, <2>2, <2>3
<1> QED
    BY <1>2, <1>9, <1>10

LEMMA ChainSame ==
    ASSUME NEW d, NEW a \in Seq(Patches), NEW b \in Seq(Patches), Len(a) = Len(b),
           \A i \in 1 .. Len(a) : SamePatch(b[i], a[i]), NEW z, NEW l, Chain(d, a, z, l)
    PROVE  Chain(d, b, z, l)
<1>1. PICK U \in [0 .. Len(a) -> Kepts] :
          /\ U[0] = z /\ U[Len(a)] = l
          /\ \A i \in 1 .. Len(a) : Linked(d, a[i], U[i - 1], U[i])
    BY DEF Chain
<1>2. \A i \in 1 .. Len(a) : Linked(d, b[i], U[i - 1], U[i])
    BY <1>1, SameConnects DEF Linked
<1> QED
    BY <1>1, <1>2 DEF Chain

Chained(s) ==
    /\ Chain("undo", s.undo, Kept(Fresh), Kept(s))
    /\ \E z \in Kepts : Chain("redo", s.redo, z, Kept(s))

LEMMA SameContents ==
    ASSUME NEW s \in States, NEW t \in States, SameFields(s, t)
    PROVE  Kept(s) = Kept(t)
BY DEF SameFields, Content, Kept

\* A recorded command leads on from the content it changes.
LEMMA RecordsChain ==
    ASSUME NEW s \in States, NEW c \in StoreCommands, NEW t, RecordsFrom(s, c, t), NEW z,
           Chain("undo", s.undo, z, Kept(s))
    PROVE  /\ t \in States /\ t.redo = <<>> /\ Chain("undo", t.undo, z, Kept(t))
           /\ \A i \in 1 .. Len(t.undo) - 1 : t.undo[i] = s.undo[i] /\ i \in 1 .. Len(s.undo)
<1>1. PICK fields : fields = CommandFields(s, c)
    OBVIOUS
<1>2. PICK base \in States, targets \in SUBSET Targets : Recording(s, c, base, targets, fields, t)
    BY <1>1 DEF RecordsFrom
<1>3. base.undo = s.undo /\ fields \in SUBSET Fields /\ ContentCovered(s, base, targets, fields)
    BY <1>2 DEF Recording
<1>4. PICK reset \in BOOLEAN : t = Recorded(base, NewPatch(s, base, targets, fields, CommandGroup(c), reset))
    BY <1>2 DEF Recording
<1>5. PICK p : p = NewPatch(s, base, targets, fields, CommandGroup(c), reset)
    OBVIOUS
<1>6. p \in Patches /\ Connects(p, Kept(s), Kept(base))
    <2>1. PICK fs \in SUBSET Fields, group \in STRING \cup {None} : fs = fields /\ group = CommandGroup(c)
        BY <1>3, GroupType
    <2>2. PICK q : q = NewPatch(s, base, targets, fs, group, reset)
        OBVIOUS
    <2>3. q \in Patches
        BY <2>2, NewPatchType
    <2>4. Connects(q, Kept(s), Kept(base))
        BY <1>3, <2>1, <2>2, NewConnects
    <2>5. p = q
        BY <1>5, <2>1, <2>2
    <2> QED
        BY <2>3, <2>4, <2>5
<1>7. /\ t \in States /\ \E stack \in Seq(Patches) : t = [base EXCEPT !.undo = stack, !.redo = <<>>]
      /\ t.undo = IF Merges(base, p) THEN Append(Front(base.undo), MergedPatch(Last(base.undo), p))
                                     ELSE Append(base.undo, p)
    BY <1>4, <1>5, <1>6, RecordedType
<1>8. t.redo = <<>> /\ SameFields(t, base)
    BY <1>7 DEF States, SameFields
<1>9. Kept(t) = Kept(base) /\ Kept(t) \in Kepts
    BY <1>7, <1>8, SameContents, ContentType
<1>10. PICK u \in Seq(Patches) : u = s.undo
    BY DEF States
<1>11. CASE Merges(base, p)
    <2>1. u # <<>>
        BY <1>3, <1>10, <1>11 DEF Merges
    <2>2. PICK f, prev : f = Front(u) /\ prev = Last(u)
        OBVIOUS
    <2>3. /\ f \in Seq(Patches) /\ prev \in Patches /\ Len(u) \in Nat \ {0} /\ Len(f) = Len(u) - 1
          /\ \A i \in 1 .. Len(u) - 1 : f[i] = u[i]
        BY <2>1, <2>2, StackTypes
    <2>4. PICK k \in Kepts : Chain("undo", f, z, k) /\ Linked("undo", prev, k, Kept(s))
        BY <1>10, <2>1, <2>2, ChainPop
    <2>5. PICK m : m = MergedPatch(prev, p)
        OBVIOUS
    <2>6. m \in Patches /\ Linked("undo", m, k, Kept(t))
        BY <1>6, <1>9, <2>3, <2>4, <2>5, MergedType, MergedConnects DEF Linked
    <2>7. t.undo = Append(f, m)
        BY <1>3, <1>7, <1>10, <1>11, <2>2, <2>5
    <2>8. Chain("undo", Append(f, m), z, Kept(t))
        BY <1>9, <2>3, <2>4, <2>6, ChainPush
    <2>9. \A i \in 1 .. Len(t.undo) - 1 : t.undo[i] = u[i] /\ i \in 1 .. Len(u)
        BY <2>3, <2>6, <2>7
    <2> QED
        BY <1>7, <1>8, <1>10, <2>7, <2>8, <2>9
<1>12. CASE ~Merges(base, p)
    <2>1. t.undo = Append(u, p)
        BY <1>3, <1>7, <1>10, <1>12
    <2>2. Linked("undo", p, Kept(s), Kept(t))
        BY <1>6, <1>9 DEF Linked
    <2>3. Chain("undo", Append(u, p), z, Kept(t))
        BY <1>6, <1>9, <1>10, <2>2, ChainPush
    <2>4. \A i \in 1 .. Len(t.undo) - 1 : t.undo[i] = u[i] /\ i \in 1 .. Len(u)
        BY <1>6, <2>1
    <2> QED
        BY <1>7, <1>8, <1>10, <2>1, <2>3, <2>4
<1> QED
    BY <1>11, <1>12

\* An undo goes back one content, and the redo of it comes again.
LEMMA UndoChained ==
    ASSUME NEW s \in States, Chained(s), s.undo # <<>>
    PROVE  /\ Undo(s) \in States /\ Chained(Undo(s)) /\ Kept(Redo(Undo(s))) = Kept(s)
           /\ Undo(s).undo = Front(s.undo)
<1>1. PICK su \in Seq(Patches), sr \in Seq(Patches) : su = s.undo /\ sr = s.redo
    BY DEF States
<1>2. PICK u : u = Undo(s)
    OBVIOUS
<1>3. PICK f, p : f = Front(su) /\ p = Last(su)
    OBVIOUS
<1>4. f \in Seq(Patches) /\ p \in Patches /\ p.before \in Sides /\ p.after \in Sides
    BY <1>1, <1>3, StackTypes DEF Patches
<1>5. /\ u \in States /\ u.undo = f /\ u.redo = Append(sr, p)
      /\ SameFields(u, Applied(s, p.before))
    BY <1>1, <1>2, <1>3, UndoForm
<1>6. PICK k \in Kepts : Chain("undo", f, Kept(Fresh), k) /\ Linked("undo", p, k, Kept(s))
    BY <1>1, <1>3, ChainPop DEF Chained
<1>7. Connects(p, k, Kept(s))
    BY <1>6 DEF Linked
<1>8. Kept(u) = k
    <2>1. PICK a \in States : a = Applied(s, p.before)
        BY <1>4, AppliedState
    <2>2. Kept(a) = k
        BY <1>4, <1>7, <2>1, AppliedContent, ContentType DEF Connects
    <2> QED
        BY <1>5, <2>1, <2>2, SameContents
<1>9. Linked("redo", p, Kept(s), k)
    BY <1>6 DEF Linked
<1>10. PICK z \in Kepts : Chain("redo", sr, z, Kept(s))
    BY <1>1 DEF Chained
<1>11. Chain("redo", Append(sr, p), z, k)
    BY <1>4, <1>9, <1>10, ChainPush
<1>12. Chained(u)
    BY <1>5, <1>6, <1>8, <1>11 DEF Chained
<1>13. Kept(Redo(u)) = Kept(s)
    <2>1. u.redo # <<>> /\ Last(u.redo) = p
        BY <1>1, <1>3, <1>4, <1>5, StackMoved
    <2>2. PICK r : r = Redo(u)
        OBVIOUS
    <2>3. r \in States /\ SameFields(r, Applied(u, p.after))
        BY <1>5, <2>1, <2>2, RedoForm
    <2>4. PICK a \in States : a = Applied(u, p.after)
        BY <1>4, <1>5, AppliedState
    <2>5. Kept(a) = Kept(s)
        BY <1>4, <1>5, <1>7, <1>8, <2>4, AppliedContent, ContentType DEF Connects
    <2> QED
        BY <2>2, <2>3, <2>4, <2>5, SameContents
<1> QED
    BY <1>1, <1>2, <1>3, <1>5, <1>12, <1>13

LEMMA RedoChained ==
    ASSUME NEW s \in States, Chained(s), s.redo # <<>>
    PROVE  /\ Redo(s) \in States /\ Chained(Redo(s)) /\ Kept(Undo(Redo(s))) = Kept(s)
           /\ Redo(s).redo = Front(s.redo)
<1>1. PICK su \in Seq(Patches), sr \in Seq(Patches) : su = s.undo /\ sr = s.redo
    BY DEF States
<1>2. PICK u : u = Redo(s)
    OBVIOUS
<1>3. PICK f, p : f = Front(sr) /\ p = Last(sr)
    OBVIOUS
<1>4. f \in Seq(Patches) /\ p \in Patches /\ p.before \in Sides /\ p.after \in Sides
    BY <1>1, <1>3, StackTypes DEF Patches
<1>5. /\ u \in States /\ u.redo = f /\ u.undo = Append(su, p)
      /\ SameFields(u, Applied(s, p.after))
    BY <1>1, <1>2, <1>3, RedoForm
<1>6. PICK z \in Kepts : Chain("redo", sr, z, Kept(s))
    BY <1>1 DEF Chained
<1>7. PICK k \in Kepts : Chain("redo", f, z, k) /\ Linked("redo", p, k, Kept(s))
    BY <1>1, <1>3, <1>6, ChainPop
<1>8. Connects(p, Kept(s), k)
    BY <1>7 DEF Linked
<1>9. Kept(u) = k
    <2>1. PICK a \in States : a = Applied(s, p.after)
        BY <1>4, AppliedState
    <2>2. Kept(a) = k
        BY <1>4, <1>8, <2>1, AppliedContent, ContentType DEF Connects
    <2> QED
        BY <1>5, <2>1, <2>2, SameContents
<1>10. Linked("undo", p, Kept(s), k)
    BY <1>7 DEF Linked
<1>11. Chain("undo", su, Kept(Fresh), Kept(s))
    BY <1>1 DEF Chained
<1>12. Chain("undo", Append(su, p), Kept(Fresh), k)
    BY <1>4, <1>10, <1>11, ChainPush
<1>13. Chained(u)
    BY <1>5, <1>7, <1>9, <1>12 DEF Chained
<1>14. Kept(Undo(u)) = Kept(s)
    <2>1. u.undo # <<>> /\ Last(u.undo) = p
        BY <1>1, <1>3, <1>4, <1>5, StackMoved
    <2>2. PICK r : r = Undo(u)
        OBVIOUS
    <2>3. r \in States /\ SameFields(r, Applied(u, p.before))
        BY <1>5, <2>1, <2>2, UndoForm
    <2>4. PICK a \in States : a = Applied(u, p.before)
        BY <1>4, <1>5, AppliedState
    <2>5. Kept(a) = Kept(s)
        BY <1>4, <1>5, <1>8, <1>9, <2>4, AppliedContent, ContentType DEF Connects
    <2> QED
        BY <2>2, <2>3, <2>4, <2>5, SameContents
<1> QED
    BY <1>1, <1>2, <1>3, <1>5, <1>13, <1>14

\* The command is recorded, or changes nothing that is kept.
Remembered(c) ==
    c \in ControlCommands /\ c.history = "skip"
    => /\ c.type = "setValue" => c.target \notin RecordedTargets
       /\ c.type = "setField" => ~FieldRecorded

LEMMA CommandsRemembered ==
    ASSUME NEW c \in Commands
    PROVE  Remembered(c)
BY DEF Remembered, Unrecorded, RecordedTargets, FieldRecorded

\* A command that is not recorded changes nothing that is kept.
LEMMA SkipKept ==
    ASSUME NEW s \in States, NEW c \in ControlCommands, c.history = "skip", Remembered(c)
    PROVE  Kept(Reduce(s, c)) = Kept(s)
<1>1. PICK t : t = WithControl(s, c)
    OBVIOUS
<1>2. Reduce(s, c) = t
    BY <1>1, SkipReduced
<1>3. /\ t.values = NextValues(s.values, c) /\ t.item = NextItem(s.item, c)
      /\ t.timeline = NextTimeline(s, c)
    BY <1>1, WithControlType
<1>4. CASE c.type = "setValue"
    <2>1. c.target \notin RecordedTargets /\ RecordedTargets \subseteq Targets
        BY <1>4 DEF Remembered, RecordedTargets
    <2>2. t.values = [s.values EXCEPT ![c.target] = c.value] /\ s.values \in [Targets -> Values]
        BY <1>3, <1>4 DEF NextValues, States
    <2>3. \A x \in RecordedTargets : t.values[x] = s.values[x]
        BY <2>1, <2>2
    <2>4. Restrict(t.values, RecordedTargets) = Restrict(s.values, RecordedTargets)
        BY <2>3 DEF Restrict
    <2>5. t.item = s.item /\ t.timeline = s.timeline
        BY <1>3, <1>4 DEF NextItem, NextTimeline
    <2> QED
        BY <1>2, <2>4, <2>5 DEF Kept, OnRecord, Content
<1>5. CASE c.type = "setField"
    <2>1. ~FieldRecorded
        BY <1>5 DEF Remembered
    <2>2. t.values = s.values
        BY <1>3, <1>5 DEF NextValues
    <2>3. t.timeline.duration = s.timeline.duration
        BY <1>1, WithControlType
    <2> QED
        BY <1>2, <2>1, <2>2, <2>3 DEF Kept, OnRecord, Content
<1> QED
    BY <1>4, <1>5 DEF ControlCommands

LEMMA ReduceChained ==
    ASSUME NEW s \in States, NEW c \in StoreCommands, Remembered(c), Chained(s)
    PROVE  Chained(Reduce(s, c))
<1>1. CASE Ignored(s, c)
    BY <1>1, ReduceType
<1>2. CASE ~Ignored(s, c) /\ c.type \in Quiet
    <2>1. PICK t : t = Reduce(s, c)
        OBVIOUS
    <2>2. t.undo = s.undo /\ t.redo = s.redo /\ Kept(t) = Kept(s)
        BY <1>2, <2>1, QuietReduced DEF Kept
    <2> QED
        BY <2>1, <2>2 DEF Chained
<1>3. CASE ~Ignored(s, c) /\ Recordable(c)
    <2>1. PICK t : t = Reduce(s, c)
        OBVIOUS
    <2>2. RecordsFrom(s, c, t)
        BY <1>3, <2>1, RecordedReduces
    <2>3. t \in States /\ t.redo = <<>> /\ Chain("undo", t.undo, Kept(Fresh), Kept(t))
        BY <2>2, RecordsChain DEF Chained
    <2>4. Kept(t) \in Kepts /\ Chain("redo", <<>>, Kept(t), Kept(t))
        BY <2>3, ContentType, ChainEmpty
    <2> QED
        BY <2>1, <2>3, <2>4 DEF Chained
<1>4. CASE ~Ignored(s, c) /\ c.type = "undo"
    <2>1. Reduce(s, c) = Undo(s) /\ s.undo # <<>>
        BY <1>4 DEF Reduce, Ignored
    <2> QED
        BY <2>1, UndoChained
<1>5. CASE ~Ignored(s, c) /\ c.type = "redo"
    <2>1. Reduce(s, c) = Redo(s) /\ s.redo # <<>>
        BY <1>5 DEF Reduce, Ignored
    <2> QED
        BY <2>1, RedoChained
<1>6. CASE c \in ControlCommands /\ c.history = "skip"
    <2>1. PICK t : t = Reduce(s, c)
        OBVIOUS
    <2>2. t.undo = s.undo /\ t.redo = s.redo
        BY <1>6, <2>1, SilentReduced DEF Silent
    <2>3. Kept(t) = Kept(s)
        BY <1>6, <2>1, SkipKept
    <2> QED
        BY <2>1, <2>2, <2>3 DEF Chained
<1> QED
    BY <1>1, <1>2, <1>3, <1>4, <1>5, <1>6, CommandKinds DEF Silent

LEMMA SamePatchItself ==
    ASSUME NEW p
    PROVE  SamePatch(p, p)
BY DEF SamePatch, SameSide

LEMMA SettledChain ==
    ASSUME NEW d, NEW stack \in Seq(Patches), NEW z, NEW k, Chain(d, stack, z, k)
    PROVE  Chain(d, Settled(stack), z, k)
<1>1. PICK m : m = Settled(stack)
    OBVIOUS
<1>2. /\ m \in Seq(Patches) /\ Len(m) = Len(stack)
      /\ \A i \in 1 .. Len(stack) : m[i].before = stack[i].before /\ m[i].after = stack[i].after
    BY <1>1, SettledForm
<1>3. \A i \in 1 .. Len(stack) : SamePatch(m[i], stack[i])
    BY <1>2, SamePatchItself DEF SamePatch
<1>4. Chain(d, m, z, k)
    BY <1>2, <1>3, ChainSame
<1> QED
    BY <1>1, <1>4

\* Where the stacks of both results have the new patches at the same places.
NewAlike(es, cs) == Len(es) = Len(cs) /\ \A i \in 1 .. Len(es) : cs[i].new => es[i].new

LEMMA MergedChain ==
    ASSUME NEW d, NEW es \in Seq(Patches), NEW cs \in Seq(Patches), NewAlike(es, cs),
           NEW s \in States, NEW t \in States, NEW z, NEW k, Chain(d, es, z, k)
    PROVE  Chain(d, MergedStack(es, cs, s, t), z, k)
<1>1. PICK m : m = MergedStack(es, cs, s, t)
    OBVIOUS
<1>2. m \in Seq(Patches) /\ Len(m) = Len(es)
    BY <1>1, MergedStackLength DEF NewAlike
<1>3. ASSUME NEW i \in 1 .. Len(es) PROVE SamePatch(m[i], es[i])
    <2>1. es[i] \in Patches
        OBVIOUS
    <2>2. CASE es[i].new
        <3>1. m[i] = MergedNew(es[i], s, t)
            BY <1>1, <2>2, MergedStackNew
        <3> QED
            BY <2>1, <3>1, MergedNewSame
    <2>3. CASE ~es[i].new
        <3>1. ~cs[i].new
            BY <2>3 DEF NewAlike
        <3>2. m[i] = es[i]
            BY <1>1, <2>3, <3>1, MergedStackOld
        <3> QED
            BY <3>2, SamePatchItself
    <2> QED
        BY <2>2, <2>3
<1>4. Chain(d, m, z, k)
    BY <1>2, <1>3, ChainSame
<1> QED
    BY <1>1, <1>4

\* A command changes the stacks of the committed and the shown state alike.
LEMMA ReducedAlike ==
    ASSUME NEW s \in States, NEW e \in States, Alike(e, s), NEW c \in StoreCommands, Remembered(c),
           Chained(s), Chained(e), OldHistory(s), SoundHistory(s)
    PROVE  /\ NewAlike(Reduce(e, c).undo, Reduce(s, c).undo)
           /\ NewAlike(Reduce(e, c).redo, Reduce(s, c).redo)
<1>1. PICK s2, e2 : s2 = Reduce(s, c) /\ e2 = Reduce(e, c)
    OBVIOUS
<1>2. /\ e.undo = s.undo /\ e.redo = s.redo /\ (Ignored(e, c) <=> Ignored(s, c))
      /\ CommandFields(e, c) = CommandFields(s, c)
    BY AlikeReducer DEF Alike
<1>3. ASSUME e2.undo = s2.undo, e2.redo = s2.redo
      PROVE  NewAlike(e2.undo, s2.undo) /\ NewAlike(e2.redo, s2.redo)
    BY <1>3 DEF NewAlike
<1>4. CASE Ignored(s, c)
    BY <1>1, <1>2, <1>3, <1>4, ReduceType
<1>5. CASE ~Ignored(s, c) /\ Silent(c)
    BY <1>1, <1>2, <1>3, <1>5, SilentReduced
<1>6. CASE ~Ignored(s, c) /\ c.type = "undo"
    <2>1. s.undo # <<>> /\ e.undo # <<>> /\ s2 = Undo(s) /\ e2 = Undo(e)
        BY <1>1, <1>2, <1>6 DEF Ignored, Reduce
    <2> QED
        BY <1>1, <1>2, <1>3, <2>1, UndoForm
<1>7. CASE ~Ignored(s, c) /\ c.type = "redo"
    <2>1. s.redo # <<>> /\ e.redo # <<>> /\ s2 = Redo(s) /\ e2 = Redo(e)
        BY <1>1, <1>2, <1>7 DEF Ignored, Reduce
    <2> QED
        BY <1>1, <1>2, <1>3, <2>1, RedoForm
<1>8. CASE ~Ignored(s, c) /\ Recordable(c)
    <2>1. RecordsFrom(s, c, s2) /\ RecordsFrom(e, c, e2)
        BY <1>1, <1>2, <1>8, RecordedReduces
    <2>2. /\ s2.redo = <<>> /\ e2.redo = <<>> /\ s2 \in States /\ e2 \in States
          /\ \A i \in 1 .. Len(s2.undo) - 1 : s2.undo[i] = s.undo[i] /\ i \in 1 .. Len(s.undo)
        <3>1. Chain("undo", s.undo, Kept(Fresh), Kept(s)) /\ Chain("undo", e.undo, Kept(Fresh), Kept(e))
            BY DEF Chained
        <3> QED
            BY <2>1, <3>1, RecordsChain
    <2>3. SoundStack(s.undo) /\ SoundStack(e.undo) /\ OldStack(s.undo)
        BY <1>2 DEF SoundHistory, OldHistory
    <2>4. /\ Len(s2.undo) = Len(s.undo) + (IF MergesWith(s.undo, CommandGroup(c)) THEN 0 ELSE 1)
          /\ Len(s2.undo) \in Nat \ {0}
        BY <2>1, <2>3, RecordsTop
    <2>5. /\ Len(e2.undo) = Len(e.undo) + (IF MergesWith(e.undo, CommandGroup(c)) THEN 0 ELSE 1)
          /\ Last(e2.undo).new
        BY <2>1, <2>3, RecordsTop
    <2>6. Len(e2.undo) = Len(s2.undo) /\ Len(s2.undo) \in Nat
        BY <1>2, <2>4, <2>5
    <2>7. ASSUME NEW i \in 1 .. Len(e2.undo), s2.undo[i].new PROVE e2.undo[i].new
        <3>1. CASE i = Len(e2.undo)
            BY <2>5, <3>1 DEF Last
        <3>2. CASE i # Len(e2.undo)
            <4>1. i \in 1 .. Len(s2.undo) - 1
                BY <2>6, <3>2
            <4>2. s2.undo[i] = s.undo[i] /\ i \in 1 .. Len(s.undo)
                BY <2>2, <4>1
            <4> QED
                BY <2>3, <2>7, <4>2 DEF OldStack
        <3> QED
            BY <3>1, <3>2
    <2> QED
        BY <1>1, <2>2, <2>6, <2>7 DEF NewAlike
<1> QED
    BY <1>1, <1>4, <1>5, <1>6, <1>7, <1>8, CommandKinds

LEMMA AlikeChained ==
    ASSUME NEW s \in States, NEW e \in States, Alike(e, s), Chained(s)
    PROVE  Chained(e)
<1>1. Kept(e) = Kept(s)
    BY AlikeTimeline DEF Alike, Content, Kept
<1> QED
    BY <1>1 DEF Alike, Chained

\* A dispatched command leads on, merged or not.
LEMMA NextChained ==
    ASSUME NEW s \in States, NEW e \in States, Alike(e, s), NEW l \in Lanes, NEW c \in StoreCommands,
           Remembered(c), Chained(s), OldHistory(s), SoundHistory(s)
    PROVE  Chained(NextOf(s, e, l, c))
<1>1. PICK s2, e2 : s2 = Reduce(s, c) /\ e2 = Reduce(e, c)
    OBVIOUS
<1>2. Chained(e)
    BY AlikeChained
<1>3. s2 \in States /\ e2 \in States /\ Chained(s2) /\ Chained(e2)
    BY <1>1, <1>2, ReduceType, ReduceChained
<1>4. PICK touched : touched = Touched(s, e, s2, e2, c)
    OBVIOUS
<1>5. PICK m : m = IF l = NoLanes THEN s2 ELSE MergedState(s, s2, e2, touched)
    OBVIOUS
<1>6. m \in States /\ Chained(m)
    <2>1. CASE l = NoLanes
        BY <1>3, <1>5, <2>1
    <2>2. CASE l # NoLanes
        <3>1. m = MergedState(s, s2, e2, touched)
            BY <1>5, <2>2
        <3>2. /\ m \in States /\ m.values = e2.values /\ m.item = e2.item
              /\ m.timeline.keys = e2.timeline.keys /\ m.timeline.duration = e2.timeline.duration
              /\ \E t \in States : /\ m.undo = MergedStack(e2.undo, s2.undo, s, t)
                                   /\ m.redo = MergedStack(e2.redo, s2.redo, s, t)
            BY <1>3, <3>1, MergedStateForm
        <3>3. PICK t \in States : /\ m.undo = MergedStack(e2.undo, s2.undo, s, t)
                                  /\ m.redo = MergedStack(e2.redo, s2.redo, s, t)
            BY <3>2
        <3>4. Kept(m) = Kept(e2)
            BY <3>2 DEF Content, Kept
        <3>5. PICK eu \in Seq(Patches), cu \in Seq(Patches), er \in Seq(Patches), cr \in Seq(Patches) :
                  eu = e2.undo /\ cu = s2.undo /\ er = e2.redo /\ cr = s2.redo
            BY <1>3 DEF States
        <3>6. NewAlike(eu, cu) /\ NewAlike(er, cr)
            BY <1>1, <1>2, <3>5, ReducedAlike
        <3>7. PICK z \in Kepts : Chain("redo", er, z, Kept(e2))
            BY <1>3, <3>5 DEF Chained
        <3>8. Chain("undo", eu, Kept(Fresh), Kept(e2))
            BY <1>3, <3>5 DEF Chained
        <3>9. Chain("undo", MergedStack(eu, cu, s, t), Kept(Fresh), Kept(e2))
            BY <3>6, <3>8, MergedChain
        <3>10. Chain("redo", MergedStack(er, cr, s, t), z, Kept(e2))
            BY <3>6, <3>7, MergedChain
        <3> QED
            BY <3>2, <3>3, <3>4, <3>5, <3>9, <3>10 DEF Chained
    <2> QED
        BY <2>1, <2>2
<1>7. PICK n : n = Published(m)
    OBVIOUS
<1>8. n \in States /\ n.undo = Settled(m.undo) /\ n.redo = Settled(m.redo) /\ SameFields(n, m)
    BY <1>6, <1>7, PublishedForm
<1>9. Kept(n) = Kept(m)
    BY <1>6, <1>8, SameContents
<1>10. m.undo \in Seq(Patches) /\ m.redo \in Seq(Patches)
    BY <1>6 DEF States
<1>11. Chain("undo", n.undo, Kept(Fresh), Kept(m))
    BY <1>6, <1>8, <1>10, SettledChain DEF Chained
<1>12. \E z \in Kepts : Chain("redo", n.redo, z, Kept(m))
    BY <1>6, <1>8, <1>10, SettledChain DEF Chained
<1>13. Chained(n)
    BY <1>9, <1>11, <1>12 DEF Chained
<1>14. n = NextOf(s, e, l, c)
    BY <1>1, <1>4, <1>5, <1>7 DEF NextOf
<1> QED
    BY <1>13, <1>14

LEMMA DispatchedChained ==
    ASSUME NEW c \in StoreCommands, Remembered(c), committed \in States, lanes \in Lanes,
           NEW e \in States, Alike(e, committed), Dispatched(c, e), StackInv, Chained(committed)
    PROVE  Chained(committed')
<1>1. CASE committed' = committed
    BY <1>1
<1>2. CASE committed' = NextOf(committed, e, lanes, c)
    <2>1. PICK n : n = NextOf(committed, e, lanes, c)
        OBVIOUS
    <2>2. Chained(n)
        BY <2>1, NextChained DEF StackInv
    <2> QED
        BY <1>2, <2>1, <2>2
<1> QED
    BY <1>1, <1>2, DispatchedIs

LEMMA ChainedStep ==
    ASSUME TypeInv, ShownIsProjected, StackInv, Chained(committed), [Next]_vars
    PROVE  Chained(committed')
<1>0. /\ committed \in States /\ lanes \in Lanes /\ edit \in AuthoredEdits /\ shown \in States
      /\ ~edit.active => edit = Idle
      /\ ShownAs(committed, lanes, edit, shown)
      /\ Commands \subseteq StoreCommands /\ ControlCommands \subseteq StoreCommands
    BY ShownIs, StoreAssumption DEF TypeInv, StoreCommands
<1>1. Effective(committed, lanes) \in States /\ Alike(Effective(committed, lanes), committed)
    BY <1>0, EffectiveForm, EffectiveAlike
<1>2. ASSUME NEW c \in Commands, Dispatch(c)
      PROVE  Chained(committed')
    <2>1. PICK e : e = IF edit.active THEN Effective(committed, lanes) ELSE shown
        OBVIOUS
    <2>2. Dispatched(c, e) /\ c \in StoreCommands
        BY <1>0, <1>2, <2>1 DEF Dispatch
    <2>3. e \in States /\ Alike(e, committed)
        BY <1>0, <1>1, <2>1, IdleAlike
    <2>4. Remembered(c)
        BY CommandsRemembered
    <2> QED
        BY <1>0, <2>2, <2>3, <2>4, DispatchedChained
<1>3. ASSUME NEW s, s \in States, committed' = s, s.undo = committed.undo, s.redo = committed.redo,
             Kept(s) = Kept(committed)
      PROVE  Chained(committed')
    <2>1. Chained(s)
        BY <1>3 DEF Chained
    <2> QED
        BY <1>3, <2>1
<1>4. ASSUME CommitTime
      PROVE  Chained(committed')
    <2>1. PICK t : t = AtMost(lanes.time, committed.timeline.duration)
        OBVIOUS
    <2>2. t \in Nat
        BY <1>0, <1>4, <2>1, AtMostIs DEF CommitTime, Lanes, States, Timelines
    <2>3. PICK s : s = [committed EXCEPT !.timeline.time = t]
        OBVIOUS
    <2>4. committed' = s
        BY <1>4, <2>1, <2>3 DEF CommitTime, SetTime
    <2>5. s \in States /\ s.undo = committed.undo /\ s.redo = committed.redo
        BY <1>0, <2>2, <2>3 DEF States, Timelines
    <2>6. Kept(s) = Kept(committed)
        BY <1>0, <2>2, <2>3 DEF States, Timelines, Content, Kept
    <2> QED
        BY <1>3, <2>4, <2>5, <2>6
<1>5. ASSUME CommitViewport
      PROVE  Chained(committed')
    <2>1. PICK o, z : /\ o = IF lanes.offset = None THEN committed.offset ELSE lanes.offset
                      /\ z = IF lanes.zoom = None THEN committed.zoom ELSE lanes.zoom
        OBVIOUS
    <2>2. o \in Offsets /\ z \in Zooms
        BY <1>0, <2>1 DEF States, Lanes
    <2>3. PICK s : s = [committed EXCEPT !.offset = o, !.zoom = z]
        OBVIOUS
    <2>4. committed' = s
        BY <1>0, <1>5, <2>1, <2>3 DEF CommitViewport, SetViewport, States
    <2>5. s \in States /\ s.undo = committed.undo /\ s.redo = committed.redo
        BY <1>0, <2>2, <2>3 DEF States
    <2>6. Kept(s) = Kept(committed)
        BY <1>0, <2>3 DEF States, Content, Kept
    <2> QED
        BY <1>3, <2>4, <2>5, <2>6
<1>6. ASSUME EndEdit, edit.command # None
      PROVE  Chained(committed')
    <2>1. PICK c : c = [edit.command EXCEPT !.history = "record"]
        OBVIOUS
    <2>2. Dispatched(c, Effective(committed, lanes))
        BY <1>6, <2>1 DEF EndEdit
    <2>3. c \in ControlCommands /\ c.history = "record"
        <3>1. PICK b \in ControlCommands : b = edit.command
            BY <1>0, <1>6 DEF AuthoredEdits
        <3>2. PICK h \in {"record", "merge", "skip"} : h = "record"
            OBVIOUS
        <3>3. [b EXCEPT !.history = h] \in ControlCommands /\ [b EXCEPT !.history = h].history = h
            BY OtherHistory, ZenonT(30)
        <3> QED
            BY <2>1, <3>1, <3>2, <3>3
    <2>4. c \in StoreCommands /\ Remembered(c)
        BY <1>0, <2>3 DEF Remembered
    <2> QED
        BY <1>0, <1>1, <2>2, <2>4, DispatchedChained
<1>7. ASSUME committed' = committed
      PROVE  Chained(committed')
    BY <1>7
<1>8. ASSUME \/ UndoEdit \/ CancelEdit \/ BeginEdit
             \/ EndEdit /\ edit.command = None
             \/ \E t \in Times : MoveTime(t)
             \/ \E v \in Viewports : MoveViewport(v.offset, v.zoom)
             \/ \E c \in Edits : UpdateEdit(c)
             \/ UNCHANGED vars
      PROVE  committed' = committed
    BY <1>8 DEF UndoEdit, CancelEdit, BeginEdit, EndEdit, MoveTime, MoveViewport, UpdateEdit, vars
<1> QED
    BY <1>2, <1>4, <1>5, <1>6, <1>7, <1>8 DEF Next, Steps

(***************************************************************************)
(* Undoing one command after the other is a recursive function, whose      *)
(* values are found by going up from 0: a set of numbers that holds 0 and  *)
(* with every number the next one holds them all.                          *)
(***************************************************************************)
LEMMA LeastNumber ==
    ASSUME NEW T \in SUBSET Nat, T # {}
    PROVE  \E m \in T : \A n \in T : m <= n
<1> DEFINE R == OpToRel(<, Nat)
<1>1. IsWellFoundedOn(R, Nat)
    BY NatLessThanWellFounded
<1>2. \E m \in T : \A n \in T : ~ (<<n, m>> \in R)
    <2> HIDE DEF R
    <2> QED
        BY <1>1, WFMin
<1>3. \A m, n \in Nat : <<n, m>> \in R <=> n < m
    BY DEF OpToRel
<1>4. \A m, n \in Nat : n < m \/ m <= n
    OBVIOUS
<1> HIDE DEF R
<1> QED
    BY <1>2, <1>3, <1>4

LEMMA UpTo ==
    ASSUME NEW N \in Nat, NEW T, 0 \in T, \A n \in 0 .. N - 1 : n \in T => n + 1 \in T
    PROVE  0 .. N \subseteq T
<1> DEFINE missing == {n \in 0 .. N : n \notin T}
<1>1. CASE missing # {}
    <2>1. missing \in SUBSET Nat
        OBVIOUS
    <2>2. PICK n \in missing : \A m \in missing : n <= m
        BY <1>1, <2>1, LeastNumber
    <2>3. n \in 0 .. N /\ n # 0
        BY <2>2
    <2>4. n - 1 \in 0 .. N - 1 /\ n - 1 \notin missing
        BY <2>2, <2>3
    <2> QED
        BY <2>2, <2>3, <2>4
<1> QED
    BY <1>1

LEMMA Iterated ==
    ASSUME NEW N \in Nat, NEW X, NEW first \in X, NEW g \in [X -> X]
    PROVE  \E f \in [0 .. N -> X] : f[0] = first /\ \A n \in 1 .. N : f[n] = g[f[n - 1]]
<1> DEFINE Good(n, f) == f[0] = first /\ \A k \in 1 .. n : f[k] = g[f[k - 1]]
           T == {n \in 0 .. N : \E f \in [0 .. n -> X] : Good(n, f)}
<1>1. 0 \in T
    <2> DEFINE f == [k \in 0 .. 0 |-> first]
    <2>1. f \in [0 .. 0 -> X] /\ Good(0, f)
        OBVIOUS
    <2>2. 0 \in 0 .. N
        OBVIOUS
    <2> HIDE DEF f
    <2> QED
        BY <2>1, <2>2
<1>2. ASSUME NEW n \in 0 .. N - 1, n \in T
      PROVE  n + 1 \in T
    <2>1. PICK f \in [0 .. n -> X] : Good(n, f)
        BY <1>2
    <2> DEFINE h == [k \in 0 .. n + 1 |-> IF k = n + 1 THEN g[f[n]] ELSE f[k]]
    <2>2. g[f[n]] \in X
        BY <2>1
    <2>3. h \in [0 .. n + 1 -> X]
        BY <2>1, <2>2
    <2>4. ASSUME NEW k \in 1 .. n + 1
          PROVE  h[k] = g[h[k - 1]]
        BY <2>1
    <2>5. h[0] = first
        BY <2>1
    <2>6. n + 1 \in 0 .. N
        OBVIOUS
    <2> HIDE DEF h
    <2> QED
        BY <2>3, <2>4, <2>5, <2>6
<1>3. 0 .. N \subseteq T
    <2> HIDE DEF T
    <2> QED
        BY <1>1, <1>2, UpTo
<1>4. N \in T
    BY <1>3
<1> QED
    BY <1>4

LEMMA UndoneForm ==
    ASSUME NEW s \in States
    PROVE  Undone(s)[0] = s /\ \A n \in 1 .. Len(s.undo) : Undone(s)[n] = Undo(Undone(s)[n - 1])
<1>1. PICK N \in Nat : N = Len(s.undo)
    BY DEF States
<1> DEFINE Once(f) == [n \in 0 .. Len(s.undo) |-> IF n = 0 THEN s ELSE Undo(f[n - 1])]
           back == CHOOSE f : f = Once(f)
<1>2. \A w \in States : Undo(w) \in States
    <2>1. ASSUME NEW w \in States, w.undo = <<>> PROVE Undo(w) \in States
        BY <2>1 DEF Undo
    <2> QED
        BY <2>1, UndoForm
<1>3. PICK g : g = [w \in States |-> Undo(w)]
    OBVIOUS
<1>4. g \in [States -> States]
    BY <1>2, <1>3
<1>5. PICK f \in [0 .. N -> States] : f[0] = s /\ \A n \in 1 .. N : f[n] = g[f[n - 1]]
    <2>1. PICK X, z : X = States /\ z = s
        OBVIOUS
    <2>2. z \in X /\ g \in [X -> X]
        BY <1>4, <2>1
    <2>3. \E f \in [0 .. N -> X] : f[0] = z /\ \A n \in 1 .. N : f[n] = g[f[n - 1]]
        BY <2>2, Iterated
    <2> QED
        BY <2>1, <2>3
<1>6. ASSUME NEW n \in 1 .. N PROVE f[n] = Undo(f[n - 1])
    <2>1. f[n - 1] \in States
        BY <1>5
    <2> QED
        BY <1>3, <1>5, <2>1
<1>7. f = Once(f)
    BY <1>1, <1>5, <1>6
<1>8. back = Once(back)
    <2> HIDE DEF Once
    <2> QED
        BY <1>7
<1>9. Undone(s) = back
    BY DEF Undone
<1> HIDE DEF back
<1>10. back[0] = s /\ \A n \in 1 .. N : back[n] = Undo(back[n - 1])
    BY <1>1, <1>8
<1> QED
    BY <1>1, <1>9, <1>10

LEMMA RedoneForm ==
    ASSUME NEW s \in States
    PROVE  Redone(s)[0] = s /\ \A n \in 1 .. Len(s.redo) : Redone(s)[n] = Redo(Redone(s)[n - 1])
<1>1. PICK N \in Nat : N = Len(s.redo)
    BY DEF States
<1> DEFINE Once(f) == [n \in 0 .. Len(s.redo) |-> IF n = 0 THEN s ELSE Redo(f[n - 1])]
           forth == CHOOSE f : f = Once(f)
<1>2. \A w \in States : Redo(w) \in States
    <2>1. ASSUME NEW w \in States, w.redo = <<>> PROVE Redo(w) \in States
        BY <2>1 DEF Redo
    <2> QED
        BY <2>1, RedoForm
<1>3. PICK g : g = [w \in States |-> Redo(w)]
    OBVIOUS
<1>4. g \in [States -> States]
    BY <1>2, <1>3
<1>5. PICK f \in [0 .. N -> States] : f[0] = s /\ \A n \in 1 .. N : f[n] = g[f[n - 1]]
    <2>1. PICK X, z : X = States /\ z = s
        OBVIOUS
    <2>2. z \in X /\ g \in [X -> X]
        BY <1>4, <2>1
    <2>3. \E f \in [0 .. N -> X] : f[0] = z /\ \A n \in 1 .. N : f[n] = g[f[n - 1]]
        BY <2>2, Iterated
    <2> QED
        BY <2>1, <2>3
<1>6. ASSUME NEW n \in 1 .. N PROVE f[n] = Redo(f[n - 1])
    <2>1. f[n - 1] \in States
        BY <1>5
    <2> QED
        BY <1>3, <1>5, <2>1
<1>7. f = Once(f)
    BY <1>1, <1>5, <1>6
<1>8. forth = Once(forth)
    <2> HIDE DEF Once
    <2> QED
        BY <1>7
<1>9. Redone(s) = forth
    BY DEF Redone
<1> HIDE DEF forth
<1>10. forth[0] = s /\ \A n \in 1 .. N : forth[n] = Redo(forth[n - 1])
    BY <1>1, <1>8
<1> QED
    BY <1>1, <1>9, <1>10

\* Every state that undoing comes to is chained, with one command less to undo.
LEMMA UndoneExact ==
    ASSUME NEW s \in States, Chained(s)
    PROVE  /\ Kept(Undone(s)[Len(s.undo)]) = Kept(Fresh)
           /\ \A n \in 1 .. Len(s.undo) : Kept(Redo(Undone(s)[n])) = Kept(Undone(s)[n - 1])
<1>1. PICK N \in Nat : N = Len(s.undo)
    BY DEF States
<1>2. PICK b : b = Undone(s)
    OBVIOUS
<1>3. b[0] = s /\ \A n \in 1 .. N : b[n] = Undo(b[n - 1])
    BY <1>1, <1>2, UndoneForm
<1>4. ASSUME NEW w \in States, Chained(w), NEW m \in Nat, Len(w.undo) = m, m # 0
      PROVE  /\ Undo(w) \in States /\ Chained(Undo(w)) /\ Len(Undo(w).undo) = m - 1
             /\ Kept(Redo(Undo(w))) = Kept(w)
    <2>1. PICK u \in Seq(Patches) : u = w.undo
        BY DEF States
    <2>2. u # <<>>
        BY <1>4, <2>1
    <2>3. Len(Front(u)) = m - 1
        BY <1>4, <2>1, <2>2, StackTypes
    <2> QED
        BY <1>4, <2>1, <2>2, <2>3, UndoChained
<1> DEFINE T == {n \in 0 .. N : b[n] \in States /\ Chained(b[n]) /\ Len(b[n].undo) = N - n}
<1>5. 0 \in T
    BY <1>1, <1>3
<1>6. ASSUME NEW n \in 0 .. N - 1, n \in T
      PROVE  n + 1 \in T /\ Kept(Redo(b[n + 1])) = Kept(b[n])
    <2>1. PICK w \in States, m \in Nat : w = b[n] /\ m = N - n
        BY <1>6
    <2>2. Chained(w) /\ Len(w.undo) = m /\ m # 0
        BY <1>6, <2>1
    <2>3. n + 1 \in 1 .. N /\ (n + 1) - 1 = n /\ n + 1 \in 0 .. N /\ m - 1 = N - (n + 1)
        BY <2>1
    <2>4. b[n + 1] = Undo(w)
        BY <1>3, <2>1, <2>3
    <2> QED
        BY <1>4, <2>1, <2>2, <2>3, <2>4
<1> HIDE DEF T
<1>7. 0 .. N \subseteq T
    BY <1>5, <1>6, UpTo
<1>8. Kept(b[N]) = Kept(Fresh)
    <2>1. PICK w : w = b[N]
        OBVIOUS
    <2>2. w \in States /\ Chained(w) /\ Len(w.undo) = 0
        BY <1>7, <2>1 DEF T
    <2>3. w.undo = <<>>
        BY <2>2 DEF States
    <2>4. Chain("undo", <<>>, Kept(Fresh), Kept(w)) /\ Kept(Fresh) \in Kepts
        BY <2>2, <2>3, FreshType, ContentType DEF Chained
    <2>5. Kept(Fresh) = Kept(w)
        BY <2>4, ChainEmpty
    <2> QED
        BY <2>1, <2>5
<1>9. ASSUME NEW n \in 1 .. N PROVE Kept(Redo(b[n])) = Kept(b[n - 1])
    <2>1. PICK m \in 0 .. N - 1 : m = n - 1 /\ m + 1 = n
        OBVIOUS
    <2> QED
        BY <1>6, <1>7, <2>1
<1> QED
    BY <1>1, <1>2, <1>8, <1>9

LEMMA RedoneExact ==
    ASSUME NEW s \in States, Chained(s)
    PROVE  \A n \in 1 .. Len(s.redo) : Kept(Undo(Redone(s)[n])) = Kept(Redone(s)[n - 1])
<1>1. PICK N \in Nat : N = Len(s.redo)
    BY DEF States
<1>2. PICK b : b = Redone(s)
    OBVIOUS
<1>3. b[0] = s /\ \A n \in 1 .. N : b[n] = Redo(b[n - 1])
    BY <1>1, <1>2, RedoneForm
<1>4. ASSUME NEW w \in States, Chained(w), NEW m \in Nat, Len(w.redo) = m, m # 0
      PROVE  /\ Redo(w) \in States /\ Chained(Redo(w)) /\ Len(Redo(w).redo) = m - 1
             /\ Kept(Undo(Redo(w))) = Kept(w)
    <2>1. PICK u \in Seq(Patches) : u = w.redo
        BY DEF States
    <2>2. u # <<>>
        BY <1>4, <2>1
    <2>3. Len(Front(u)) = m - 1
        BY <1>4, <2>1, <2>2, StackTypes
    <2> QED
        BY <1>4, <2>1, <2>2, <2>3, RedoChained
<1> DEFINE T == {n \in 0 .. N : b[n] \in States /\ Chained(b[n]) /\ Len(b[n].redo) = N - n}
<1>5. 0 \in T
    BY <1>1, <1>3
<1>6. ASSUME NEW n \in 0 .. N - 1, n \in T
      PROVE  n + 1 \in T /\ Kept(Undo(b[n + 1])) = Kept(b[n])
    <2>1. PICK w \in States, m \in Nat : w = b[n] /\ m = N - n
        BY <1>6
    <2>2. Chained(w) /\ Len(w.redo) = m /\ m # 0
        BY <1>6, <2>1
    <2>3. n + 1 \in 1 .. N /\ (n + 1) - 1 = n /\ n + 1 \in 0 .. N /\ m - 1 = N - (n + 1)
        BY <2>1
    <2>4. b[n + 1] = Redo(w)
        BY <1>3, <2>1, <2>3
    <2> QED
        BY <1>4, <2>1, <2>2, <2>3, <2>4
<1> HIDE DEF T
<1>7. 0 .. N \subseteq T
    BY <1>5, <1>6, UpTo
<1>8. ASSUME NEW n \in 1 .. N PROVE Kept(Undo(b[n])) = Kept(b[n - 1])
    <2>1. PICK m \in 0 .. N - 1 : m = n - 1 /\ m + 1 = n
        OBVIOUS
    <2> QED
        BY <1>6, <1>7, <2>1
<1> QED
    BY <1>1, <1>2, <1>8

(***************************************************************************)
(* Undo and redo are exact (withToolcraftHistory, applyToolcraftHistory):  *)
(* undoing every command returns to the first content, and each undo and   *)
(* redo takes back what the other did, but for the values that some        *)
(* command sets without a record.                                          *)
(***************************************************************************)
THEOREM HistoryStaysExact == Spec => []HistoryIsExact
<1> DEFINE Inv == TypeInv /\ ShownIsProjected /\ StackInv /\ Chained(committed)
<1>1. Init => Inv
    <2> SUFFICES ASSUME Init PROVE Inv
        OBVIOUS
    <2>1. TypeInv /\ ShownIsProjected
        BY InitShown
    <2>2. /\ committed = Fresh /\ committed \in States
          /\ committed.undo = <<>> /\ committed.redo = <<>> /\ lanes = NoLanes
        BY FreshType DEF Init
    <2>3. StackInv
        BY <2>2, NoLanesApart DEF StackInv, SoundHistory, OldHistory, SoundStack, OldStack
    <2>4. Kept(Fresh) \in Kepts
        BY FreshType, ContentType
    <2>5. Chained(committed)
        BY <2>2, <2>4, ChainEmpty DEF Chained
    <2> QED
        BY <2>1, <2>3, <2>5
<1>2. Inv /\ [Next]_vars => Inv'
    <2> SUFFICES ASSUME Inv, [Next]_vars PROVE Inv'
        OBVIOUS
    <2>1. TypeInv' /\ ShownIsProjected'
        BY ShownStep
    <2>2. StackInv'
        BY StackStep
    <2>3. Chained(committed')
        BY ChainedStep
    <2> QED
        BY <2>1, <2>2, <2>3
<1>3. Inv => HistoryIsExact
    <2> SUFFICES ASSUME Inv PROVE HistoryIsExact
        OBVIOUS
    <2>1. committed \in States
        BY DEF TypeInv
    <2> QED
        BY <2>1, UndoneExact, RedoneExact DEF HistoryIsExact
<1> QED
    BY <1>1, <1>2, <1>3, PTL DEF Spec
=============================================================================
