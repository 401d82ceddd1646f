----------------------- MODULE ModelImportWorkerProofs -----------------------
(***************************************************************************)
(* Theorems about ModelImportWorker, for any number of requests, bounds of *)
(* the caches, faults and damaged messages.                                *)
(***************************************************************************)
EXTENDS ModelImportWorker, FiniteSetTheorems, SequenceTheorems, WellFoundedInduction, TLAPS

(***************************************************************************)
(* Types.  A document in the worker may come from a cache and has no type  *)
(* here: Post gives the one of a message.                                  *)
(***************************************************************************)
JobRecords ==
    [posted : BOOLEAN, phase : 0 .. 2, level : 0 .. 2, drafted : BOOLEAN,
     terminal : BOOLEAN, diagnostics : 0 .. MaxDiagnostics, verified : Docs \cup {NoDoc}]

Steps == {"idle", "begin", "decode", "decoded", "draft", "drafted", "analyze", "diagnose",
          "repair", "extract", "done", "dead"}

WorkerRecords(doc) ==
    [pc : Steps, gen : Jobs, doc : {doc}, limits : Limits \cup {NoLimits},
     level : 0 .. 2, left : 0 .. MaxDiagnostics]

Kinds == {"progress", "draft", "diagnostic", "error", "result", "stopped"}

Messages ==
    [worker : Nat, gen : Nat, kind : Kinds, phase : 0 .. 2, level : 0 .. 2,
     doc : Docs \cup {NoDoc}, limits : Limits \cup {NoLimits}, sound : {"ok"} \cup Tampering]

Tasks ==
    [stage : {"draft", "compare", "result"}, worker : Nat, gen : Gens, doc : Docs \cup {NoDoc},
     limits : Limits \cup {NoLimits}, intact : BOOLEAN]

PageTypes ==
    /\ generation \in Jobs
    /\ request \in [Gens -> Requests]
    /\ shown \in [Gens -> Docs \cup {NoDoc}]
    /\ preparing \in [Gens -> {"no", "snapshot", "inputs"}]
    /\ tasks \subseteq Tasks
    /\ disposed \in BOOLEAN
    /\ workers \in 0 .. generation

JobTypes ==
    /\ active \in {0, generation}
    /\ job \in JobRecords
    /\ outcome \in [Gens -> AnswerType]

WorkTypes ==
    /\ binding \in 0 .. workers
    /\ toWorker \in Seq(Gens)
    /\ worker \in WorkerRecords(worker.doc)

MessageTypes ==
    /\ toPage \in Seq(Messages)
    /\ tampered \subseteq Jobs

\* A request that is being prepared has started no worker yet.
PreparedUnposted ==
    active # 0 /\ preparing[active] # "no" => ~job.posted /\ workers < generation

(***************************************************************************)
(* Whose turn it is.  The worker has something to do only for the active   *)
(* job, once it was posted; a final message of that job on its way, or in  *)
(* verification, says that the worker has done it.                         *)
(***************************************************************************)
Rest == {"idle", "done", "dead"}

AtRest == toWorker = <<>> /\ worker.pc \in Rest

Live(x) == active # 0 /\ x.worker = binding /\ x.gen = active

WorkIsActive ==
    /\ ~AtRest => active # 0 /\ job.posted /\ binding # 0
    /\ toWorker # <<>> => toWorker = <<active>> /\ worker.pc \in Rest
    /\ worker.pc \notin Rest => worker.gen = active

MessageInTurn(m) ==
    /\ m.worker \in 0 .. workers /\ m.gen \in 0 .. generation
    /\ Live(m) => job.posted /\ (m.kind \in {"error", "result"} => AtRest)

TaskInTurn(t) ==
    /\ t.worker \in 0 .. workers /\ t.gen \in 0 .. generation
    /\ Live(t) => job.posted /\ (t.stage # "draft" => AtRest)

MessagesInTurn == \A i \in DOMAIN toPage : MessageInTurn(toPage[i])

TasksInTurn == \A t \in tasks : TaskInTurn(t)

TypeInv == PageTypes /\ JobTypes /\ WorkTypes /\ MessageTypes

Turns == PreparedUnposted /\ WorkIsActive /\ MessagesInTurn /\ TasksInTurn

IInv == TypeInv /\ Turns

LEMMA TypesHold == IInv => TypeOK
BY BoundsAssumption DEF IInv, TypeInv, PageTypes, JobTypes, WorkTypes, MessageTypes, TypeOK, Jobs, Gens,
       JobRecords, WorkerRecords, Tasks

LEMMA TurnsHold == IInv => NeverBusy
BY DEF IInv, TypeInv, WorkTypes, Turns, WorkIsActive, NeverBusy, Rest

LEMMA NoWork ==
    /\ NewJob \in JobRecords /\ NewJob.posted = FALSE
    /\ IdleWorker \in WorkerRecords(IdleWorker.doc) /\ IdleWorker.pc = "idle"
    /\ {Unmade, Pending, Cancelled, Failed, Rejected} \subseteq AnswerType
    /\ \A d \in Docs \cup {NoDoc}, l \in Limits \cup {NoLimits} :
           Answer("result", d, l) \in AnswerType
BY BoundsAssumption DEF NewJob, JobRecords, IdleWorker, WorkerRecords, Steps, Jobs, Unmade, Pending, Cancelled,
       Failed, Rejected, Answer, AnswerType

LEMMA InitInv == Init => IInv
<1> SUFFICES ASSUME Init PROVE IInv
    OBVIOUS
<1> DEFINE first == CHOOSE r \in Requests : TRUE
<1>1. first \in Requests /\ request = [g \in Gens |-> first]
    BY RequestsAssumption DEF Init
<1>2. PageTypes
    <2> HIDE DEF first
    <2>1. request \in [Gens -> Requests]
        BY <1>1
    <2>2. generation \in Jobs /\ workers \in 0 .. generation
        BY DEF Init, Jobs
    <2>4. disposed \in BOOLEAN
        BY DEF Init
    <2>3. shown \in [Gens -> Docs \cup {NoDoc}] /\ preparing \in [Gens -> {"no", "snapshot", "inputs"}]
        BY DEF Init
    <2> QED
        BY <2>1, <2>2, <2>3, <2>4 DEF Init, PageTypes
<1>3. JobTypes
    BY NoWork DEF Init, JobTypes, Gens
<1>4. WorkTypes /\ MessageTypes
    BY NoWork DEF Init, WorkTypes, MessageTypes
<1>5. Turns
    BY NoWork DEF Init, Turns, PreparedUnposted, WorkIsActive, MessagesInTurn, TasksInTurn,
                  AtRest, Rest
<1> QED
    BY <1>2, <1>3, <1>4, <1>5 DEF IInv, TypeInv

(***************************************************************************)
(* What the page takes from the queue of messages and from the tasks.      *)
(***************************************************************************)
Kept ==
    \/ toPage' = toPage
    \/ toPage # <<>> /\ toPage' = Tail(toPage)

LEMMA KeptMessages ==
    ASSUME IInv, Kept
    PROVE  /\ toPage' \in Seq(Messages)
           /\ \A i \in DOMAIN toPage' : \E k \in DOMAIN toPage : toPage'[i] = toPage[k]
<1>1. toPage \in Seq(Messages)
    BY DEF IInv, TypeInv, MessageTypes
<1>2. CASE toPage' = toPage
    BY <1>1, <1>2
<1>3. CASE toPage # <<>> /\ toPage' = Tail(toPage)
    <2>1. toPage' \in Seq(Messages)
        BY <1>1, <1>3
    <2>2. ASSUME NEW i \in DOMAIN toPage'
          PROVE  i + 1 \in DOMAIN toPage /\ toPage'[i] = toPage[i + 1]
        BY <1>1, <1>3, <2>2
    <2> QED
        BY <2>1, <2>2
<1> QED
    BY <1>2, <1>3 DEF Kept

LEMMA FirstMessage ==
    ASSUME IInv, toPage # <<>>
    PROVE  Head(toPage) \in Messages /\ MessageInTurn(Head(toPage))
<1>1. toPage \in Seq(Messages)
    BY DEF IInv, TypeInv, MessageTypes
<1>2. 1 \in DOMAIN toPage /\ Head(toPage) = toPage[1] /\ toPage[1] \in Messages
    BY <1>1
<1> QED
    BY <1>2 DEF IInv, Turns, MessagesInTurn

(***************************************************************************)
(* The ends of a job.                                                      *)
(***************************************************************************)
LEMMA TerminatedTypes ==
    ASSUME TerminateBinding
    PROVE  binding' = 0 /\ toWorker' = <<>> /\ AtRest'
           /\ worker' \in WorkerRecords(worker'.doc) /\ toWorker' \in Seq(Gens)
BY NoWork DEF TerminateBinding, AtRest, Rest

LEMMA SettledTypes ==
    ASSUME IInv, NEW answer \in AnswerType, SettleActive(answer), generation' = generation
    PROVE  JobTypes' /\ active' = 0
BY NoWork DEF SettleActive, IInv, TypeInv, JobTypes

LEMMA FailedTypes ==
    ASSUME IInv, NEW answer \in AnswerType, FailTransport(answer), generation' = generation,
           workers' \in Nat
    PROVE  JobTypes' /\ WorkTypes' /\ active' = 0 /\ AtRest'
<1>1. TerminateBinding
    BY DEF FailTransport
<1>2. WorkTypes' /\ AtRest'
    BY <1>1, TerminatedTypes DEF WorkTypes
<1>3. CASE active = 0
    BY <1>3, <1>2 DEF FailTransport, jobVars, IInv, TypeInv, JobTypes
<1>4. CASE active # 0
    BY <1>4, <1>2, SettledTypes DEF FailTransport
<1> QED
    BY <1>3, <1>4

\* When no job is active and the worker is at rest, nothing is out of turn.
LEMMA EndedTurns ==
    ASSUME IInv, active' = 0, AtRest', generation' = generation,
           workers' \in {workers, workers + 1}, Kept, tasks' \subseteq tasks
    PROVE  Turns'
<1>1. workers \in Nat /\ generation \in Nat
    BY BoundsAssumption DEF IInv, TypeInv, PageTypes, Jobs, Gens
<1>2. PreparedUnposted' /\ WorkIsActive'
    BY DEF PreparedUnposted, WorkIsActive, AtRest
<1>3. ASSUME NEW i \in DOMAIN toPage'
      PROVE  MessageInTurn(toPage[i])'
    <2>1. PICK k \in DOMAIN toPage : toPage'[i] = toPage[k]
        BY KeptMessages
    <2>2. MessageInTurn(toPage[k])
        BY DEF IInv, Turns, MessagesInTurn
    <2> QED
        BY <1>1, <2>1, <2>2 DEF MessageInTurn, Live
<1>4. ASSUME NEW t \in tasks'
      PROVE  TaskInTurn(t)'
    <2>1. TaskInTurn(t)
        BY DEF IInv, Turns, TasksInTurn
    <2> QED
        BY <1>1, <2>1 DEF TaskInTurn, Live
<1> QED
    BY <1>2, <1>3, <1>4 DEF Turns, MessagesInTurn, TasksInTurn

\* A step of the page that leaves the job active and the worker alone.
LEMMA SameTurns ==
    ASSUME IInv, UNCHANGED <<active, workVars, generation, workers>>,
           job'.posted = job.posted, Kept,
           active # 0 /\ preparing'[active] # "no" => preparing[active] # "no",
           \A t \in tasks' : t \in tasks \/ TaskInTurn(t)
    PROVE  Turns'
<1>1. AtRest' = AtRest /\ UNCHANGED <<binding, toWorker, worker>>
    BY DEF workVars, AtRest
<1>2. PreparedUnposted' /\ WorkIsActive'
    BY <1>1 DEF IInv, Turns, PreparedUnposted, WorkIsActive
<1>3. ASSUME NEW i \in DOMAIN toPage'
      PROVE  MessageInTurn(toPage[i])'
    <2>1. PICK k \in DOMAIN toPage : toPage'[i] = toPage[k]
        BY KeptMessages
    <2>2. MessageInTurn(toPage[k])
        BY DEF IInv, Turns, MessagesInTurn
    <2> QED
        BY <1>1, <2>1, <2>2 DEF MessageInTurn, Live
<1>4. ASSUME NEW t \in tasks'
      PROVE  TaskInTurn(t)'
    <2>1. TaskInTurn(t)
        BY DEF IInv, Turns, TasksInTurn
    <2> QED
        BY <1>1, <2>1 DEF TaskInTurn, Live
<1> QED
    BY <1>2, <1>3, <1>4 DEF Turns, MessagesInTurn, TasksInTurn

(***************************************************************************)
(* The caller.                                                             *)
(***************************************************************************)
LEMMA StartInv ==
    ASSUME IInv, NEW r \in Requests, NEW aborted \in BOOLEAN, StartJob(r, aborted)
    PROVE  IInv'
<1> DEFINE g == generation + 1
<1>1. /\ g \in Gens /\ generation' = g /\ generation \in Nat
      /\ workers \in 0 .. generation /\ workers' = workers
      /\ toPage' = toPage /\ tasks' = tasks
    BY BoundsAssumption DEF StartJob, IInv, TypeInv, PageTypes, Jobs, Gens
<1>2. PageTypes'
    BY <1>1 DEF StartJob, IInv, TypeInv, PageTypes, Jobs
<1>3. JobTypes'
    <2>1. job' \in JobRecords /\ active' \in {0, g}
        BY NoWork DEF StartJob
    <2>2. outcome' \in [Gens -> AnswerType]
        BY NoWork DEF StartJob, IInv, TypeInv, JobTypes
    <2> QED
        BY <1>1, <2>1, <2>2 DEF JobTypes
<1>4. AtRest' /\ WorkTypes'
    <2>1. CASE active # 0 /\ job.posted
        BY <2>1, <1>1, TerminatedTypes DEF StartJob, TerminateIf, WorkTypes
    <2>2. CASE ~(active # 0 /\ job.posted)
        BY <2>2, <1>1 DEF StartJob, TerminateIf, workVars, IInv, TypeInv, WorkTypes, Turns,
                          WorkIsActive, AtRest
    <2> QED
        BY <2>1, <2>2
<1>5. MessageTypes'
    BY DEF StartJob, IInv, TypeInv, MessageTypes
<1>6. PreparedUnposted' /\ WorkIsActive'
    BY <1>1, <1>4, NoWork DEF StartJob, PreparedUnposted, WorkIsActive, AtRest
<1>7. MessagesInTurn'
    <2> SUFFICES ASSUME NEW i \in DOMAIN toPage
                 PROVE  MessageInTurn(toPage[i])'
        BY <1>1 DEF MessagesInTurn
    <2>1. MessageInTurn(toPage[i])
        BY DEF IInv, Turns, MessagesInTurn
    <2>2. active' \in {0, g}
        BY DEF StartJob
    <2> QED
        BY <1>1, <2>1, <2>2 DEF MessageInTurn, Live
<1>8. TasksInTurn'
    <2> SUFFICES ASSUME NEW t \in tasks
                 PROVE  TaskInTurn(t)'
        BY <1>1 DEF TasksInTurn
    <2>1. TaskInTurn(t)
        BY DEF IInv, Turns, TasksInTurn
    <2>2. active' \in {0, g}
        BY DEF StartJob
    <2> QED
        BY <1>1, <2>1, <2>2 DEF TaskInTurn, Live
<1> QED
    BY <1>2, <1>3, <1>4, <1>5, <1>6, <1>7, <1>8 DEF IInv, TypeInv, Turns

LEMMA CancelInv ==
    ASSUME IInv, Cancel
    PROVE  IInv'
<1>1. PageTypes' /\ MessageTypes' /\ UNCHANGED <<generation, workers, toPage, tasks>>
    BY DEF Cancel, pageVars, IInv, TypeInv, PageTypes, MessageTypes, Tasks
<1>2. JobTypes' /\ active' = 0
    BY <1>1, NoWork, SettledTypes DEF Cancel, CancelActive
<1>3. AtRest' /\ WorkTypes'
    <2>1. CASE job.posted
        BY <2>1, <1>1, TerminatedTypes DEF Cancel, CancelActive, TerminateIf, WorkTypes, IInv,
                                           TypeInv, PageTypes
    <2>2. CASE ~job.posted
        BY <2>2, <1>1 DEF Cancel, CancelActive, TerminateIf, workVars, IInv, TypeInv, WorkTypes,
                          Turns, WorkIsActive, AtRest
    <2> QED
        BY <2>1, <2>2
<1>4. Turns'
    BY <1>1, <1>2, <1>3, EndedTurns DEF Kept
<1> QED
    BY <1>1, <1>2, <1>3, <1>4 DEF IInv, TypeInv

LEMMA DisposeInv ==
    ASSUME IInv, Dispose
    PROVE  IInv'
<1>1. MessageTypes' /\ UNCHANGED <<generation, workers, toPage, tasks>> /\ workers \in Nat
    BY DEF Dispose, IInv, TypeInv, PageTypes, MessageTypes
<1>2. PageTypes'
    <2>1. disposed' \in BOOLEAN
        BY DEF Dispose
    <2> QED
        BY <2>1 DEF Dispose, IInv, TypeInv, PageTypes, Tasks
<1>3. FailTransport(Cancelled) /\ Cancelled \in AnswerType
    BY NoWork DEF Dispose, FailTransport
<1>4. JobTypes' /\ WorkTypes' /\ active' = 0 /\ AtRest'
    BY <1>1, <1>3, FailedTypes
<1>5. Turns'
    BY <1>1, <1>4, EndedTurns DEF Kept
<1> QED
    BY <1>1, <1>2, <1>4, <1>5 DEF IInv, TypeInv

(***************************************************************************)
(* The preparation of a request.                                           *)
(***************************************************************************)
PreparationFrame(g, to) ==
    /\ preparing' = [preparing EXCEPT ![g] = to]
    /\ UNCHANGED <<generation, request, shown, tasks, disposed, toPage, tampered>>

\* A job that is being prepared has given the worker nothing.
LEMMA PreparingAtRest ==
    ASSUME IInv, active # 0, preparing[active] # "no"
    PROVE  AtRest /\ ~job.posted /\ workers + 1 \in 0 .. generation
<1>1. ~job.posted /\ workers < generation
    BY DEF IInv, Turns, PreparedUnposted
<1> QED
    BY <1>1, BoundsAssumption DEF IInv, Turns, WorkIsActive, TypeInv, PageTypes, Jobs, Gens

LEMMA PreparationTypes ==
    ASSUME IInv, NEW g \in Gens, NEW to \in {"no", "snapshot", "inputs"}, PreparationFrame(g, to),
           workers' \in 0 .. generation
    PROVE  PageTypes' /\ MessageTypes'
<1>1. disposed' \in BOOLEAN
    BY DEF PreparationFrame, IInv, TypeInv, PageTypes
<1> QED
    BY <1>1 DEF PreparationFrame, IInv, TypeInv, PageTypes, MessageTypes, Tasks

\* A copy is dropped, or goes on to be verified.
LEMMA StillPreparing ==
    ASSUME IInv, NEW g \in Gens, NEW to \in {"no", "snapshot", "inputs"}, PreparationFrame(g, to),
           preparing[g] # "no", UNCHANGED <<jobVars, workVars, workers>>
    PROVE  IInv'
<1>1. PageTypes' /\ MessageTypes'
    BY PreparationTypes DEF IInv, TypeInv, PageTypes
<1>2. JobTypes' /\ WorkTypes'
    BY DEF PreparationFrame, jobVars, workVars, IInv, TypeInv, JobTypes, WorkTypes
<1>3. active # 0 /\ preparing'[active] # "no" => preparing[active] # "no"
    BY DEF PreparationFrame, IInv, TypeInv, PageTypes
<1>4. Turns'
    BY <1>3, SameTurns DEF PreparationFrame, jobVars, Kept
<1> QED
    BY <1>1, <1>2, <1>4 DEF IInv, TypeInv

LEMMA FailPreparedInv ==
    ASSUME IInv, NEW g \in Gens, PreparationFrame(g, "no"), active = g, preparing[g] # "no",
           FailPrepared
    PROVE  IInv'
<1>1. PageTypes' /\ MessageTypes'
    BY PreparationTypes DEF FailPrepared, IInv, TypeInv, PageTypes
<1>2. JobTypes' /\ active' = 0
    BY NoWork, SettledTypes DEF FailPrepared, PreparationFrame
<1>3. WorkTypes' /\ AtRest'
    BY PreparingAtRest DEF FailPrepared, workVars, IInv, TypeInv, WorkTypes, AtRest, Gens
<1>4. Turns'
    BY <1>2, <1>3, EndedTurns DEF FailPrepared, PreparationFrame, Kept
<1> QED
    BY <1>1, <1>2, <1>3, <1>4 DEF IInv, TypeInv

LEMMA PostedInv ==
    ASSUME IInv, NEW g \in Gens, PreparationFrame(g, "no"), active = g, preparing[g] # "no",
           PostJob(g)
    PROVE  IInv'
<1>1. /\ active # 0 /\ AtRest /\ ~job.posted
      /\ workers \in Nat /\ workers + 1 \in 0 .. generation
    BY PreparingAtRest DEF IInv, TypeInv, PageTypes, Gens
<1>2. workers' \in {workers, workers + 1}
    BY DEF PostJob, workVars
<1>3. PageTypes' /\ MessageTypes'
    BY <1>1, <1>2, PreparationTypes DEF IInv, TypeInv, PageTypes
<1>4. generation' = generation
    BY DEF PreparationFrame
<1>5. CASE SettleActive(Failed) /\ UNCHANGED <<workVars, workers>>
    BY <1>5, FailPreparedInv DEF FailPrepared
<1>6. CASE FailTransport(Failed)
    <2>1. JobTypes' /\ WorkTypes' /\ active' = 0 /\ AtRest'
        BY <1>1, <1>2, <1>4, <1>6, NoWork, FailedTypes
    <2>2. Turns'
        BY <1>2, <2>1, EndedTurns DEF PreparationFrame, Kept
    <2> QED
        BY <1>3, <2>1, <2>2 DEF IInv, TypeInv
<1>7. CASE /\ job' = [job EXCEPT !.posted = TRUE]
           /\ binding' = IF binding = 0 THEN workers + 1 ELSE binding
           /\ workers' = IF binding = 0 THEN workers + 1 ELSE workers
           /\ toWorker' = Append(toWorker, g)
           /\ UNCHANGED <<active, outcome, worker, cache>>
    <2>1. toWorker = <<>> /\ worker.pc \in Rest /\ binding \in 0 .. workers
        BY <1>1 DEF AtRest, IInv, TypeInv, WorkTypes
    <2>2. job' \in JobRecords /\ job'.posted
        BY <1>7 DEF IInv, TypeInv, JobTypes, JobRecords
    <2>3. JobTypes'
        BY <1>4, <1>7, <2>2 DEF IInv, TypeInv, JobTypes
    <2>4. toWorker' = <<g>> /\ binding' \in 1 .. workers'
        BY <1>1, <1>7, <2>1
    <2>5. WorkTypes'
        BY <1>7, <2>1, <2>4 DEF IInv, TypeInv, WorkTypes
    <2>6. PreparedUnposted'
        BY <1>7 DEF PreparedUnposted, PreparationFrame, IInv, TypeInv, PageTypes
    <2>7. WorkIsActive'
        BY <1>1, <1>7, <2>1, <2>2, <2>4 DEF WorkIsActive
    <2>8. ASSUME NEW x, x.worker \in 0 .. workers, x.gen \in 0 .. generation, Live(x) => job.posted
          PROVE  x.worker \in 0 .. workers' /\ x.gen \in 0 .. generation' /\ ~Live(x)'
        BY <1>1, <1>2, <1>4, <1>7, <2>8, <2>1 DEF Live
    <2>9. MessagesInTurn'
        <3> SUFFICES ASSUME NEW i \in DOMAIN toPage
                     PROVE  MessageInTurn(toPage[i])'
            BY DEF MessagesInTurn, PreparationFrame
        <3>1. MessageInTurn(toPage[i]) /\ toPage' = toPage
            BY DEF IInv, Turns, MessagesInTurn, PreparationFrame
        <3>2. ~Live(toPage[i])' /\ toPage[i].worker \in 0 .. workers' /\ toPage[i].gen \in 0 .. generation'
            BY <2>8, <3>1 DEF MessageInTurn
        <3> QED
            BY <3>1, <3>2 DEF MessageInTurn, Live
    <2>10. TasksInTurn'
        <3> SUFFICES ASSUME NEW t \in tasks
                     PROVE  TaskInTurn(t)'
            BY DEF TasksInTurn, PreparationFrame
        <3>1. TaskInTurn(t)
            BY DEF IInv, Turns, TasksInTurn
        <3> QED
            BY <2>8, <3>1 DEF TaskInTurn, Live
    <2> QED
        BY <1>3, <2>3, <2>5, <2>6, <2>7, <2>9, <2>10 DEF IInv, TypeInv, Turns
<1> QED
    BY <1>5, <1>6, <1>7 DEF PostJob

LEMMA SnapshotInv ==
    ASSUME IInv, NEW g \in Gens, SnapshotDone(g)
    PROVE  IInv'
<1>1. preparing[g] # "no"
    BY DEF SnapshotDone
<1>2. CASE UNCHANGED <<jobVars, workVars, workers>>
    <2>1. \E to \in {"no", "snapshot", "inputs"} : PreparationFrame(g, to)
        BY DEF SnapshotDone, PreparationFrame
    <2> QED
        BY <1>1, <1>2, <2>1, StillPreparing
<1>3. CASE active = g /\ FailPrepared /\ preparing' = [preparing EXCEPT ![g] = "no"]
    BY <1>1, <1>3, FailPreparedInv DEF SnapshotDone, PreparationFrame
<1>4. CASE active = g /\ PostJob(g) /\ preparing' = [preparing EXCEPT ![g] = "no"]
    BY <1>1, <1>4, PostedInv DEF SnapshotDone, PreparationFrame
<1> QED
    BY <1>2, <1>3, <1>4 DEF SnapshotDone

LEMMA InputsInv ==
    ASSUME IInv, NEW g \in Gens, InputsVerified(g)
    PROVE  IInv'
<1>1. preparing[g] # "no" /\ PreparationFrame(g, "no")
    BY DEF InputsVerified, PreparationFrame
<1>2. CASE UNCHANGED <<jobVars, workVars, workers>>
    BY <1>1, <1>2, StillPreparing
<1>3. CASE active = g /\ FailPrepared
    BY <1>1, <1>3, FailPreparedInv
<1>4. CASE active = g /\ PostJob(g)
    BY <1>1, <1>4, PostedInv
<1> QED
    BY <1>2, <1>3, <1>4 DEF InputsVerified

(***************************************************************************)
(* The messages, and the tasks that verify drafts and results.             *)
(***************************************************************************)
\* What the page's steps with messages and tasks leave alone.
AnswerFrame == UNCHANGED <<generation, request, preparing, disposed, workers, tampered>>

LEMMA AnswerTypes ==
    ASSUME IInv, AnswerFrame, Kept, tasks' \subseteq Tasks,
           shown' \in [Gens -> Docs \cup {NoDoc}]
    PROVE  PageTypes' /\ MessageTypes'
<1>1. disposed' \in BOOLEAN
    BY DEF AnswerFrame, IInv, TypeInv, PageTypes
<1>2. tasks' \subseteq Tasks'
    BY DEF Tasks
<1> QED
    BY <1>1, <1>2, KeptMessages DEF AnswerFrame, IInv, TypeInv, PageTypes, MessageTypes

\* The job ends, with its worker or at rest.
LEMMA AnsweredInv ==
    ASSUME IInv, AnswerFrame, Kept, tasks' \subseteq tasks,
           shown' \in [Gens -> Docs \cup {NoDoc}],
           NEW answer \in AnswerType,
           FailTransport(answer) \/ (SettleActive(answer) /\ AtRest /\ UNCHANGED workVars)
    PROVE  IInv'
<1>1. UNCHANGED <<generation, workers>> /\ workers \in Nat
    BY DEF AnswerFrame, IInv, TypeInv, PageTypes
<1>2. PageTypes' /\ MessageTypes'
    BY AnswerTypes DEF IInv, TypeInv, PageTypes
<1>3. JobTypes' /\ WorkTypes' /\ active' = 0 /\ AtRest'
    <2>1. CASE FailTransport(answer)
        BY <1>1, <2>1, FailedTypes
    <2>2. CASE SettleActive(answer) /\ AtRest /\ UNCHANGED workVars
        BY <1>1, <2>2, SettledTypes DEF workVars, IInv, TypeInv, WorkTypes, AtRest
    <2> QED
        BY <2>1, <2>2
<1>4. Turns'
    BY <1>1, <1>3, EndedTurns
<1> QED
    BY <1>2, <1>3, <1>4 DEF IInv, TypeInv

\* The job goes on.
LEMMA NotedInv ==
    ASSUME IInv, AnswerFrame, Kept, UNCHANGED <<active, outcome, workVars>>,
           shown' \in [Gens -> Docs \cup {NoDoc}],
           job' \in JobRecords, job'.posted = job.posted,
           tasks' \subseteq Tasks, \A t \in tasks' : t \in tasks \/ TaskInTurn(t)
    PROVE  IInv'
<1>1. PageTypes' /\ MessageTypes'
    BY AnswerTypes
<1>2. JobTypes' /\ WorkTypes'
    BY DEF AnswerFrame, workVars, IInv, TypeInv, JobTypes, WorkTypes
<1>3. Turns'
    BY SameTurns DEF AnswerFrame
<1> QED
    BY <1>1, <1>2, <1>3 DEF IInv, TypeInv

LEMMA NotedTypes ==
    ASSUME IInv, NEW m \in Messages, NEW r, Accepts(job, r, m)
    PROVE  Noted(job, m) \in JobRecords /\ Noted(job, m).posted = job.posted
<1>1. job \in JobRecords
    BY DEF IInv, TypeInv, JobTypes
<1>2. m.kind = "diagnostic" => job.diagnostics + 1 \in 0 .. MaxDiagnostics
    BY <1>1, BoundsAssumption DEF Accepts, JobRecords
<1>3. m.phase \in 0 .. 2 /\ m.level \in 0 .. 2
    BY DEF Messages
<1> QED
    BY <1>1, <1>2, <1>3 DEF Noted, JobRecords

LEMMA ReceiveInv ==
    ASSUME IInv, Receive
    PROVE  IInv'
<1> DEFINE m == Head(toPage)
<1>1. m \in Messages /\ MessageInTurn(m)
    BY FirstMessage DEF Receive
<1>2. AnswerFrame /\ Kept /\ shown' = shown /\ shown \in [Gens -> Docs \cup {NoDoc}]
    BY DEF Receive, AnswerFrame, Kept, IInv, TypeInv, PageTypes
<1>3. tasks \subseteq Tasks /\ job \in JobRecords /\ {Failed, Rejected} \subseteq AnswerType
    BY NoWork DEF IInv, TypeInv, PageTypes, JobTypes
<1>4. CASE UNCHANGED <<jobVars, workVars, tasks>>
    BY <1>2, <1>3, <1>4, NotedInv DEF jobVars
<1>5. CASE (FailTransport(Failed) \/ FailTransport(Rejected)) /\ UNCHANGED tasks
    BY <1>2, <1>3, <1>5, AnsweredInv
<1>6. CASE ~Ignored(m) /\ m.kind # "stopped" /\ m.sound # "unreadable" /\ ~Unacceptable(m)
    <2>1. /\ active # 0 /\ m.worker = binding /\ m.gen = active
          /\ Accepts(job, request[active], m)
        BY <1>6 DEF Ignored, Unacceptable
    <2>2. Live(m) /\ job.posted /\ (m.kind \in {"error", "result"} => AtRest)
        BY <1>1, <2>1 DEF Live, MessageInTurn
    <2>3. Noted(job, m) \in JobRecords /\ Noted(job, m).posted = job.posted
        BY <1>1, <2>1, NotedTypes
    <2>4. CASE job' = Noted(job, m) /\ UNCHANGED <<active, outcome, workVars, tasks>>
        BY <1>2, <1>3, <2>3, <2>4, NotedInv
    <2>5. CASE m.kind = "error" /\ SettleActive(Failed) /\ UNCHANGED <<workVars, tasks>>
        BY <1>2, <1>3, <2>2, <2>5, AnsweredInv
    <2>6. CASE \E stage \in {"draft", "compare", "result"} :
                   /\ stage # "draft" => m.kind = "result"
                   /\ tasks' = tasks \cup {Verification(m, stage)}
                   /\ job' = Noted(job, m)
                   /\ UNCHANGED <<active, outcome, workVars>>
        <3> PICK stage \in {"draft", "compare", "result"} :
                   /\ stage # "draft" => m.kind = "result"
                   /\ tasks' = tasks \cup {Verification(m, stage)}
            BY <2>6
        <3> DEFINE t == Verification(m, stage)
        <3>1. active \in Gens
            BY <2>1 DEF IInv, TypeInv, JobTypes, PageTypes, Jobs
        <3>2. t \in Tasks /\ t.worker = m.worker /\ t.gen = m.gen /\ t.stage = stage
            BY <1>1, <2>1, <3>1 DEF Verification, Tasks, Messages
        <3>3. TaskInTurn(t)
            BY <1>1, <2>2, <3>2 DEF TaskInTurn, MessageInTurn, Live
        <3> QED
            BY <1>2, <1>3, <2>3, <2>6, <3>2, <3>3, NotedInv
    <2> QED
        BY <1>6, <2>4, <2>5, <2>6 DEF Receive
<1> QED
    BY <1>4, <1>5, <1>6 DEF Receive

LEMMA TaskTurn ==
    ASSUME IInv, NEW t \in tasks
    PROVE  /\ t \in Tasks /\ TaskInTurn(t)
           /\ Current(t) => Live(t) /\ job.posted /\ (t.stage # "draft" => AtRest)
<1>1. t \in Tasks /\ TaskInTurn(t)
    BY DEF IInv, TypeInv, PageTypes, Turns, TasksInTurn
<1>2. t.gen # 0
    BY <1>1 DEF Tasks, Gens
<1> QED
    BY <1>1, <1>2 DEF Current, Live, TaskInTurn

LEMMA VerificationInv ==
    ASSUME IInv, NEW t \in tasks,
           DraftVerified(t) \/ ResultCompared(t) \/ ResultVerified(t)
    PROVE  IInv'
<1>1. t \in Tasks /\ TaskInTurn(t)
      /\ (Current(t) => Live(t) /\ job.posted /\ (t.stage # "draft" => AtRest))
    BY TaskTurn
<1>2. /\ AnswerFrame /\ Kept /\ job \in JobRecords /\ {Failed, Rejected} \subseteq AnswerType
      /\ tasks \subseteq Tasks /\ shown \in [Gens -> Docs \cup {NoDoc}]
    BY NoWork DEF DraftVerified, ResultCompared, ResultVerified, AnswerFrame, Kept, IInv, TypeInv,
                  JobTypes, PageTypes
<1>3. t.doc \in Docs \cup {NoDoc} /\ t.limits \in Limits \cup {NoLimits} /\ t.gen \in Gens
    BY <1>1 DEF Tasks
<1>4. CASE UNCHANGED <<jobVars, workVars, shown>> /\ tasks' = tasks \ {t}
    BY <1>2, <1>4, NotedInv DEF jobVars
<1>5. CASE FailTransport(Rejected) /\ UNCHANGED shown /\ tasks' = tasks \ {t}
    BY <1>2, <1>5, AnsweredInv
<1>6. CASE DraftVerified(t)
    <2>1. CASE /\ job' = [job EXCEPT !.verified = t.doc]
               /\ shown' = [shown EXCEPT ![t.gen] = t.doc]
               /\ UNCHANGED <<active, outcome, workVars>>
        <3>1. job' \in JobRecords /\ job'.posted = job.posted
            BY <1>2, <1>3, <2>1 DEF JobRecords
        <3>2. shown' \in [Gens -> Docs \cup {NoDoc}]
            BY <1>2, <1>3, <2>1
        <3> QED
            BY <1>2, <1>6, <2>1, <3>1, <3>2, NotedInv DEF DraftVerified
    <2> QED
        BY <1>4, <1>5, <1>6, <2>1 DEF DraftVerified
<1>7. CASE ResultCompared(t)
    <2>1. CASE /\ t.stage = "compare"
               /\ tasks' = (tasks \ {t}) \cup {[t EXCEPT !.stage = "result"]}
               /\ UNCHANGED <<jobVars, workVars, shown>>
        <3> DEFINE u == [t EXCEPT !.stage = "result"]
        <3>1. u \in Tasks /\ TaskInTurn(u)
            BY <1>1, <2>1 DEF Tasks, TaskInTurn, Live
        <3> QED
            BY <1>2, <2>1, <3>1, NotedInv DEF jobVars
    <2> QED
        BY <1>4, <1>5, <1>7, <2>1 DEF ResultCompared
<1>8. CASE ResultVerified(t)
    <2>1. CASE /\ t.stage = "result" /\ Current(t) /\ tasks' = tasks \ {t}
               /\ SettleActive(Answer("result", t.doc, t.limits))
               /\ UNCHANGED <<shown, workVars>>
        BY <1>1, <1>2, <1>3, <2>1, NoWork, AnsweredInv
    <2> QED
        BY <1>4, <1>5, <1>8, <2>1 DEF ResultVerified
<1> QED
    BY <1>6, <1>7, <1>8

(***************************************************************************)
(* The worker.                                                             *)
(***************************************************************************)
LEMMA PostTypes ==
    ASSUME IInv, NEW g \in Gens, NEW kind \in Kinds, NEW phase \in 0 .. 2, NEW level \in 0 .. 2,
           NEW doc, NEW limits \in Limits \cup {NoLimits},
           Post(g, kind, phase, level, doc, limits)
    PROVE  /\ MessageTypes'
           /\ \E m \in Messages : /\ toPage' = Append(toPage, m)
                                  /\ m.worker = binding /\ m.gen = g /\ m.kind = kind
<1>1. PICK s \in Soundness(kind), d \in Docs \cup {NoDoc} :
          /\ toPage' = Append(toPage,
                [worker |-> binding, gen |-> g, kind |-> kind, phase |-> phase, level |-> level,
                 doc |-> d, limits |-> limits, sound |-> s])
          /\ tampered' = IF s = "ok" THEN tampered ELSE tampered \cup {g}
    BY DEF Post
<1> DEFINE m == [worker |-> binding, gen |-> g, kind |-> kind, phase |-> phase, level |-> level,
                 doc |-> d, limits |-> limits, sound |-> s]
<1>2. s \in {"ok"} \cup Tampering
    BY DEF Soundness
<1>3. binding \in Nat /\ g \in Nat /\ toPage \in Seq(Messages) /\ tampered \subseteq Jobs
    BY DEF IInv, TypeInv, WorkTypes, PageTypes, MessageTypes, Gens, Jobs
<1>4. m \in Messages
    BY <1>2, <1>3 DEF Messages
<1>5. toPage' \in Seq(Messages)
    BY <1>1, <1>3, <1>4
<1>6. tampered' \subseteq Jobs
    BY <1>1, <1>3 DEF Jobs
<1> QED
    BY <1>1, <1>4, <1>5, <1>6 DEF MessageTypes

LEMMA AppendedInTurn ==
    ASSUME IInv, NEW m \in Messages, toPage' = Append(toPage, m), MessageInTurn(m)',
           \A x : MessageInTurn(x) => MessageInTurn(x)'
    PROVE  MessagesInTurn'
<1>1. toPage \in Seq(Messages)
    BY DEF IInv, TypeInv, MessageTypes
<1>2. /\ DOMAIN toPage' = 1 .. Len(toPage) + 1 /\ DOMAIN toPage = 1 .. Len(toPage)
      /\ toPage'[Len(toPage) + 1] = m
      /\ \A i \in 1 .. Len(toPage) : toPage'[i] = toPage[i]
    BY <1>1
<1>3. ASSUME NEW i \in DOMAIN toPage'
      PROVE  MessageInTurn(toPage[i])'
    <2>1. PICK x : x = toPage'[i]
        OBVIOUS
    <2>2. CASE i = Len(toPage) + 1
        BY <1>2, <2>1, <2>2 DEF MessageInTurn, Live
    <2>3. CASE i # Len(toPage) + 1
        <3>1. i \in DOMAIN toPage /\ x = toPage[i]
            BY <1>1, <1>2, <2>1, <2>3
        <3>2. MessageInTurn(x)
            BY <3>1 DEF IInv, Turns, MessagesInTurn
        <3>3. MessageInTurn(x)'
            BY <3>2
        <3> QED
            BY <2>1, <3>3 DEF MessageInTurn, Live
    <2> QED
        BY <2>2, <2>3
<1> QED
    BY <1>3 DEF MessagesInTurn

LEMMA SameInTurn ==
    ASSUME IInv, toPage' = toPage, \A x : MessageInTurn(x) => MessageInTurn(x)'
    PROVE  MessagesInTurn'
<1>1. ASSUME NEW i \in DOMAIN toPage
      PROVE  MessageInTurn(toPage[i])'
    <2>1. PICK x : x = toPage[i]
        OBVIOUS
    <2>2. MessageInTurn(x)
        BY <2>1 DEF IInv, Turns, MessagesInTurn
    <2>3. MessageInTurn(x)'
        BY <2>2
    <2> QED
        BY <2>1, <2>3 DEF MessageInTurn, Live
<1> QED
    BY <1>1 DEF MessagesInTurn

\* A step of the worker in the middle of its job, with the message it may post: the job is
\* the active one, and no final message of it was posted before.
Works(kind) ==
    /\ worker.pc \notin Rest
    /\ worker'.gen = worker.gen /\ worker' \in WorkerRecords(worker'.doc)
    /\ kind \in {"error", "result"} => worker'.pc = "done"
    /\ UNCHANGED <<pageVars, jobVars, binding, toWorker>>

LEMMA WorkingForActive ==
    ASSUME IInv, worker.pc \notin Rest
    PROVE  /\ worker.gen = active /\ active # 0 /\ active \in Gens /\ job.posted
           /\ binding # 0 /\ toWorker = <<>> /\ ~AtRest
BY DEF IInv, TypeInv, JobTypes, PageTypes, Turns, WorkIsActive, AtRest, Jobs

LEMMA PageKept ==
    ASSUME IInv, UNCHANGED <<pageVars, jobVars>>
    PROVE  PageTypes' /\ JobTypes' /\ PreparedUnposted' /\ UNCHANGED <<generation, workers>>
<1>1. disposed' \in BOOLEAN
    BY DEF pageVars, IInv, TypeInv, PageTypes
<1> QED
    BY <1>1 DEF pageVars, jobVars, IInv, TypeInv, PageTypes, JobTypes, Turns, PreparedUnposted, Tasks

\* While the worker is at work no final message or task of its job is there.
LEMMA NothingFinal ==
    ASSUME IInv, ~AtRest, UNCHANGED <<pageVars, jobVars, binding>>
    PROVE  /\ \A x : MessageInTurn(x) => MessageInTurn(x)'
           /\ TasksInTurn'
<1>1. UNCHANGED <<active, job, generation, workers, tasks>>
    BY DEF pageVars, jobVars
<1>2. ASSUME NEW x, MessageInTurn(x)
      PROVE  MessageInTurn(x)'
    BY <1>1, <1>2 DEF MessageInTurn, Live
<1>3. ASSUME NEW t \in tasks
      PROVE  TaskInTurn(t)'
    <2>1. TaskInTurn(t)
        BY DEF IInv, Turns, TasksInTurn
    <2> QED
        BY <1>1, <2>1 DEF TaskInTurn, Live
<1> QED
    BY <1>1, <1>2, <1>3 DEF TasksInTurn

LEMMA WorkInTurn ==
    ASSUME IInv, NEW kind, Works(kind)
    PROVE  WorkTypes' /\ WorkIsActive' /\ (worker'.pc = "done" => AtRest')
<1>1. WorkTypes'
    BY DEF Works, pageVars, IInv, TypeInv, WorkTypes
<1> QED
    BY <1>1, WorkingForActive DEF Works, jobVars, WorkIsActive, AtRest, Rest

LEMMA SilentInv ==
    ASSUME IInv, Works("progress"), UNCHANGED <<toPage, tampered>>
    PROVE  IInv'
<1>1. ~AtRest /\ UNCHANGED <<pageVars, jobVars, binding>>
    BY WorkingForActive DEF Works
<1>2. PageTypes' /\ JobTypes' /\ PreparedUnposted'
    BY <1>1, PageKept
<1>3. WorkTypes' /\ WorkIsActive'
    BY WorkInTurn
<1>4. MessageTypes'
    BY DEF IInv, TypeInv, MessageTypes
<1>5. MessagesInTurn' /\ TasksInTurn'
    <2>1. TasksInTurn' /\ \A x : MessageInTurn(x) => MessageInTurn(x)'
        BY <1>1, NothingFinal
    <2> QED
        BY <2>1, SameInTurn
<1> QED
    BY <1>2, <1>3, <1>4, <1>5 DEF IInv, TypeInv, Turns

LEMMA PostingInv ==
    ASSUME IInv, NEW kind \in Kinds, NEW phase \in 0 .. 2, NEW level \in 0 .. 2,
           NEW doc, NEW limits \in Limits \cup {NoLimits},
           Works(kind), Post(worker.gen, kind, phase, level, doc, limits)
    PROVE  IInv'
<1>1. /\ ~AtRest /\ UNCHANGED <<pageVars, jobVars, binding>>
      /\ worker.gen = active /\ active \in Gens /\ job.posted
    BY WorkingForActive DEF Works
<1>2. PageTypes' /\ JobTypes' /\ PreparedUnposted' /\ UNCHANGED <<generation, workers>>
    BY <1>1, PageKept
<1>3. WorkTypes' /\ WorkIsActive' /\ (worker'.pc = "done" => AtRest')
    BY WorkInTurn
<1>4. /\ MessageTypes'
      /\ \E m \in Messages : /\ toPage' = Append(toPage, m)
                             /\ m.worker = binding /\ m.gen = worker.gen /\ m.kind = kind
    BY <1>1, PostTypes
<1>5. PICK m \in Messages : /\ toPage' = Append(toPage, m)
                            /\ m.worker = binding /\ m.gen = worker.gen /\ m.kind = kind
    BY <1>4
<1>6. binding \in 0 .. workers /\ active \in 0 .. generation
    BY <1>1, BoundsAssumption DEF IInv, TypeInv, WorkTypes, JobTypes, PageTypes, Jobs, Gens
<1>7. MessageInTurn(m)'
    <2>1. UNCHANGED <<active, job>>
        BY <1>1 DEF jobVars
    <2> QED
        BY <1>1, <1>2, <1>3, <1>5, <1>6, <2>1 DEF MessageInTurn, Live, Works
<1>8. TasksInTurn' /\ \A x : MessageInTurn(x) => MessageInTurn(x)'
    BY <1>1, NothingFinal
<1>9. MessagesInTurn'
    BY <1>5, <1>7, <1>8, AppendedInTurn
<1> QED
    BY <1>2, <1>3, <1>4, <1>8, <1>9 DEF IInv, TypeInv, Turns

LEMMA HandleInv ==
    ASSUME IInv, HandleMessage
    PROVE  IInv'
<1>1. /\ toWorker = <<active>> /\ active # 0 /\ job.posted /\ worker.pc \in Rest /\ ~AtRest
      /\ binding # 0
    BY DEF HandleMessage, IInv, Turns, WorkIsActive, AtRest
<1>2. active \in Gens /\ active \in Jobs
    BY <1>1 DEF IInv, TypeInv, JobTypes, PageTypes, Jobs
<1>3. /\ toWorker' = <<>>
      /\ worker' = [IdleWorker EXCEPT !.pc = "begin", !.gen = active]
      /\ UNCHANGED <<toPage, tampered, pageVars, jobVars, binding>>
    BY <1>1 DEF HandleMessage, Rest
<1>4. /\ worker' \in WorkerRecords(worker'.doc)
      /\ worker'.pc = "begin" /\ worker'.gen = active
    <2>1. worker' = [pc |-> "begin", gen |-> active, doc |-> NoDoc, limits |-> NoLimits,
                     level |-> 0, left |-> 0]
        BY <1>3 DEF IdleWorker
    <2> QED
        BY <1>2, <2>1, BoundsAssumption DEF WorkerRecords, Steps
<1>5. WorkTypes'
    BY <1>3, <1>4 DEF pageVars, IInv, TypeInv, WorkTypes
<1>6. WorkIsActive'
    BY <1>1, <1>3, <1>4 DEF WorkIsActive, jobVars
<1>7. PageTypes' /\ JobTypes' /\ PreparedUnposted'
    BY <1>3, PageKept
<1>8. TasksInTurn' /\ \A x : MessageInTurn(x) => MessageInTurn(x)'
    BY <1>1, <1>3, NothingFinal
<1>9. MessagesInTurn' /\ MessageTypes'
    BY <1>3, <1>8, SameInTurn DEF IInv, TypeInv, MessageTypes
<1> QED
    BY <1>5, <1>6, <1>7, <1>8, <1>9 DEF IInv, TypeInv, Turns

\* Whatever the worker does at rest, it stays at rest.
LEMMA RestingInTurn ==
    ASSUME IInv, worker.pc \in Rest, worker'.pc \in Rest, worker' \in WorkerRecords(worker'.doc),
           WorkerFrame
    PROVE  /\ PageTypes' /\ JobTypes' /\ PreparedUnposted' /\ WorkTypes' /\ WorkIsActive'
           /\ TasksInTurn' /\ \A x : MessageInTurn(x) => MessageInTurn(x)'
<1>1. UNCHANGED <<pageVars, jobVars, binding, toWorker>> /\ AtRest' = AtRest
    BY DEF WorkerFrame, AtRest
<1>2. UNCHANGED <<active, job, generation, workers, tasks>>
    BY <1>1 DEF pageVars, jobVars
<1>3. PageTypes' /\ JobTypes' /\ PreparedUnposted'
    BY <1>1, PageKept
<1>4. WorkTypes' /\ WorkIsActive'
    BY <1>1, <1>2 DEF IInv, TypeInv, WorkTypes, Turns, WorkIsActive
<1>5. ASSUME NEW x, MessageInTurn(x)
      PROVE  MessageInTurn(x)'
    BY <1>1, <1>2, <1>5 DEF MessageInTurn, Live
<1>6. ASSUME NEW t \in tasks
      PROVE  TaskInTurn(t)'
    <2>1. TaskInTurn(t)
        BY DEF IInv, Turns, TasksInTurn
    <2> QED
        BY <1>1, <1>2, <2>1 DEF TaskInTurn, Live
<1> QED
    BY <1>2, <1>3, <1>4, <1>5, <1>6 DEF TasksInTurn

LEMMA FinishInv ==
    ASSUME IInv, Finish
    PROVE  IInv'
<1>1. /\ worker.pc \in Rest /\ worker'.pc \in Rest /\ worker' \in WorkerRecords(worker'.doc)
      /\ WorkerFrame /\ UNCHANGED <<toPage, tampered>>
    BY NoWork DEF Finish, Rest
<1>2. MessagesInTurn' /\ MessageTypes'
    BY <1>1, RestingInTurn, SameInTurn DEF IInv, TypeInv, MessageTypes
<1> QED
    BY <1>1, <1>2, RestingInTurn DEF IInv, TypeInv, Turns

LEMMA StopInv ==
    ASSUME IInv, Stop
    PROVE  IInv'
<1> DEFINE m == [worker |-> binding, gen |-> 0, kind |-> "stopped", phase |-> 0, level |-> 0,
                 doc |-> NoDoc, limits |-> NoLimits, sound |-> "ok"]
           dead == [IdleWorker EXCEPT !.pc = "dead"]
<1>1. /\ worker' = dead /\ toPage' = Append(toPage, m) /\ tampered' = tampered \cup {generation}
      /\ UNCHANGED <<pageVars, jobVars, binding, toWorker>>
      /\ binding # 0
    BY DEF Stop, WorkerFrame
<1>2. worker'.pc = "dead" /\ worker' \in WorkerRecords(worker'.doc)
    BY <1>1, BoundsAssumption DEF IdleWorker, WorkerRecords, Steps, Jobs
<1>3. m \in Messages /\ toPage \in Seq(Messages) /\ binding \in 0 .. workers /\ generation \in Jobs
      /\ generation \in Nat
    BY BoundsAssumption DEF Messages, Kinds, IInv, TypeInv, MessageTypes, WorkTypes, PageTypes,
                            Jobs, Gens
<1>4. MessageTypes'
    <2>1. toPage' \in Seq(Messages)
        BY <1>1, <1>3
    <2> QED
        BY <1>1, <1>3, <2>1 DEF IInv, TypeInv, MessageTypes
<1>5. UNCHANGED <<active, job, generation, workers, tasks>>
    BY <1>1 DEF pageVars, jobVars
<1>6. PageTypes' /\ JobTypes' /\ PreparedUnposted'
    BY <1>1, PageKept
<1>7. WorkTypes' /\ WorkIsActive'
    BY <1>1, <1>2, <1>5 DEF IInv, TypeInv, WorkTypes, Turns, WorkIsActive, AtRest, Rest
<1>8. AtRest => AtRest'
    BY <1>1, <1>2 DEF AtRest, Rest
<1>9. ASSUME NEW x, MessageInTurn(x)
      PROVE  MessageInTurn(x)'
    BY <1>1, <1>5, <1>8, <1>9 DEF MessageInTurn, Live
<1>10. ASSUME NEW t \in tasks
       PROVE  TaskInTurn(t)'
    <2>1. TaskInTurn(t)
        BY DEF IInv, Turns, TasksInTurn
    <2> QED
        BY <1>1, <1>5, <1>8, <2>1 DEF TaskInTurn, Live
<1>11. MessageInTurn(m)'
    BY <1>1, <1>3, <1>5 DEF MessageInTurn, Live
<1>12. MessagesInTurn' /\ TasksInTurn'
    BY <1>1, <1>3, <1>5, <1>9, <1>10, <1>11, AppendedInTurn DEF TasksInTurn
<1> QED
    BY <1>4, <1>6, <1>7, <1>12 DEF IInv, TypeInv, Turns

LEMMA AskedTypes ==
    ASSUME IInv, worker.pc \notin Rest
    PROVE  Asked \in Requests /\ Asked.limits \in Limits
<1>1. worker.gen \in Gens
    BY WorkingForActive
<1> QED
    BY <1>1, RequestsAssumption DEF Asked, IInv, TypeInv, PageTypes

\* The limits of an analysis, cached or not, are those of the request.
LEMMA AnalysedUnderOwnLimits ==
    ASSUME NEW c, NEW stage, NEW doc, NEW limits
    PROVE  AnalysisLimits(c, stage, doc, limits) = limits
BY DEF AnalysisLimits, UsesLimits

LEMMA WorkerFields ==
    ASSUME IInv
    PROVE  /\ worker \in WorkerRecords(worker.doc)
           /\ worker.left \in 0 .. MaxDiagnostics /\ worker.limits \in Limits \cup {NoLimits}
BY DEF IInv, TypeInv, WorkTypes, WorkerRecords

LEMMA Diagnosed ==
    ASSUME NEW n \in Found
    PROVE  BoundedDiagnostics(n) \in 0 .. MaxDiagnostics
BY BoundsAssumption DEF BoundedDiagnostics

LEMMA ProgressInv ==
    ASSUME IInv,
           \/ BeginDecode \/ ReportDecoded \/ BeginAnalysis \/ BeginRepair \/ BeginExtract
           \/ ReportExtracted \/ Analyze \/ Repair
    PROVE  IInv'
<1>1. worker.pc \notin Rest
    BY DEF BeginDecode, ReportDecoded, BeginAnalysis, BeginRepair, BeginExtract, ReportExtracted,
           Analyze, Repair, Rest
<1>2. PICK phase \in 0 .. 2, level \in 0 .. 2 :
          Post(worker.gen, "progress", phase, level, NoDoc, NoLimits)
    <2>1. CASE BeginDecode \/ BeginRepair \/ BeginExtract
        <3>1. Post(worker.gen, "progress", 1, 1, NoDoc, NoLimits)
            BY <2>1 DEF BeginDecode, BeginRepair, BeginExtract
        <3> QED
            BY <3>1
    <2>2. CASE ReportDecoded \/ ReportExtracted \/ Repair
        <3>1. Post(worker.gen, "progress", 1, 2, NoDoc, NoLimits)
            BY <2>2 DEF ReportDecoded, ReportExtracted, Repair
        <3> QED
            BY <3>1
    <2>3. CASE BeginAnalysis
        <3>1. Post(worker.gen, "progress", 2, 1, NoDoc, NoLimits)
            BY <2>3 DEF BeginAnalysis
        <3> QED
            BY <3>1
    <2>4. CASE Analyze
        <3>1. Post(worker.gen, "progress", 2, 2, NoDoc, NoLimits)
            BY <2>4 DEF Analyze
        <3> QED
            BY <3>1
    <2> QED
        BY <2>1, <2>2, <2>3, <2>4
<1>3. worker' \in WorkerRecords(worker'.doc) /\ worker'.gen = worker.gen
    <2>1. CASE BeginDecode
        BY <2>1, WorkerFields DEF BeginDecode, Steps, WorkerRecords
    <2>2. CASE ReportDecoded \/ BeginAnalysis \/ BeginRepair
        BY <2>2, WorkerFields DEF ReportDecoded, BeginAnalysis, BeginRepair, Steps, WorkerRecords
    <2>3. CASE BeginExtract
        <3>1. worker' = [worker EXCEPT !.pc = "extract", !.doc = Asked.doc, !.level = 1]
            BY <2>3 DEF BeginExtract
        <3>2. worker' = [pc |-> "extract", gen |-> worker.gen, doc |-> Asked.doc,
                         limits |-> worker.limits, level |-> 1, left |-> worker.left]
            BY <3>1, WorkerFields DEF WorkerRecords
        <3>3. worker.gen \in Jobs
            BY WorkerFields DEF WorkerRecords
        <3> QED
            BY <3>2, <3>3, WorkerFields DEF Steps, WorkerRecords
    <2>6. CASE ReportExtracted
        BY <2>6, WorkerFields DEF ReportExtracted, Steps, WorkerRecords
    <2>4. CASE Analyze
        <3>1. PICK n \in Found :
                  worker' = [worker EXCEPT
                                !.pc = "diagnose",
                                !.limits = AnalysisLimits(cache, "analyze", worker.doc, Asked.limits),
                                !.left = BoundedDiagnostics(n)]
            BY <2>4 DEF Analyze
        <3>2. AnalysisLimits(cache, "analyze", worker.doc, Asked.limits) = Asked.limits
            BY AnalysedUnderOwnLimits
        <3> QED
            BY <1>1, <3>1, <3>2, AskedTypes, Diagnosed, WorkerFields DEF Steps, WorkerRecords
    <2>5. CASE Repair
        <3>1. PICK n \in Found :
                  worker' = [worker EXCEPT
                                !.pc = "diagnose", !.doc = Asked.doc,
                                !.limits = AnalysisLimits(cache, "repair", Asked.doc, Asked.limits),
                                !.left = BoundedDiagnostics(n)]
            BY <2>5 DEF Repair
        <3>2. AnalysisLimits(cache, "repair", Asked.doc, Asked.limits) = Asked.limits
            BY AnalysedUnderOwnLimits
        <3> QED
            BY <1>1, <3>1, <3>2, AskedTypes, Diagnosed, WorkerFields DEF Steps, WorkerRecords
    <2> QED
        BY <2>1, <2>2, <2>3, <2>4, <2>5, <2>6
<1>4. WorkerFrame
    BY DEF BeginDecode, ReportDecoded, BeginAnalysis, BeginRepair, BeginExtract, ReportExtracted,
           Analyze, Repair
<1>5. Works("progress")
    BY <1>1, <1>3, <1>4 DEF Works, WorkerFrame, Rest
<1> QED
    BY <1>2, <1>5, PostingInv DEF Kinds

LEMMA AnswerInv ==
    ASSUME IInv, Throw \/ PostDraft \/ PostDiagnostic \/ PostResult
    PROVE  IInv'
<1>1. worker.pc \notin Rest /\ WorkerFrame
    BY DEF Throw, PostDraft, PostDiagnostic, PostResult, Rest
<1>2. worker.limits \in Limits \cup {NoLimits} /\ worker.left \in 0 .. MaxDiagnostics
    BY DEF IInv, TypeInv, WorkTypes, WorkerRecords
<1>3. CASE Throw
    <2>1. Works("error")
        BY <1>1, <1>3, WorkerFields DEF Throw, Works, WorkerFrame, Steps, WorkerRecords, Rest
    <2> QED
        BY <1>3, <2>1, PostingInv DEF Throw, Kinds
<1>4. CASE PostDraft
    <2>1. Works("draft")
        BY <1>1, <1>4, WorkerFields DEF PostDraft, Works, WorkerFrame, Steps, WorkerRecords, Rest
    <2> QED
        BY <1>4, <2>1, PostingInv DEF PostDraft, Kinds
<1>5. CASE PostDiagnostic
    <2>1. worker.left - 1 \in 0 .. MaxDiagnostics
        BY <1>2, <1>5, BoundsAssumption DEF PostDiagnostic
    <2>2. worker' \in WorkerRecords(worker'.doc) /\ worker'.gen = worker.gen
        BY <1>5, <2>1, WorkerFields DEF PostDiagnostic, Steps, WorkerRecords
    <2>3. Works("diagnostic")
        BY <1>1, <2>2 DEF Works, WorkerFrame, Rest
    <2> QED
        BY <1>5, <2>3, PostingInv DEF PostDiagnostic, Kinds
<1>6. CASE PostResult
    <2>1. Works("result")
        BY <1>1, <1>6, WorkerFields DEF PostResult, Works, WorkerFrame, Steps, WorkerRecords, Rest
    <2> QED
        BY <1>2, <1>6, <2>1, PostingInv DEF PostResult, Kinds
<1> QED
    BY <1>3, <1>4, <1>5, <1>6

LEMMA DecodedInv ==
    ASSUME IInv, Decoded
    PROVE  IInv'
<1>1. Works("progress")
    BY WorkerFields DEF Decoded, Works, WorkerFrame, Steps, WorkerRecords, Rest
<1> QED
    BY <1>1, SilentInv DEF Decoded

LEMMA NextInv ==
    ASSUME IInv, [Next]_vars
    PROVE  IInv'
<1>1. CASE UNCHANGED vars
    <2>1. UNCHANGED <<pageVars, jobVars, binding, toWorker, worker, toPage, tampered>>
        BY <1>1 DEF vars, workVars
    <2>2. PageTypes' /\ JobTypes' /\ PreparedUnposted'
        BY <2>1, PageKept
    <2>3. WorkTypes' /\ MessageTypes'
        BY <2>1 DEF IInv, TypeInv, WorkTypes, MessageTypes, pageVars
    <2>4. WorkIsActive' /\ MessagesInTurn' /\ TasksInTurn'
        BY <2>1 DEF IInv, Turns, WorkIsActive, MessagesInTurn, TasksInTurn, MessageInTurn,
                    TaskInTurn, Live, AtRest, pageVars, jobVars
    <2> QED
        BY <2>2, <2>3, <2>4 DEF IInv, TypeInv, Turns
<1>2. CASE Caller
    BY <1>2, StartInv, CancelInv, DisposeInv DEF Caller
<1>3. CASE PageTask
    BY <1>3, SnapshotInv, InputsInv, ReceiveInv, VerificationInv DEF PageTask
<1>4. CASE WorkerStep
    BY <1>4, HandleInv, FinishInv, ProgressInv, AnswerInv, DecodedInv DEF WorkerStep
<1>5. CASE Stop
    BY <1>5, StopInv
<1> QED
    BY <1>1, <1>2, <1>3, <1>4, <1>5 DEF Next

LEMMA Inductive == Spec => []IInv
<1>1. IInv /\ [Next]_vars => IInv'
    BY NextInv
<1> QED
    BY <1>1, InitInv, PTL DEF Spec

(***************************************************************************)
(* Sums over sequences. A sum along a sequence is the recursive function   *)
(* that the fold of the community modules is, and its values are found by  *)
(* going up from 0: a set of numbers that holds 0 and with every number    *)
(* the next one holds them all.                                            *)
(***************************************************************************)
LEMMA LeastNumber ==
    ASSUME NEW T \in SUBSET Nat, T # {}
    PROVE  \E x \in T : \A y \in T : x <= y
<1> DEFINE R == OpToRel(<, Nat)
<1>1. IsWellFoundedOn(R, Nat)
    BY NatLessThanWellFounded
<1>2. \E x \in T : \A y \in T : ~ (<<y, x>> \in R)
    <2> HIDE DEF R
    <2> QED
        BY <1>1, WFMin
<1>3. \A x, y \in Nat : <<y, x>> \in R <=> y < x
    BY DEF OpToRel
<1>4. \A x, y \in Nat : y < x \/ x <= y
    OBVIOUS
<1> HIDE DEF R
<1> QED
    BY <1>2, <1>3, <1>4

LEMMA UpTo ==
    ASSUME NEW N \in Nat, NEW T, 0 \in T, \A n \in 0 .. N - 1 : n \in T => n + 1 \in T
    PROVE  0 .. N \subseteq T
<1> DEFINE missing == {n \in 0 .. N : n \notin T}
<1>1. CASE missing # {}
    <2>1. missing \in SUBSET Nat
        OBVIOUS
    <2>2. PICK n \in missing : \A m \in missing : n <= m
        BY <1>1, <2>1, LeastNumber
    <2>3. n \in 0 .. N /\ n # 0
        BY <2>2
    <2>4. n - 1 \in 0 .. N - 1 /\ n - 1 \notin missing
        BY <2>2, <2>3
    <2> QED
        BY <2>2, <2>3, <2>4
<1> QED
    BY <1>1

Iteration(f, N, X, first, G) ==
    /\ f \in [0 .. N -> X]
    /\ f[0] = first
    /\ \A n \in 1 .. N : f[n] = G[n][f[n - 1]]

LEMMA Iterate ==
    ASSUME NEW N \in Nat, NEW X, NEW first \in X, NEW G, G \in [1 .. N -> [X -> X]]
    PROVE  \E f : Iteration(f, N, X, first, G)
<1> DEFINE Good(n, f) == f[0] = first /\ \A k \in 1 .. n : f[k] = G[k][f[k - 1]]
           T == {n \in 0 .. N : \E f \in [0 .. n -> X] : Good(n, f)}
<1>1. 0 \in T
    <2> DEFINE g == [k \in 0 .. 0 |-> first]
    <2>1. g \in [0 .. 0 -> X] /\ Good(0, g)
        OBVIOUS
    <2>2. 0 \in 0 .. N
        OBVIOUS
    <2> HIDE DEF g
    <2> QED
        BY <2>1, <2>2
<1>2. ASSUME NEW n \in 0 .. N - 1, n \in T
      PROVE  n + 1 \in T
    <2>1. PICK f \in [0 .. n -> X] : Good(n, f)
        BY <1>2
    <2> DEFINE g == [k \in 0 .. n + 1 |-> IF k = n + 1 THEN G[n + 1][f[n]] ELSE f[k]]
    <2>2. G[n + 1][f[n]] \in X
        BY <2>1
    <2>3. g \in [0 .. n + 1 -> X]
        BY <2>1, <2>2
    <2>4. ASSUME NEW k \in 1 .. n + 1
          PROVE  g[k] = G[k][g[k - 1]]
        BY <2>1
    <2>5. g[0] = first
        BY <2>1
    <2>6. n + 1 \in 0 .. N
        OBVIOUS
    <2> HIDE DEF g
    <2> QED
        BY <2>3, <2>4, <2>5, <2>6
<1>3. 0 .. N \subseteq T
    <2> HIDE DEF T
    <2> QED
        BY <1>1, <1>2, UpTo
<1>4. N \in T
    BY <1>3
<1> QED
    BY <1>4 DEF Iteration

LEMMA SumOf ==
    ASSUME NEW E, NEW s \in Seq(E), \A e \in E : e.bytes \in Nat
    PROVE  \E f \in [0 .. Len(s) -> Nat] :
              /\ f[0] = 0 /\ \A n \in 1 .. Len(s) : f[n] = f[n - 1] + s[n].bytes
              /\ BytesOf(s) = f[Len(s)]
<1> DEFINE Sum(f) == [n \in 0 .. Len(s) |-> IF n = 0 THEN 0 ELSE f[n - 1] + s[n].bytes]
           G == [n \in 1 .. Len(s) |-> [x \in Nat |-> x + s[n].bytes]]
           sum == CHOOSE f : f = Sum(f)
<1>1. Len(s) \in Nat /\ \A n \in 1 .. Len(s) : s[n].bytes \in Nat
    OBVIOUS
<1>2. G \in [1 .. Len(s) -> [Nat -> Nat]]
    BY <1>1
<1>3. PICK f : Iteration(f, Len(s), Nat, 0, G)
    <2> HIDE DEF G
    <2>1. 0 \in Nat
        OBVIOUS
    <2> QED
        BY <1>1, <1>2, <2>1, Iterate
<1>9. f \in [0 .. Len(s) -> Nat] /\ f[0] = 0 /\ \A n \in 1 .. Len(s) : f[n] = G[n][f[n - 1]]
    BY <1>3 DEF Iteration
<1>4. ASSUME NEW n \in 1 .. Len(s)
      PROVE  f[n] = f[n - 1] + s[n].bytes
    <2>1. f[n - 1] \in Nat /\ f[n] = G[n][f[n - 1]]
        <3> HIDE DEF G
        <3>1. n - 1 \in 0 .. Len(s)
            BY <1>1
        <3> QED
            BY <1>9, <3>1
    <2> QED
        BY <2>1
<1>5. f = Sum(f)
    BY <1>9, <1>4
<1>6. sum = Sum(sum)
    <2> HIDE DEF Sum
    <2> QED
        BY <1>5
<1>7. BytesOf(s) = sum[Len(s)]
    BY DEF BytesOf
<1>8. /\ sum \in [0 .. Len(s) -> Nat] /\ sum[0] = 0
      /\ \A n \in 1 .. Len(s) : sum[n] = sum[n - 1] + s[n].bytes
    <2> DEFINE T == {n \in 0 .. Len(s) : sum[n] = f[n]}
    <2> HIDE DEF sum
    <2>1. \A n \in 0 .. Len(s) : sum[n] = IF n = 0 THEN 0 ELSE sum[n - 1] + s[n].bytes
        BY <1>6
    <2>2. 0 \in T
        BY <1>1, <1>9, <2>1
    <2>3. ASSUME NEW n \in 0 .. Len(s) - 1, n \in T
          PROVE  n + 1 \in T
        BY <1>1, <1>9, <1>4, <2>1, <2>3
    <2>4. 0 .. Len(s) \subseteq T
        <3> HIDE DEF T
        <3> QED
            BY <1>1, <2>2, <2>3, UpTo
    <2>5. sum = f
        <3>1. sum = [n \in 0 .. Len(s) |-> sum[n]] /\ f = [n \in 0 .. Len(s) |-> f[n]]
            BY <1>9, <1>6
        <3>2. \A n \in 0 .. Len(s) : sum[n] = f[n]
            BY <2>4
        <3> HIDE DEF Sum
        <3> QED
            BY <3>1, <3>2
    <2> QED
        BY <1>9, <1>4, <2>5
<1> QED
    <2> HIDE DEF sum
    <2> QED
        BY <1>7, <1>8

\* A sequence without one of its elements.
LEMMA RemovedAt ==
    ASSUME NEW E, NEW s \in Seq(E), NEW i \in 1 .. Len(s)
    PROVE  /\ RemoveAt(s, i) \in Seq(E) /\ Len(RemoveAt(s, i)) = Len(s) - 1
           /\ \A k \in 1 .. Len(s) - 1 :
                 RemoveAt(s, i)[k] = IF k < i THEN s[k] ELSE s[k + 1]
<1> DEFINE a == SubSeq(s, 1, i - 1)
           b == SubSeq(s, i + 1, Len(s))
<1>1. /\ a \in Seq(E) /\ Len(a) = i - 1
      /\ \A k \in 1 .. i - 1 : a[k] = s[k]
    OBVIOUS
<1>2. /\ b \in Seq(E) /\ Len(b) = Len(s) - i
      /\ \A k \in 1 .. Len(s) - i : b[k] = s[k + i]
    OBVIOUS
<1>3. RemoveAt(s, i) = a \o b
    BY DEF RemoveAt
<1> HIDE DEF a, b
<1>4. a \o b \in Seq(E) /\ Len(a \o b) = Len(s) - 1
    <2>1. a \o b \in Seq(E) /\ Len(a \o b) = Len(a) + Len(b)
        BY <1>1, <1>2, ConcatProperties
    <2>2. Len(s) \in Nat
        OBVIOUS
    <2> QED
        BY <1>1, <1>2, <2>1, <2>2
<1>5. ASSUME NEW k \in 1 .. Len(s) - 1
      PROVE  (a \o b)[k] = IF k < i THEN s[k] ELSE s[k + 1]
    <2>1. CASE k < i
        BY <1>1, <1>2, <2>1
    <2>2. CASE ~(k < i)
        <3>1. k - (i - 1) \in 1 .. Len(b) /\ (a \o b)[k] = b[k - (i - 1)]
            BY <1>1, <1>2, <2>2
        <3> QED
            BY <1>2, <2>2, <3>1
    <2> QED
        BY <2>1, <2>2
<1> QED
    BY <1>3, <1>4, <1>5

LEMMA RemovedElements ==
    ASSUME NEW E, NEW s \in Seq(E), NEW i \in 1 .. Len(s)
    PROVE  /\ \A x \in ToSet(RemoveAt(s, i)) : \E k \in DOMAIN s \ {i} : x = s[k]
           /\ \A k \in DOMAIN s \ {i} : s[k] \in ToSet(RemoveAt(s, i))
<1> DEFINE r == RemoveAt(s, i)
<1>1. /\ r \in Seq(E) /\ Len(r) = Len(s) - 1
      /\ \A k \in 1 .. Len(s) - 1 : r[k] = IF k < i THEN s[k] ELSE s[k + 1]
    BY RemovedAt
<1> HIDE DEF r
<1>2. ASSUME NEW x \in ToSet(r)
      PROVE  \E k \in DOMAIN s \ {i} : x = s[k]
    <2>1. PICK n \in 1 .. Len(s) - 1 : x = r[n]
        BY <1>1 DEF ToSet
    <2>2. CASE n < i
        BY <1>1, <2>1, <2>2
    <2>3. CASE ~(n < i)
        <3>1. n + 1 \in DOMAIN s \ {i} /\ x = s[n + 1]
            BY <1>1, <2>1, <2>3
        <3> QED
            BY <3>1
    <2> QED
        BY <2>2, <2>3
<1>3. ASSUME NEW k \in DOMAIN s \ {i}
      PROVE  s[k] \in ToSet(r)
    <2>1. CASE k < i
        BY <1>1, <2>1 DEF ToSet
    <2>2. CASE ~(k < i)
        <3>1. k - 1 \in DOMAIN r /\ r[k - 1] = s[k]
            BY <1>1, <2>2
        <3> QED
            BY <3>1 DEF ToSet
    <2> QED
        BY <2>1, <2>2
<1> QED
    BY <1>2, <1>3 DEF r

\* The bytes of entries.
LEMMA EmptyBytes == BytesOf(<<>>) = 0
<1> DEFINE none == {}
<1>1. <<>> \in Seq(none) /\ (\A e \in none : e.bytes \in Nat) /\ Len(<<>>) = 0
    OBVIOUS
<1> HIDE DEF none
<1>2. \E f \in [0 .. Len(<<>>) -> Nat] : f[0] = 0 /\ BytesOf(<<>>) = f[Len(<<>>)]
    BY <1>1, SumOf
<1> QED
    BY <1>1, <1>2

LEMMA BytesAreNumber ==
    ASSUME NEW E, NEW s \in Seq(E), \A e \in E : e.bytes \in Nat
    PROVE  BytesOf(s) \in Nat
BY SumOf

\* Two sums with the same numbers up to N agree up to N.
LEMMA AppendedBytes ==
    ASSUME NEW E, NEW s \in Seq(E), NEW x \in E, \A e \in E : e.bytes \in Nat
    PROVE  BytesOf(Append(s, x)) = BytesOf(s) + x.bytes
<1> DEFINE t == Append(s, x)
<1>1. t \in Seq(E) /\ Len(t) = Len(s) + 1 /\ Len(s) \in Nat
      /\ t[Len(s) + 1] = x /\ \A n \in 1 .. Len(s) : t[n] = s[n]
    OBVIOUS
<1>2. PICK f \in [0 .. Len(s) -> Nat] :
          /\ f[0] = 0 /\ \A n \in 1 .. Len(s) : f[n] = f[n - 1] + s[n].bytes
          /\ BytesOf(s) = f[Len(s)]
    BY SumOf
<1>3. PICK g \in [0 .. Len(t) -> Nat] :
          /\ g[0] = 0 /\ \A n \in 1 .. Len(t) : g[n] = g[n - 1] + t[n].bytes
          /\ BytesOf(t) = g[Len(t)]
    BY <1>1, SumOf
<1> HIDE DEF t
<1> DEFINE T == {n \in 0 .. Len(s) : f[n] = g[n]}
<1>4. 0 \in T
    BY <1>1, <1>2, <1>3
<1>5. ASSUME NEW n \in 0 .. Len(s) - 1, n \in T
      PROVE  n + 1 \in T
    BY <1>1, <1>2, <1>3, <1>5
<1>6. Len(s) \in T
    <2> HIDE DEF T
    <2>1. 0 .. Len(s) \subseteq T
        BY <1>1, <1>4, <1>5, UpTo
    <2> QED
        BY <1>1, <2>1
<1>7. g[Len(s) + 1] = g[Len(s)] + x.bytes
    BY <1>1, <1>3
<1> QED
    BY <1>1, <1>2, <1>3, <1>6, <1>7 DEF t

LEMMA RemovedBytes ==
    ASSUME NEW E, NEW s \in Seq(E), NEW i \in 1 .. Len(s), \A e \in E : e.bytes \in Nat
    PROVE  BytesOf(RemoveAt(s, i)) = BytesOf(s) - s[i].bytes
<1>0. PICK r : r = RemoveAt(s, i)
    OBVIOUS
<1>10. /\ r \in Seq(E) /\ Len(r) = Len(s) - 1
      /\ \A k \in 1 .. Len(s) - 1 : r[k] = IF k < i THEN s[k] ELSE s[k + 1]
    BY <1>0, RemovedAt
<1>11. Len(s) \in Nat /\ i \in 1 .. Len(s)
    OBVIOUS
<1>1. /\ r \in Seq(E) /\ Len(r) = Len(s) - 1 /\ Len(s) \in Nat
      /\ \A k \in 1 .. Len(s) - 1 : r[k] = IF k < i THEN s[k] ELSE s[k + 1]
    BY <1>10, <1>11
<1>2. PICK f \in [0 .. Len(s) -> Nat] :
          /\ f[0] = 0 /\ \A n \in 1 .. Len(s) : f[n] = f[n - 1] + s[n].bytes
          /\ BytesOf(s) = f[Len(s)]
    BY SumOf
<1>3. PICK g \in [0 .. Len(r) -> Nat] :
          /\ g[0] = 0 /\ \A n \in 1 .. Len(r) : g[n] = g[n - 1] + r[n].bytes
          /\ BytesOf(r) = g[Len(r)]
    BY <1>1, SumOf
<1>8. \A n \in 1 .. Len(s) : s[n].bytes \in Nat
    OBVIOUS
<1> DEFINE T == {n \in 0 .. Len(r) : g[n] = IF n < i THEN f[n] ELSE f[n + 1] - s[i].bytes}
<1>4. 0 \in T
    BY <1>1, <1>2, <1>3
<1>5. ASSUME NEW n \in 0 .. Len(r) - 1, n \in T
      PROVE  n + 1 \in T
    <2>9. n + 1 \in 1 .. Len(r) /\ n + 1 \in 1 .. Len(s) /\ (n + 1) - 1 = n
        BY <1>10, <1>11
    <2>1. n + 1 \in 1 .. Len(r) /\ g[n + 1] = g[n] + r[n + 1].bytes /\ n + 1 \in 1 .. Len(s)
        BY <1>3, <2>9
    <2>6. n + 1 \in 1 .. Len(s) /\ n + 2 \in 1 .. Len(s) /\ n \in 0 .. Len(s) /\ n + 1 \in 0 .. Len(s)
        BY <1>1
    <2>2. /\ f[n + 2] = f[(n + 2) - 1] + s[n + 2].bytes /\ f[n + 1] = f[(n + 1) - 1] + s[n + 1].bytes
          /\ f[n] \in Nat /\ f[n + 1] \in Nat /\ (n + 2) - 1 = n + 1 /\ (n + 1) - 1 = n
        <3>1. f[n + 2] = f[(n + 2) - 1] + s[n + 2].bytes /\ f[n + 1] = f[(n + 1) - 1] + s[n + 1].bytes
            BY <1>2, <2>6
        <3>2. f[n] \in Nat /\ f[n + 1] \in Nat
            BY <1>2, <2>6
        <3>3. (n + 2) - 1 = n + 1 /\ (n + 1) - 1 = n
            OBVIOUS
        <3> QED
            BY <3>1, <3>2, <3>3
    <2>7. r[n + 1] = IF n + 1 < i THEN s[n + 1] ELSE s[n + 2]
        BY <1>1, <2>1
    <2>8. g[n] = IF n < i THEN f[n] ELSE f[n + 1] - s[i].bytes
        BY <1>5
    <2>3. CASE n + 1 < i
        BY <2>1, <2>2, <2>3, <2>7, <2>8
    <2>4. CASE n + 1 = i
        <3>1. g[n + 1] = f[n] + s[n + 2].bytes
            BY <2>1, <2>4, <2>7, <2>8
        <3>2. g[n + 1] = f[n + 2] - s[i].bytes
            BY <1>8, <2>6, <2>2, <2>4, <3>1
        <3> QED
            BY <2>1, <2>4, <3>2
    <2>5. CASE n + 1 > i
        <3>1. g[n + 1] = (f[n + 1] - s[i].bytes) + s[n + 2].bytes
            BY <2>1, <2>5, <2>7, <2>8
        <3>2. g[n + 1] = f[n + 2] - s[i].bytes
            BY <1>8, <2>6, <2>2, <2>5, <3>1
        <3> QED
            BY <2>1, <2>5, <3>2
    <2> QED
        BY <2>3, <2>4, <2>5
<1>6. Len(r) \in T
    <2> HIDE DEF T
    <2>1. Len(r) \in Nat /\ Len(r) \in 0 .. Len(r)
        BY <1>1
    <2>2. 0 .. Len(r) \subseteq T
        BY <2>1, <1>4, <1>5, UpTo
    <2> QED
        BY <2>1, <2>2
<1>7. i <= Len(s) /\ (Len(r) < i => f[Len(s)] = f[Len(r)] + s[i].bytes)
    BY <1>1, <1>2
<1>9. f[Len(r)] \in Nat /\ f[Len(s)] \in Nat
    <2>1. Len(r) \in 0 .. Len(s) /\ Len(s) \in 0 .. Len(s)
        BY <1>10, <1>11
    <2> QED
        BY <1>2, <2>1
<1> QED
    BY <1>0, <1>1, <1>2, <1>3, <1>6, <1>7, <1>8, <1>9

(***************************************************************************)
(* The caches. Every entry is accounted for by the reservation of its      *)
(* token, and the reservations by the number of retained bytes, in every   *)
(* cache that the operations make of such a cache.                         *)
(***************************************************************************)
Entries == [key : Docs, token : Nat, bytes : Nat, value : Docs \cup Limits]
Reservations == [token : Nat, bytes : Nat]
Caches == [local : [Stages -> Seq(Entries)], order : Seq(Reservations), retained : Nat]

\* A cache that accounts for its entries, whatever its bounds.
Orderly(c) == c \in Caches /\ Distinct(c) /\ Accounted(c)

\* d holds no more than c.
Within(d, c) ==
    /\ d.retained <= c.retained
    /\ \A s \in Stages : Len(d.local[s]) <= Len(c.local[s]) /\ ToSet(d.local[s]) \subseteq ToSet(c.local[s])

LEMMA CacheFields ==
    ASSUME NEW c \in Caches
    PROVE  /\ c.order \in Seq(Reservations) /\ c.retained \in Nat
           /\ \A s \in Stages : c.local[s] \in Seq(Entries)
           /\ c = [local |-> c.local, order |-> c.order, retained |-> c.retained]
           /\ c.local \in [Stages -> Seq(Entries)]
BY DEF Caches

LEMMA WithinItself ==
    ASSUME NEW c \in Caches
    PROVE  Within(c, c)
BY CacheFields DEF Within

LEMMA WithinTransitive ==
    ASSUME NEW a \in Caches, NEW b \in Caches, NEW c \in Caches, Within(a, b), Within(b, c)
    PROVE  Within(a, c)
<1>1. \A s \in Stages : Len(a.local[s]) \in Nat /\ Len(b.local[s]) \in Nat /\ Len(c.local[s]) \in Nat
    BY CacheFields
<1>2. a.retained \in Nat /\ b.retained \in Nat /\ c.retained \in Nat
    BY CacheFields
<1>3. a.retained <= c.retained
    BY <1>2 DEF Within
<1>4. ASSUME NEW s \in Stages
      PROVE  Len(a.local[s]) <= Len(c.local[s]) /\ ToSet(a.local[s]) \subseteq ToSet(c.local[s])
    <2>1. Len(a.local[s]) <= Len(b.local[s]) /\ Len(b.local[s]) <= Len(c.local[s])
        BY DEF Within
    <2>2. ToSet(a.local[s]) \subseteq ToSet(b.local[s]) /\ ToSet(b.local[s]) \subseteq ToSet(c.local[s])
        BY DEF Within
    <2> QED
        BY <1>1, <2>1, <2>2
<1> QED
    BY <1>3, <1>4 DEF Within

\* The entry of a token, where no two have the same.
LEMMA TokenAt ==
    ASSUME NEW E, NEW q \in Seq(E), NEW i \in 1 .. Len(q),
           \A j, k \in DOMAIN q : q[j].token = q[k].token => j = k
    PROVE  /\ Holds(q, q[i].token) /\ Held(q, q[i].token) = q[i]
           /\ Without(q, q[i].token) = RemoveAt(q, i)
<1> DEFINE t == q[i].token
<1>1. i \in DOMAIN q /\ q[i] \in ToSet(q)
    BY DEF ToSet
<1>2. Holds(q, t)
    BY <1>1 DEF Holds
<1>3. \A e \in ToSet(q) : e.token = t => e = q[i]
    BY <1>1 DEF ToSet
<1>4. Held(q, t) = q[i]
    BY <1>1, <1>3 DEF Held
<1>5. (CHOOSE j \in DOMAIN q : q[j].token = t) = i
    BY <1>1
<1> HIDE DEF t
<1>6. Without(q, t) = RemoveAt(q, i)
    BY <1>2, <1>5 DEF Without
<1> QED
    BY <1>2, <1>4, <1>6 DEF t

LEMMA KeptTokens ==
    ASSUME NEW E, NEW q \in Seq(E), NEW i \in 1 .. Len(q)
    PROVE  \A j, k \in DOMAIN RemoveAt(q, i) :
              \E m, n \in DOMAIN q \ {i} :
                 /\ RemoveAt(q, i)[j] = q[m] /\ RemoveAt(q, i)[k] = q[n]
                 /\ (m = n => j = k)
<1> DEFINE r == RemoveAt(q, i)
           at(j) == IF j < i THEN j ELSE j + 1
<1>1. /\ Len(q) \in Nat /\ DOMAIN q = 1 .. Len(q) /\ DOMAIN r = 1 .. Len(q) - 1
      /\ \A k \in 1 .. Len(q) - 1 : r[k] = IF k < i THEN q[k] ELSE q[k + 1]
    <2>1. /\ r \in Seq(E) /\ Len(r) = Len(q) - 1
          /\ \A k \in 1 .. Len(q) - 1 : r[k] = IF k < i THEN q[k] ELSE q[k + 1]
        BY RemovedAt
    <2> HIDE DEF r
    <2>2. DOMAIN r = 1 .. Len(r) /\ DOMAIN q = 1 .. Len(q) /\ Len(q) \in Nat
        BY <2>1
    <2> QED
        BY <2>1, <2>2
<1> HIDE DEF r
<1>2. ASSUME NEW j \in DOMAIN r
      PROVE  at(j) \in DOMAIN q \ {i} /\ r[j] = q[at(j)]
    BY <1>1
<1>3. \A j, k \in DOMAIN r : at(j) = at(k) => j = k
    BY <1>1
<1> HIDE DEF at
<1>4. ASSUME NEW j \in DOMAIN r, NEW k \in DOMAIN r
      PROVE  \E m, n \in DOMAIN q \ {i} : r[j] = q[m] /\ r[k] = q[n] /\ (m = n => j = k)
    BY <1>2, <1>3
<1> QED
    BY <1>4 DEF r

\* An entry leaves its stage and the coordinator.
Dropped(c, s, i, j) ==
    [local |-> [c.local EXCEPT ![s] = RemoveAt(@, i)],
     order |-> RemoveAt(c.order, j),
     retained |-> c.retained - c.order[j].bytes]

LEMMA DroppedOrderly ==
    ASSUME NEW c, Orderly(c), NEW s \in Stages, NEW i \in 1 .. Len(c.local[s]),
           NEW j \in 1 .. Len(c.order), c.order[j].token = c.local[s][i].token
    PROVE  Orderly(Dropped(c, s, i, j)) /\ Within(Dropped(c, s, i, j), c)
<1> DEFINE d == Dropped(c, s, i, j)
           q == c.local[s]
<1>1. /\ c \in Caches /\ q \in Seq(Entries) /\ c.order \in Seq(Reservations)
      /\ c.retained \in Nat /\ c.local \in [Stages -> Seq(Entries)]
    BY CacheFields DEF Orderly
<1>2. RemoveAt(q, i) \in Seq(Entries) /\ Len(RemoveAt(q, i)) = Len(q) - 1 /\ Len(q) \in Nat
    <2>1. i \in 1 .. Len(q)
        OBVIOUS
    <2> HIDE DEF q
    <2>2. RemoveAt(q, i) \in Seq(Entries) /\ Len(RemoveAt(q, i)) = Len(q) - 1
        BY <1>1, <2>1, RemovedAt
    <2>3. Len(q) \in Nat
        BY <1>1
    <2> QED
        BY <2>2, <2>3
<1>3. RemoveAt(c.order, j) \in Seq(Reservations)
    BY <1>1, RemovedAt
<1>4. /\ d.order = RemoveAt(c.order, j) /\ d.retained = c.retained - c.order[j].bytes
      /\ d.local = [c.local EXCEPT ![s] = RemoveAt(@, i)]
      /\ d.local[s] = RemoveAt(q, i) /\ \A r \in Stages \ {s} : d.local[r] = c.local[r]
    BY <1>1 DEF Dropped
<1>5. c.retained = BytesOf(c.order) /\ Accounted(c) /\ Distinct(c)
    BY DEF Orderly, Accounted
<1>6. \A e \in Reservations : e.bytes \in Nat
    BY DEF Reservations
<1>7. d.retained = BytesOf(d.order) /\ d.retained \in Nat
    BY <1>1, <1>3, <1>4, <1>5, <1>6, RemovedBytes, BytesAreNumber
<1>8. d \in Caches
    <2>1. d.local \in [Stages -> Seq(Entries)]
        BY <1>1, <1>2, <1>4
    <2>2. d = [local |-> d.local, order |-> d.order, retained |-> d.retained]
        BY DEF Dropped
    <2> HIDE DEF d
    <2> QED
        BY <1>3, <1>4, <1>7, <2>1, <2>2 DEF Caches
<1>9. c.order[j] \in Reservations /\ q[i] \in Entries
    BY <1>1
<1> HIDE DEF d
<1>10. Within(d, c)
    <2>1. d.retained <= c.retained
        BY <1>1, <1>4, <1>7, <1>6, <1>9
    <2>2. ToSet(d.local[s]) \subseteq ToSet(q)
        <3>1. \A x \in ToSet(RemoveAt(q, i)) : \E k \in DOMAIN q \ {i} : x = q[k]
            BY <1>1, RemovedElements
        <3> QED
            BY <1>4, <3>1 DEF ToSet
    <2>3. Len(d.local[s]) <= Len(q) /\ \A r \in Stages : Len(c.local[r]) \in Nat
        BY <1>1, <1>2, <1>4
    <2> QED
        BY <1>4, <2>1, <2>2, <2>3 DEF Within
\* where the entries of d are in c
<1>11. ASSUME NEW r \in Stages, NEW u \in Stages, NEW m \in DOMAIN d.local[r], NEW n \in DOMAIN d.local[u]
       PROVE  \E x \in DOMAIN c.local[r], y \in DOMAIN c.local[u] :
                 /\ d.local[r][m] = c.local[r][x] /\ d.local[u][n] = c.local[u][y]
                 /\ (r = u /\ x = y => m = n)
                 /\ (r = s => x # i) /\ (u = s => y # i)
    <2>5. /\ \A k, l \in DOMAIN RemoveAt(q, i) :
                \E x, y \in DOMAIN q \ {i} :
                   RemoveAt(q, i)[k] = q[x] /\ RemoveAt(q, i)[l] = q[y] /\ (x = y => k = l)
        BY <1>1, KeptTokens
    <2>1. CASE r = s /\ u = s
        <3>1. m \in DOMAIN RemoveAt(q, i) /\ n \in DOMAIN RemoveAt(q, i)
            BY <1>4, <2>1
        <3>2. PICK x \in DOMAIN q \ {i}, y \in DOMAIN q \ {i} :
                  RemoveAt(q, i)[m] = q[x] /\ RemoveAt(q, i)[n] = q[y] /\ (x = y => m = n)
            BY <2>5, <3>1
        <3>3. x \in DOMAIN c.local[r] /\ y \in DOMAIN c.local[u] /\ x # i /\ y # i
            BY <2>1
        <3> QED
            BY <1>4, <2>1, <3>2, <3>3
    <2>2. CASE r = s /\ u # s
        <3>1. PICK x \in DOMAIN q \ {i} : d.local[r][m] = q[x]
            BY <1>4, <2>2, <2>5
        <3> QED
            BY <1>4, <2>2, <3>1
    <2>3. CASE r # s /\ u = s
        <3>1. PICK y \in DOMAIN q \ {i} : d.local[u][n] = q[y]
            BY <1>4, <2>3, <2>5
        <3> QED
            BY <1>4, <2>3, <3>1
    <2>4. CASE r # s /\ u # s
        BY <1>4, <2>4
    <2> QED
        BY <2>1, <2>2, <2>3, <2>4
<1>12. Distinct(d)
    <2>1. \A m, n \in DOMAIN d.order : d.order[m].token = d.order[n].token => m = n
        BY <1>1, <1>4, <1>5, KeptTokens DEF Distinct
    <2>2. ASSUME NEW r \in Stages, NEW u \in Stages, NEW m \in DOMAIN d.local[r], NEW n \in DOMAIN d.local[u]
          PROVE  /\ d.local[r][m].token = d.local[u][n].token => r = u /\ m = n
                 /\ r = u /\ d.local[r][m].key = d.local[u][n].key => m = n
        BY <1>5, <1>11 DEF Distinct
    <2> QED
        BY <2>1, <2>2 DEF Distinct
<1>13. Accounted(d)
    <2>1. ASSUME NEW r \in Stages, NEW e \in ToSet(d.local[r])
          PROVE  [token |-> e.token, bytes |-> e.bytes] \in ToSet(d.order)
        <3> DEFINE o == [token |-> e.token, bytes |-> e.bytes]
        <3>1. PICK m \in DOMAIN d.local[r] : e = d.local[r][m]
            BY DEF ToSet
        <3>2. PICK x \in DOMAIN c.local[r] : e = c.local[r][x] /\ (r = s => x # i)
            BY <1>11, <3>1
        <3>3. o \in ToSet(c.order)
            BY <1>5, <3>2 DEF Accounted, ToSet
        <3>4. e.token # c.local[s][i].token
            BY <1>1, <1>5, <3>2 DEF Distinct
        <3>5. PICK k \in DOMAIN c.order : o = c.order[k]
            BY <3>3 DEF ToSet
        <3>6. k # j
            BY <3>4, <3>5
        <3> QED
            BY <1>1, <1>4, <3>5, <3>6, RemovedElements
    <2>2. ASSUME NEW o \in ToSet(d.order)
          PROVE  \E r \in Stages : \E e \in ToSet(d.local[r]) : e.token = o.token /\ e.bytes = o.bytes
        <3>1. PICK k \in DOMAIN c.order \ {j} : o = c.order[k]
            BY <1>1, <1>4, RemovedElements
        <3>2. o \in ToSet(c.order) /\ o.token # c.order[j].token
            BY <1>1, <1>5, <3>1 DEF ToSet, Distinct
        <3>7. PICK r \in Stages : \E e \in ToSet(c.local[r]) : e.token = o.token /\ e.bytes = o.bytes
            BY <1>5, <3>2 DEF Accounted
        <3>3. PICK e \in ToSet(c.local[r]) : e.token = o.token /\ e.bytes = o.bytes
            BY <3>7
        <3>4. PICK x \in DOMAIN c.local[r] : e = c.local[r][x]
            BY DEF ToSet
        <3>5. CASE r = s
            <4>1. x # i
                BY <3>2, <3>3, <3>4, <3>5
            <4>2. e \in ToSet(d.local[s])
                BY <1>1, <1>4, <3>4, <3>5, <4>1, RemovedElements
            <4> QED
                BY <3>3, <4>2
        <3>6. CASE r # s
            <4>1. d.local[r] = c.local[r]
                BY <1>4, <3>6
            <4> QED
                BY <3>3, <4>1
        <3> QED
            BY <3>5, <3>6
    <2> QED
        BY <1>7, <2>1, <2>2 DEF Accounted
<1> QED
    BY <1>8, <1>10, <1>12, <1>13 DEF Orderly, d

\* Where the coordinator knows an entry of a stage.
LEMMA KnownAt ==
    ASSUME NEW c, Orderly(c), NEW s \in Stages, NEW i \in 1 .. Len(c.local[s])
    PROVE  \E j \in 1 .. Len(c.order) :
              /\ c.order[j].token = c.local[s][i].token /\ c.order[j].bytes = c.local[s][i].bytes
              /\ Without(c.order, c.local[s][i].token) = RemoveAt(c.order, j)
              /\ Holds(c.order, c.local[s][i].token)
              /\ Held(c.order, c.local[s][i].token) = c.order[j]
              /\ Without(c.local[s], c.local[s][i].token) = RemoveAt(c.local[s], i)
<1> DEFINE e == c.local[s][i]
<1>1. c \in Caches /\ Distinct(c) /\ Accounted(c) /\ c.order \in Seq(Reservations)
      /\ c.local[s] \in Seq(Entries)
    BY CacheFields DEF Orderly
<1>2. i \in DOMAIN c.local[s] /\ e \in ToSet(c.local[s])
    BY <1>1 DEF ToSet
<1>3. [token |-> e.token, bytes |-> e.bytes] \in ToSet(c.order)
    BY <1>1, <1>2 DEF Accounted
<1>4. PICK j \in DOMAIN c.order : [token |-> e.token, bytes |-> e.bytes] = c.order[j]
    BY <1>3 DEF ToSet
<1>5. j \in 1 .. Len(c.order) /\ c.order[j].token = e.token /\ c.order[j].bytes = e.bytes
    BY <1>1, <1>4
<1>6. \A k, l \in DOMAIN c.order : c.order[k].token = c.order[l].token => k = l
    BY <1>1 DEF Distinct
<1>7. \A k, l \in DOMAIN c.local[s] : c.local[s][k].token = c.local[s][l].token => k = l
    BY <1>1 DEF Distinct
<1>8. Without(c.local[s], c.local[s][i].token) = RemoveAt(c.local[s], i)
    BY <1>1, <1>7, TokenAt
<1>9. /\ Holds(c.order, c.order[j].token) /\ Held(c.order, c.order[j].token) = c.order[j]
      /\ Without(c.order, c.order[j].token) = RemoveAt(c.order, j)
    BY <1>1, <1>5, <1>6, TokenAt
<1> QED
    BY <1>5, <1>8, <1>9

LEMMA EntryOf ==
    ASSUME NEW c, Orderly(c), NEW s \in Stages, NEW k, Has(c, s, k)
    PROVE  \E i \in 1 .. Len(c.local[s]) :
              EntryAt(c, s, k) = c.local[s][i] /\ c.local[s][i].key = k
<1>1. c.local[s] \in Seq(Entries)
    BY CacheFields DEF Orderly
<1>2. EntryAt(c, s, k) \in ToSet(c.local[s]) /\ EntryAt(c, s, k).key = k
    BY DEF Has, EntryAt
<1> QED
    BY <1>1, <1>2 DEF ToSet

LEMMA ForgetDrops ==
    ASSUME NEW c, Orderly(c), NEW s \in Stages, NEW k, Has(c, s, k)
    PROVE  \E i \in 1 .. Len(c.local[s]), j \in 1 .. Len(c.order) :
              /\ c.order[j].token = c.local[s][i].token /\ c.local[s][i].key = k
              /\ Forget(c, s, k) = Dropped(c, s, i, j)
<1>1. PICK i \in 1 .. Len(c.local[s]) : EntryAt(c, s, k) = c.local[s][i] /\ c.local[s][i].key = k
    BY EntryOf
<1> DEFINE t == c.local[s][i].token
<1>2. PICK j \in 1 .. Len(c.order) :
          /\ c.order[j].token = t /\ c.order[j].bytes = c.local[s][i].bytes
          /\ Without(c.order, t) = RemoveAt(c.order, j) /\ Holds(c.order, t)
          /\ Held(c.order, t) = c.order[j] /\ Without(c.local[s], t) = RemoveAt(c.local[s], i)
    BY KnownAt
<1> DEFINE a == [c EXCEPT !.local[s] = Without(@, t)]
<1>3. Forget(c, s, k) = Release(a, t)
    BY <1>1 DEF Forget
<1>4. c = [local |-> c.local, order |-> c.order, retained |-> c.retained]
    BY CacheFields DEF Orderly
<1>5. a = [local |-> [c.local EXCEPT ![s] = RemoveAt(@, i)], order |-> c.order, retained |-> c.retained]
    BY <1>2, <1>4
<1> HIDE DEF a, t
<1>6. Release(a, t) = [a EXCEPT !.order = RemoveAt(c.order, j), !.retained = @ - c.order[j].bytes]
    BY <1>2, <1>5 DEF Release
<1>7. Release(a, t) = Dropped(c, s, i, j)
    BY <1>5, <1>6 DEF Dropped
<1> QED
    BY <1>1, <1>2, <1>3, <1>7 DEF t

LEMMA ForgetOrderly ==
    ASSUME NEW c, Orderly(c), NEW s \in Stages, NEW k
    PROVE  /\ Orderly(Forget(c, s, k)) /\ Within(Forget(c, s, k), c)
           /\ ~Has(Forget(c, s, k), s, k)
           /\ Has(c, s, k) => Len(Forget(c, s, k).local[s]) = Len(c.local[s]) - 1
<1>1. CASE ~Has(c, s, k)
    BY <1>1, WithinItself DEF Forget, Orderly
<1>2. CASE Has(c, s, k)
    <2>1. PICK i \in 1 .. Len(c.local[s]), j \in 1 .. Len(c.order) :
              /\ c.order[j].token = c.local[s][i].token /\ c.local[s][i].key = k
              /\ Forget(c, s, k) = Dropped(c, s, i, j)
        BY <1>2, ForgetDrops
    <2>2. Orderly(Dropped(c, s, i, j)) /\ Within(Dropped(c, s, i, j), c)
        BY <2>1, DroppedOrderly
    <2>3. c.local[s] \in Seq(Entries) /\ c.local \in [Stages -> Seq(Entries)] /\ Distinct(c)
        BY CacheFields DEF Orderly
    <2>4. Dropped(c, s, i, j).local[s] = RemoveAt(c.local[s], i)
        BY <2>3 DEF Dropped
    <2>5. Len(RemoveAt(c.local[s], i)) = Len(c.local[s]) - 1
        BY <2>3, RemovedAt
    <2>6. ASSUME NEW e \in ToSet(RemoveAt(c.local[s], i))
          PROVE  e.key # k
        <3>1. PICK m \in DOMAIN c.local[s] \ {i} : e = c.local[s][m]
            BY <2>3, RemovedElements
        <3> QED
            BY <2>1, <2>3, <3>1 DEF Distinct
    <2> QED
        BY <2>1, <2>2, <2>4, <2>5, <2>6 DEF Has
<1> QED
    BY <1>1, <1>2

LEMMA EvictOldestOrderly ==
    ASSUME NEW c, Orderly(c), c.order # <<>>
    PROVE  /\ Orderly(EvictOldest(c)) /\ Within(EvictOldest(c), c)
           /\ Len(EvictOldest(c).order) = Len(c.order) - 1
<1>1. /\ c \in Caches /\ Distinct(c) /\ Accounted(c) /\ c.order \in Seq(Reservations)
      /\ c.local \in [Stages -> Seq(Entries)]
    BY CacheFields DEF Orderly
<1>2. 1 \in 1 .. Len(c.order) /\ Head(c.order) = c.order[1] /\ c.order[1] \in ToSet(c.order)
    BY <1>1 DEF ToSet
<1>3. PICK s \in Stages : \E e \in ToSet(c.local[s]) : e.token = c.order[1].token
    BY <1>1, <1>2 DEF Accounted
<1>4. PICK i \in 1 .. Len(c.local[s]) : c.local[s][i].token = c.order[1].token
    BY <1>1, <1>3 DEF ToSet
<1>5. Without(c.local[s], c.order[1].token) = RemoveAt(c.local[s], i)
    BY <1>4, KnownAt
<1>6. ASSUME NEW r \in Stages, r # s
      PROVE  Without(c.local[r], c.order[1].token) = c.local[r]
    <2>1. c.local[r] \in Seq(Entries)
        BY <1>1
    <2>2. ~Holds(c.local[r], c.order[1].token)
        BY <1>1, <1>4, <1>6, <2>1 DEF Holds, ToSet, Distinct
    <2> QED
        BY <2>2 DEF Without
<1>7. Tail(c.order) = RemoveAt(c.order, 1) /\ Len(Tail(c.order)) = Len(c.order) - 1
    <2>1. /\ RemoveAt(c.order, 1) \in Seq(Reservations) /\ Len(RemoveAt(c.order, 1)) = Len(c.order) - 1
          /\ \A k \in 1 .. Len(c.order) - 1 : RemoveAt(c.order, 1)[k] = IF k < 1 THEN c.order[k] ELSE c.order[k + 1]
        BY <1>1, <1>2, RemovedAt
    <2>2. /\ Tail(c.order) \in Seq(Reservations) /\ Len(Tail(c.order)) = Len(c.order) - 1
          /\ \A k \in 1 .. Len(c.order) - 1 : Tail(c.order)[k] = c.order[k + 1]
        BY <1>1
    <2>3. \A k \in 1 .. Len(Tail(c.order)) : Tail(c.order)[k] = RemoveAt(c.order, 1)[k]
        BY <2>1, <2>2
    <2>4. Len(Tail(c.order)) = Len(RemoveAt(c.order, 1))
        BY <2>1, <2>2
    <2>5. Tail(c.order) = RemoveAt(c.order, 1)
        BY <2>1, <2>2, <2>3, <2>4, SeqEqual
    <2> QED
        BY <2>2, <2>5
<1>8. EvictOldest(c) = Dropped(c, s, i, 1)
    <2>1. [r \in Stages |-> Without(c.local[r], c.order[1].token)] = [c.local EXCEPT ![s] = RemoveAt(@, i)]
        BY <1>1, <1>5, <1>6
    <2> QED
        BY <1>2, <1>7, <2>1 DEF EvictOldest, Dropped
<1>9. Orderly(Dropped(c, s, i, 1)) /\ Within(Dropped(c, s, i, 1), c)
    BY <1>2, <1>4, DroppedOrderly
<1> QED
    BY <1>7, <1>8, <1>9 DEF EvictOldest

LEMMA NothingRetained ==
    ASSUME NEW c, Orderly(c), Len(c.order) = 0
    PROVE  c.retained = 0
<1>1. c.order = <<>>
    BY CacheFields DEF Orderly
<1> QED
    BY <1>1, EmptyBytes DEF Orderly, Accounted

LEMMA EvictOrderly ==
    ASSUME NEW c, Orderly(c)
    PROVE  /\ Orderly(Evict(c)) /\ Within(Evict(c), c)
           /\ Evict(c).retained <= MaxAggregateBytes
<1> DEFINE N == Len(c.order)
           Orders(n) == {x \in Caches : Orderly(x) /\ Within(x, c) /\ Len(x.order) = N - n}
           Evicted(f) == [n \in 0 .. N |-> IF n = 0 THEN c ELSE EvictOldest(f[n - 1])]
           after == CHOOSE f : f = Evicted(f)
           step == [x \in Caches |-> IF Orderly(x) /\ x.order # <<>> THEN EvictOldest(x) ELSE x]
           G == [n \in 1 .. N |-> step]
<1>1. N \in Nat /\ c \in Caches
    BY CacheFields DEF Orderly
<1>2. G \in [1 .. N -> [Caches -> Caches]]
    <2>1. \A x \in Caches : Orderly(x) /\ x.order # <<>> => EvictOldest(x) \in Caches
        BY EvictOldestOrderly DEF Orderly
    <2> QED
        BY <2>1
<1>3. PICK f : Iteration(f, N, Caches, c, G)
    <2> HIDE DEF G, N
    <2> QED
        BY <1>1, <1>2, Iterate
<1>4. f \in [0 .. N -> Caches] /\ f[0] = c /\ \A n \in 1 .. N : f[n] = G[n][f[n - 1]]
    BY <1>3 DEF Iteration
<1>5. \A n \in 0 .. N : f[n] \in Orders(n)
    <2> DEFINE T == {n \in 0 .. N : f[n] \in Orders(n)}
    <2>1. 0 \in T
        BY <1>1, <1>4, WithinItself
    <2>2. ASSUME NEW n \in 0 .. N - 1, n \in T
          PROVE  n + 1 \in T
        <3>1. f[n] \in Caches /\ Orderly(f[n]) /\ Within(f[n], c) /\ Len(f[n].order) = N - n
            BY <2>2
        <3>2. f[n].order # <<>>
            BY <1>1, <3>1
        <3>3. f[n + 1] = EvictOldest(f[n])
            <4>1. n + 1 \in 1 .. N /\ (n + 1) - 1 = n
                BY <1>1
            <4>2. f[n + 1] = G[n + 1][f[n]]
                <5> HIDE DEF G
                <5> QED
                    BY <1>4, <4>1
            <4>3. G[n + 1] = step
                BY <4>1
            <4> QED
                BY <3>1, <3>2, <4>2, <4>3
        <3>4. /\ Orderly(EvictOldest(f[n])) /\ Within(EvictOldest(f[n]), f[n])
              /\ Len(EvictOldest(f[n]).order) = N - (n + 1)
            <4>1. /\ Orderly(EvictOldest(f[n])) /\ Within(EvictOldest(f[n]), f[n])
                  /\ Len(EvictOldest(f[n]).order) = Len(f[n].order) - 1
                BY <3>1, <3>2, EvictOldestOrderly
            <4>2. (N - n) - 1 = N - (n + 1)
                BY <1>1
            <4> HIDE DEF N
            <4> QED
                BY <3>1, <4>1, <4>2
        <3>5. Within(EvictOldest(f[n]), c)
            BY <1>1, <3>1, <3>4, WithinTransitive DEF Orderly
        <3> QED
            BY <1>1, <3>3, <3>4, <3>5 DEF Orderly
    <2>3. 0 .. N \subseteq T
        <3> HIDE DEF T, N
        <3> QED
            BY <1>1, <2>1, <2>2, UpTo
    <2> QED
        BY <2>3
<1>6. f = Evicted(f)
    <2>1. ASSUME NEW n \in 1 .. N
          PROVE  f[n] = EvictOldest(f[n - 1])
        <3>1. n - 1 \in 0 .. N /\ (n - 1) + 1 = n
            BY <1>1
        <3>2. Orderly(f[n - 1]) /\ Len(f[n - 1].order) = N - (n - 1) /\ f[n - 1] \in Caches
            BY <1>5, <3>1
        <3>3. f[n - 1].order # <<>>
            BY <1>1, <3>2
        <3> QED
            BY <1>4, <3>2, <3>3
    <2> QED
        BY <1>1, <1>4, <2>1
<1>7. after = Evicted(after)
    <2> HIDE DEF Evicted
    <2> QED
        BY <1>6
<1>8. \A n \in 0 .. N : after[n] = f[n]
    <2> DEFINE T == {n \in 0 .. N : after[n] = f[n]}
    <2> HIDE DEF after
    <2>1. 0 \in T
        BY <1>1, <1>6, <1>7
    <2>2. ASSUME NEW n \in 0 .. N - 1, n \in T
          PROVE  n + 1 \in T
        BY <1>1, <1>6, <1>7, <2>2
    <2>3. 0 .. N \subseteq T
        <3> HIDE DEF T, N
        <3> QED
            BY <1>1, <2>1, <2>2, UpTo
    <2> QED
        BY <2>3
<1> DEFINE enough == {n \in 0 .. N : after[n].retained <= MaxAggregateBytes}
<1>9. Evict(c) = after[Min(enough)]
    BY DEF Evict
<1> HIDE DEF after
<1>10. Min(enough) \in enough
    <2>1. after[N].retained = 0
        BY <1>1, <1>5, <1>8, NothingRetained
    <2>2. N \in enough
        BY <1>1, <2>1, CacheAssumption
    <2>3. enough \in SUBSET Nat /\ enough # {}
        BY <1>1, <2>2
    <2> HIDE DEF enough
    <2>4. \E x \in enough : \A y \in enough : x <= y
        BY <2>3, LeastNumber
    <2> QED
        BY <2>4 DEF Min
<1>11. Min(enough) \in 0 .. N /\ after[Min(enough)].retained <= MaxAggregateBytes
    BY <1>10
<1> HIDE DEF enough
<1> QED
    BY <1>5, <1>8, <1>9, <1>11

Tokens(q) == {e.token : e \in ToSet(q)}

LEMMA TokensFinite ==
    ASSUME NEW E, NEW q \in Seq(E)
    PROVE  IsFiniteSet(Tokens(q))
<1> DEFINE f == [i \in 1 .. Len(q) |-> q[i].token]
<1>1. Len(q) \in Nat /\ DOMAIN q = 1 .. Len(q)
    OBVIOUS
<1>2. f \in Surjection(1 .. Len(q), Tokens(q))
    BY <1>1 DEF Tokens, ToSet, Surjection
<1> QED
    BY <1>1, <1>2, FS_NatSurjection DEF ExistsSurjection

LEMMA InUseFinite ==
    ASSUME NEW c \in Caches
    PROVE  IsFiniteSet(TokensInUse(c))
<1>1. IsFiniteSet(Tokens(c.order)) /\ \A s \in Stages : IsFiniteSet(Tokens(c.local[s]))
    BY CacheFields, TokensFinite
<1>2. TokensInUse(c) = Tokens(c.order) \cup (Tokens(c.local["decode"])
                          \cup (Tokens(c.local["analyze"]) \cup Tokens(c.local["repair"])))
    BY StagesAssumption DEF TokensInUse, Tokens
<1>3. IsFiniteSet(Tokens(c.local["analyze"]) \cup Tokens(c.local["repair"]))
    BY <1>1, StagesAssumption, FS_Union
<1>4. IsFiniteSet(Tokens(c.local["decode"]) \cup (Tokens(c.local["analyze"]) \cup Tokens(c.local["repair"])))
    BY <1>1, <1>3, StagesAssumption, FS_Union
<1> QED
    BY <1>1, <1>2, <1>4, FS_Union

LEMMA FreshTokens ==
    ASSUME NEW c \in Caches
    PROVE  FreshToken(c) \in Nat \ TokensInUse(c)
<1> DEFINE used == TokensInUse(c)
           free == (1 .. Cardinality(used) + 1) \ used
<1>1. IsFiniteSet(used) /\ Cardinality(used) \in Nat
    BY InUseFinite, FS_CardinalityType
<1>2. free # {}
    <2> SUFFICES ASSUME 1 .. Cardinality(used) + 1 \in SUBSET used
                 PROVE  FALSE
        OBVIOUS
    <2>1. Cardinality(1 .. Cardinality(used) + 1) <= Cardinality(used)
        BY <1>1, FS_Subset
    <2>2. Cardinality(1 .. Cardinality(used) + 1) = Cardinality(used) + 1
        BY <1>1, FS_Interval
    <2> QED
        BY <1>1, <2>1, <2>2
<1>3. free \in SUBSET Nat
    BY <1>1
<1>4. FreshToken(c) = Min(free)
    BY DEF FreshToken
<1>5. free \subseteq Nat \ TokensInUse(c)
    BY <1>3
<1> HIDE DEF free
<1>6. Min(free) \in free
    BY <1>2, <1>3, LeastNumber DEF Min
<1> QED
    BY <1>4, <1>5, <1>6

\* An entry enters its stage and the coordinator.
Entered(c, s, e) ==
    [local |-> [c.local EXCEPT ![s] = Append(@, e)],
     order |-> Append(c.order, [token |-> e.token, bytes |-> e.bytes]),
     retained |-> c.retained + e.bytes]

\* Nothing of c has the token of e, and nothing of its stage s the key.
Lacks(c, s, e) == e.token \notin TokensInUse(c) /\ \A x \in ToSet(c.local[s]) : x.key # e.key

\* Stage s of d holds e beside what it holds in c.
Gains(d, c, s, e) ==
    /\ Len(d.local[s]) = Len(c.local[s]) + 1
    /\ ToSet(d.local[s]) = ToSet(c.local[s]) \cup {e}
    /\ \A r \in Stages \ {s} : d.local[r] = c.local[r]

LEMMA EnteredOrderly ==
    ASSUME NEW c, Orderly(c), NEW s \in Stages, NEW e \in Entries, Lacks(c, s, e)
    PROVE  Orderly(Entered(c, s, e)) /\ Gains(Entered(c, s, e), c, s, e)
<1>0. e.token \notin TokensInUse(c) /\ \A x \in ToSet(c.local[s]) : x.key # e.key
    BY DEF Lacks
<1> DEFINE d == Entered(c, s, e)
           q == c.local[s]
           o == [token |-> e.token, bytes |-> e.bytes]
<1>1. /\ c \in Caches /\ Distinct(c) /\ Accounted(c) /\ c.order \in Seq(Reservations)
      /\ q \in Seq(Entries) /\ c.local \in [Stages -> Seq(Entries)] /\ c.retained \in Nat
    BY CacheFields DEF Orderly
<1>2. o \in Reservations /\ e.token \in Nat /\ e.bytes \in Nat /\ o.token = e.token /\ o.bytes = e.bytes
    BY DEF Entries, Reservations
<1>3. /\ d.order = Append(c.order, o) /\ d.retained = c.retained + e.bytes
      /\ d.local = [c.local EXCEPT ![s] = Append(@, e)]
      /\ d.local[s] = Append(q, e) /\ \A r \in Stages \ {s} : d.local[r] = c.local[r]
      /\ d = [local |-> d.local, order |-> d.order, retained |-> d.retained]
    BY <1>1 DEF Entered
<1>4. /\ Append(q, e) \in Seq(Entries) /\ Len(Append(q, e)) = Len(q) + 1 /\ Len(q) \in Nat
      /\ DOMAIN q = 1 .. Len(q) /\ DOMAIN Append(q, e) = 1 .. Len(q) + 1
      /\ Append(q, e)[Len(q) + 1] = e /\ \A i \in 1 .. Len(q) : Append(q, e)[i] = q[i]
    <2> HIDE DEF q
    <2> QED
        BY <1>1
<1>5. /\ Append(c.order, o) \in Seq(Reservations) /\ Len(c.order) \in Nat
      /\ DOMAIN c.order = 1 .. Len(c.order) /\ DOMAIN Append(c.order, o) = 1 .. Len(c.order) + 1
      /\ Append(c.order, o)[Len(c.order) + 1] = o
      /\ \A i \in 1 .. Len(c.order) : Append(c.order, o)[i] = c.order[i]
    <2> HIDE DEF o
    <2> QED
        BY <1>1, <1>2
<1> HIDE DEF d, q, o
<1>6. ToSet(Append(q, e)) = ToSet(q) \cup {e} /\ ToSet(Append(c.order, o)) = ToSet(c.order) \cup {o}
    BY <1>4, <1>5 DEF ToSet
<1>7. d \in Caches
    <2>1. d.local \in [Stages -> Seq(Entries)]
        BY <1>1, <1>3, <1>4 DEF q
    <2>2. d.retained \in Nat
        BY <1>1, <1>2, <1>3
    <2> QED
        BY <1>3, <1>5, <2>1, <2>2 DEF Caches
<1>8. d.retained = BytesOf(d.order)
    <2>1. \A x \in Reservations : x.bytes \in Nat
        BY DEF Reservations
    <2>2. BytesOf(Append(c.order, o)) = BytesOf(c.order) + o.bytes
        BY <1>1, <1>2, <2>1, AppendedBytes
    <2> QED
        BY <1>1, <1>2, <1>3, <2>2 DEF Accounted
<1>9. /\ \A i \in DOMAIN c.order : c.order[i].token # e.token
      /\ \A r \in Stages : \A i \in DOMAIN c.local[r] : c.local[r][i].token # e.token
    <2>1. ASSUME NEW i \in DOMAIN c.order
          PROVE  c.order[i].token # e.token
        BY <1>0 DEF TokensInUse, ToSet
    <2>2. ASSUME NEW r \in Stages, NEW i \in DOMAIN c.local[r]
          PROVE  c.local[r][i].token # e.token
        BY <1>0 DEF TokensInUse, ToSet
    <2> QED
        BY <2>1, <2>2
<1>10. \A i \in DOMAIN q : q[i].key # e.key
    BY <1>0 DEF ToSet, q
<1>11. Distinct(d)
    <2>1. \A i, j \in DOMAIN d.order : d.order[i].token = d.order[j].token => i = j
        BY <1>1, <1>2, <1>3, <1>5, <1>9 DEF Distinct
    <2>2. ASSUME NEW r \in Stages, NEW u \in Stages, NEW i \in DOMAIN d.local[r], NEW j \in DOMAIN d.local[u]
          PROVE  /\ d.local[r][i].token = d.local[u][j].token => r = u /\ i = j
                 /\ r = u /\ d.local[r][i].key = d.local[u][j].key => i = j
        <3>1. \/ i \in DOMAIN c.local[r] /\ d.local[r][i] = c.local[r][i]
              \/ r = s /\ i = Len(q) + 1 /\ d.local[r][i] = e
            BY <1>3, <1>4 DEF q
        <3>2. \/ j \in DOMAIN c.local[u] /\ d.local[u][j] = c.local[u][j]
              \/ u = s /\ j = Len(q) + 1 /\ d.local[u][j] = e
            BY <1>3, <1>4 DEF q
        <3> QED
            BY <1>1, <1>9, <1>10, <3>1, <3>2 DEF Distinct, q
    <2> QED
        BY <2>1, <2>2 DEF Distinct
<1>12. Accounted(d)
    <2>1. ASSUME NEW r \in Stages, NEW x \in ToSet(d.local[r])
          PROVE  [token |-> x.token, bytes |-> x.bytes] \in ToSet(d.order)
        <3>1. x \in ToSet(c.local[r]) \/ x = e
            BY <1>3, <1>6 DEF q
        <3> QED
            BY <1>1, <1>3, <1>6, <3>1 DEF Accounted, o
    <2>2. ASSUME NEW p \in ToSet(d.order)
          PROVE  \E r \in Stages : \E x \in ToSet(d.local[r]) : x.token = p.token /\ x.bytes = p.bytes
        <3>1. CASE p = o
            BY <1>2, <1>3, <1>6, <3>1
        <3>2. CASE p \in ToSet(c.order)
            <4>1. PICK r \in Stages : \E x \in ToSet(c.local[r]) : x.token = p.token /\ x.bytes = p.bytes
                BY <1>1, <3>2 DEF Accounted
            <4>2. ToSet(c.local[r]) \subseteq ToSet(d.local[r])
                BY <1>3, <1>6 DEF q
            <4> QED
                BY <4>1, <4>2
        <3> QED
            BY <1>3, <1>6, <3>1, <3>2
    <2> QED
        BY <1>8, <2>1, <2>2 DEF Accounted
<1>13. Orderly(d)
    BY <1>7, <1>11, <1>12 DEF Orderly
<1>14. Gains(d, c, s, e)
    BY <1>3, <1>4, <1>6 DEF Gains, q
<1> QED
    BY <1>13, <1>14 DEF d

\* An entry that left its stage and the coordinator may enter them again.
LEMMA DroppedForgotten ==
    ASSUME NEW c, Orderly(c), NEW s \in Stages, NEW i \in 1 .. Len(c.local[s]),
           NEW j \in 1 .. Len(c.order), c.order[j].token = c.local[s][i].token
    PROVE  /\ Lacks(Dropped(c, s, i, j), s, c.local[s][i])
           /\ Gains(c, Dropped(c, s, i, j), s, c.local[s][i])
<1> DEFINE d == Dropped(c, s, i, j)
           q == c.local[s]
           e == q[i]
<1>1. /\ c \in Caches /\ Distinct(c) /\ c.order \in Seq(Reservations)
      /\ q \in Seq(Entries) /\ c.local \in [Stages -> Seq(Entries)]
    BY CacheFields DEF Orderly
<1>2. /\ d.order = RemoveAt(c.order, j) /\ d.local[s] = RemoveAt(q, i)
      /\ \A r \in Stages \ {s} : d.local[r] = c.local[r]
    BY <1>1 DEF Dropped
<1> HIDE DEF d
<1>3. ASSUME NEW x \in ToSet(d.local[s])
      PROVE  x.key # e.key /\ x.token # e.token /\ x \in ToSet(q)
    <2>1. PICK k \in DOMAIN q \ {i} : x = q[k]
        BY <1>1, <1>2, RemovedElements
    <2> QED
        BY <1>1, <2>1 DEF Distinct, ToSet
<1>4. ASSUME NEW x \in ToSet(d.order)
      PROVE  x.token # e.token
    <2>1. PICK k \in DOMAIN c.order \ {j} : x = c.order[k]
        BY <1>1, <1>2, RemovedElements
    <2> QED
        BY <1>1, <2>1 DEF Distinct
<1>5. ASSUME NEW r \in Stages \ {s}, NEW x \in ToSet(d.local[r])
      PROVE  x.token # e.token
    <2>1. PICK k \in DOMAIN c.local[r] : x = c.local[r][k]
        BY <1>2 DEF ToSet
    <2> QED
        BY <1>1, <2>1 DEF Distinct
<1>6. e.token \notin TokensInUse(d)
    BY <1>3, <1>4, <1>5 DEF TokensInUse
<1>7. ToSet(q) = ToSet(d.local[s]) \cup {e}
    <2>1. ASSUME NEW x \in ToSet(q), x # e
          PROVE  x \in ToSet(d.local[s])
        <3>1. PICK k \in DOMAIN q \ {i} : x = q[k]
            BY <1>1, <2>1 DEF ToSet
        <3> QED
            BY <1>1, <1>2, <3>1, RemovedElements
    <2>2. e \in ToSet(q)
        BY <1>1 DEF ToSet
    <2> QED
        BY <1>3, <2>1, <2>2
<1>8. Len(d.local[s]) = Len(q) - 1
    BY <1>1, <1>2, RemovedAt
<1>9. Lacks(d, s, e)
    BY <1>3, <1>6 DEF Lacks
<1>10. Gains(c, d, s, e)
    <2>1. Len(q) = Len(d.local[s]) + 1
        <3>1. Len(q) \in Nat
            BY <1>1
        <3> QED
            BY <1>8, <3>1
    <2> QED
        BY <1>2, <1>7, <2>1 DEF Gains
<1> QED
    BY <1>9, <1>10 DEF d

LEMMA TouchMoves ==
    ASSUME NEW c, Orderly(c), NEW s \in Stages, NEW k, Has(c, s, k)
    PROVE  \E i \in 1 .. Len(c.local[s]), j \in 1 .. Len(c.order) :
              /\ c.order[j].token = c.local[s][i].token
              /\ c.order[j].bytes = c.local[s][i].bytes
              /\ Touch(c, s, k) = Entered(Dropped(c, s, i, j), s, c.local[s][i])
<1>1. PICK i \in 1 .. Len(c.local[s]) : EntryAt(c, s, k) = c.local[s][i] /\ c.local[s][i].key = k
    BY EntryOf
<1>2. PICK q : q = c.local[s]
    OBVIOUS
<1>3. PICK e : e = q[i]
    OBVIOUS
<1>4. PICK t : t = e.token
    OBVIOUS
<1>5. PICK j \in 1 .. Len(c.order) :
          /\ c.order[j].token = t /\ c.order[j].bytes = e.bytes
          /\ Without(c.order, t) = RemoveAt(c.order, j) /\ Holds(c.order, t)
          /\ Held(c.order, t) = c.order[j] /\ Without(q, t) = RemoveAt(q, i)
    BY <1>2, <1>3, <1>4, KnownAt
<1>6. /\ c \in Caches /\ q \in Seq(Entries) /\ c.order \in Seq(Reservations)
      /\ c.local \in [Stages -> Seq(Entries)] /\ c.retained \in Nat
      /\ c = [local |-> c.local, order |-> c.order, retained |-> c.retained]
    BY <1>2, CacheFields DEF Orderly
<1>7. c.order[j] = [token |-> t, bytes |-> e.bytes] /\ e.bytes \in Nat
    <2>1. e \in Entries /\ c.order[j] \in Reservations
        BY <1>2, <1>3, <1>6
    <2> QED
        BY <1>5, <2>1 DEF Entries, Reservations
<1>8. PICK local : local = [c.local EXCEPT ![s] = Append(RemoveAt(q, i), e)]
    OBVIOUS
<1>9. Touch(c, s, k) = [local |-> local, order |-> Append(RemoveAt(c.order, j), c.order[j]),
                        retained |-> c.retained]
    <2> DEFINE moved == [c EXCEPT !.local[s] = Append(Without(@, t), e)]
    <2>1. moved = [c EXCEPT !.local = local]
        BY <1>2, <1>5, <1>6, <1>8
    <2>2. moved = [local |-> local, order |-> c.order, retained |-> c.retained]
        BY <1>6, <2>1
    <2>3. Touch(c, s, k) = [moved EXCEPT !.order = Append(Without(@, t), Held(@, t))]
        BY <1>1, <1>2, <1>3, <1>4, <1>5 DEF Touch
    <2> HIDE DEF moved
    <2> QED
        BY <1>5, <2>2, <2>3
<1>10. PICK d : d = Dropped(c, s, i, j)
    OBVIOUS
<1>11. d.order = RemoveAt(c.order, j) /\ d.local = [c.local EXCEPT ![s] = RemoveAt(@, i)]
       /\ d.retained = c.retained - c.order[j].bytes
    BY <1>10 DEF Dropped
<1>12. d.retained + e.bytes = c.retained
    BY <1>5, <1>6, <1>7, <1>11
<1>13. [d.local EXCEPT ![s] = Append(@, e)] = local
    BY <1>2, <1>6, <1>8, <1>11
<1>14. Entered(d, s, e) = [local |-> local, order |-> Append(RemoveAt(c.order, j), c.order[j]),
                           retained |-> c.retained]
    BY <1>4, <1>7, <1>11, <1>12, <1>13 DEF Entered
<1> QED
    BY <1>2, <1>3, <1>4, <1>5, <1>9, <1>10, <1>14

LEMMA TouchOrderly ==
    ASSUME NEW c, Orderly(c), NEW s \in Stages, NEW k
    PROVE  /\ Orderly(Touch(c, s, k)) /\ Touch(c, s, k).retained = c.retained
           /\ \A r \in Stages : /\ Len(Touch(c, s, k).local[r]) = Len(c.local[r])
                                /\ ToSet(Touch(c, s, k).local[r]) = ToSet(c.local[r])
<1>1. CASE ~Has(c, s, k)
    BY <1>1 DEF Touch
<1>2. CASE Has(c, s, k)
    <2>1. PICK i \in 1 .. Len(c.local[s]), j \in 1 .. Len(c.order) :
              /\ c.order[j].token = c.local[s][i].token
              /\ c.order[j].bytes = c.local[s][i].bytes
              /\ Touch(c, s, k) = Entered(Dropped(c, s, i, j), s, c.local[s][i])
        BY <1>2, TouchMoves
    <2>2. PICK e, d : e = c.local[s][i] /\ d = Dropped(c, s, i, j)
        OBVIOUS
    <2>3. /\ c.local[s] \in Seq(Entries) /\ Len(c.local[s]) \in Nat
          /\ c.retained \in Nat /\ c.order \in Seq(Reservations)
        BY CacheFields DEF Orderly
    <2>4. e \in Entries /\ e.bytes \in Nat
        <3>1. e \in Entries
            BY <2>2, <2>3
        <3> QED
            BY <3>1 DEF Entries
    <2>5. Orderly(d)
        BY <2>1, <2>2, DroppedOrderly
    <2>6. Lacks(d, s, e) /\ Gains(c, d, s, e)
        BY <2>1, <2>2, DroppedForgotten
    <2>7. PICK n : n = Entered(d, s, e)
        OBVIOUS
    <2>8. Orderly(n) /\ Gains(n, d, s, e)
        BY <2>4, <2>5, <2>6, <2>7, EnteredOrderly
    <2>9. n.retained = c.retained
        <3>1. n.retained = d.retained + e.bytes /\ d.retained = c.retained - c.order[j].bytes
            BY <2>2, <2>7 DEF Entered, Dropped
        <3> QED
            BY <2>1, <2>2, <2>3, <2>4, <3>1
    <2>10. \A r \in Stages : Len(n.local[r]) = Len(c.local[r]) /\ ToSet(n.local[r]) = ToSet(c.local[r])
        BY <2>6, <2>8 DEF Gains
    <2>11. Touch(c, s, k) = n
        BY <2>1, <2>2, <2>7
    <2> QED
        BY <2>8, <2>9, <2>10, <2>11
<1> QED
    BY <1>1, <1>2

Bounded(c) ==
    c.retained <= MaxAggregateBytes /\ \A s \in Stages : Len(c.local[s]) <= MaxEntries

\* What d holds was in c, or is the value for a key of its stage.
Stored(d, c, s, k, value) ==
    \A r \in Stages : \A x \in ToSet(d.local[r]) :
        x \in ToSet(c.local[r]) \/ (r = s /\ x.key = k /\ x.value = value)

LEMMA StoreOrderly ==
    ASSUME NEW c, Orderly(c), Bounded(c), NEW s \in Stages, NEW k \in Docs, NEW bytes \in Nat,
           NEW value \in Docs \cup Limits
    PROVE  /\ Orderly(Store(c, s, k, bytes, value)) /\ Bounded(Store(c, s, k, bytes, value))
           /\ Stored(Store(c, s, k, bytes, value), c, s, k, value)
<1> SUFFICES /\ Orderly(Store(c, s, k, bytes, value)) /\ Bounded(Store(c, s, k, bytes, value))
             /\ \A r \in Stages : \A x \in ToSet(Store(c, s, k, bytes, value).local[r]) :
                   x \in ToSet(c.local[r]) \/ (r = s /\ x.key = k /\ x.value = value)
    BY DEF Stored
<1>1. CASE bytes > MaxAggregateBytes
    BY <1>1 DEF Store
<1>2. CASE ~(bytes > MaxAggregateBytes)
    <2> DEFINE cleared == Forget(c, s, k)
    <2>1. Orderly(cleared) /\ Within(cleared, c) /\ ~Has(cleared, s, k)
        BY ForgetOrderly
    <2> DEFINE t == FreshToken(cleared)
    <2>2. t \in Nat /\ t \notin TokensInUse(cleared)
        BY <2>1, FreshTokens DEF Orderly
    <2> DEFINE e == [key |-> k, token |-> t, bytes |-> bytes, value |-> value]
    <2>3. e \in Entries /\ e.token = t /\ e.key = k /\ e.value = value /\ e.bytes = bytes
        BY <2>2 DEF Entries
    <2>4. Lacks(cleared, s, e)
        BY <2>1, <2>2, <2>3 DEF Has, Lacks
    <2> DEFINE full == Entered(cleared, s, e)
               reserved == Evict(full)
    <2>6. Store(c, s, k, bytes, value) =
              IF Len(reserved.local[s]) > MaxEntries
              THEN Forget(reserved, s, Head(reserved.local[s]).key)
              ELSE reserved
        <3> DEFINE placed == [cleared EXCEPT !.local[s] = Append(@, e)]
                   o == [token |-> t, bytes |-> bytes]
        <3>1. Store(c, s, k, bytes, value) =
                  IF Len(Reserve(placed, o).local[s]) > MaxEntries
                  THEN Forget(Reserve(placed, o), s, Head(Reserve(placed, o).local[s]).key)
                  ELSE Reserve(placed, o)
            BY <1>2 DEF Store
        <3> HIDE DEF cleared, t, e
        <3>2. cleared = [local |-> cleared.local, order |-> cleared.order, retained |-> cleared.retained]
            BY <2>1, CacheFields DEF Orderly
        <3>6. PICK local : local = [cleared.local EXCEPT ![s] = Append(@, e)]
            OBVIOUS
        <3>3. placed = [local |-> local, order |-> cleared.order, retained |-> cleared.retained]
            <4>1. placed = [cleared EXCEPT !.local = local]
                BY <3>2, <3>6
            <4> HIDE DEF placed
            <4> QED
                BY <3>2, <4>1
        <3>7. o = [token |-> e.token, bytes |-> e.bytes] /\ o.bytes = e.bytes
            BY <2>3
        <3> HIDE DEF placed, o
        <3>8. full = [local |-> local, order |-> Append(cleared.order, o),
                      retained |-> cleared.retained + e.bytes]
            BY <3>6, <3>7 DEF Entered
        <3> HIDE DEF full
        <3>4. [local |-> placed.local, order |-> Append(placed.order, o),
               retained |-> placed.retained + o.bytes] = full
            BY <3>3, <3>7, <3>8
        <3>5. Reserve(placed, o) = reserved
            BY <3>4 DEF Reserve
        <3> HIDE DEF reserved
        <3> QED
            BY <3>1, <3>5
    <2> HIDE DEF cleared, e, t
    <2>5. Orderly(full) /\ Gains(full, cleared, s, e)
        BY <2>1, <2>3, <2>4, EnteredOrderly
    <2>7. /\ Orderly(full) /\ Len(full.local[s]) = Len(cleared.local[s]) + 1
          /\ ToSet(full.local[s]) = ToSet(cleared.local[s]) \cup {e}
          /\ \A r \in Stages \ {s} : full.local[r] = cleared.local[r]
        BY <2>5 DEF Gains
    <2> HIDE DEF full, reserved
    <2>8. Orderly(reserved) /\ Within(reserved, full) /\ reserved.retained <= MaxAggregateBytes
        BY <2>7, EvictOrderly DEF reserved
    <2>9. c \in Caches /\ cleared \in Caches /\ full \in Caches /\ reserved \in Caches
        BY <2>1, <2>7, <2>8 DEF Orderly
    <2>10. \A r \in Stages : /\ Len(c.local[r]) \in Nat /\ Len(cleared.local[r]) \in Nat
                             /\ Len(full.local[r]) \in Nat /\ Len(reserved.local[r]) \in Nat
        BY <2>9, CacheFields
    <2>11. /\ Len(reserved.local[s]) <= MaxEntries + 1
           /\ \A r \in Stages \ {s} : Len(reserved.local[r]) <= MaxEntries
        <3>1. \A r \in Stages : Len(cleared.local[r]) <= Len(c.local[r]) /\ Len(c.local[r]) <= MaxEntries
            BY <2>1 DEF Within, Bounded
        <3>2. \A r \in Stages : Len(reserved.local[r]) <= Len(full.local[r])
            BY <2>8 DEF Within
        <3>3. Len(reserved.local[s]) <= MaxEntries + 1
            <4>1. /\ Len(full.local[s]) = Len(cleared.local[s]) + 1
                  /\ Len(cleared.local[s]) <= Len(c.local[s]) /\ Len(c.local[s]) <= MaxEntries
                  /\ Len(reserved.local[s]) <= Len(full.local[s])
                BY <2>7, <3>1, <3>2
            <4>2. /\ Len(c.local[s]) \in Nat /\ Len(cleared.local[s]) \in Nat
                  /\ Len(full.local[s]) \in Nat /\ Len(reserved.local[s]) \in Nat /\ MaxEntries \in Nat
                BY <2>10, CacheAssumption
            <4> QED
                BY <4>1, <4>2
        <3>4. ASSUME NEW r \in Stages \ {s}
              PROVE  Len(reserved.local[r]) <= MaxEntries
            <4>1. full.local[r] = cleared.local[r]
                BY <2>7
            <4> QED
                BY <2>10, <3>1, <3>2, <4>1, CacheAssumption
        <3> QED
            BY <3>3, <3>4
    <2>12. \A r \in Stages : \A x \in ToSet(reserved.local[r]) : x \in ToSet(c.local[r]) \/ (r = s /\ x = e)
        <3>1. \A r \in Stages : ToSet(reserved.local[r]) \subseteq ToSet(full.local[r])
            BY <2>8 DEF Within
        <3>2. \A r \in Stages : ToSet(cleared.local[r]) \subseteq ToSet(c.local[r])
            BY <2>1 DEF Within
        <3> QED
            BY <2>7, <3>1, <3>2
    <2>13. CASE ~(Len(reserved.local[s]) > MaxEntries)
        <3>1. Bounded(reserved)
            BY <2>8, <2>10, <2>11, <2>13, CacheAssumption DEF Bounded
        <3> QED
            BY <2>3, <2>6, <2>8, <2>12, <2>13, <3>1
    <2>14. CASE Len(reserved.local[s]) > MaxEntries
        <3> DEFINE first == Head(reserved.local[s])
                   d == Forget(reserved, s, first.key)
        <3>1. reserved.local[s] \in Seq(Entries) /\ reserved.local[s] # <<>>
            BY <2>9, <2>14, CacheFields, CacheAssumption
        <3>2. first \in ToSet(reserved.local[s])
            <4>1. first = reserved.local[s][1] /\ 1 \in DOMAIN reserved.local[s]
                BY <3>1
            <4> QED
                BY <4>1 DEF ToSet
        <3>3. Has(reserved, s, first.key)
            BY <3>2 DEF Has
        <3>4. /\ Orderly(d) /\ Within(d, reserved)
              /\ Len(d.local[s]) = Len(reserved.local[s]) - 1
            BY <2>8, <3>3, ForgetOrderly
        <3> HIDE DEF d
        <3>5. d \in Caches /\ d.retained \in Nat /\ reserved.retained \in Nat
              /\ \A r \in Stages : Len(d.local[r]) \in Nat
            BY <2>9, <3>4, CacheFields DEF Orderly
        <3>6. Bounded(d)
            <4>1. d.retained <= reserved.retained /\ \A r \in Stages : Len(d.local[r]) <= Len(reserved.local[r])
                BY <3>4 DEF Within
            <4>2. d.retained <= MaxAggregateBytes
                BY <2>8, <3>5, <4>1, CacheAssumption
            <4>3. \A r \in Stages : Len(d.local[r]) <= MaxEntries
                BY <2>10, <2>11, <3>4, <3>5, <4>1, CacheAssumption
            <4> QED
                BY <4>2, <4>3 DEF Bounded
        <3>7. \A r \in Stages : ToSet(d.local[r]) \subseteq ToSet(reserved.local[r])
            BY <3>4 DEF Within
        <3> QED
            BY <2>3, <2>6, <2>12, <2>14, <3>4, <3>6, <3>7 DEF d
    <2> QED
        BY <2>13, <2>14
<1> QED
    BY <1>1, <1>2

(***************************************************************************)
(* The worker is at the document and under the limits of the request that  *)
(* it works for, and a cached document is the one that its key names.      *)
(***************************************************************************)
OwnWork ==
    LET pc == worker.pc IN
    /\ pc \in {"decode", "decoded", "draft", "drafted", "analyze"} => Asked.op = "decode-and-analyze"
    /\ pc = "repair" => Asked.op = "repair"
    /\ pc = "extract" => Asked.op = "extract-model-package" /\ worker.level \in 1 .. 2
    /\ pc = "diagnose" => Asked.op # "extract-model-package" /\ worker.limits = Asked.limits
    /\ pc \in {"decoded", "draft", "drafted", "analyze", "diagnose", "extract"} => worker.doc = Asked.doc

OwnDocuments == \A x \in ToSet(cache.local["decode"]) : x.value = x.key

CacheInv == Orderly(cache) /\ Bounded(cache) /\ OwnDocuments

LEMMA EmptyOrderly == Orderly(EmptyCache) /\ Bounded(EmptyCache) /\ ToSet(EmptyCache.local["decode"]) = {}
<1> DEFINE c == EmptyCache
<1>1. c.order = <<>> /\ c.retained = 0 /\ \A s \in Stages : c.local[s] = <<>>
    BY DEF EmptyCache
<1>2. c \in Caches
    BY DEF EmptyCache, Caches
<1> HIDE DEF c
<1>3. Distinct(c)
    BY <1>1 DEF Distinct
<1>4. Accounted(c)
    BY <1>1, EmptyBytes DEF Accounted, ToSet
<1>5. Bounded(c)
    BY <1>1, CacheAssumption DEF Bounded
<1>6. ToSet(c.local["decode"]) = {}
    BY <1>1, StagesAssumption DEF ToSet
<1> QED
    BY <1>2, <1>3, <1>4, <1>5, <1>6 DEF Orderly, c

\* A step of the page keeps the worker and its caches, or ends them.
LEMMA PageKeepsWork ==
    ASSUME IInv, Caller \/ PageTask
    PROVE  TerminateBinding \/ UNCHANGED <<worker, cache>>
<1>1. CASE Caller
    BY <1>1 DEF Caller, StartJob, Cancel, CancelActive, Dispose, TerminateIf, workVars
<1>2. ASSUME NEW g \in Gens, SnapshotDone(g) \/ InputsVerified(g)
      PROVE  TerminateBinding \/ UNCHANGED <<worker, cache>>
    BY <1>2 DEF SnapshotDone, InputsVerified, PostJob, FailPrepared, FailTransport, workVars
<1>3. CASE Receive
    BY <1>3 DEF Receive, FailTransport, workVars
<1>4. ASSUME NEW t \in tasks, DraftVerified(t) \/ ResultCompared(t) \/ ResultVerified(t)
      PROVE  TerminateBinding \/ UNCHANGED <<worker, cache>>
    BY <1>4 DEF DraftVerified, ResultCompared, ResultVerified, FailTransport, workVars
<1> QED
    BY <1>1, <1>2, <1>3, <1>4 DEF PageTask

\* No step changes a request that was made.
LEMMA RequestsStay ==
    ASSUME IInv, Next, NEW g \in Gens, g <= generation
    PROVE  request'[g] = request[g]
<1>1. ASSUME NEW r \in Requests, NEW aborted \in BOOLEAN, StartJob(r, aborted)
      PROVE  request'[g] = request[g]
    <2>1. g # generation + 1
        BY BoundsAssumption DEF IInv, TypeInv, PageTypes, Jobs, Gens
    <2> QED
        BY <1>1, <2>1 DEF StartJob, IInv, TypeInv, PageTypes
<1>2. CASE Cancel \/ Dispose
    BY <1>2 DEF Cancel, Dispose, pageVars
<1>3. CASE PageTask
    BY <1>3 DEF PageTask, SnapshotDone, InputsVerified, Receive, DraftVerified, ResultCompared,
                ResultVerified
<1>4. CASE WorkerStep \/ Stop
    BY <1>4 DEF WorkerStep, Stop, HandleMessage, Throw, Finish, BeginDecode, Decoded, ReportDecoded,
                PostDraft, BeginAnalysis, Analyze, BeginRepair, Repair, BeginExtract,
                ReportExtracted, PostDiagnostic, PostResult, WorkerFrame, pageVars
<1> QED
    BY <1>1, <1>2, <1>3, <1>4 DEF Next, Caller

LEMMA InitWork == Init => CacheInv /\ OwnWork
BY EmptyOrderly, NoWork DEF Init, CacheInv, OwnDocuments, OwnWork, IdleWorker

LEMMA PageWork ==
    ASSUME IInv, CacheInv, OwnWork, Caller \/ PageTask
    PROVE  CacheInv' /\ OwnWork'
<1>1. CASE TerminateBinding
    BY <1>1, EmptyOrderly DEF TerminateBinding, CacheInv, OwnDocuments, OwnWork, IdleWorker
<1>2. CASE UNCHANGED <<worker, cache>>
    <2>1. CacheInv'
        BY <1>2 DEF CacheInv, OwnDocuments
    <2>2. CASE worker.pc \in Rest
        BY <1>2, <2>1, <2>2 DEF OwnWork, Rest
    <2>3. CASE worker.pc \notin Rest
        <3>1. worker.gen \in Gens /\ worker.gen <= generation
            BY <2>3, WorkingForActive, BoundsAssumption DEF IInv, TypeInv, JobTypes, PageTypes, Jobs, Gens
        <3>2. Asked' = Asked
            BY <1>2, <3>1, RequestsStay DEF Asked, Next
        <3> QED
            BY <1>2, <2>1, <3>2 DEF OwnWork
    <2> QED
        BY <2>1, <2>2, <2>3
<1> QED
    BY <1>1, <1>2, PageKeepsWork

\* A step of the worker that leaves its caches alone.
LEMMA WorkKept ==
    ASSUME IInv, CacheInv, OwnWork,
           \/ HandleMessage \/ Throw \/ Finish \/ Stop \/ ReportDecoded \/ PostDraft \/ BeginAnalysis
           \/ BeginRepair \/ BeginExtract \/ ReportExtracted \/ PostDiagnostic \/ PostResult
    PROVE  CacheInv' /\ OwnWork'
<1>1. UNCHANGED cache
    BY DEF HandleMessage, Throw, Finish, Stop, ReportDecoded, PostDraft, BeginAnalysis, BeginRepair,
           BeginExtract, ReportExtracted, PostDiagnostic, PostResult
<1>2. CacheInv'
    BY <1>1 DEF CacheInv, OwnDocuments
<1>3. UNCHANGED request
    BY DEF HandleMessage, Throw, Finish, Stop, ReportDecoded, PostDraft, BeginAnalysis, BeginRepair,
           BeginExtract, ReportExtracted, PostDiagnostic, PostResult, WorkerFrame, pageVars
<1>0. worker = [pc |-> worker.pc, gen |-> worker.gen, doc |-> worker.doc, limits |-> worker.limits,
                level |-> worker.level, left |-> worker.left]
    BY WorkerFields DEF WorkerRecords
<1>4. CASE HandleMessage
    <2>1. worker'.pc = "begin"
        BY <1>4 DEF HandleMessage, IInv, Turns, WorkIsActive, Rest, IdleWorker
    <2> QED
        BY <1>2, <2>1 DEF OwnWork
<1>5. CASE Throw \/ PostResult \/ Finish \/ Stop
    <2>1. worker'.pc \in {"done", "idle", "dead"}
        BY <1>0, <1>5 DEF Throw, PostResult, Finish, Stop, IdleWorker
    <2> QED
        BY <1>2, <2>1 DEF OwnWork
<1>6. CASE ReportDecoded \/ PostDraft \/ BeginAnalysis
    <2>1. /\ worker.pc \in {"decoded", "draft", "drafted"} /\ worker'.pc \in {"draft", "drafted", "analyze"}
          /\ worker'.gen = worker.gen /\ worker'.doc = worker.doc
        BY <1>0, <1>6 DEF ReportDecoded, PostDraft, BeginAnalysis
    <2> QED
        BY <1>2, <1>3, <2>1 DEF OwnWork, Asked
<1>7. CASE BeginRepair
    <2>1. worker'.pc = "repair" /\ worker'.gen = worker.gen /\ Asked.op = "repair"
        BY <1>0, <1>7 DEF BeginRepair
    <2> QED
        BY <1>2, <1>3, <2>1 DEF OwnWork, Asked
<1>8. CASE BeginExtract
    <2>1. /\ worker'.pc = "extract" /\ worker'.gen = worker.gen /\ worker'.level = 1
          /\ worker'.doc = Asked.doc /\ Asked.op = "extract-model-package"
        BY <1>0, <1>8 DEF BeginExtract
    <2> QED
        BY <1>2, <1>3, <2>1 DEF OwnWork, Asked
<1>9. CASE ReportExtracted
    <2>1. /\ worker.pc = "extract" /\ worker'.pc = "extract" /\ worker'.gen = worker.gen
          /\ worker'.level = 2 /\ worker'.doc = worker.doc
        BY <1>0, <1>9 DEF ReportExtracted
    <2> QED
        BY <1>2, <1>3, <2>1 DEF OwnWork, Asked
<1>10. CASE PostDiagnostic
    <2>1. /\ worker.pc = "diagnose" /\ worker'.pc = "diagnose" /\ worker'.gen = worker.gen
          /\ worker'.limits = worker.limits /\ worker'.doc = worker.doc
        BY <1>0, <1>10 DEF PostDiagnostic
    <2> QED
        BY <1>2, <1>3, <2>1 DEF OwnWork, Asked
<1> QED
    BY <1>4, <1>5, <1>6, <1>7, <1>8, <1>9, <1>10

\* What a cache that a worker may use becomes by a hit, or by a value of a document.
Sound(c) == Orderly(c) /\ Bounded(c) /\ \A x \in ToSet(c.local["decode"]) : x.value = x.key

LEMMA TouchSound ==
    ASSUME NEW c, Sound(c), NEW s \in Stages, NEW k
    PROVE  Sound(Touch(c, s, k))
<1> DEFINE d == Touch(c, s, k)
<1>1. /\ Orderly(d) /\ d.retained = c.retained
      /\ \A r \in Stages : Len(d.local[r]) = Len(c.local[r]) /\ ToSet(d.local[r]) = ToSet(c.local[r])
    BY TouchOrderly DEF Sound
<1> HIDE DEF d
<1>2. Bounded(d)
    BY <1>1 DEF Sound, Bounded
<1>3. \A x \in ToSet(d.local["decode"]) : x.value = x.key
    BY <1>1, StagesAssumption DEF Sound
<1> QED
    BY <1>1, <1>2, <1>3 DEF Sound, d

LEMMA StoreSound ==
    ASSUME NEW c, Sound(c), NEW s \in Stages, NEW k \in Docs, NEW bytes \in Nat,
           NEW value \in Docs \cup Limits, s = "decode" => value = k
    PROVE  Sound(Store(c, s, k, bytes, value))
<1> DEFINE d == Store(c, s, k, bytes, value)
<1>1. Orderly(d) /\ Bounded(d) /\ Stored(d, c, s, k, value)
    BY StoreOrderly DEF Sound
<1> HIDE DEF d
<1>2. \A x \in ToSet(d.local["decode"]) : x.value = x.key
    BY <1>1, StagesAssumption DEF Sound, Stored
<1> QED
    BY <1>1, <1>2 DEF Sound, d

LEMMA AnalysisSound ==
    ASSUME NEW c, Sound(c), NEW s \in Stages \ {"decode"}, NEW k \in Docs, NEW l \in Limits
    PROVE  Sound(WithAnalysis(c, s, k, l))
<1>1. Sound(Touch(c, s, k))
    BY TouchSound
<1>2. SizeOf(s, k) \in Nat
    BY SizesAssumption
<1>3. Sound(Store(Touch(c, s, k), s, k, SizeOf(s, k), l))
    BY <1>1, <1>2, StoreSound
<1> QED
    BY <1>1, <1>3 DEF WithAnalysis

\* A cached document is the one asked for.
LEMMA HitIsOwn ==
    ASSUME Sound(cache), NEW doc, Has(cache, "decode", doc)
    PROVE  EntryAt(cache, "decode", doc).value = doc
<1>1. PICK i \in 1 .. Len(cache.local["decode"]) :
          EntryAt(cache, "decode", doc) = cache.local["decode"][i] /\ cache.local["decode"][i].key = doc
    BY EntryOf, StagesAssumption DEF Sound
<1>2. cache.local["decode"] \in Seq(Entries)
    BY CacheFields, StagesAssumption DEF Sound, Orderly
<1>3. cache.local["decode"][i] \in ToSet(cache.local["decode"])
    BY <1>2 DEF ToSet
<1> QED
    BY <1>1, <1>3 DEF Sound

LEMMA WorkCached ==
    ASSUME IInv, CacheInv, OwnWork, BeginDecode \/ Decoded \/ Analyze \/ Repair
    PROVE  CacheInv' /\ OwnWork'
<1>1. worker = [pc |-> worker.pc, gen |-> worker.gen, doc |-> worker.doc, limits |-> worker.limits,
                level |-> worker.level, left |-> worker.left]
    BY WorkerFields DEF WorkerRecords
<1>2. UNCHANGED request
    BY DEF BeginDecode, Decoded, Analyze, Repair, WorkerFrame, pageVars
<1>3. Sound(cache) /\ (Sound(cache') => CacheInv')
    BY DEF CacheInv, OwnDocuments, Sound
<1>4. worker.pc \notin Rest
    BY DEF BeginDecode, Decoded, Analyze, Repair, Rest
<1>5. Asked.doc \in Docs /\ Asked.limits \in Limits
    BY <1>4, AskedTypes, RequestsAssumption
<1>6. {"decode", "analyze", "repair"} \subseteq Stages
    BY StagesAssumption
<1>7. CASE BeginDecode
    <2>1. cache' = Touch(cache, "decode", Asked.doc)
        BY <1>7 DEF BeginDecode
    <2>2. Sound(cache')
        BY <1>3, <1>6, <2>1, TouchSound
    <2>3. CASE Has(cache, "decode", Asked.doc)
        <3>1. worker' = [worker EXCEPT !.pc = "decoded", !.doc = EntryAt(cache, "decode", Asked.doc).value]
            BY <1>7, <2>3 DEF BeginDecode
        <3>2. EntryAt(cache, "decode", Asked.doc).value = Asked.doc
            BY <1>3, <2>3, HitIsOwn
        <3>3. worker'.pc = "decoded" /\ worker'.doc = Asked.doc /\ worker'.gen = worker.gen
            BY <1>1, <3>1, <3>2
        <3> QED
            BY <1>2, <1>3, <1>7, <2>2, <3>3 DEF OwnWork, Asked, BeginDecode
    <2>4. CASE ~Has(cache, "decode", Asked.doc)
        <3>1. worker' = [worker EXCEPT !.pc = "decode"]
            BY <1>7, <2>4 DEF BeginDecode
        <3>2. worker'.pc = "decode" /\ worker'.gen = worker.gen
            BY <1>1, <3>1
        <3> QED
            BY <1>2, <1>3, <1>7, <2>2, <3>2 DEF OwnWork, Asked, BeginDecode
    <2> QED
        BY <2>3, <2>4
<1>8. CASE Decoded
    <2>1. cache' = Store(cache, "decode", Asked.doc, SizeOf("decode", Asked.doc), Asked.doc)
        BY <1>8 DEF Decoded
    <2>2. SizeOf("decode", Asked.doc) \in Nat
        BY <1>5, <1>6, SizesAssumption
    <2>3. Sound(cache')
        BY <1>3, <1>5, <1>6, <2>1, <2>2, StoreSound
    <2>4. worker.pc = "decode" /\ worker'.pc = "decoded" /\ worker'.doc = Asked.doc /\ worker'.gen = worker.gen
        BY <1>1, <1>8 DEF Decoded
    <2> QED
        BY <1>2, <1>3, <2>3, <2>4 DEF OwnWork, Asked
<1>9. CASE Analyze
    <2>1. worker.pc = "analyze" /\ cache' = WithAnalysis(cache, "analyze", worker.doc, Asked.limits)
        BY <1>9 DEF Analyze
    <2>2. worker.doc = Asked.doc /\ Asked.op = "decode-and-analyze"
        BY <2>1 DEF OwnWork
    <2>3. Sound(cache')
        BY <1>3, <1>5, <1>6, <2>1, <2>2, AnalysisSound
    <2>4. PICK n : worker' = [worker EXCEPT
                                 !.pc = "diagnose",
                                 !.limits = AnalysisLimits(cache, "analyze", worker.doc, Asked.limits),
                                 !.left = BoundedDiagnostics(n)]
        BY <1>9 DEF Analyze
    <2>5. AnalysisLimits(cache, "analyze", worker.doc, Asked.limits) = Asked.limits
        BY AnalysedUnderOwnLimits
    <2>6. /\ worker'.pc = "diagnose" /\ worker'.limits = Asked.limits
          /\ worker'.gen = worker.gen /\ worker'.doc = worker.doc
        BY <1>1, <2>4, <2>5
    <2> QED
        BY <1>2, <1>3, <2>2, <2>3, <2>6 DEF OwnWork, Asked
<1>10. CASE Repair
    <2>1. worker.pc = "repair" /\ cache' = WithAnalysis(cache, "repair", Asked.doc, Asked.limits)
        BY <1>10 DEF Repair
    <2>2. Asked.op = "repair"
        BY <2>1 DEF OwnWork
    <2>3. Sound(cache')
        BY <1>3, <1>5, <1>6, <2>1, AnalysisSound
    <2>4. PICK n : worker' = [worker EXCEPT
                                 !.pc = "diagnose", !.doc = Asked.doc,
                                 !.limits = AnalysisLimits(cache, "repair", Asked.doc, Asked.limits),
                                 !.left = BoundedDiagnostics(n)]
        BY <1>10 DEF Repair
    <2>5. AnalysisLimits(cache, "repair", Asked.doc, Asked.limits) = Asked.limits
        BY AnalysedUnderOwnLimits
    <2>6. /\ worker'.pc = "diagnose" /\ worker'.limits = Asked.limits
          /\ worker'.gen = worker.gen /\ worker'.doc = Asked.doc
        BY <1>1, <2>4, <2>5
    <2> QED
        BY <1>2, <1>3, <2>2, <2>3, <2>6 DEF OwnWork, Asked
<1> QED
    BY <1>7, <1>8, <1>9, <1>10

LEMMA WorkInv ==
    ASSUME IInv, CacheInv, OwnWork, [Next]_vars
    PROVE  CacheInv' /\ OwnWork'
<1>1. CASE UNCHANGED vars
    BY <1>1 DEF vars, workVars, pageVars, CacheInv, OwnDocuments, OwnWork, Asked
<1> QED
    BY <1>1, PageWork, WorkKept, WorkCached DEF Next, WorkerStep

LEMMA WorkInductive == Spec => [](IInv /\ CacheInv /\ OwnWork)
<1>1. (IInv /\ CacheInv /\ OwnWork) /\ [Next]_vars => (IInv /\ CacheInv /\ OwnWork)'
    BY NextInv, WorkInv
<1> QED
    BY <1>1, InitInv, InitWork, PTL DEF Spec

LEMMA CacheHolds == CacheInv => CacheAccounting
BY DEF CacheInv, Orderly, Bounded, CacheAccounting, CacheConsistent

(***************************************************************************)
(* What the steps of the page come to, whatever causes them.               *)
(***************************************************************************)
PageFrame == UNCHANGED <<generation, request, shown, tampered>>

\* Why a job ends that its caller did not cancel, and with which answer.
Rejects ==
    \/ /\ toPage # <<>>
       /\ ~Ignored(Head(toPage)) /\ Head(toPage).kind # "stopped" /\ Head(toPage).sound # "unreadable"
       /\ Unacceptable(Head(toPage))
    \/ \E t \in tasks : Current(t) /\ t.stage # "compare" /\ ~t.intact
    \/ \E t \in tasks : Current(t) /\ t.stage = "compare" /\ DraftSettled(t) /\ job.verified # t.doc

Deserved(answer) ==
    \/ answer.kind \in {"cancelled", "error"}
    \/ answer.kind = "rejected" /\ Rejects
    \/ \E t \in tasks : Current(t) /\ t.stage = "result" /\ answer = Answer("result", t.doc, t.limits)

Ends(answer) ==
    /\ Deserved(answer)
    /\ IF active = 0 THEN UNCHANGED jobVars ELSE SettleActive(answer)
    /\ Kept /\ tasks' \subseteq tasks /\ PageFrame

\* Something old is dropped, or a copy of an input is done.
Waits ==
    /\ UNCHANGED <<jobVars, workVars>>
    /\ \/ toPage' = toPage
       \/ toPage # <<>> /\ Ignored(Head(toPage)) /\ toPage' = Tail(toPage)
    /\ tasks' = tasks \/ \E t \in tasks : ~Current(t) /\ tasks' = tasks \ {t}
    /\ PageFrame

Posts ==
    /\ active # 0 /\ preparing[active] # "no"
    /\ job' = [job EXCEPT !.posted = TRUE]
    /\ binding' = IF binding = 0 THEN workers + 1 ELSE binding
    /\ toWorker' = Append(toWorker, active)
    /\ UNCHANGED <<active, outcome, worker, cache, toPage, tasks>> /\ PageFrame

\* An acceptable message of the active job, and what is verified then.
Notes ==
    /\ toPage # <<>> /\ toPage' = Tail(toPage)
    /\ LET m == Head(toPage) IN
        /\ ~Ignored(m) /\ ~Unacceptable(m) /\ m.kind # "stopped" /\ m.sound # "unreadable"
        /\ job' = Noted(job, m)
        /\ \/ m.kind \in {"progress", "diagnostic"} /\ tasks' = tasks
           \/ m.kind = "draft" /\ tasks' = tasks \cup {Verification(m, "draft")}
           \/ /\ m.kind = "result"
              /\ tasks' = tasks \cup {Verification(m,
                     IF request[active].op = "decode-and-analyze" THEN "compare" ELSE "result")}
    /\ UNCHANGED <<active, outcome, workVars>> /\ PageFrame

Shows(t) ==
    /\ t.stage = "draft" /\ Current(t)
    /\ job' = [job EXCEPT !.verified = t.doc]
    /\ shown' = [shown EXCEPT ![t.gen] = t.doc]
    /\ tasks' = tasks \ {t}
    /\ UNCHANGED <<active, outcome, workVars, toPage, generation, request, tampered>>

Compares(t) ==
    /\ t.stage = "compare" /\ DraftSettled(t) /\ Current(t) /\ job.verified = t.doc
    /\ tasks' = (tasks \ {t}) \cup {[t EXCEPT !.stage = "result"]}
    /\ UNCHANGED <<jobVars, workVars, toPage>> /\ PageFrame

Started == \E r \in Requests, aborted \in BOOLEAN : StartJob(r, aborted)

LEMMA AnswerKinds ==
    /\ Unmade.kind = "none" /\ Pending.kind = "pending" /\ Cancelled.kind = "cancelled"
    /\ Failed.kind = "error" /\ Rejected.kind = "rejected"
    /\ \A d, l : /\ Answer("result", d, l).kind = "result" /\ Answer("result", d, l).doc = d
                 /\ Answer("result", d, l).limits = l
BY DEF Unmade, Pending, Cancelled, Failed, Rejected, Answer

LEMMA CallerShapes ==
    ASSUME IInv, Caller
    PROVE  Started \/ \E answer : Ends(answer)
<1>1. CASE Cancel \/ Dispose
    <2>1. Ends(Cancelled)
        BY <1>1, AnswerKinds DEF Cancel, CancelActive, Dispose, Ends, Deserved, Kept, PageFrame, pageVars
    <2> QED
        BY <2>1
<1> QED
    BY <1>1 DEF Caller, Started

LEMMA PreparationShapes ==
    ASSUME IInv, NEW g \in Gens, SnapshotDone(g) \/ InputsVerified(g)
    PROVE  (\E answer : Ends(answer)) \/ Waits \/ Posts
<1>1. /\ UNCHANGED <<generation, request, shown, tasks, toPage, tampered>> /\ preparing[g] # "no"
      /\ g # 0
    BY DEF SnapshotDone, InputsVerified, Gens
<1>2. CASE UNCHANGED <<jobVars, workVars, workers>>
    BY <1>1, <1>2 DEF Waits, PageFrame
<1>3. CASE active = g /\ (FailPrepared \/ FailTransport(Failed) \/ SettleActive(Failed))
    <2>1. SettleActive(Failed)
        BY <1>1, <1>3 DEF FailPrepared, FailTransport
    <2>2. Ends(Failed)
        BY <1>1, <1>3, <2>1, AnswerKinds DEF Ends, Deserved, Kept, PageFrame
    <2> QED
        BY <2>2
<1>4. CASE active = g /\ PostJob(g) /\ ~FailTransport(Failed) /\ ~SettleActive(Failed)
    BY <1>1, <1>4 DEF PostJob, Posts, PageFrame
<1> QED
    BY <1>2, <1>3, <1>4 DEF SnapshotDone, InputsVerified

LEMMA ReceiveShapes ==
    ASSUME IInv, Receive
    PROVE  (\E answer : Ends(answer)) \/ Waits \/ Notes
<1>1. PICK m : m = Head(toPage)
    OBVIOUS
<1>2. /\ toPage # <<>> /\ toPage' = Tail(toPage) /\ Kept /\ PageFrame
    BY DEF Receive, Kept, PageFrame
<1>3. CASE Ignored(m) /\ UNCHANGED <<jobVars, workVars, tasks>>
    BY <1>1, <1>2, <1>3 DEF Waits
<1>4. CASE FailTransport(Failed) /\ UNCHANGED tasks
    <2>1. Ends(Failed)
        BY <1>2, <1>4, AnswerKinds DEF FailTransport, Ends, Deserved
    <2> QED
        BY <2>1
<1>5. CASE /\ ~Ignored(m) /\ m.kind # "stopped" /\ m.sound # "unreadable" /\ Unacceptable(m)
           /\ FailTransport(Rejected) /\ UNCHANGED tasks
    <2>1. Rejects
        BY <1>1, <1>2, <1>5 DEF Rejects
    <2>2. Ends(Rejected)
        BY <1>2, <1>5, <2>1, AnswerKinds DEF FailTransport, Ends, Deserved
    <2> QED
        BY <2>2
<1>6. CASE /\ ~Ignored(m) /\ ~Unacceptable(m) /\ m.kind = "error" /\ m.sound # "unreadable"
           /\ SettleActive(Failed) /\ UNCHANGED tasks
    <2>1. active # 0
        BY <1>6 DEF Ignored, Unacceptable
    <2>2. Ends(Failed)
        BY <1>2, <1>6, <2>1, AnswerKinds DEF Ends, Deserved
    <2> QED
        BY <2>2
<1>7. CASE /\ ~Ignored(m) /\ ~Unacceptable(m) /\ m.kind # "stopped" /\ m.sound # "unreadable"
           /\ job' = Noted(job, m) /\ UNCHANGED <<active, outcome, workVars>>
           /\ \/ m.kind \in {"progress", "diagnostic"} /\ tasks' = tasks
              \/ m.kind = "draft" /\ tasks' = tasks \cup {Verification(m, "draft")}
              \/ /\ m.kind = "result"
                 /\ tasks' = tasks \cup {Verification(m,
                        IF request[active].op = "decode-and-analyze" THEN "compare" ELSE "result")}
    BY <1>1, <1>2, <1>7 DEF Notes
<1> QED
    BY <1>1, <1>3, <1>4, <1>5, <1>6, <1>7 DEF Receive

LEMMA VerificationShapes ==
    ASSUME IInv, NEW t \in tasks, DraftVerified(t) \/ ResultCompared(t) \/ ResultVerified(t)
    PROVE  (\E answer : Ends(answer)) \/ Waits \/ Shows(t) \/ Compares(t)
<1>1. /\ UNCHANGED <<generation, request, toPage, tampered>> /\ Kept
      /\ Current(t) => active # 0
    BY TaskTurn DEF DraftVerified, ResultCompared, ResultVerified, Kept, Live
<1>2. CASE ~Current(t) /\ tasks' = tasks \ {t} /\ UNCHANGED <<jobVars, workVars, shown>>
    BY <1>1, <1>2 DEF Waits, PageFrame
<1>3. CASE DraftVerified(t) /\ Current(t)
    <2>1. CASE ~t.intact
        <3>1. Rejects
            BY <1>3, <2>1 DEF DraftVerified, Rejects
        <3>2. Ends(Rejected)
            BY <1>1, <1>3, <2>1, <3>1, AnswerKinds DEF DraftVerified, FailTransport, Ends, Deserved, PageFrame
        <3> QED
            BY <3>2
    <2>2. CASE t.intact
        BY <1>1, <1>3, <2>2 DEF DraftVerified, Shows
    <2> QED
        BY <2>1, <2>2
<1>4. CASE ResultCompared(t) /\ Current(t)
    <2>1. CASE job.verified # t.doc
        <3>1. Rejects
            BY <1>4, <2>1 DEF ResultCompared, Rejects
        <3>2. Ends(Rejected)
            BY <1>1, <1>4, <2>1, <3>1, AnswerKinds DEF ResultCompared, FailTransport, Ends, Deserved, PageFrame
        <3> QED
            BY <3>2
    <2>2. CASE job.verified = t.doc
        BY <1>1, <1>4, <2>2 DEF ResultCompared, Compares, PageFrame
    <2> QED
        BY <2>1, <2>2
<1>5. CASE ResultVerified(t) /\ Current(t)
    <2>1. CASE ~t.intact
        <3>1. Rejects
            BY <1>5, <2>1 DEF ResultVerified, Rejects
        <3>2. Ends(Rejected)
            BY <1>1, <1>5, <2>1, <3>1, AnswerKinds DEF ResultVerified, FailTransport, Ends, Deserved, PageFrame
        <3> QED
            BY <3>2
    <2>2. CASE t.intact
        <3> DEFINE answer == Answer("result", t.doc, t.limits)
        <3>1. Deserved(answer)
            BY <1>5 DEF ResultVerified, Deserved
        <3>2. SettleActive(answer) /\ tasks' = tasks \ {t} /\ shown' = shown
            BY <1>5, <2>2 DEF ResultVerified
        <3> HIDE DEF answer
        <3>3. Ends(answer)
            BY <1>1, <1>5, <3>1, <3>2 DEF Ends, PageFrame
        <3> QED
            BY <3>3
    <2> QED
        BY <2>1, <2>2
<1> QED
    BY <1>2, <1>3, <1>4, <1>5 DEF DraftVerified, ResultCompared, ResultVerified

LEMMA PageShapes ==
    ASSUME IInv, Caller \/ PageTask
    PROVE  \/ Started \/ (\E answer : Ends(answer)) \/ Waits \/ Posts \/ Notes
           \/ \E t \in tasks : Shows(t) \/ Compares(t)
<1>1. CASE Caller
    BY <1>1, CallerShapes
<1>2. CASE PageTask
    <2>1. ASSUME NEW g \in Gens, SnapshotDone(g) \/ InputsVerified(g)
          PROVE  (\E answer : Ends(answer)) \/ Waits \/ Posts
        BY <2>1, PreparationShapes
    <2>2. ASSUME NEW t \in tasks, DraftVerified(t) \/ ResultCompared(t) \/ ResultVerified(t)
          PROVE  (\E answer : Ends(answer)) \/ Waits \/ Shows(t) \/ Compares(t)
        BY <2>2, VerificationShapes
    <2> QED
        BY <1>2, <2>1, <2>2, ReceiveShapes DEF PageTask
<1> QED
    BY <1>1, <1>2

(***************************************************************************)
(* The answers.  What is on its way and in verification is about the       *)
(* document of its own request, unless it was tampered with; a result that *)
(* was compared is the draft that was shown.                               *)
(***************************************************************************)
Answered ==
    /\ \A g \in Gens : outcome[g].kind = "pending" <=> g = active
    /\ \A g \in Gens : g > generation => outcome[g] = Unmade /\ shown[g] = NoDoc
    /\ active # 0 => shown[active] = job.verified
    /\ ~job.posted => job = NewJob
    /\ \A h \in tampered : h <= generation

MessageOwn(m) ==
    m.kind \in {"draft", "result"} =>
        m.gen \in Gens /\ (m.gen \notin tampered => m.doc = request[m.gen].doc)

TaskOwn(t) ==
    /\ t.gen \notin tampered => t.doc = request[t.gen].doc
    /\ t.stage # "draft" /\ request[t.gen].op # "extract-model-package" => t.limits = request[t.gen].limits
    /\ t.stage = "compare" => request[t.gen].op = "decode-and-analyze"

TaskCurrent(t) ==
    t.gen = active =>
        /\ job.posted /\ t.worker = binding
        /\ t.stage # "draft" =>
              job.terminal /\ (request[t.gen].op = "decode-and-analyze" => job.drafted)
        /\ t.stage = "result" /\ request[t.gen].op = "decode-and-analyze" =>
              job.verified = t.doc /\ DraftSettled(t)

MessagesOwn == \A i \in DOMAIN toPage : MessageOwn(toPage[i])

TasksOwn == \A t \in tasks : TaskOwn(t) /\ TaskCurrent(t)

OwnInv == Answered /\ MessagesOwn /\ TasksOwn /\ AnswerIsOwn

LEMMA Numbers ==
    ASSUME IInv
    PROVE  /\ generation \in Nat /\ active \in {0, generation} /\ 0 \notin Gens /\ Gens \subseteq Nat
           /\ active # 0 => active \in Gens
           /\ \A t \in tasks : t \in Tasks /\ t.gen \in Gens /\ t.gen <= generation
           /\ \A i \in DOMAIN toPage : toPage[i].gen <= generation
<1>1. generation \in Nat /\ active \in {0, generation} /\ 0 \notin Gens /\ Gens \subseteq Nat
      /\ (active # 0 => active \in Gens)
    BY BoundsAssumption DEF IInv, TypeInv, JobTypes, PageTypes, Jobs, Gens
<1>2. ASSUME NEW t \in tasks
      PROVE  t \in Tasks /\ t.gen \in Gens /\ t.gen <= generation
    <2>1. t \in Tasks /\ TaskInTurn(t)
        BY TaskTurn
    <2> QED
        BY <1>1, <2>1 DEF Tasks, TaskInTurn
<1>3. ASSUME NEW i \in DOMAIN toPage
      PROVE  toPage[i].gen <= generation
    <2>1. MessageInTurn(toPage[i])
        BY DEF IInv, Turns, MessagesInTurn
    <2> QED
        BY <1>1, <2>1 DEF MessageInTurn
<1> QED
    BY <1>1, <1>2, <1>3

\* Messages stay their requests' own while they are kept and requests do not change.
LEMMA KeptOwn ==
    ASSUME IInv, MessagesOwn, Kept, \A g \in Gens : g <= generation => request'[g] = request[g],
           tampered' = tampered
    PROVE  MessagesOwn'
<1>1. ASSUME NEW i \in DOMAIN toPage'
      PROVE  MessageOwn(toPage[i])'
    <2>1. PICK k \in DOMAIN toPage : toPage'[i] = toPage[k]
        BY KeptMessages
    <2>2. MessageOwn(toPage[k]) /\ toPage[k].gen <= generation
        BY Numbers DEF MessagesOwn
    <2> QED
        BY <2>1, <2>2 DEF MessageOwn
<1> QED
    BY <1>1 DEF MessagesOwn

LEMMA InitOwn == Init => OwnInv
<1> SUFFICES ASSUME Init PROVE OwnInv
    OBVIOUS
<1>1. Answered
    <2>1. \A g \in Gens : g # 0
        BY DEF Gens
    <2> QED
        BY <2>1, AnswerKinds DEF Init, Answered
<1>2. MessagesOwn /\ TasksOwn
    BY DEF Init, MessagesOwn, TasksOwn
<1>3. AnswerIsOwn
    BY AnswerKinds DEF Init, AnswerIsOwn
<1> QED
    BY <1>1, <1>2, <1>3 DEF OwnInv

LEMMA StartOwn ==
    ASSUME IInv, OwnInv, NEW r \in Requests, NEW aborted \in BOOLEAN, StartJob(r, aborted)
    PROVE  OwnInv'
<1> DEFINE g == generation + 1
           first == IF active = 0 THEN outcome ELSE [outcome EXCEPT ![active] = Cancelled]
<1>1. /\ g \in Gens /\ generation' = g /\ active' = (IF aborted THEN 0 ELSE g) /\ job' = NewJob
      /\ UNCHANGED <<shown, tasks, toPage, tampered>>
    BY BoundsAssumption, Numbers DEF StartJob, Gens
<1>2. outcome \in [Gens -> AnswerType] /\ request \in [Gens -> Requests]
    BY DEF IInv, TypeInv, JobTypes, PageTypes
<1>3. outcome' = [first EXCEPT ![g] = IF aborted THEN Cancelled ELSE Pending]
    BY DEF StartJob
<1>4. \A x \in Gens : request'[x] = IF x = g THEN r ELSE request[x]
    BY <1>2 DEF StartJob
<1>5. \A x \in Gens : outcome'[x] = IF x = g THEN (IF aborted THEN Cancelled ELSE Pending)
                                   ELSE IF x = active THEN Cancelled ELSE outcome[x]
    BY <1>1, <1>2, <1>3, Numbers
<1> HIDE DEF first
<1>6. Answered'
    <2>1. \A x \in Gens : outcome'[x].kind = "pending" <=> x = active'
        BY <1>1, <1>5, Numbers, AnswerKinds DEF OwnInv, Answered
    <2>2. ASSUME NEW x \in Gens, x > generation'
          PROVE  outcome'[x] = Unmade /\ shown'[x] = NoDoc
        <3>1. x > generation /\ x # g /\ x # active
            BY <1>1, <2>2, Numbers
        <3> QED
            BY <1>1, <1>5, <3>1 DEF OwnInv, Answered
    <2>3. active' # 0 => shown'[active'] = job'.verified
        <3>1. g > generation /\ NewJob.verified = NoDoc
            BY Numbers DEF NewJob
        <3> QED
            BY <1>1, <3>1 DEF OwnInv, Answered
    <2>4. \A h \in tampered' : h <= generation'
        <3>1. tampered \subseteq Nat
            BY BoundsAssumption DEF IInv, TypeInv, MessageTypes, Jobs, Gens
        <3> QED
            BY <1>1, <3>1, Numbers DEF OwnInv, Answered
    <2> QED
        BY <1>1, <2>1, <2>2, <2>3, <2>4 DEF Answered
<1>7. MessagesOwn'
    <2>1. \A x \in Gens : x <= generation => request'[x] = request[x]
        BY <1>4, Numbers
    <2> QED
        BY <1>1, <2>1, KeptOwn DEF OwnInv, Kept
<1>8. TasksOwn'
    <2> SUFFICES ASSUME NEW t \in tasks
                 PROVE  TaskOwn(t)' /\ TaskCurrent(t)'
        BY <1>1 DEF TasksOwn
    <2>1. t.gen \in Gens /\ t.gen # g
        BY Numbers
    <2>2. t.gen # active' /\ request'[t.gen] = request[t.gen]
        BY <1>1, <1>4, <2>1, Numbers
    <2>3. TaskOwn(t)
        BY DEF OwnInv, TasksOwn
    <2> QED
        BY <1>1, <2>2, <2>3 DEF TaskOwn, TaskCurrent
<1>9. AnswerIsOwn'
    <2> SUFFICES ASSUME NEW x \in Gens, outcome'[x].kind = "result"
                 PROVE  /\ request'[x].op = "decode-and-analyze" => outcome'[x].doc = shown'[x]
                        /\ request'[x].op # "extract-model-package" => outcome'[x].limits = request'[x].limits
                        /\ x \notin tampered' => outcome'[x].doc = request'[x].doc
        BY DEF AnswerIsOwn
    <2>1. outcome'[x] = outcome[x] /\ request'[x] = request[x]
        BY <1>4, <1>5, AnswerKinds
    <2> QED
        BY <1>1, <2>1 DEF OwnInv, AnswerIsOwn
<1> QED
    BY <1>6, <1>7, <1>8, <1>9 DEF OwnInv

LEMMA EndsOwn ==
    ASSUME IInv, OwnInv, NEW answer, Ends(answer)
    PROVE  OwnInv'
<1>1. UNCHANGED <<generation, request, shown, tampered>> /\ Kept /\ tasks' \subseteq tasks
    BY DEF Ends, PageFrame
<1>2. outcome \in [Gens -> AnswerType]
    BY DEF IInv, TypeInv, JobTypes
<1>3. /\ active' = 0 /\ (job' = job \/ job' = NewJob)
      /\ \A x \in Gens : outcome'[x] = IF x = active THEN answer ELSE outcome[x]
    BY <1>2, Numbers DEF Ends, SettleActive, jobVars
<1>4. answer.kind # "pending"
    BY AnswerKinds DEF Ends, Deserved
<1>5. Answered'
    <2>1. \A x \in Gens : outcome'[x].kind = "pending" <=> x = active'
        BY <1>3, <1>4, Numbers DEF OwnInv, Answered
    <2>2. \A x \in Gens : x > generation => x # active
        BY Numbers
    <2>3. job'.posted \/ job' = NewJob
        BY <1>3 DEF OwnInv, Answered
    <2> QED
        BY <1>1, <1>3, <2>1, <2>2, <2>3 DEF OwnInv, Answered
<1>6. MessagesOwn'
    BY <1>1, KeptOwn DEF OwnInv
<1>7. TasksOwn'
    <2> SUFFICES ASSUME NEW t \in tasks'
                 PROVE  TaskOwn(t)' /\ TaskCurrent(t)'
        BY DEF TasksOwn
    <2>1. TaskOwn(t) /\ t.gen # active'
        BY <1>1, <1>3, Numbers DEF OwnInv, TasksOwn
    <2> QED
        BY <1>1, <2>1 DEF TaskOwn, TaskCurrent
<1>8. AnswerIsOwn'
    <2> SUFFICES ASSUME NEW x \in Gens, outcome'[x].kind = "result"
                 PROVE  /\ request[x].op = "decode-and-analyze" => outcome'[x].doc = shown[x]
                        /\ request[x].op # "extract-model-package" => outcome'[x].limits = request[x].limits
                        /\ x \notin tampered => outcome'[x].doc = request[x].doc
        BY <1>1 DEF AnswerIsOwn
    <2>1. CASE x # active
        BY <1>3, <2>1 DEF OwnInv, AnswerIsOwn
    <2>2. CASE x = active
        <3>1. answer.kind = "result" /\ outcome'[x] = answer
            BY <1>3, <2>2
        <3>2. PICK t \in tasks : Current(t) /\ t.stage = "result" /\ answer = Answer("result", t.doc, t.limits)
            BY <3>1 DEF Ends, Deserved
        <3>3. t.gen = x /\ TaskOwn(t) /\ TaskCurrent(t) /\ answer.doc = t.doc /\ answer.limits = t.limits
            BY <2>2, <3>2, AnswerKinds DEF OwnInv, TasksOwn, Current
        <3>4. shown[x] = job.verified
            BY <2>2, Numbers DEF OwnInv, Answered
        <3> QED
            BY <2>2, <3>1, <3>2, <3>3, <3>4 DEF TaskOwn, TaskCurrent
    <2> QED
        BY <2>1, <2>2
<1> QED
    BY <1>5, <1>6, <1>7, <1>8 DEF OwnInv

LEMMA WaitsOwn ==
    ASSUME IInv, OwnInv, Waits
    PROVE  OwnInv'
<1>1. /\ UNCHANGED <<generation, request, shown, tampered, active, job, outcome, binding>>
      /\ Kept /\ tasks' \subseteq tasks
    BY DEF Waits, PageFrame, jobVars, workVars, Kept
<1>2. Answered' /\ AnswerIsOwn'
    BY <1>1 DEF OwnInv, Answered, AnswerIsOwn
<1>3. MessagesOwn'
    BY <1>1, KeptOwn DEF OwnInv
<1>4. TasksOwn'
    <2> SUFFICES ASSUME NEW t \in tasks'
                 PROVE  TaskOwn(t)' /\ TaskCurrent(t)'
        BY DEF TasksOwn
    <2>1. TaskOwn(t) /\ TaskCurrent(t)
        BY <1>1 DEF OwnInv, TasksOwn
    <2>2. DraftSettled(t) => DraftSettled(t)'
        BY <1>1 DEF DraftSettled
    <2> QED
        BY <1>1, <2>1, <2>2 DEF TaskOwn, TaskCurrent
<1> QED
    BY <1>2, <1>3, <1>4 DEF OwnInv

LEMMA PostsOwn ==
    ASSUME IInv, OwnInv, Posts
    PROVE  OwnInv'
<1>1. /\ UNCHANGED <<generation, request, shown, tampered, active, outcome, toPage, tasks>>
      /\ active # 0 /\ job' = [job EXCEPT !.posted = TRUE]
    BY DEF Posts, PageFrame
<1>2. ~job.posted
    BY PreparingAtRest DEF Posts
<1>3. job'.posted /\ job'.verified = job.verified
    BY <1>1 DEF IInv, TypeInv, JobTypes, JobRecords
<1>4. Answered' /\ AnswerIsOwn'
    BY <1>1, <1>3 DEF OwnInv, Answered, AnswerIsOwn
<1>5. MessagesOwn'
    BY <1>1, KeptOwn DEF OwnInv, Kept
<1>6. TasksOwn'
    <2> SUFFICES ASSUME NEW t \in tasks
                 PROVE  TaskOwn(t)' /\ TaskCurrent(t)'
        BY <1>1 DEF TasksOwn
    <2>1. TaskOwn(t) /\ t.gen # active
        BY <1>2 DEF OwnInv, TasksOwn, TaskCurrent
    <2> QED
        BY <1>1, <2>1 DEF TaskOwn, TaskCurrent
<1> QED
    BY <1>4, <1>5, <1>6 DEF OwnInv

\* The message that a job notes is of the job and acceptable.
LEMMA NotedMessage ==
    ASSUME IInv, Notes, NEW m, m = Head(toPage)
    PROVE  /\ m \in Messages /\ Live(m) /\ job.posted /\ active \in Gens
           /\ Accepts(job, request[active], m) /\ job' = Noted(job, m)
           /\ Noted(job, m) \in JobRecords
           /\ job'.posted /\ job'.verified = job.verified
           /\ job'.drafted = (job.drafted \/ m.kind = "draft")
           /\ job'.terminal = (m.kind = "result") /\ ~job.terminal
<1>1. m \in Messages /\ MessageInTurn(m)
    BY FirstMessage DEF Notes
<1>2. /\ ~Ignored(m) /\ ~Unacceptable(m) /\ m.kind # "stopped" /\ m.sound # "unreadable"
      /\ job' = Noted(job, m)
    BY DEF Notes
<1>3. Live(m) /\ Accepts(job, request[active], m)
    BY <1>2 DEF Ignored, Unacceptable, Live
<1>4. job.posted /\ active \in Gens
    BY <1>1, <1>3, Numbers DEF MessageInTurn, Live
<1>5. Noted(job, m) \in JobRecords /\ Noted(job, m).posted = job.posted
    BY <1>1, <1>3, NotedTypes
<1>6. ~job.terminal /\ job \in JobRecords
    BY <1>3 DEF Accepts, IInv, TypeInv, JobTypes
<1>7. /\ Noted(job, m).verified = job.verified
      /\ Noted(job, m).drafted = (job.drafted \/ m.kind = "draft")
      /\ Noted(job, m).terminal = (m.kind = "result")
    BY <1>6 DEF Noted, JobRecords
<1> QED
    BY <1>1, <1>2, <1>3, <1>4, <1>5, <1>6, <1>7

LEMMA NotesOwn ==
    ASSUME IInv, OwnInv, Notes
    PROVE  OwnInv'
<1>1. PICK m : m = Head(toPage)
    OBVIOUS
<1>2. /\ UNCHANGED <<generation, request, shown, tampered, active, outcome, binding>> /\ toPage # <<>> /\ Kept
    BY DEF Notes, PageFrame, workVars, Kept
<1>3. /\ Live(m) /\ job.posted /\ active \in Gens /\ Accepts(job, request[active], m)
      /\ job'.posted /\ job'.verified = job.verified
      /\ job'.drafted = (job.drafted \/ m.kind = "draft")
      /\ job'.terminal = (m.kind = "result") /\ ~job.terminal
    BY <1>1, NotedMessage
<1>4. Answered' /\ AnswerIsOwn'
    BY <1>2, <1>3 DEF OwnInv, Answered, AnswerIsOwn
<1>5. MessagesOwn'
    BY <1>2, KeptOwn DEF OwnInv
<1>6. ASSUME NEW t \in tasks
      PROVE  TaskOwn(t)' /\ TaskCurrent(t)'
    <2>1. TaskOwn(t) /\ TaskCurrent(t)
        BY DEF OwnInv, TasksOwn
    <2>2. t.gen = active => t.worker = binding /\ t.stage = "draft"
        BY <1>3, <2>1 DEF TaskCurrent
    <2> QED
        BY <1>2, <1>3, <2>1, <2>2 DEF TaskOwn, TaskCurrent
<1>7. MessageOwn(m)
    <2>1. toPage \in Seq(Messages)
        BY DEF IInv, TypeInv, MessageTypes
    <2>2. m = toPage[1] /\ 1 \in DOMAIN toPage
        BY <1>1, <1>2, <2>1
    <2> QED
        BY <2>2 DEF OwnInv, MessagesOwn
<1>8. ASSUME NEW stage, NEW t, t = Verification(m, stage), m.kind \in {"draft", "result"},
             stage = "draft" <=> m.kind = "draft",
             stage = "compare" => request[active].op = "decode-and-analyze",
             stage = "result" => request[active].op # "decode-and-analyze"
      PROVE  TaskOwn(t)' /\ TaskCurrent(t)'
    <2>1. /\ t.stage = stage /\ t.worker = binding /\ t.gen = active /\ t.doc = m.doc
          /\ t.limits = m.limits /\ m.gen = active
        BY <1>3, <1>8 DEF Verification, Live
    <2>2. t.gen \notin tampered => t.doc = request[t.gen].doc
        BY <1>7, <1>8, <2>1 DEF MessageOwn
    <2>3. stage # "draft" => m.kind = "result"
        BY <1>8
    <2>6. m.kind = "result" /\ request[active].op # "extract-model-package" => m.limits = request[active].limits
        BY <1>3 DEF Accepts
    <2>7. m.kind = "result" /\ request[active].op = "decode-and-analyze" => job.drafted
        BY <1>3 DEF Accepts
    <2>4. TaskOwn(t)'
        <3>1. /\ t.stage # "draft" /\ request[t.gen].op # "extract-model-package"
                     => t.limits = request[t.gen].limits
              /\ t.stage = "compare" => request[t.gen].op = "decode-and-analyze"
            BY <1>8, <2>1, <2>3, <2>6
        <3> QED
            BY <1>2, <2>2, <3>1 DEF TaskOwn
    <2>5. TaskCurrent(t)'
        <3>1. t.stage # "draft" => job'.terminal /\ (request[t.gen].op = "decode-and-analyze" => job'.drafted)
            BY <1>3, <2>1, <2>3, <2>7
        <3>2. ~(t.stage = "result" /\ request[t.gen].op = "decode-and-analyze")
            BY <1>8, <2>1
        <3> QED
            BY <1>2, <1>3, <2>1, <3>1, <3>2 DEF TaskCurrent
    <2> QED
        BY <2>4, <2>5
<1>9. TasksOwn'
    <2>1. CASE tasks' = tasks
        BY <1>6, <2>1 DEF TasksOwn
    <2>2. CASE \E stage : /\ tasks' = tasks \cup {Verification(m, stage)} /\ m.kind \in {"draft", "result"}
                          /\ stage = "draft" <=> m.kind = "draft"
                          /\ stage = "compare" => request[active].op = "decode-and-analyze"
                          /\ stage = "result" => request[active].op # "decode-and-analyze"
        <3> PICK stage : /\ tasks' = tasks \cup {Verification(m, stage)} /\ m.kind \in {"draft", "result"}
                         /\ stage = "draft" <=> m.kind = "draft"
                         /\ stage = "compare" => request[active].op = "decode-and-analyze"
                         /\ stage = "result" => request[active].op # "decode-and-analyze"
            BY <2>2
        <3>1. PICK t : t = Verification(m, stage)
            OBVIOUS
        <3>2. TaskOwn(t)' /\ TaskCurrent(t)'
            BY <1>8, <3>1
        <3>3. tasks' = tasks \cup {t}
            BY <3>1
        <3> QED
            BY <1>6, <3>2, <3>3 DEF TasksOwn
    <2>3. CASE m.kind = "draft" /\ tasks' = tasks \cup {Verification(m, "draft")}
        BY <2>2, <2>3
    <2>4. CASE m.kind = "result" /\ tasks' = tasks \cup {Verification(m,
                     IF request[active].op = "decode-and-analyze" THEN "compare" ELSE "result")}
        BY <2>2, <2>4
    <2> QED
        BY <1>1, <2>1, <2>3, <2>4 DEF Notes
<1> QED
    BY <1>4, <1>5, <1>9 DEF OwnInv

LEMMA ShowsOwn ==
    ASSUME IInv, OwnInv, NEW t \in tasks, Shows(t)
    PROVE  OwnInv'
<1>1. /\ UNCHANGED <<generation, request, tampered, active, outcome, binding, toPage>>
      /\ t.stage = "draft" /\ t.gen = active /\ tasks' = tasks \ {t}
      /\ job' = [job EXCEPT !.verified = t.doc] /\ shown' = [shown EXCEPT ![active] = t.doc]
    BY DEF Shows, Current, workVars
<1>2. active \in Gens /\ job \in JobRecords /\ shown \in [Gens -> Docs \cup {NoDoc}]
    BY <1>1, Numbers DEF IInv, TypeInv, JobTypes, PageTypes
<1>3. /\ job'.verified = t.doc /\ job'.posted = job.posted /\ job'.terminal = job.terminal
      /\ job'.drafted = job.drafted
      /\ shown'[active] = t.doc /\ \A x \in Gens \ {active} : shown'[x] = shown[x]
    BY <1>1, <1>2 DEF JobRecords
<1>4. job.posted
    BY <1>1 DEF OwnInv, TasksOwn, TaskCurrent
<1>5. Answered'
    <2>1. \A x \in Gens : x > generation => x # active
        BY Numbers
    <2> QED
        BY <1>1, <1>3, <1>4, <2>1 DEF OwnInv, Answered
<1>6. AnswerIsOwn'
    <2> SUFFICES ASSUME NEW x \in Gens, outcome[x].kind = "result"
                 PROVE  shown'[x] = shown[x]
        BY <1>1 DEF OwnInv, AnswerIsOwn
    <2>1. x # active
        BY DEF OwnInv, Answered
    <2> QED
        BY <1>3, <2>1
<1>7. MessagesOwn'
    BY <1>1, KeptOwn DEF OwnInv, Kept
<1>8. TasksOwn'
    <2> SUFFICES ASSUME NEW u \in tasks'
                 PROVE  TaskOwn(u)' /\ TaskCurrent(u)'
        BY DEF TasksOwn
    <2>1. TaskOwn(u) /\ TaskCurrent(u)
        BY <1>1 DEF OwnInv, TasksOwn
    <2>2. u.gen = active => ~DraftSettled(u)
        BY <1>1 DEF DraftSettled
    <2> QED
        BY <1>1, <1>3, <2>1, <2>2 DEF TaskOwn, TaskCurrent
<1> QED
    BY <1>5, <1>6, <1>7, <1>8 DEF OwnInv

LEMMA ComparesOwn ==
    ASSUME IInv, OwnInv, NEW t \in tasks, Compares(t)
    PROVE  OwnInv'
<1>1. PICK u : u = [t EXCEPT !.stage = "result"]
    OBVIOUS
<1>2. /\ UNCHANGED <<generation, request, shown, tampered, active, job, outcome, binding, toPage>>
      /\ t.stage = "compare" /\ DraftSettled(t) /\ job.verified = t.doc
      /\ tasks' = (tasks \ {t}) \cup {u}
    BY <1>1 DEF Compares, PageFrame, jobVars, workVars
<1>3. /\ u.stage = "result" /\ u.gen = t.gen /\ u.doc = t.doc /\ u.limits = t.limits
      /\ u.worker = t.worker
    BY <1>1, TaskTurn DEF Tasks
<1>4. Answered' /\ AnswerIsOwn'
    BY <1>2 DEF OwnInv, Answered, AnswerIsOwn
<1>5. MessagesOwn'
    BY <1>2, KeptOwn DEF OwnInv, Kept
<1>6. ASSUME NEW x, DraftSettled(x)
      PROVE  DraftSettled(x)'
    BY <1>2, <1>3, <1>6 DEF DraftSettled
<1>7. TasksOwn'
    <2> SUFFICES ASSUME NEW x \in tasks'
                 PROVE  TaskOwn(x)' /\ TaskCurrent(x)'
        BY DEF TasksOwn
    <2>1. CASE x = u
        <3>1. TaskOwn(t) /\ TaskCurrent(t)
            BY DEF OwnInv, TasksOwn
        <3>2. DraftSettled(u)'
            <4>1. DraftSettled(u)
                BY <1>2, <1>3 DEF DraftSettled
            <4> QED
                BY <1>6, <4>1
        <3>3. TaskOwn(u)' /\ TaskCurrent(u)'
            BY <1>2, <1>3, <3>1, <3>2 DEF TaskOwn, TaskCurrent
        <3> QED
            BY <2>1, <3>3
    <2>2. CASE x # u
        <3>1. TaskOwn(x) /\ TaskCurrent(x)
            BY <1>2, <2>2 DEF OwnInv, TasksOwn
        <3>2. DraftSettled(x) => DraftSettled(x)'
            BY <1>6
        <3> QED
            BY <1>2, <3>1, <3>2 DEF TaskOwn, TaskCurrent
    <2> QED
        BY <2>1, <2>2
<1> QED
    BY <1>4, <1>5, <1>7 DEF OwnInv

(***************************************************************************)
(* What the steps of the worker post.                                      *)
(***************************************************************************)
\* m is posted, and noted if it is tampered with; else it says what it should.
Said(m, doc) ==
    /\ toPage' = Append(toPage, m)
    /\ tampered' \in {tampered, tampered \cup {generation}}
    /\ generation \notin tampered' => m.sound = "ok" /\ m.doc = doc

LEMMA PostSays ==
    ASSUME IInv, worker.pc \notin Rest, NEW kind \in Kinds, NEW phase \in 0 .. 2, NEW level \in 0 .. 2,
           NEW doc, NEW limits \in Limits \cup {NoLimits},
           Post(worker.gen, kind, phase, level, doc, limits)
    PROVE  \E m \in Messages :
              /\ Said(m, doc)
              /\ m.worker = binding /\ m.gen = active /\ m.gen = generation /\ m.kind = kind
              /\ m.phase = phase /\ m.level = level /\ m.limits = limits
<1>1. worker.gen = active /\ active \in Gens /\ active = generation
    BY WorkingForActive, Numbers
<1>2. PICK s \in Soundness(kind), d \in Docs \cup {NoDoc} :
          /\ s # "other" => d = doc
          /\ toPage' = Append(toPage,
                [worker |-> binding, gen |-> active, kind |-> kind, phase |-> phase, level |-> level,
                 doc |-> d, limits |-> limits, sound |-> s])
          /\ tampered' = IF s = "ok" THEN tampered ELSE tampered \cup {active}
    BY <1>1 DEF Post
<1> DEFINE m == [worker |-> binding, gen |-> active, kind |-> kind, phase |-> phase, level |-> level,
                 doc |-> d, limits |-> limits, sound |-> s]
<1>3. s \in {"ok"} \cup Tampering
    BY DEF Soundness
<1>4. binding \in Nat /\ active \in Nat
    BY <1>1, Numbers DEF IInv, TypeInv, WorkTypes, PageTypes
<1>5. m \in Messages
    BY <1>3, <1>4 DEF Messages
<1>6. Said(m, doc)
    <2>1. m.sound = s /\ m.doc = d
        OBVIOUS
    <2>2. toPage' = Append(toPage, m)
        BY <1>2
    <2> HIDE DEF m
    <2> QED
        BY <1>1, <1>2, <2>1, <2>2 DEF Said
<1>7. /\ m.worker = binding /\ m.gen = active /\ m.kind = kind
      /\ m.phase = phase /\ m.level = level /\ m.limits = limits
    OBVIOUS
<1> HIDE DEF m
<1> QED
    BY <1>1, <1>5, <1>6, <1>7

WorkFrame == UNCHANGED <<pageVars, jobVars, binding>>

Silent == UNCHANGED <<toPage, tampered>>

\* A draft or a result is about the document asked for.
Speaks(m, doc) ==
    /\ Said(m, doc)
    /\ m.worker = binding /\ m.gen = active /\ m.gen = generation
    /\ m.kind # "stopped" /\ active # 0
    /\ m.kind \in {"draft", "result"} => doc = request[active].doc

LEMMA WorkerShapes ==
    ASSUME IInv, OwnWork, WorkerStep
    PROVE  WorkFrame /\ (Silent \/ \E m \in Messages : \E doc : Speaks(m, doc))
<1>1. CASE HandleMessage
    <2>1. worker.pc \in Rest
        BY <1>1 DEF HandleMessage, IInv, Turns, WorkIsActive
    <2> QED
        BY <1>1, <2>1 DEF HandleMessage, Rest, WorkFrame, Silent
<1>2. CASE Finish \/ Decoded
    BY <1>2 DEF Finish, Decoded, WorkerFrame, WorkFrame, Silent
<1>3. ASSUME NEW kind \in Kinds \ {"stopped"}, NEW phase \in 0 .. 2, NEW level \in 0 .. 2,
             NEW doc, NEW limits \in Limits \cup {NoLimits},
             Post(worker.gen, kind, phase, level, doc, limits), worker.pc \notin Rest,
             kind \in {"draft", "result"} => doc = request[active].doc
      PROVE  \E m \in Messages : \E d : Speaks(m, d)
    <2>1. PICK m \in Messages :
              /\ Said(m, doc)
              /\ m.worker = binding /\ m.gen = active /\ m.gen = generation /\ m.kind = kind
        BY <1>3, PostSays
    <2>2. Speaks(m, doc)
        BY <1>3, <2>1, WorkingForActive DEF Speaks
    <2> QED
        BY <2>2
<1>4. ASSUME worker.pc \notin Rest
      PROVE  Asked = request[active]
    BY <1>4, WorkingForActive DEF Asked
<1>5. CASE Throw
    <2>1. WorkFrame /\ worker.pc \notin Rest /\ Post(worker.gen, "error", 0, 0, NoDoc, NoLimits)
        BY <1>5 DEF Throw, WorkerFrame, WorkFrame, Rest
    <2> QED
        BY <1>3, <2>1 DEF Kinds
<1>6. CASE BeginDecode \/ BeginRepair \/ BeginExtract
    <2>1. WorkFrame /\ worker.pc \notin Rest /\ Post(worker.gen, "progress", 1, 1, NoDoc, NoLimits)
        BY <1>6 DEF BeginDecode, BeginRepair, BeginExtract, WorkerFrame, WorkFrame, Rest
    <2> QED
        BY <1>3, <2>1 DEF Kinds
<1>7. CASE ReportDecoded \/ Repair \/ ReportExtracted
    <2>1. WorkFrame /\ worker.pc \notin Rest /\ Post(worker.gen, "progress", 1, 2, NoDoc, NoLimits)
        BY <1>7 DEF ReportDecoded, Repair, ReportExtracted, WorkerFrame, WorkFrame, Rest
    <2> QED
        BY <1>3, <2>1 DEF Kinds
<1>8. CASE BeginAnalysis
    <2>1. WorkFrame /\ worker.pc \notin Rest /\ Post(worker.gen, "progress", 2, 1, NoDoc, NoLimits)
        BY <1>8 DEF BeginAnalysis, WorkerFrame, WorkFrame, Rest
    <2> QED
        BY <1>3, <2>1 DEF Kinds
<1>9. CASE Analyze
    <2>1. WorkFrame /\ worker.pc \notin Rest /\ Post(worker.gen, "progress", 2, 2, NoDoc, NoLimits)
        BY <1>9 DEF Analyze, WorkerFrame, WorkFrame, Rest
    <2> QED
        BY <1>3, <2>1 DEF Kinds
<1>10. CASE PostDiagnostic
    <2>1. WorkFrame /\ worker.pc \notin Rest /\ Post(worker.gen, "diagnostic", 0, 0, NoDoc, NoLimits)
        BY <1>10 DEF PostDiagnostic, WorkerFrame, WorkFrame, Rest
    <2> QED
        BY <1>3, <2>1 DEF Kinds
<1>11. CASE PostDraft
    <2>1. /\ WorkFrame /\ worker.pc = "draft" /\ worker.pc \notin Rest
          /\ Post(worker.gen, "draft", 0, 0, worker.doc, NoLimits)
        BY <1>11 DEF PostDraft, WorkerFrame, WorkFrame, Rest
    <2>2. worker.doc = request[active].doc
        BY <1>4, <2>1 DEF OwnWork
    <2> QED
        BY <1>3, <2>1, <2>2 DEF Kinds
<1>12. CASE PostResult
    <2>1. /\ WorkFrame /\ worker.pc \in {"diagnose", "extract"} /\ worker.pc \notin Rest
          /\ Post(worker.gen, "result", 0, 0, worker.doc, worker.limits)
        BY <1>12 DEF PostResult, WorkerFrame, WorkFrame, Rest
    <2>2. worker.doc = request[active].doc
        BY <1>4, <2>1 DEF OwnWork
    <2>3. worker.limits \in Limits \cup {NoLimits}
        BY WorkerFields
    <2> QED
        BY <1>3, <2>1, <2>2, <2>3 DEF Kinds
<1> QED
    BY <1>1, <1>2, <1>5, <1>6, <1>7, <1>8, <1>9, <1>10, <1>11, <1>12 DEF WorkerStep

\* Where a message more is on its way.
LEMMA Longer ==
    ASSUME IInv, NEW m, toPage' = Append(toPage, m)
    PROVE  /\ Len(toPage) \in Nat /\ Len(toPage') = Len(toPage) + 1
           /\ DOMAIN toPage' = 1 .. Len(toPage) + 1 /\ DOMAIN toPage = 1 .. Len(toPage)
           /\ toPage'[Len(toPage) + 1] = m
           /\ \A i \in 1 .. Len(toPage) : toPage'[i] = toPage[i]
<1>1. toPage \in Seq(Messages)
    BY DEF IInv, TypeInv, MessageTypes
<1> QED
    BY <1>1

LEMMA MoreOwn ==
    ASSUME IInv, OwnInv, WorkFrame, tampered' \in {tampered, tampered \cup {generation}}, MessagesOwn'
    PROVE  OwnInv'
<1>1. /\ UNCHANGED <<generation, request, shown, active, job, outcome, binding, tasks>>
      /\ tampered \subseteq tampered'
    BY DEF WorkFrame, pageVars, jobVars
<1>2. Answered'
    <2>1. \A h \in tampered' : h <= generation
        BY Numbers DEF OwnInv, Answered
    <2> QED
        BY <1>1, <2>1 DEF OwnInv, Answered
<1>3. AnswerIsOwn'
    BY <1>1 DEF OwnInv, AnswerIsOwn
<1>4. TasksOwn'
    <2> SUFFICES ASSUME NEW t \in tasks
                 PROVE  TaskOwn(t)' /\ TaskCurrent(t)'
        BY <1>1 DEF TasksOwn
    <2>1. TaskOwn(t) /\ TaskCurrent(t)
        BY DEF OwnInv, TasksOwn
    <2>2. DraftSettled(t)' = DraftSettled(t)
        BY <1>1 DEF DraftSettled
    <2> QED
        BY <1>1, <2>1, <2>2 DEF TaskOwn, TaskCurrent
<1> QED
    BY <1>2, <1>3, <1>4 DEF OwnInv

LEMMA AppendedOwn ==
    ASSUME IInv, OwnInv, UNCHANGED request, NEW m, toPage' = Append(toPage, m), MessageOwn(m)',
           tampered \subseteq tampered'
    PROVE  MessagesOwn'
<1>1. ASSUME NEW i \in DOMAIN toPage'
      PROVE  MessageOwn(toPage[i])'
    <2>1. CASE i = Len(toPage) + 1
        <3>1. toPage'[i] = m
            BY <2>1, Longer
        <3> QED
            BY <3>1 DEF MessageOwn
    <2>2. CASE i # Len(toPage) + 1
        <3>1. i \in DOMAIN toPage /\ toPage'[i] = toPage[i]
            BY <2>2, Longer
        <3>2. MessageOwn(toPage[i])
            BY <3>1 DEF OwnInv, MessagesOwn
        <3> QED
            BY <3>1, <3>2 DEF MessageOwn
    <2> QED
        BY <2>1, <2>2
<1> QED
    BY <1>1 DEF MessagesOwn

LEMMA WorkerOwn ==
    ASSUME IInv, OwnInv, OwnWork, WorkerStep
    PROVE  OwnInv'
<1>1. WorkFrame /\ UNCHANGED <<request, generation>>
    BY WorkerShapes DEF WorkFrame, pageVars
<1>2. CASE Silent
    <2>1. MessagesOwn'
        BY <1>1, <1>2 DEF Silent, OwnInv, MessagesOwn, MessageOwn
    <2> QED
        BY <1>1, <1>2, <2>1, MoreOwn DEF Silent
<1>3. ASSUME NEW m \in Messages, NEW doc, Speaks(m, doc)
      PROVE  OwnInv'
    <2>1. /\ toPage' = Append(toPage, m) /\ tampered' \in {tampered, tampered \cup {generation}}
          /\ generation \notin tampered' => m.doc = doc
          /\ m.gen = active /\ m.gen = generation /\ active # 0
          /\ m.kind \in {"draft", "result"} => doc = request[active].doc
        BY <1>3 DEF Speaks, Said
    <2>2. MessageOwn(m)'
        <3>1. m.kind \in {"draft", "result"} => m.gen \in Gens
            BY <2>1, Numbers
        <3> QED
            BY <1>1, <2>1, <3>1 DEF MessageOwn
    <2>3. MessagesOwn'
        BY <1>1, <2>1, <2>2, AppendedOwn
    <2> QED
        BY <1>1, <2>1, <2>3, MoreOwn
<1> QED
    BY <1>2, <1>3, WorkerShapes

LEMMA StopOwn ==
    ASSUME IInv, OwnInv, Stop
    PROVE  OwnInv'
<1>1. PICK m : m = [worker |-> binding, gen |-> 0, kind |-> "stopped", phase |-> 0, level |-> 0,
                    doc |-> NoDoc, limits |-> NoLimits, sound |-> "ok"]
    OBVIOUS
<1>2. /\ WorkFrame /\ UNCHANGED request /\ toPage' = Append(toPage, m) /\ m.kind = "stopped"
      /\ tampered' = tampered \cup {generation}
    BY <1>1 DEF Stop, WorkerFrame, WorkFrame, pageVars
<1>3. MessageOwn(m)'
    BY <1>2 DEF MessageOwn
<1>4. MessagesOwn'
    BY <1>2, <1>3, AppendedOwn
<1> QED
    BY <1>2, <1>4, MoreOwn

LEMMA NextOwn ==
    ASSUME IInv, OwnInv, OwnWork, [Next]_vars
    PROVE  OwnInv'
<1>1. CASE UNCHANGED vars
    <2>1. UNCHANGED <<generation, request, shown, tasks, active, job, outcome, binding, toPage, tampered>>
        BY <1>1 DEF vars, pageVars, jobVars, workVars
    <2>2. Answered' /\ AnswerIsOwn'
        BY <2>1 DEF OwnInv, Answered, AnswerIsOwn
    <2>3. MessagesOwn'
        BY <2>1 DEF OwnInv, MessagesOwn, MessageOwn
    <2>4. TasksOwn'
        BY <2>1 DEF OwnInv, TasksOwn, TaskOwn, TaskCurrent, DraftSettled
    <2> QED
        BY <2>2, <2>3, <2>4 DEF OwnInv
<1>2. CASE Caller \/ PageTask
    <2>1. CASE Started
        BY <2>1, StartOwn DEF Started
    <2>2. CASE \E answer : Ends(answer)
        BY <2>2, EndsOwn
    <2>3. CASE \E t \in tasks : Shows(t) \/ Compares(t)
        BY <2>3, ShowsOwn, ComparesOwn
    <2> QED
        BY <1>2, <2>1, <2>2, <2>3, PageShapes, WaitsOwn, PostsOwn, NotesOwn
<1>3. CASE WorkerStep
    BY <1>3, WorkerOwn
<1>4. CASE Stop
    BY <1>4, StopOwn
<1> QED
    BY <1>1, <1>2, <1>3, <1>4 DEF Next

LEMMA OwnInductive == Spec => [](IInv /\ CacheInv /\ OwnWork /\ OwnInv)
<1>1. (IInv /\ CacheInv /\ OwnWork /\ OwnInv) /\ [Next]_vars => (IInv /\ CacheInv /\ OwnWork /\ OwnInv)'
    BY NextInv, WorkInv, NextOwn
<1> QED
    BY <1>1, InitInv, InitWork, InitOwn, PTL DEF Spec

(***************************************************************************)
(* The conversation.  While nothing was tampered with, the client will     *)
(* accept every message of its job that is on its way: st is what it will  *)
(* remember after each of them, and the last of st is where the worker is. *)
(***************************************************************************)
At(s, phase, level) == s.phase = phase /\ s.level = level /\ s.diagnostics = 0

Speaking(s) ==
    LET pc == worker.pc IN
    /\ ~AtRest => ~s.terminal
    /\ toWorker # <<>> \/ pc = "begin" => At(s, 0, 0)
    /\ pc \in {"decode", "decoded", "repair"} => At(s, 1, 1)
    /\ pc \in {"draft", "drafted"} => At(s, 1, 2)
    /\ pc = "analyze" => At(s, 2, 1)
    /\ toWorker # <<>> \/ pc \in {"begin", "decode", "decoded", "draft"} => ~s.drafted
    /\ pc \in {"drafted", "analyze"} => s.drafted
    /\ pc = "diagnose" =>
          /\ s.phase = FinalPhase(Asked.op) /\ (Asked.op = "decode-and-analyze" => s.drafted)
          /\ s.diagnostics + worker.left <= MaxDiagnostics
    /\ pc = "extract" => s.phase = 1 /\ s.level = worker.level

Heard(s, m, t) ==
    IF Live(m) THEN Accepts(s, request[active], m) /\ t = Noted(s, m) ELSE t = s

Talk(st) ==
    /\ st \in [0 .. Len(toPage) -> JobRecords]
    /\ st[0] = job
    /\ \A i \in 1 .. Len(toPage) : Heard(st[i - 1], toPage[i], st[i])
    /\ active # 0 /\ job.posted => Speaking(st[Len(toPage)])

Intact ==
    /\ \A i \in DOMAIN toPage : toPage[i].sound = "ok" /\ toPage[i].kind # "stopped"
    /\ \A t \in tasks : t.intact

Settled(g) == \A d \in tasks : ~(d.stage = "draft" /\ d.gen = g)

Matched == active # 0 /\ job.drafted /\ Settled(active) => job.verified = request[active].doc

LEMMA NotedRecord ==
    ASSUME NEW s \in JobRecords, NEW m \in Messages, NEW r, Accepts(s, r, m)
    PROVE  Noted(s, m) \in JobRecords
<1>1. m.kind = "diagnostic" => s.diagnostics + 1 \in 0 .. MaxDiagnostics
    BY BoundsAssumption DEF Accepts, JobRecords
<1>2. m.phase \in 0 .. 2 /\ m.level \in 0 .. 2
    BY DEF Messages
<1> QED
    BY <1>1, <1>2 DEF Noted, JobRecords

\* What a job remembers after a message.
LEMMA NotedFields ==
    ASSUME NEW s \in JobRecords, NEW m
    PROVE  /\ Noted(s, m).phase = IF m.kind = "progress" THEN m.phase ELSE s.phase
           /\ Noted(s, m).level = IF m.kind = "progress" THEN m.level ELSE s.level
           /\ Noted(s, m).diagnostics = IF m.kind = "diagnostic" THEN s.diagnostics + 1 ELSE s.diagnostics
           /\ Noted(s, m).drafted <=> s.drafted \/ m.kind = "draft"
           /\ Noted(s, m).terminal <=> s.terminal \/ m.kind = "result"
           /\ Noted(s, m).verified = s.verified
BY DEF Noted, JobRecords

LEMMA Lengths ==
    ASSUME IInv
    PROVE  toPage \in Seq(Messages) /\ Len(toPage) \in Nat /\ DOMAIN toPage = 1 .. Len(toPage)
<1>1. toPage \in Seq(Messages)
    BY DEF IInv, TypeInv, MessageTypes
<1> QED
    BY <1>1

\* Nothing on its way is of the job.
LEMMA QuietTalk ==
    ASSUME IInv', \A i \in DOMAIN toPage' : ~Live(toPage[i])', active' # 0 /\ job'.posted => Speaking(job)'
    PROVE  \E st : Talk(st)'
<1>1. PICK N : N = Len(toPage')
    OBVIOUS
<1>2. N \in Nat /\ DOMAIN toPage' = 1 .. N /\ job' \in JobRecords
    <2>1. toPage' \in Seq(Messages) /\ job' \in JobRecords
        BY DEF IInv, TypeInv, MessageTypes, JobTypes, Messages, JobRecords
    <2> QED
        BY <1>1, <2>1
<1>3. PICK st : st = [i \in 0 .. N |-> job']
    OBVIOUS
<1>4. st \in [0 .. N -> JobRecords] /\ st[0] = job' /\ st[N] = job'
      /\ \A i \in 1 .. N : st[i - 1] = job' /\ st[i] = job'
    BY <1>2, <1>3
<1>5. ASSUME NEW i \in 1 .. N
      PROVE  Heard(st[i - 1], toPage[i], st[i])'
    <2>1. ~Live(toPage[i])' /\ st[i - 1] = st[i]
        BY <1>2, <1>4
    <2> QED
        BY <2>1 DEF Heard
<1>6. active' # 0 /\ job'.posted => Speaking(st[N])'
    BY <1>4 DEF Speaking
<1>7. Talk(st)'
    BY <1>1, <1>4, <1>5, <1>6 DEF Talk, JobRecords
<1> QED
    BY <1>7

\* Nothing changes that the conversation depends on.
SameTalk == UNCHANGED <<active, binding, toWorker, worker, request>>

LEMMA SameHeard ==
    ASSUME SameTalk, NEW s, NEW m, NEW t
    PROVE  Heard(s, m, t)' <=> Heard(s, m, t)
BY DEF SameTalk, Heard, Live

LEMMA SameSpeaking ==
    ASSUME SameTalk, NEW s
    PROVE  Speaking(s)' <=> Speaking(s)
BY DEF SameTalk, Speaking, AtRest, Asked

\* The first message is taken.
LEMMA TailTalk ==
    ASSUME IInv, NEW st, Talk(st), toPage # <<>>, toPage' = Tail(toPage), SameTalk,
           job' = st[1], job'.posted = job.posted
    PROVE  \E n : Talk(n)'
<1>1. PICK N : N = Len(toPage)
    OBVIOUS
<1>2. N \in Nat \ {0} /\ Len(toPage') = N - 1 /\ \A i \in 1 .. N - 1 : toPage'[i] = toPage[i + 1]
    BY <1>1, Lengths
<1>3. PICK n : n = [i \in 0 .. N - 1 |-> st[i + 1]]
    OBVIOUS
<1>4. st \in [0 .. N -> JobRecords] /\ \A i \in 1 .. N : Heard(st[i - 1], toPage[i], st[i])
    BY <1>1 DEF Talk
<1>5. /\ n \in [0 .. N - 1 -> JobRecords] /\ n[0] = st[1] /\ n[N - 1] = st[N]
      /\ \A i \in 1 .. N - 1 : n[i - 1] = st[i] /\ n[i] = st[i + 1]
    BY <1>2, <1>3, <1>4
<1>6. ASSUME NEW i \in 1 .. N - 1
      PROVE  Heard(n[i - 1], toPage[i], n[i])'
    <2>1. PICK m : m = toPage[i + 1]
        OBVIOUS
    <2>2. i + 1 \in 1 .. N /\ (i + 1) - 1 = i
        BY <1>2
    <2>3. Heard(st[i], m, st[i + 1])
        BY <1>4, <2>1, <2>2
    <2>4. Heard(st[i], m, st[i + 1])'
        BY <2>3, SameHeard
    <2>5. toPage'[i] = m /\ n[i - 1] = st[i] /\ n[i] = st[i + 1]
        BY <1>2, <1>5, <2>1
    <2> QED
        BY <2>4, <2>5 DEF Heard, Live
<1>7. active' # 0 /\ job'.posted => Speaking(n[N - 1])'
    <2>1. active # 0 /\ job.posted => Speaking(st[N])
        BY <1>1 DEF Talk
    <2>2. active' = active
        BY DEF SameTalk
    <2> QED
        BY <1>5, <2>1, <2>2, SameSpeaking DEF Speaking
<1>8. Talk(n)'
    BY <1>2, <1>5, <1>6, <1>7 DEF Talk, JobRecords
<1> QED
    BY <1>8

\* Nothing is posted or taken.
LEMMA KeptTalk ==
    ASSUME NEW st, Talk(st), UNCHANGED <<active, binding, request, toPage, job>>,
           NEW s, s = st[Len(toPage)], active # 0 /\ job.posted /\ Speaking(s) => Speaking(s)'
    PROVE  \E n : Talk(n)'
<1>0. PICK N : N = Len(toPage) /\ s = st[N]
    OBVIOUS
<1>1. ASSUME NEW i \in 1 .. N
      PROVE  Heard(st[i - 1], toPage[i], st[i])'
    <2>1. PICK m : m = toPage[i]
        OBVIOUS
    <2>2. Heard(st[i - 1], m, st[i])
        BY <1>0, <2>1 DEF Talk
    <2> QED
        BY <2>1, <2>2 DEF Heard, Live
<1>2. active' # 0 /\ job'.posted => Speaking(s)'
    BY <1>0 DEF Talk
<1>3. Len(toPage') = N /\ st[N] = s
    BY <1>0
<1>4. active' # 0 /\ job'.posted => Speaking(st[N])'
    BY <1>2, <1>3 DEF Speaking
<1>5. st \in [0 .. N -> JobRecords] /\ st[0] = job'
    BY <1>0 DEF Talk
<1>6. Talk(st)'
    BY <1>1, <1>3, <1>4, <1>5 DEF Talk, JobRecords
<1> QED
    BY <1>6

\* A message is posted that the client will accept.
LEMMA AppendTalk ==
    ASSUME IInv, NEW st, Talk(st), NEW m \in Messages, toPage' = Append(toPage, m),
           UNCHANGED <<active, binding, request, job>>, Live(m),
           NEW s, s = st[Len(toPage)], NEW t, t = Noted(s, m),
           Accepts(s, request[active], m), Speaking(t)'
    PROVE  \E n : Talk(n)'
<1>1. PICK N : N = Len(toPage) /\ s = st[N] /\ t = Noted(s, m)
    OBVIOUS
<1>2. N \in Nat /\ Len(toPage') = N + 1 /\ toPage'[N + 1] = m /\ \A i \in 1 .. N : toPage'[i] = toPage[i]
    BY <1>1, Longer
<1>3. PICK n : n = [i \in 0 .. N + 1 |-> IF i = N + 1 THEN t ELSE st[i]]
    OBVIOUS
<1>4. st \in [0 .. N -> JobRecords] /\ \A i \in 1 .. N : Heard(st[i - 1], toPage[i], st[i])
    BY <1>1 DEF Talk
<1>5. s \in JobRecords /\ t \in JobRecords
    <2>1. s \in JobRecords
        BY <1>1, <1>2, <1>4
    <2> QED
        BY <1>1, <2>1, NotedRecord
<1>6. /\ n \in [0 .. N + 1 -> JobRecords] /\ n[0] = st[0] /\ n[N + 1] = t /\ n[N] = s
      /\ \A i \in 1 .. N : n[i - 1] = st[i - 1] /\ n[i] = st[i]
    <2>1. N + 1 \in 0 .. N + 1 /\ N \in 0 .. N + 1 /\ N # N + 1 /\ 0 # N + 1 /\ 0 \in 0 .. N + 1
        BY <1>2
    <2>2. n \in [0 .. N + 1 -> JobRecords]
        BY <1>2, <1>3, <1>4, <1>5
    <2>3. \A i \in 1 .. N : i \in 0 .. N + 1 /\ i - 1 \in 0 .. N + 1 /\ i # N + 1 /\ i - 1 # N + 1
        BY <1>2
    <2> QED
        BY <1>1, <1>3, <2>1, <2>2, <2>3
<1>7. ASSUME NEW x, NEW y, NEW z, Heard(x, y, z)
      PROVE  Heard(x, y, z)'
    BY <1>7 DEF Heard, Live
<1>8. ASSUME NEW i \in 1 .. N + 1
      PROVE  Heard(n[i - 1], toPage[i], n[i])'
    <2>1. CASE i = N + 1
        <3>1. i - 1 = N
            BY <1>2, <2>1
        <3>2. Heard(s, m, t)
            BY <1>1 DEF Heard
        <3>3. Heard(s, m, t)'
            BY <1>7, <3>2
        <3>4. n[i - 1] = s /\ toPage'[i] = m /\ n[i] = t
            BY <1>2, <1>6, <2>1, <3>1
        <3> QED
            BY <3>3, <3>4 DEF Heard, Live
    <2>2. CASE i # N + 1
        <3>1. i \in 1 .. N
            BY <1>2, <2>2
        <3>2. PICK x, y, z : x = st[i - 1] /\ y = toPage[i] /\ z = st[i]
            OBVIOUS
        <3>3. Heard(x, y, z)
            BY <1>4, <3>1, <3>2
        <3>4. Heard(x, y, z)'
            BY <1>7, <3>3
        <3>5. n[i - 1] = x /\ toPage'[i] = y /\ n[i] = z
            BY <1>2, <1>6, <3>1, <3>2
        <3> QED
            BY <3>4, <3>5 DEF Heard, Live
    <2> QED
        BY <2>1, <2>2
<1>9. Speaking(n[N + 1])'
    BY <1>1, <1>6 DEF Speaking
<1>10. st[0] = job
    BY DEF Talk
<1>11. Talk(n)'
    BY <1>2, <1>6, <1>8, <1>9, <1>10 DEF Talk, JobRecords
<1> QED
    BY <1>11

Undamaged == Intact /\ Matched /\ \E st : Talk(st)

LEMMA InitUndamaged == Init => Undamaged
<1> SUFFICES ASSUME Init PROVE Undamaged
    OBVIOUS
<1>1. /\ toPage = <<>> /\ tasks = {} /\ active = 0 /\ job = NewJob /\ NewJob \in JobRecords
    BY NoWork DEF Init
<1>2. Intact /\ Matched
    BY <1>1 DEF Intact, Matched
<1>3. PICK st : st = [i \in 0 .. 0 |-> NewJob]
    OBVIOUS
<1>4. Len(toPage) = 0 /\ st \in [0 .. 0 -> JobRecords] /\ st[0] = NewJob
    BY <1>1, <1>3
<1>5. Talk(st)
    BY <1>1, <1>4 DEF Talk
<1> QED
    BY <1>2, <1>5 DEF Undamaged

\* What is kept of the messages and the tasks is intact.
LEMMA KeptIntact ==
    ASSUME IInv, Intact, Kept, \A t \in tasks' : t.intact
    PROVE  Intact'
<1>1. ASSUME NEW i \in DOMAIN toPage'
      PROVE  toPage'[i].sound = "ok" /\ toPage'[i].kind # "stopped"
    <2>1. PICK k \in DOMAIN toPage : toPage'[i] = toPage[k]
        BY KeptMessages
    <2> QED
        BY <2>1 DEF Intact
<1> QED
    BY <1>1 DEF Intact

LEMMA StartUndamaged ==
    ASSUME IInv, IInv', Undamaged, NEW r \in Requests, NEW aborted \in BOOLEAN, StartJob(r, aborted)
    PROVE  Undamaged'
<1>1. /\ generation' = generation + 1 /\ active' = (IF aborted THEN 0 ELSE generation + 1)
      /\ job' = NewJob /\ UNCHANGED <<tasks, toPage>>
    BY DEF StartJob
<1>2. ~NewJob.posted /\ ~NewJob.drafted
    BY DEF NewJob
<1>3. Intact'
    BY <1>1, KeptIntact DEF Undamaged, Kept, Intact
<1>4. Matched'
    BY <1>1, <1>2 DEF Matched
<1>5. ASSUME NEW i \in DOMAIN toPage'
      PROVE  ~Live(toPage[i])'
    <2>1. toPage[i].gen <= generation /\ toPage[i] \in Messages /\ generation \in Nat
        BY <1>1, Numbers, Lengths
    <2>2. toPage[i].gen # active' \/ active' = 0
        BY <1>1, <2>1 DEF Messages
    <2> QED
        BY <1>1, <2>2 DEF Live
<1>6. \E st : Talk(st)'
    BY <1>1, <1>2, <1>5, QuietTalk
<1> QED
    BY <1>3, <1>4, <1>6 DEF Undamaged

LEMMA EndsUndamaged ==
    ASSUME IInv, IInv', Undamaged, NEW answer, Ends(answer)
    PROVE  Undamaged'
<1>1. Kept /\ tasks' \subseteq tasks /\ active' = 0
    BY DEF Ends, SettleActive, jobVars
<1>2. Intact'
    BY <1>1, KeptIntact DEF Undamaged, Intact
<1>3. Matched' /\ \A i \in DOMAIN toPage' : ~Live(toPage[i])'
    BY <1>1 DEF Matched, Live
<1>4. \E st : Talk(st)'
    BY <1>1, <1>3, QuietTalk
<1> QED
    BY <1>2, <1>3, <1>4 DEF Undamaged

\* The first message, if there is one.
LEMMA HeadTalk ==
    ASSUME IInv, NEW st, Talk(st), toPage # <<>>, NEW m, m = Head(toPage)
    PROVE  /\ 1 \in DOMAIN toPage /\ toPage[1] = m
           /\ IF Live(m) THEN Accepts(job, request[active], m) /\ st[1] = Noted(job, m)
                         ELSE st[1] = job
<1>1. 1 \in 1 .. Len(toPage) /\ 1 \in DOMAIN toPage /\ toPage[1] = m /\ 1 - 1 = 0
    BY Lengths
<1>2. Heard(job, m, st[1])
    BY <1>1 DEF Talk
<1> QED
    BY <1>1, <1>2 DEF Heard

LEMMA WaitsUndamaged ==
    ASSUME IInv, IInv', OwnInv, Undamaged, Waits
    PROVE  Undamaged'
<1>1. UNCHANGED <<active, job, binding, toWorker, worker, request>> /\ Kept /\ tasks' \subseteq tasks
    BY DEF Waits, PageFrame, jobVars, workVars, Kept
<1>2. Intact'
    BY <1>1, KeptIntact DEF Undamaged, Intact
<1>3. Matched'
    <2>1. ASSUME NEW t \in tasks, ~Current(t)
          PROVE  t.gen # active
        BY <2>1 DEF OwnInv, TasksOwn, TaskCurrent, Current
    <2>2. Settled(active)' => Settled(active)
        BY <1>1, <2>1 DEF Settled, Waits
    <2> QED
        BY <1>1, <2>2 DEF Undamaged, Matched
<1>4. PICK st : Talk(st)
    BY DEF Undamaged
<1>5. SameTalk
    BY <1>1 DEF SameTalk
<1>6. CASE toPage' = toPage
    <2>1. PICK s : s = st[Len(toPage)]
        OBVIOUS
    <2>2. \E n : Talk(n)'
        BY <1>1, <1>4, <1>5, <1>6, <2>1, KeptTalk, SameSpeaking
    <2> QED
        BY <1>2, <1>3, <2>2 DEF Undamaged
<1>7. CASE toPage # <<>> /\ Ignored(Head(toPage)) /\ toPage' = Tail(toPage)
    <2>1. PICK m : m = Head(toPage)
        OBVIOUS
    <2>2. 1 \in DOMAIN toPage /\ toPage[1] = m
        BY <1>4, <1>7, <2>1, HeadTalk
    <2>3. m.sound = "ok" /\ m.kind # "stopped"
        BY <2>2 DEF Undamaged, Intact
    <2>4. ~Live(m)
        BY <1>7, <2>1, <2>3 DEF Ignored, Live
    <2>5. job' = st[1]
        BY <1>1, <1>4, <1>7, <2>1, <2>4, HeadTalk
    <2>6. \E n : Talk(n)'
        BY <1>1, <1>4, <1>5, <1>7, <2>5, TailTalk
    <2> QED
        BY <1>2, <1>3, <2>6 DEF Undamaged
<1> QED
    BY <1>6, <1>7 DEF Waits

LEMMA NewJobFields ==
    /\ ~NewJob.posted /\ ~NewJob.terminal /\ ~NewJob.drafted
    /\ NewJob.phase = 0 /\ NewJob.level = 0 /\ NewJob.diagnostics = 0
BY DEF NewJob

LEMMA PostsUndamaged ==
    ASSUME IInv, IInv', OwnInv, Undamaged, Posts
    PROVE  Undamaged'
<1>1. /\ active # 0 /\ active' = active /\ UNCHANGED <<worker, toPage, tasks>>
      /\ job' = [job EXCEPT !.posted = TRUE] /\ toWorker' = Append(toWorker, active)
      /\ binding' = IF binding = 0 THEN workers + 1 ELSE binding
    BY DEF Posts
<1>2. AtRest /\ ~job.posted /\ workers \in Nat /\ binding \in Nat
    BY PreparingAtRest DEF Posts, IInv, TypeInv, PageTypes, WorkTypes
<1>3. job = NewJob
    BY <1>2 DEF OwnInv, Answered
<1>4. /\ ~job'.terminal /\ ~job'.drafted /\ job'.phase = 0 /\ job'.level = 0
      /\ job'.diagnostics = 0
    BY <1>1, <1>3, NewJobFields, NoWork DEF JobRecords
<1>5. Intact' /\ Matched'
    BY <1>1, <1>4, KeptIntact DEF Undamaged, Kept, Intact, Matched
<1>6. ASSUME NEW i \in DOMAIN toPage'
      PROVE  ~Live(toPage[i])'
    <2>1. MessageInTurn(toPage[i])
        BY <1>1 DEF IInv, Turns, MessagesInTurn
    <2>2. ~Live(toPage[i]) /\ toPage[i].worker <= workers /\ toPage[i].worker # workers + 1
        BY <1>2, <2>1 DEF MessageInTurn
    <2> QED
        BY <1>1, <2>2 DEF Live
<1>7. Speaking(job)'
    <2>1. toWorker' # <<>> /\ worker'.pc \in Rest
        BY <1>1, <1>2 DEF AtRest
    <2>2. At(job, 0, 0)'
        BY <1>4 DEF At
    <2> QED
        BY <1>4, <2>1, <2>2 DEF Speaking, Rest
<1>8. \E st : Talk(st)'
    BY <1>6, <1>7, QuietTalk
<1> QED
    BY <1>5, <1>8 DEF Undamaged

LEMMA NotesUndamaged ==
    ASSUME IInv, IInv', Undamaged, Notes
    PROVE  Undamaged'
<1>1. PICK m : m = Head(toPage)
    OBVIOUS
<1>2. /\ UNCHANGED <<active, binding, toWorker, worker, request>> /\ toPage # <<>>
      /\ toPage' = Tail(toPage) /\ Kept /\ job' = Noted(job, m)
    BY <1>1 DEF Notes, PageFrame, workVars, Kept
<1>3. /\ Live(m) /\ job.posted /\ job'.posted /\ job'.verified = job.verified
      /\ job'.drafted = (job.drafted \/ m.kind = "draft")
    BY <1>1, NotedMessage DEF Notes
<1>4. PICK st : Talk(st)
    BY DEF Undamaged
<1>5. 1 \in DOMAIN toPage /\ toPage[1] = m /\ st[1] = job'
    BY <1>1, <1>2, <1>3, <1>4, HeadTalk
<1>6. \E n : Talk(n)'
    BY <1>2, <1>3, <1>4, <1>5, TailTalk DEF SameTalk
<1>7. m.sound = "ok"
    BY <1>5 DEF Undamaged, Intact
<1>8. PICK stage : /\ \/ m.kind # "draft" /\ tasks' = tasks
                      \/ tasks' = tasks \cup {Verification(m, stage)}
                   /\ m.kind = "draft" => tasks' = tasks \cup {Verification(m, "draft")}
    BY <1>1 DEF Notes
<1>9. Intact'
    <2>1. \A x : Verification(m, x).intact
        BY <1>7 DEF Verification
    <2> QED
        BY <1>2, <1>8, <2>1, KeptIntact DEF Undamaged, Intact
<1>10. Matched'
    <2>1. CASE m.kind = "draft"
        <3>1. PICK d : d = Verification(m, "draft")
            OBVIOUS
        <3>2. d.stage = "draft" /\ d.gen = active' /\ d \in tasks'
            BY <1>2, <1>3, <1>8, <2>1, <3>1 DEF Verification, Live
        <3> QED
            BY <3>2 DEF Matched, Settled
    <2>2. CASE m.kind # "draft"
        <3>1. Settled(active)' => Settled(active)
            BY <1>2, <1>8 DEF Settled
        <3> QED
            BY <1>2, <1>3, <2>2, <3>1 DEF Undamaged, Matched
    <2> QED
        BY <2>1, <2>2
<1> QED
    BY <1>6, <1>9, <1>10 DEF Undamaged

\* The draft that a job has shown is nothing that it accepts messages by.
Showing(s, doc) == [s EXCEPT !.verified = doc]

LEMMA ShowingFields ==
    ASSUME NEW s \in JobRecords, NEW doc \in Docs \cup {NoDoc}
    PROVE  /\ Showing(s, doc) \in JobRecords
           /\ Showing(s, doc).phase = s.phase /\ Showing(s, doc).level = s.level
           /\ Showing(s, doc).diagnostics = s.diagnostics /\ Showing(s, doc).posted = s.posted
           /\ Showing(s, doc).drafted = s.drafted /\ Showing(s, doc).terminal = s.terminal
           /\ Showing(s, doc).verified = doc
BY DEF Showing, JobRecords

LEMMA ShowingHeard ==
    ASSUME NEW s \in JobRecords, NEW t \in JobRecords, NEW m \in Messages, NEW doc \in Docs \cup {NoDoc},
           Heard(s, m, t)
    PROVE  Heard(Showing(s, doc), m, Showing(t, doc))
<1>1. PICK u, v : u = Showing(s, doc) /\ v = Showing(t, doc)
    OBVIOUS
<1>2. /\ u.phase = s.phase /\ u.level = s.level /\ u.diagnostics = s.diagnostics
      /\ u.drafted = s.drafted /\ u.terminal = s.terminal
    BY <1>1, ShowingFields
<1>3. CASE Live(m)
    <2>1. Accepts(s, request[active], m) /\ t = Noted(s, m)
        BY <1>3 DEF Heard
    <2>2. Accepts(u, request[active], m)
        BY <1>2, <2>1 DEF Accepts
    <2>3. v = Noted(u, m)
        BY <1>1, <2>1 DEF Noted, Showing, JobRecords
    <2> QED
        BY <1>1, <1>3, <2>2, <2>3 DEF Heard
<1>4. CASE ~Live(m)
    BY <1>4 DEF Heard
<1> QED
    BY <1>3, <1>4

LEMMA ShowsUndamaged ==
    ASSUME IInv, IInv', OwnInv, Undamaged, tampered = {}, NEW t \in tasks, Shows(t)
    PROVE  Undamaged'
<1>1. /\ UNCHANGED <<active, binding, toWorker, worker, request, toPage>>
      /\ t.stage = "draft" /\ t.gen = active /\ tasks' = tasks \ {t}
      /\ job' = Showing(job, t.doc)
    BY DEF Shows, Current, workVars, Showing
<1>2. PICK doc : doc = t.doc
    OBVIOUS
<1>3. doc \in Docs \cup {NoDoc} /\ job \in JobRecords /\ t.gen \in Gens /\ active # 0
    BY <1>1, <1>2, Numbers DEF Tasks, IInv, TypeInv, JobTypes
<1>4. doc = request[active].doc
    BY <1>1, <1>2 DEF OwnInv, TasksOwn, TaskOwn
<1>5. Intact'
    BY <1>1, KeptIntact DEF Undamaged, Intact, Kept
<1>6. Matched'
    BY <1>1, <1>2, <1>3, <1>4, ShowingFields DEF Matched
<1>7. PICK st, N, s : Talk(st) /\ N = Len(toPage) /\ s = st[N]
    BY DEF Undamaged
<1>8. /\ N \in Nat /\ st \in [0 .. N -> JobRecords] /\ st[0] = job
      /\ \A i \in 1 .. N : Heard(st[i - 1], toPage[i], st[i])
    BY <1>7, Lengths DEF Talk
<1>9. PICK n : n = [i \in 0 .. N |-> Showing(st[i], doc)]
    OBVIOUS
<1>10. /\ \A i \in 0 .. N : n[i] = Showing(st[i], doc)
       /\ n[0] = job'
    BY <1>1, <1>2, <1>8, <1>9
<1>11. n \in [0 .. N -> JobRecords]
    BY <1>3, <1>8, <1>9, ShowingFields
<1>12. ASSUME NEW i \in 1 .. N
       PROVE  Heard(n[i - 1], toPage[i], n[i])'
    <2>1. PICK m, x, y : m = toPage[i] /\ x = st[i - 1] /\ y = st[i]
        OBVIOUS
    <2>2. i \in 0 .. N /\ i - 1 \in 0 .. N
        BY <1>8
    <2>3. m \in Messages /\ x \in JobRecords /\ y \in JobRecords
        BY <1>7, <1>8, <2>1, <2>2, Lengths
    <2>4. Heard(Showing(x, doc), m, Showing(y, doc))
        BY <1>3, <1>8, <2>1, <2>3, ShowingHeard
    <2>5. Heard(n[i - 1], toPage[i], n[i])
        BY <1>10, <2>1, <2>2, <2>4
    <2> QED
        BY <1>1, <2>5 DEF Heard, Live
<1>13. active # 0 /\ job'.posted => Speaking(n[N])'
    <2>1. PICK u : u = n[N]
        OBVIOUS
    <2>2. N \in 0 .. N /\ s \in JobRecords /\ u = Showing(s, doc)
        BY <1>7, <1>8, <1>10, <2>1
    <2>3. /\ u.phase = s.phase /\ u.level = s.level /\ u.diagnostics = s.diagnostics
          /\ u.drafted = s.drafted /\ u.terminal = s.terminal
        BY <1>3, <2>2, ShowingFields
    <2>4. Speaking(s) => Speaking(u)
        BY <2>3 DEF Speaking, At
    <2>5. Speaking(u) => Speaking(u)'
        BY <1>1, SameSpeaking DEF SameTalk
    <2>6. active # 0 /\ job.posted => Speaking(s)
        BY <1>7 DEF Talk
    <2>7. job'.posted = job.posted
        BY <1>1, <1>2, <1>3, ShowingFields
    <2>8. active # 0 /\ job'.posted => Speaking(u)'
        BY <2>4, <2>5, <2>6, <2>7
    <2> QED
        BY <2>1, <2>8 DEF Speaking
<1>14. Len(toPage') = N
    BY <1>1, <1>7
<1>15. Talk(n)'
    BY <1>1, <1>10, <1>11, <1>12, <1>13, <1>14 DEF Talk, JobRecords
<1> QED
    BY <1>5, <1>6, <1>15 DEF Undamaged

LEMMA ComparesUndamaged ==
    ASSUME IInv, IInv', Undamaged, NEW t \in tasks, Compares(t)
    PROVE  Undamaged'
<1>1. PICK u : u = [t EXCEPT !.stage = "result"]
    OBVIOUS
<1>2. /\ UNCHANGED <<active, job, binding, toWorker, worker, request, toPage>>
      /\ t.stage = "compare" /\ tasks' = (tasks \ {t}) \cup {u}
    BY <1>1 DEF Compares, PageFrame, jobVars, workVars
<1>3. u.stage = "result" /\ u.intact = t.intact
    BY <1>1, TaskTurn DEF Tasks
<1>4. Intact'
    BY <1>2, <1>3, KeptIntact DEF Undamaged, Intact, Kept
<1>5. Matched'
    <2>1. Settled(active)' => Settled(active)
        BY <1>2 DEF Settled
    <2> QED
        BY <1>2, <2>1 DEF Undamaged, Matched
<1>6. PICK st, s : Talk(st) /\ s = st[Len(toPage)]
    BY DEF Undamaged
<1>7. \E n : Talk(n)'
    BY <1>2, <1>6, KeptTalk, SameSpeaking DEF SameTalk
<1> QED
    BY <1>4, <1>5, <1>7 DEF Undamaged

(***************************************************************************)
(* Every message of the worker fits into the conversation.                 *)
(***************************************************************************)
Fits(s, m) == Accepts(s, request[active], m) /\ Speaking(Noted(s, m))'

LEMMA AtWork ==
    ASSUME IInv, worker.pc \notin Rest, WorkerFrame, worker'.gen = worker.gen
    PROVE  /\ toWorker = <<>> /\ toWorker' = <<>> /\ ~AtRest
           /\ Asked = request[active] /\ Asked' = request[active]
           /\ worker'.pc \in Rest => AtRest'
BY WorkingForActive DEF WorkerFrame, pageVars, Asked, AtRest

LEMMA WorkerIs ==
    IInv => worker = [pc |-> worker.pc, gen |-> worker.gen, doc |-> worker.doc,
                      limits |-> worker.limits, level |-> worker.level, left |-> worker.left]
BY WorkerFields DEF WorkerRecords

LEMMA LastFits ==
    ASSUME IInv, OwnWork, NEW s \in JobRecords, Speaking(s), NEW m \in Messages,
           \/ Throw /\ m.kind = "error"
           \/ PostResult /\ m.kind = "result" /\ m.limits = worker.limits
    PROVE  Fits(s, m)
<1>1. WorkerFrame /\ worker.pc \notin Rest
    BY DEF Throw, PostResult, Rest
<1>2. worker' = [worker EXCEPT !.pc = "done"]
    BY DEF Throw, PostResult
<1>3. worker'.pc = "done" /\ worker'.gen = worker.gen
    BY <1>2, WorkerIs
<1>4. ~s.terminal /\ Asked = request[active] /\ toWorker' = <<>> /\ AtRest'
    BY <1>1, <1>3, AtWork DEF Speaking, Rest
<1>5. Accepts(s, request[active], m)
    <2>1. CASE m.kind = "error"
        BY <1>4, <2>1 DEF Accepts
    <2>2. CASE PostResult /\ m.kind = "result" /\ m.limits = worker.limits
        <3>1. worker.pc \in {"diagnose", "extract"}
            BY <2>2 DEF PostResult
        <3>2. s.phase = FinalPhase(request[active].op)
            BY <1>4, <3>1 DEF Speaking, OwnWork, FinalPhase
        <3>3. request[active].op = "decode-and-analyze" => s.drafted
            BY <1>4, <3>1 DEF Speaking, OwnWork
        <3>4. request[active].op # "extract-model-package" => m.limits = request[active].limits
            BY <1>4, <2>2, <3>1 DEF OwnWork
        <3> QED
            BY <1>4, <2>2, <3>2, <3>3, <3>4 DEF Accepts
    <2> QED
        BY <2>1, <2>2
<1>6. Speaking(Noted(s, m))'
    BY <1>3, <1>4 DEF Speaking
<1> QED
    BY <1>5, <1>6 DEF Fits

\* The first report of an operation.
LEMMA FirstFits ==
    ASSUME IInv, OwnWork, NEW s \in JobRecords, Speaking(s), NEW m \in Messages,
           BeginDecode \/ BeginRepair \/ BeginExtract,
           m.kind = "progress", m.phase = 1, m.level = 1
    PROVE  Fits(s, m)
<1>1. WorkerFrame /\ worker.pc = "begin" /\ worker.pc \notin Rest
    BY DEF BeginDecode, BeginRepair, BeginExtract, Rest
<1>2. worker'.gen = worker.gen /\ worker'.pc \notin Rest /\ worker'.pc \in {"decode", "decoded", "repair", "extract"}
      /\ (worker'.pc = "extract" => worker'.level = 1)
    BY WorkerIs DEF BeginDecode, BeginRepair, BeginExtract, Rest
<1>3. /\ ~s.terminal /\ s.phase = 0 /\ s.level = 0 /\ s.diagnostics = 0 /\ ~s.drafted
      /\ toWorker' = <<>>
    BY <1>1, <1>2, AtWork DEF Speaking, At
<1>4. Accepts(s, request[active], m)
    <2>1. m.phase \in s.phase .. s.phase + 1 /\ m.phase \in 1 .. FinalPhase(request[active].op)
        BY <1>3 DEF FinalPhase
    <2> QED
        BY <1>3, <2>1 DEF Accepts
<1>5. PICK t : t = Noted(s, m)
    OBVIOUS
<1>6. /\ t.phase = 1 /\ t.level = 1 /\ t.diagnostics = 0 /\ ~t.drafted /\ ~t.terminal
    BY <1>3, <1>5, NotedFields
<1>7. Speaking(t)'
    <2>1. At(t, 1, 1)'
        BY <1>6 DEF At
    <2> QED
        BY <1>2, <1>3, <1>6, <2>1 DEF Speaking
<1> QED
    BY <1>4, <1>5, <1>7 DEF Fits

\* The further reports of progress of an import.
LEMMA ReportFits ==
    ASSUME IInv, OwnWork, NEW s \in JobRecords, Speaking(s), NEW m \in Messages, m.kind = "progress",
           \/ ReportDecoded /\ m.phase = 1 /\ m.level = 2
           \/ BeginAnalysis /\ m.phase = 2 /\ m.level = 1
    PROVE  Fits(s, m)
<1>1. WorkerFrame /\ worker.pc \notin Rest /\ worker.pc \in {"decoded", "drafted"}
    BY DEF ReportDecoded, BeginAnalysis, Rest
<1>2. worker'.gen = worker.gen /\ worker'.pc = IF worker.pc = "decoded" THEN "draft" ELSE "analyze"
    BY WorkerIs DEF ReportDecoded, BeginAnalysis
<1>3. /\ ~s.terminal /\ s.phase = 1 /\ s.diagnostics = 0 /\ toWorker' = <<>>
      /\ worker.pc = "decoded" => s.level = 1 /\ ~s.drafted /\ m.phase = 1 /\ m.level = 2
      /\ worker.pc = "drafted" => s.level = 2 /\ s.drafted /\ m.phase = 2 /\ m.level = 1
    BY <1>1, <1>2, AtWork DEF Speaking, At, ReportDecoded, BeginAnalysis
<1>4. request[active].op = "decode-and-analyze"
    BY <1>1, <1>2, AtWork DEF OwnWork
<1>5. Accepts(s, request[active], m)
    <2>1. m.phase \in s.phase .. s.phase + 1 /\ m.phase \in 1 .. FinalPhase(request[active].op)
        BY <1>1, <1>3, <1>4 DEF FinalPhase
    <2> QED
        BY <1>1, <1>3, <2>1 DEF Accepts
<1>6. PICK t : t = Noted(s, m)
    OBVIOUS
<1>7. /\ t.phase = m.phase /\ t.level = m.level /\ t.diagnostics = 0 /\ ~t.terminal
      /\ t.drafted <=> s.drafted
    BY <1>3, <1>6, NotedFields
<1>8. Speaking(t)'
    <2>1. At(t, m.phase, m.level)'
        BY <1>7 DEF At
    <2>2. CASE worker.pc = "decoded"
        BY <1>2, <1>3, <1>7, <2>1, <2>2 DEF Speaking
    <2>3. CASE worker.pc = "drafted"
        BY <1>2, <1>3, <1>7, <2>1, <2>3 DEF Speaking
    <2> QED
        BY <1>1, <2>2, <2>3
<1> QED
    BY <1>5, <1>6, <1>8 DEF Fits

LEMMA DraftFits ==
    ASSUME IInv, OwnWork, NEW s \in JobRecords, Speaking(s), NEW m \in Messages,
           PostDraft, m.kind = "draft"
    PROVE  Fits(s, m)
<1>1. WorkerFrame /\ worker.pc \notin Rest /\ worker.pc = "draft"
    BY DEF PostDraft, Rest
<1>2. worker'.gen = worker.gen /\ worker'.pc = "drafted"
    BY WorkerIs DEF PostDraft
<1>3. /\ ~s.terminal /\ s.phase = 1 /\ s.level = 2 /\ s.diagnostics = 0 /\ ~s.drafted
      /\ toWorker' = <<>>
    BY <1>1, <1>2, AtWork DEF Speaking, At
<1>4. request[active].op = "decode-and-analyze"
    BY <1>1, <1>2, AtWork DEF OwnWork
<1>5. Accepts(s, request[active], m)
    BY <1>3, <1>4 DEF Accepts
<1>6. PICK t : t = Noted(s, m)
    OBVIOUS
<1>7. /\ t.phase = 1 /\ t.level = 2 /\ t.diagnostics = 0 /\ t.drafted /\ ~t.terminal
    BY <1>3, <1>6, NotedFields
<1>8. Speaking(t)'
    <2>1. At(t, 1, 2)'
        BY <1>7 DEF At
    <2> QED
        BY <1>2, <1>3, <1>7, <2>1 DEF Speaking
<1> QED
    BY <1>5, <1>6, <1>8 DEF Fits

\* The report that an analysis or a repair is done.
LEMMA DoneFits ==
    ASSUME IInv, OwnWork, NEW s \in JobRecords, Speaking(s), NEW m \in Messages, m.kind = "progress",
           m.level = 2, \/ Analyze /\ m.phase = 2
                        \/ Repair /\ m.phase = 1
    PROVE  Fits(s, m)
<1>1. WorkerFrame /\ worker.pc \notin Rest /\ worker.pc \in {"analyze", "repair"}
    BY DEF Analyze, Repair, Rest
<1>2. /\ worker'.gen = worker.gen /\ worker'.pc = "diagnose" /\ worker'.left \in 0 .. MaxDiagnostics
    <2>1. \E n \in Found : \E doc, limits :
              worker' = [worker EXCEPT !.pc = "diagnose", !.doc = doc, !.limits = limits,
                                       !.left = BoundedDiagnostics(n)]
        <3>1. CASE Analyze
            <4>1. PICK n \in Found :
                      worker' = [worker EXCEPT
                          !.pc = "diagnose",
                          !.limits = AnalysisLimits(cache, "analyze", worker.doc, Asked.limits),
                          !.left = BoundedDiagnostics(n)]
                BY <3>1 DEF Analyze
            <4>2. PICK limits : limits = AnalysisLimits(cache, "analyze", worker.doc, Asked.limits)
                OBVIOUS
            <4>3. worker' = [worker EXCEPT !.pc = "diagnose", !.doc = worker.doc, !.limits = limits,
                                           !.left = BoundedDiagnostics(n)]
                BY <4>1, <4>2, WorkerIs
            <4> QED
                BY <4>3
        <3>2. CASE Repair
            <4>1. PICK n \in Found :
                      worker' = [worker EXCEPT !.pc = "diagnose", !.doc = Asked.doc,
                                     !.limits = AnalysisLimits(cache, "repair", Asked.doc, Asked.limits),
                                     !.left = BoundedDiagnostics(n)]
                BY <3>2 DEF Repair
            <4> QED
                BY <4>1
        <3> QED
            BY <3>1, <3>2
    <2>4. PICK n \in Found : \E doc, limits :
              worker' = [worker EXCEPT !.pc = "diagnose", !.doc = doc, !.limits = limits,
                                       !.left = BoundedDiagnostics(n)]
        BY <2>1
    <2>5. PICK doc, limits :
              worker' = [worker EXCEPT !.pc = "diagnose", !.doc = doc, !.limits = limits,
                                       !.left = BoundedDiagnostics(n)]
        BY <2>4
    <2>2. PICK k : k = BoundedDiagnostics(n)
        OBVIOUS
    <2>3. k \in 0 .. MaxDiagnostics
        BY <2>2, Diagnosed
    <2> QED
        BY <2>2, <2>3, <2>5, WorkerIs
<1>3. /\ ~s.terminal /\ s.level = 1 /\ s.diagnostics = 0 /\ toWorker' = <<>>
      /\ worker.pc = "analyze" => s.phase = 2 /\ s.drafted /\ m.phase = 2
      /\ worker.pc = "repair" => s.phase = 1 /\ m.phase = 1
    BY <1>1, <1>2, AtWork DEF Speaking, At, Analyze, Repair
<1>4. /\ m.phase = s.phase /\ s.phase = FinalPhase(request[active].op)
      /\ request[active].op = "decode-and-analyze" => s.drafted
      /\ m.phase = 2 => s.drafted
    BY <1>1, <1>2, <1>3, AtWork DEF OwnWork, FinalPhase
<1>5. Accepts(s, request[active], m)
    <2>1. m.phase \in s.phase .. s.phase + 1 /\ m.phase \in 1 .. FinalPhase(request[active].op)
        BY <1>1, <1>3, <1>4
    <2> QED
        BY <1>3, <1>4, <2>1 DEF Accepts
<1>6. PICK t : t = Noted(s, m)
    OBVIOUS
<1>7. t.phase = s.phase /\ t.diagnostics = 0 /\ ~t.terminal /\ (t.drafted <=> s.drafted)
    BY <1>3, <1>4, <1>6, NotedFields
<1>8. Speaking(t)'
    <2>1. Asked' = request[active]
        BY <1>1, <1>2, AtWork
    <2>2. t.diagnostics + worker'.left <= MaxDiagnostics
        BY <1>2, <1>7, BoundsAssumption
    <2> QED
        BY <1>2, <1>3, <1>4, <1>7, <2>1, <2>2 DEF Speaking
<1> QED
    BY <1>5, <1>6, <1>8 DEF Fits

LEMMA DiagnosticFits ==
    ASSUME IInv, OwnWork, NEW s \in JobRecords, Speaking(s), NEW m \in Messages,
           PostDiagnostic, m.kind = "diagnostic"
    PROVE  Fits(s, m)
<1>1. WorkerFrame /\ worker.pc \notin Rest /\ worker.pc = "diagnose" /\ worker.left > 0
    BY DEF PostDiagnostic, Rest
<1>2. worker'.gen = worker.gen /\ worker'.pc = "diagnose" /\ worker'.left = worker.left - 1
    BY WorkerIs DEF PostDiagnostic
<1>3. /\ ~s.terminal /\ toWorker' = <<>> /\ Asked = request[active] /\ Asked' = request[active]
      /\ s.phase = FinalPhase(request[active].op) /\ s.diagnostics + worker.left <= MaxDiagnostics
      /\ request[active].op = "decode-and-analyze" => s.drafted
    BY <1>1, <1>2, AtWork DEF Speaking
<1>4. s.diagnostics \in Nat /\ worker.left \in Nat /\ MaxDiagnostics \in Nat
    BY WorkerFields, BoundsAssumption DEF JobRecords
<1>5. request[active].op # "extract-model-package"
    BY <1>1, <1>3 DEF OwnWork
<1>6. Accepts(s, request[active], m)
    <2>1. s.diagnostics < MaxDiagnostics
        BY <1>1, <1>3, <1>4
    <2> QED
        BY <1>3, <1>5, <2>1 DEF Accepts
<1>7. PICK t : t = Noted(s, m)
    OBVIOUS
<1>8. t.phase = s.phase /\ t.diagnostics = s.diagnostics + 1 /\ ~t.terminal /\ (t.drafted <=> s.drafted)
    BY <1>3, <1>7, NotedFields
<1>9. Speaking(t)'
    <2>1. t.diagnostics + worker'.left <= MaxDiagnostics
        BY <1>2, <1>3, <1>4, <1>8
    <2> QED
        BY <1>2, <1>3, <1>8, <2>1 DEF Speaking
<1> QED
    BY <1>6, <1>7, <1>9 DEF Fits

LEMMA ExtractedFits ==
    ASSUME IInv, OwnWork, NEW s \in JobRecords, Speaking(s), NEW m \in Messages, ReportExtracted,
           m.kind = "progress", m.phase = 1, m.level = 2
    PROVE  Fits(s, m)
<1>1. WorkerFrame /\ worker.pc \notin Rest /\ worker.pc = "extract" /\ worker.level < 2
    BY DEF ReportExtracted, Rest
<1>2. worker'.gen = worker.gen /\ worker'.pc = "extract" /\ worker'.level = 2
    BY WorkerIs DEF ReportExtracted
<1>3. /\ ~s.terminal /\ toWorker' = <<>> /\ s.phase = 1 /\ s.level < 2
      /\ request[active].op = "extract-model-package"
    BY <1>1, <1>2, AtWork DEF Speaking, OwnWork
<1>4. Accepts(s, request[active], m)
    <2>1. m.phase \in s.phase .. s.phase + 1 /\ m.phase \in 1 .. FinalPhase(request[active].op)
        BY <1>3 DEF FinalPhase
    <2>2. m.level > s.level
        BY <1>3 DEF JobRecords
    <2> QED
        BY <1>3, <2>1, <2>2 DEF Accepts
<1>5. PICK t : t = Noted(s, m)
    OBVIOUS
<1>6. t.phase = 1 /\ t.level = 2 /\ ~t.terminal
    BY <1>3, <1>5, NotedFields
<1>7. Speaking(t)'
    BY <1>2, <1>3, <1>6 DEF Speaking
<1> QED
    BY <1>4, <1>5, <1>7 DEF Fits

\* A message that fits is posted.
LEMMA PostedUndamaged ==
    ASSUME IInv, Undamaged, WorkerFrame, worker.pc \notin Rest, tampered' = {},
           NEW kind \in Kinds \ {"stopped"}, NEW phase \in 0 .. 2, NEW level \in 0 .. 2,
           NEW doc, NEW limits \in Limits \cup {NoLimits},
           Post(worker.gen, kind, phase, level, doc, limits),
           \A s \in JobRecords, m \in Messages :
               /\ Speaking(s) /\ m.kind = kind /\ m.phase = phase /\ m.level = level /\ m.limits = limits
               => Fits(s, m)
    PROVE  Undamaged'
<1>1. PICK m \in Messages :
          /\ Said(m, doc)
          /\ m.worker = binding /\ m.gen = active /\ m.kind = kind
          /\ m.phase = phase /\ m.level = level /\ m.limits = limits
    BY PostSays
<1>2. /\ UNCHANGED <<active, binding, request, job, tasks>> /\ toPage' = Append(toPage, m)
      /\ m.sound = "ok" /\ m.kind # "stopped"
    BY <1>1 DEF Said, WorkerFrame, pageVars, jobVars
<1>3. active # 0 /\ job.posted /\ Live(m)
    BY <1>1, WorkingForActive DEF Live
<1>4. PICK st, s : Talk(st) /\ s = st[Len(toPage)]
    BY DEF Undamaged
<1>5. s \in JobRecords /\ Speaking(s)
    <2>1. Len(toPage) \in 0 .. Len(toPage)
        BY Lengths
    <2> QED
        BY <1>3, <1>4, <2>1 DEF Talk
<1>6. PICK t : t = Noted(s, m)
    OBVIOUS
<1>7. Fits(s, m)
    BY <1>1, <1>5
<1>8. Accepts(s, request[active], m) /\ Speaking(t)'
    BY <1>6, <1>7 DEF Fits
<1>9. \E n : Talk(n)'
    BY <1>2, <1>3, <1>4, <1>6, <1>8, AppendTalk
<1>10. Intact'
    <2>1. ASSUME NEW i \in DOMAIN toPage'
          PROVE  toPage'[i].sound = "ok" /\ toPage'[i].kind # "stopped"
        <3>0. PICK N : N = Len(toPage)
            OBVIOUS
        <3>3. N \in Nat /\ i \in 1 .. N + 1 /\ DOMAIN toPage = 1 .. N
              /\ \A k \in 1 .. N : toPage'[k] = toPage[k]
            BY <1>2, <3>0, Longer
        <3>4. i = N + 1 \/ i \in 1 .. N
            BY <3>3
        <3>1. i = Len(toPage) + 1 \/ (i \in DOMAIN toPage /\ toPage'[i] = toPage[i])
            BY <3>0, <3>3, <3>4
        <3>2. toPage'[Len(toPage) + 1] = m
            BY <1>2, Longer
        <3> QED
            BY <1>2, <3>1, <3>2 DEF Undamaged, Intact
    <2> QED
        BY <1>2, <2>1 DEF Undamaged, Intact
<1>11. Matched'
    BY <1>2 DEF Undamaged, Matched, Settled
<1> QED
    BY <1>9, <1>10, <1>11 DEF Undamaged

LEMMA SilentUndamaged ==
    ASSUME IInv, Undamaged, HandleMessage \/ Decoded \/ Finish, tampered' = {}
    PROVE  Undamaged'
<1>1. HandleMessage => worker.pc \in Rest
    BY DEF HandleMessage, IInv, Turns, WorkIsActive
<1>2. UNCHANGED <<active, binding, request, toPage, job, tasks>>
    BY <1>1 DEF HandleMessage, Decoded, Finish, WorkerFrame, pageVars, jobVars, Rest
<1>3. PICK st, s : Talk(st) /\ s = st[Len(toPage)]
    BY DEF Undamaged
<1>4. ASSUME Speaking(s)
      PROVE  Speaking(s)'
    <2>1. CASE HandleMessage
        <3>1. toWorker # <<>> /\ worker'.pc = "begin"
            BY <1>1, <2>1 DEF HandleMessage, IdleWorker, Rest
        <3>3. toWorker = <<active>> /\ toWorker' = Tail(toWorker)
            BY <2>1, <3>1 DEF HandleMessage, IInv, Turns, WorkIsActive
        <3>2. toWorker' = <<>>
            BY <3>3
        <3> QED
            BY <1>4, <3>1, <3>2 DEF Speaking, At, AtRest
    <2>2. CASE Decoded
        <3>1. worker.pc = "decode" /\ worker'.pc = "decoded" /\ UNCHANGED toWorker
            BY <2>2, WorkerIs DEF Decoded, WorkerFrame
        <3> QED
            BY <1>4, <3>1 DEF Speaking, At, AtRest, Rest
    <2>3. CASE Finish
        <3>1. worker.pc = "done" /\ worker'.pc = "idle" /\ UNCHANGED toWorker
            BY <2>3 DEF Finish, WorkerFrame, IdleWorker
        <3> QED
            BY <1>4, <3>1 DEF Speaking, At, AtRest, Rest
    <2> QED
        BY <2>1, <2>2, <2>3
<1>5. \E n : Talk(n)'
    BY <1>2, <1>3, <1>4, KeptTalk
<1>6. Intact' /\ Matched'
    BY <1>2 DEF Undamaged, Intact, Matched, Settled
<1> QED
    BY <1>5, <1>6 DEF Undamaged

LEMMA WorkerUndamaged ==
    ASSUME IInv, OwnWork, Undamaged, WorkerStep, tampered' = {}
    PROVE  Undamaged'
<1>1. CASE Throw
    <2>1. WorkerFrame /\ worker.pc \notin Rest /\ Post(worker.gen, "error", 0, 0, NoDoc, NoLimits)
        BY <1>1 DEF Throw, Rest
    <2> QED
        BY <1>1, <2>1, LastFits, PostedUndamaged DEF Kinds
<1>2. CASE BeginDecode \/ BeginRepair \/ BeginExtract
    <2>1. WorkerFrame /\ worker.pc \notin Rest /\ Post(worker.gen, "progress", 1, 1, NoDoc, NoLimits)
        BY <1>2 DEF BeginDecode, BeginRepair, BeginExtract, Rest
    <2> QED
        BY <1>2, <2>1, FirstFits, PostedUndamaged DEF Kinds
<1>3. CASE ReportDecoded
    <2>1. WorkerFrame /\ worker.pc \notin Rest /\ Post(worker.gen, "progress", 1, 2, NoDoc, NoLimits)
        BY <1>3 DEF ReportDecoded, Rest
    <2> QED
        BY <1>3, <2>1, ReportFits, PostedUndamaged DEF Kinds
<1>4. CASE BeginAnalysis
    <2>1. WorkerFrame /\ worker.pc \notin Rest /\ Post(worker.gen, "progress", 2, 1, NoDoc, NoLimits)
        BY <1>4 DEF BeginAnalysis, Rest
    <2> QED
        BY <1>4, <2>1, ReportFits, PostedUndamaged DEF Kinds
<1>5. CASE PostDraft
    <2>1. WorkerFrame /\ worker.pc \notin Rest /\ Post(worker.gen, "draft", 0, 0, worker.doc, NoLimits)
        BY <1>5 DEF PostDraft, Rest
    <2> QED
        BY <1>5, <2>1, DraftFits, PostedUndamaged DEF Kinds
<1>6. CASE Analyze
    <2>1. WorkerFrame /\ worker.pc \notin Rest /\ Post(worker.gen, "progress", 2, 2, NoDoc, NoLimits)
        BY <1>6 DEF Analyze, Rest
    <2> QED
        BY <1>6, <2>1, DoneFits, PostedUndamaged DEF Kinds
<1>7. CASE Repair
    <2>1. WorkerFrame /\ worker.pc \notin Rest /\ Post(worker.gen, "progress", 1, 2, NoDoc, NoLimits)
        BY <1>7 DEF Repair, Rest
    <2> QED
        BY <1>7, <2>1, DoneFits, PostedUndamaged DEF Kinds
<1>8. CASE PostDiagnostic
    <2>1. WorkerFrame /\ worker.pc \notin Rest /\ Post(worker.gen, "diagnostic", 0, 0, NoDoc, NoLimits)
        BY <1>8 DEF PostDiagnostic, Rest
    <2> QED
        BY <1>8, <2>1, DiagnosticFits, PostedUndamaged DEF Kinds
<1>9. CASE ReportExtracted
    <2>1. WorkerFrame /\ worker.pc \notin Rest /\ Post(worker.gen, "progress", 1, 2, NoDoc, NoLimits)
        BY <1>9 DEF ReportExtracted, Rest
    <2> QED
        BY <1>9, <2>1, ExtractedFits, PostedUndamaged DEF Kinds
<1>10. CASE PostResult
    <2>1. WorkerFrame /\ worker.pc \notin Rest /\ Post(worker.gen, "result", 0, 0, worker.doc, worker.limits)
        BY <1>10 DEF PostResult, Rest
    <2>2. worker.limits \in Limits \cup {NoLimits}
        BY WorkerFields
    <2> QED
        BY <1>10, <2>1, <2>2, LastFits, PostedUndamaged DEF Kinds
<1>11. CASE HandleMessage \/ Decoded \/ Finish
    BY <1>11, SilentUndamaged
<1> QED
    BY <1>1, <1>2, <1>3, <1>4, <1>5, <1>6, <1>7, <1>8, <1>9, <1>10, <1>11 DEF WorkerStep

LEMMA PageUndamaged ==
    ASSUME IInv, IInv', OwnInv, Undamaged, tampered = {}, Caller \/ PageTask
    PROVE  Undamaged'
<1>1. CASE Started
    BY <1>1, StartUndamaged DEF Started
<1>2. CASE \E answer : Ends(answer)
    BY <1>2, EndsUndamaged
<1>3. CASE \E t \in tasks : Shows(t) \/ Compares(t)
    BY <1>3, ShowsUndamaged, ComparesUndamaged
<1> QED
    BY <1>1, <1>2, <1>3, PageShapes, WaitsUndamaged, PostsUndamaged, NotesUndamaged

LEMMA TamperedStays ==
    ASSUME IInv, OwnWork, Next
    PROVE  tampered \subseteq tampered' /\ (Stop => tampered' # {})
<1>1. CASE Caller \/ PageTask
    <2>1. Started => tampered' = tampered
        BY DEF Started, StartJob
    <2>2. \A answer : Ends(answer) => tampered' = tampered
        BY DEF Ends, PageFrame
    <2>3. Waits \/ Posts \/ Notes => tampered' = tampered
        BY DEF Waits, Posts, Notes, PageFrame
    <2>4. \A t : Shows(t) \/ Compares(t) => tampered' = tampered
        BY DEF Shows, Compares, PageFrame
    <2>5. ~Stop \/ tampered' # {}
        BY DEF Stop
    <2> QED
        BY <1>1, <2>1, <2>2, <2>3, <2>4, <2>5, PageShapes
<1>2. CASE WorkerStep
    <2>1. ~Stop \/ tampered' # {}
        BY DEF Stop
    <2>2. \A m, doc : Speaks(m, doc) => tampered \subseteq tampered'
        BY DEF Speaks, Said
    <2>3. Silent => tampered' = tampered
        BY DEF Silent
    <2> QED
        BY <1>2, <2>1, <2>2, <2>3, WorkerShapes
<1>3. CASE Stop
    BY <1>3 DEF Stop
<1> QED
    BY <1>1, <1>2, <1>3 DEF Next

UndamagedInv == tampered = {} => Undamaged

LEMMA NextUndamaged ==
    ASSUME IInv, IInv', OwnWork, OwnInv, UndamagedInv, [Next]_vars
    PROVE  UndamagedInv'
<1>1. CASE UNCHANGED vars
    <2> SUFFICES ASSUME Undamaged PROVE Undamaged'
        BY <1>1 DEF UndamagedInv, vars
    <2>1. UNCHANGED <<active, binding, request, toPage, job, tasks, toWorker, worker>>
        BY <1>1 DEF vars, pageVars, jobVars, workVars
    <2>2. PICK st, s : Talk(st) /\ s = st[Len(toPage)]
        BY DEF Undamaged
    <2>3. \E n : Talk(n)'
        BY <2>1, <2>2, KeptTalk, SameSpeaking DEF SameTalk
    <2>4. Intact' /\ Matched'
        BY <2>1 DEF Undamaged, Intact, Matched, Settled
    <2> QED
        BY <2>3, <2>4 DEF Undamaged
<1>2. CASE Next
    <2> SUFFICES ASSUME tampered' = {} PROVE Undamaged'
        BY DEF UndamagedInv
    <2>1. tampered = {} /\ Undamaged /\ ~Stop
        BY <1>2, TamperedStays DEF UndamagedInv
    <2> QED
        BY <1>2, <2>1, PageUndamaged, WorkerUndamaged DEF Next
<1> QED
    BY <1>1, <1>2

(***************************************************************************)
(* Rejections.                                                             *)
(***************************************************************************)
LEMMA RejectsDamaged ==
    ASSUME IInv, OwnInv, UndamagedInv, Rejects
    PROVE  tampered # {}
<1> SUFFICES ASSUME tampered = {} PROVE FALSE
    OBVIOUS
<1>1. Undamaged
    BY DEF UndamagedInv
<1>2. PICK st : Talk(st)
    BY <1>1 DEF Undamaged
<1>3. CASE /\ toPage # <<>>
           /\ ~Ignored(Head(toPage)) /\ Head(toPage).kind # "stopped" /\ Head(toPage).sound # "unreadable"
           /\ Unacceptable(Head(toPage))
    <2>1. PICK m : m = Head(toPage)
        OBVIOUS
    <2>2. 1 \in DOMAIN toPage /\ toPage[1] = m /\ (Live(m) => Accepts(job, request[active], m))
        BY <1>2, <1>3, <2>1, HeadTalk
    <2>3. m.sound = "ok"
        BY <1>1, <2>2 DEF Undamaged, Intact
    <2>4. Live(m)
        BY <1>3, <2>1, <2>3 DEF Ignored, Live
    <2> QED
        BY <1>3, <2>1, <2>2, <2>3, <2>4 DEF Unacceptable
<1>4. CASE \E t \in tasks : Current(t) /\ t.stage # "compare" /\ ~t.intact
    BY <1>1, <1>4 DEF Undamaged, Intact
<1>5. ASSUME NEW t \in tasks, Current(t), t.stage = "compare", DraftSettled(t), job.verified # t.doc
      PROVE  FALSE
    <2>1. t.gen = active /\ active # 0
        BY <1>5, Numbers DEF Current
    <2>2. TaskOwn(t) /\ TaskCurrent(t)
        BY DEF OwnInv, TasksOwn
    <2>3. t.doc = request[active].doc /\ job.drafted
        BY <1>5, <2>1, <2>2 DEF TaskOwn, TaskCurrent
    <2>4. Settled(active)
        BY <1>5, <2>1 DEF DraftSettled, Settled
    <2> QED
        BY <1>1, <1>5, <2>1, <2>3, <2>4 DEF Undamaged, Matched
<1> QED
    BY <1>3, <1>4, <1>5 DEF Rejects

LEMMA NextRejected ==
    ASSUME IInv, OwnWork, OwnInv, UndamagedInv, RejectedOnlyDamaged, [Next]_vars
    PROVE  RejectedOnlyDamaged'
<1>1. tampered \subseteq tampered'
    BY TamperedStays DEF vars
<1>2. ASSUME NEW g \in Gens, outcome'[g].kind = "rejected", outcome'[g] # outcome[g]
      PROVE  \E h \in tampered : h <= g
    <2>1. outcome \in [Gens -> AnswerType] /\ outcome' # outcome
        BY <1>2 DEF IInv, TypeInv, JobTypes
    <2>2. ~UNCHANGED vars /\ ~WorkerStep /\ ~Stop
        BY <2>1, WorkerShapes DEF vars, jobVars, WorkFrame, Stop, WorkerFrame
    <2>3. Caller \/ PageTask
        BY <2>2 DEF Next
    <2>4. ~Started
        <3> SUFFICES ASSUME NEW r \in Requests, NEW aborted \in BOOLEAN, StartJob(r, aborted)
                     PROVE  FALSE
            BY DEF Started
        <3> DEFINE first == IF active = 0 THEN outcome ELSE [outcome EXCEPT ![active] = Cancelled]
        <3>1. outcome' = [first EXCEPT ![generation + 1] = IF aborted THEN Cancelled ELSE Pending]
            BY DEF StartJob
        <3>2. first \in [Gens -> {first[x] : x \in Gens}] /\ (first[g] = outcome[g] \/ first[g] = Cancelled)
            BY <2>1
        <3> HIDE DEF first
        <3>3. outcome'[g] \in {outcome[g], Cancelled, Pending}
            BY <3>1, <3>2
        <3> QED
            BY <1>2, <3>3, AnswerKinds
    <2>5. PICK answer : Ends(answer)
        BY <2>1, <2>3, <2>4, PageShapes DEF Waits, Posts, Notes, Shows, Compares, jobVars
    <2>6. active # 0 /\ SettleActive(answer)
        BY <2>1, <2>5 DEF Ends, jobVars
    <2>7. g = active /\ answer.kind = "rejected"
        BY <1>2, <2>1, <2>6 DEF SettleActive
    <2>8. Rejects
        BY <2>5, <2>7, AnswerKinds DEF Ends, Deserved
    <2>9. PICK h \in tampered : TRUE
        BY <2>8, RejectsDamaged
    <2>10. h <= g
        BY <2>6, <2>7, <2>9, Numbers DEF OwnInv, Answered
    <2> QED
        BY <2>10
<1>3. ASSUME NEW g \in Gens, outcome'[g].kind = "rejected"
      PROVE  \E h \in tampered' : h <= g
    BY <1>1, <1>2, <1>3 DEF RejectedOnlyDamaged
<1> QED
    BY <1>3 DEF RejectedOnlyDamaged

(***************************************************************************)
(* The types of the client, the worker and what is on its way between      *)
(* them.                                                                   *)
(***************************************************************************)
THEOREM TypeCorrect == Spec => []TypeOK
BY Inductive, TypesHold, PTL

(***************************************************************************)
(* The client never gives the worker a request while it is at work for     *)
(* another one, however requests, cancellations, faults and messages are   *)
(* ordered: what is left of an abandoned request is not in the attached    *)
(* worker, and a settled one has been answered by a worker at rest.        *)
(***************************************************************************)
THEOREM WorkerNeverBusy == Spec => []NeverBusy
BY Inductive, TurnsHold, PTL

(***************************************************************************)
(* A request waits exactly while it is the active job of the client:       *)
(* whatever supersedes, cancels, disposes of or fails a job has answered   *)
(* its caller before another one takes its place.                          *)
(***************************************************************************)
THEOREM OnlyActiveWaits == Spec => []OnlyActivePending
<1>1. OwnInv => OnlyActivePending
    BY DEF OwnInv, Answered, OnlyActivePending
<1> QED
    BY <1>1, OwnInductive, PTL

(***************************************************************************)
(* An import answers with the draft that its caller was shown before, and  *)
(* an answer that nothing happened to is about the document and under the  *)
(* limits of its own request, whatever was cached, evicted, cancelled or   *)
(* damaged meanwhile.                                                      *)
(***************************************************************************)
THEOREM AnswersAreOwn == Spec => []AnswerIsOwn
<1>1. OwnInv => AnswerIsOwn
    BY DEF OwnInv
<1> QED
    BY <1>1, OwnInductive, PTL

(***************************************************************************)
(* The client fails a job for an invalid message only if something         *)
(* happened to a message or a worker: what the worker posts is a sequence  *)
(* that the client accepts to its end, at any number of diagnostics and    *)
(* in-flight messages.                                                     *)
(***************************************************************************)
THEOREM OnlyDamagedRejected == Spec => []RejectedOnlyDamaged
<1> DEFINE Base == IInv /\ CacheInv /\ OwnWork /\ OwnInv
           Inv == Base /\ UndamagedInv /\ RejectedOnlyDamaged
<1>1. Init => UndamagedInv /\ RejectedOnlyDamaged
    BY InitUndamaged, AnswerKinds DEF UndamagedInv, Init, RejectedOnlyDamaged
<1>2. Inv /\ Base' /\ [Next]_vars => Inv'
    BY NextUndamaged, NextRejected
<1>3. Spec => []Base
    BY OwnInductive
<1> HIDE DEF Base
<1>4. Init /\ Base => Inv
    BY <1>1
<1>5. Inv => RejectedOnlyDamaged
    OBVIOUS
<1> HIDE DEF Inv
<1> QED
    BY <1>2, <1>3, <1>4, <1>5, PTL DEF Spec

(***************************************************************************)
(* The worker's caches keep within their bounds, and the coordinator       *)
(* accounts for exactly what they hold, for any bounds, entry sizes and    *)
(* order of hits, replacements and evictions across stages.                *)
(***************************************************************************)
THEOREM CachesAccount == Spec => []CacheAccounting
BY WorkInductive, CacheHolds, PTL
=============================================================================
