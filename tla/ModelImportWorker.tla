------------------------- MODULE ModelImportWorker -------------------------
(***************************************************************************)
(* The model import worker and the client that a page uses it through      *)
(* (src/src/toolcraft/runtime/model-import/worker/).                       *)
(*                                                                         *)
(* The client has one request at a time: a newer one cancels it, and once  *)
(* it was posted cancelling terminates the worker, since decoding cannot   *)
(* be interrupted.  The worker runs in a thread of its own and answers     *)
(* with progress, a draft, diagnostics and a result.  The client checks    *)
(* the order of the messages, and the digests of a draft and a result in   *)
(* asynchronous tasks, during which everything may have changed.           *)
(*                                                                         *)
(* An action of the page is one task of its event loop, an action of the   *)
(* worker what it does up to the next message that it posts.  A request    *)
(* names a document; its digest is the document itself.                    *)
(***************************************************************************)
EXTENDS BoundedWorkerCache

CONSTANTS
    MaxJobs,         \* bound: requests of the page
    Requests,        \* [op, doc, limits] that it may make
    SizeOf(_, _),    \* bytes of a stage's cache entry for a document
    MaxDiagnostics,  \* TOOLCRAFT_MODEL_WORKER_MAX_DIAGNOSTICS
    Found,           \* numbers of diagnostics that a document may cause
    Faults,          \* of the page: "start", "post", "snapshot", "inputs"; of the worker: "throw", "stop"
    Tampering,       \* what may happen to a message: "anonymous", "malformed", "unreadable", "corrupt", "other"
    MaxTampered,     \* bound: messages it happens to
    MaxInFlight      \* bound: messages on their way to the page

CONSTANTS NoDoc, NoLimits

Operations == {"decode-and-analyze", "repair", "extract-model-package"}
Docs == {r.doc : r \in Requests}
Limits == {r.limits : r \in Requests}

ASSUME StagesAssumption == Stages = {"decode", "analyze", "repair"}
ASSUME RequestsAssumption ==
    /\ Requests # {} /\ Requests \subseteq [op : Operations, doc : Docs, limits : Limits]
    /\ NoDoc \notin Docs /\ NoLimits \notin Limits
ASSUME SizesAssumption == \A s \in Stages, d \in Docs : SizeOf(s, d) \in Nat
ASSUME BoundsAssumption ==
    /\ MaxJobs \in Nat /\ MaxDiagnostics \in Nat \ {0} /\ Found \subseteq Nat
    /\ MaxTampered \in Nat /\ MaxInFlight \in Nat \ {0}

Gens == 1 .. MaxJobs

VARIABLES
    generation,  \* of the newest request
    request,     \* the request of every generation
    active,      \* generation of activeJob, 0 if there is none
    job,         \* what the client remembers of activeJob
    outcome,     \* how the promise of every request stands
    shown,       \* the draft that onDraft was called with
    preparing,   \* requests whose input is being copied or verified
    tasks,       \* drafts and results being verified
    disposed,
    binding,     \* number of the attached worker, 0 if there is none
    workers,     \* workers started so far
    toWorker,    \* requests posted to the attached worker
    toPage,      \* messages and events on their way to the page
    worker,      \* the attached worker
    cache,       \* and its caches
    tampered     \* generations that a message was tampered with of

pageVars == <<generation, request, shown, preparing, tasks, disposed, workers>>
jobVars  == <<active, job, outcome>>
workVars == <<binding, toWorker, worker, cache>>
vars == <<pageVars, jobVars, workVars, toPage, tampered>>

\* phase: the rank of the last phase plus one; level: the last progress of a phase
NewJob == [posted |-> FALSE, phase |-> 0, level |-> 0, drafted |-> FALSE, terminal |-> FALSE,
           diagnostics |-> 0, verified |-> NoDoc]

IdleWorker == [pc |-> "idle", gen |-> 0, doc |-> NoDoc, limits |-> NoLimits, level |-> 0, left |-> 0]

Answer(kind, doc, limits) == [kind |-> kind, doc |-> doc, limits |-> limits]
Unmade    == Answer("none", NoDoc, NoLimits)
Pending   == Answer("pending", NoDoc, NoLimits)
Cancelled == Answer("cancelled", NoDoc, NoLimits)
Failed    == Answer("error", NoDoc, NoLimits)
Rejected  == Answer("rejected", NoDoc, NoLimits)  \* an error too: model-worker-invalid-message

Init ==
    /\ generation = 0
    /\ request = [g \in Gens |-> CHOOSE r \in Requests : TRUE]
    /\ active = 0
    /\ job = NewJob
    /\ outcome = [g \in Gens |-> Unmade]
    /\ shown = [g \in Gens |-> NoDoc]
    /\ preparing = [g \in Gens |-> "no"]
    /\ tasks = {}
    /\ disposed = FALSE
    /\ binding = 0
    /\ workers = 0
    /\ toWorker = <<>>
    /\ toPage = <<>>
    /\ worker = IdleWorker
    /\ cache = EmptyCache
    /\ tampered = {}

-----------------------------------------------------------------------------
\* The client.

\* The job that has not settled settles.
SettleActive(answer) ==
    /\ outcome' = [outcome EXCEPT ![active] = answer]
    /\ active' = 0
    /\ job' = NewJob

\* The thread ends with its caches and what was posted to it.
TerminateBinding ==
    /\ binding' = 0
    /\ toWorker' = <<>>
    /\ worker' = IdleWorker
    /\ cache' = EmptyCache

\* Mutant: a posted job is cancelled without its worker.
TerminateNever(condition) == UNCHANGED workVars

TerminateIf(condition) ==
    IF condition THEN TerminateBinding ELSE UNCHANGED workVars

CancelActive ==
    /\ TerminateIf(job.posted)
    /\ SettleActive(Cancelled)

\* Mutant: the worker is dropped, and its job forgotten.
FailTransportSilently(answer) == TerminateBinding /\ UNCHANGED jobVars

FailTransport(answer) ==
    /\ TerminateBinding
    /\ IF active = 0 THEN UNCHANGED jobVars ELSE SettleActive(answer)

\* importModel, repair or extractModelPackage with a valid input: the request
\* supersedes the active one; its signal may be aborted already.
StartJob(r, aborted) ==
    LET g == generation + 1
        first == IF active = 0 THEN outcome ELSE [outcome EXCEPT ![active] = Cancelled]
    IN  /\ ~disposed /\ generation < MaxJobs
        /\ generation' = g
        /\ request' = [request EXCEPT ![g] = r]
        /\ TerminateIf(active # 0 /\ job.posted)
        /\ outcome' = [first EXCEPT ![g] = IF aborted THEN Cancelled ELSE Pending]
        /\ active' = IF aborted THEN 0 ELSE g
        /\ job' = NewJob
        /\ preparing' = [preparing EXCEPT ![g] = "snapshot"]
        /\ UNCHANGED <<shown, tasks, disposed, workers, toPage, tampered>>

\* cancel, reset, or the abort of the active request's signal
Cancel ==
    /\ active # 0
    /\ CancelActive
    /\ UNCHANGED <<pageVars, toPage, tampered>>

Dispose ==
    /\ ~disposed
    /\ disposed' = TRUE
    /\ IF active = 0 THEN UNCHANGED jobVars ELSE SettleActive(Cancelled)
    /\ TerminateBinding
    /\ UNCHANGED <<generation, request, shown, preparing, tasks, workers, toPage, tampered>>

\* postJob: the worker is created on demand; it, or the posting, may fail.
PostJob(g) ==
    \/ /\ binding = 0 /\ "start" \in Faults
       /\ SettleActive(Failed)
       /\ UNCHANGED <<workVars, workers>>
    \/ /\ "post" \in Faults
       /\ FailTransport(Failed)
       /\ workers' = IF binding = 0 THEN workers + 1 ELSE workers
    \/ /\ job' = [job EXCEPT !.posted = TRUE]
       /\ binding' = IF binding = 0 THEN workers + 1 ELSE binding
       /\ workers' = IF binding = 0 THEN workers + 1 ELSE workers
       /\ toWorker' = Append(toWorker, g)
       /\ UNCHANGED <<active, outcome, worker, cache>>

FailPrepared ==
    /\ SettleActive(Failed)
    /\ UNCHANGED <<workVars, workers>>

\* A copy that is no longer wanted is dropped; that of a repair is verified next.
SnapshotDone(g) ==
    /\ preparing[g] = "snapshot"
    /\ \/ /\ active # g
          /\ preparing' = [preparing EXCEPT ![g] = "no"]
          /\ UNCHANGED <<jobVars, workVars, workers>>
       \/ /\ active = g /\ "snapshot" \in Faults
          /\ preparing' = [preparing EXCEPT ![g] = "no"]
          /\ FailPrepared
       \/ /\ active = g /\ request[g].op = "repair"
          /\ preparing' = [preparing EXCEPT ![g] = "inputs"]
          /\ UNCHANGED <<jobVars, workVars, workers>>
       \/ /\ active = g /\ request[g].op # "repair"
          /\ preparing' = [preparing EXCEPT ![g] = "no"]
          /\ PostJob(g)
    /\ UNCHANGED <<generation, request, shown, tasks, disposed, toPage, tampered>>

InputsVerified(g) ==
    /\ preparing[g] = "inputs"
    /\ preparing' = [preparing EXCEPT ![g] = "no"]
    /\ \/ /\ active # g
          /\ UNCHANGED <<jobVars, workVars, workers>>
       \/ /\ active = g /\ "inputs" \in Faults
          /\ FailPrepared
       \/ /\ active = g
          /\ PostJob(g)
    /\ UNCHANGED <<generation, request, shown, tasks, disposed, toPage, tampered>>

\* The phases of an operation, from 1; the last one ends with the result.
FinalPhase(op) == IF op = "decode-and-analyze" THEN 2 ELSE 1

\* The lifecycle of a job's responses accepts a message of request r; a result
\* must have been computed under the limits of its request.
Accepts(j, r, m) ==
    LET op == r.op IN
    /\ ~j.terminal
    /\ \/ m.kind = "error"
       \/ /\ m.kind = "progress"
          /\ m.phase \in j.phase .. j.phase + 1 /\ m.phase \in 1 .. FinalPhase(op)
          /\ m.phase = 2 => j.drafted
          /\ m.phase = j.phase => m.level > j.level
       \/ /\ m.kind = "draft"
          /\ op = "decode-and-analyze" /\ ~j.drafted /\ j.phase = 1
       \/ /\ m.kind = "diagnostic"
          /\ op # "extract-model-package"
          /\ j.phase = FinalPhase(op) /\ j.diagnostics < MaxDiagnostics
       \/ /\ m.kind = "result"
          /\ j.phase = FinalPhase(op)
          /\ op = "decode-and-analyze" => j.drafted
          /\ op # "extract-model-package" => m.limits = r.limits

Noted(j, m) ==
    [j EXCEPT !.phase = IF m.kind = "progress" THEN m.phase ELSE @,
              !.level = IF m.kind = "progress" THEN m.level ELSE @,
              !.drafted = @ \/ m.kind = "draft",
              !.diagnostics = IF m.kind = "diagnostic" THEN @ + 1 ELSE @,
              !.terminal = @ \/ m.kind = "result"]

Verification(m, stage) ==
    [stage |-> stage, worker |-> m.worker, gen |-> m.gen, doc |-> m.doc,
     limits |-> m.limits, intact |-> m.sound # "corrupt"]

\* Listeners of a detached worker are gone, and a message of another job is old.
Ignored(m) ==
    \/ m.worker # binding
    \/ m.kind # "stopped" /\ m.sound # "unreadable" /\ active = 0
    \/ m.kind # "stopped" /\ m.sound \notin {"anonymous", "unreadable"} /\ m.gen # active

Unacceptable(m) ==
    m.sound \in {"anonymous", "malformed"} \/ ~Accepts(job, request[active], m)

\* handleResponse, and the listeners of error and messageerror
Receive ==
    /\ toPage # <<>>
    /\ toPage' = Tail(toPage)
    /\ LET m == Head(toPage) IN
       \/ /\ Ignored(m)
          /\ UNCHANGED <<jobVars, workVars, tasks>>
       \/ /\ ~Ignored(m) /\ (m.kind = "stopped" \/ m.sound = "unreadable")
          /\ FailTransport(Failed)
          /\ UNCHANGED tasks
       \/ /\ ~Ignored(m) /\ m.kind # "stopped" /\ m.sound # "unreadable"
          /\ \/ /\ Unacceptable(m)
                /\ FailTransport(Rejected)
                /\ UNCHANGED tasks
             \/ /\ ~Unacceptable(m) /\ m.kind \in {"progress", "diagnostic"}
                /\ job' = Noted(job, m)
                /\ UNCHANGED <<active, outcome, workVars, tasks>>
             \/ /\ ~Unacceptable(m) /\ m.kind = "draft"
                /\ job' = Noted(job, m)
                /\ tasks' = tasks \cup {Verification(m, "draft")}
                /\ UNCHANGED <<active, outcome, workVars>>
             \/ /\ ~Unacceptable(m) /\ m.kind = "error"
                /\ SettleActive(Failed)
                /\ UNCHANGED <<workVars, tasks>>
             \/ /\ ~Unacceptable(m) /\ m.kind = "result"
                /\ job' = Noted(job, m)
                /\ tasks' = tasks \cup {Verification(m,
                       IF request[active].op = "decode-and-analyze" THEN "compare" ELSE "result")}
                /\ UNCHANGED <<active, outcome, workVars>>
    /\ UNCHANGED <<generation, request, shown, preparing, disposed, workers, tampered>>

\* Mutant: only the worker is compared.
CurrentWorker(t) == t.worker = binding /\ active # 0

\* isCurrent of a verification
Current(t) == t.worker = binding /\ t.gen = active

DraftVerified(t) ==
    /\ t \in tasks /\ t.stage = "draft"
    /\ tasks' = tasks \ {t}
    /\ \/ /\ ~Current(t)
          /\ UNCHANGED <<jobVars, workVars, shown>>
       \/ /\ Current(t) /\ t.intact
          /\ job' = [job EXCEPT !.verified = t.doc]
          /\ shown' = [shown EXCEPT ![t.gen] = t.doc]
          /\ UNCHANGED <<active, outcome, workVars>>
       \/ /\ Current(t) /\ ~t.intact
          /\ FailTransport(Rejected)
          /\ UNCHANGED shown
    /\ UNCHANGED <<generation, request, preparing, disposed, workers, toPage, tampered>>

\* The verification of the draft that came before a result has ended.
DraftSettled(t) == ~\E d \in tasks : d.stage = "draft" /\ d.gen = t.gen

\* A result is compared with the verified draft before it is verified itself.
ResultCompared(t) ==
    /\ t \in tasks /\ t.stage = "compare" /\ DraftSettled(t)
    /\ \/ /\ ~Current(t)
          /\ tasks' = tasks \ {t}
          /\ UNCHANGED <<jobVars, workVars>>
       \/ /\ Current(t) /\ job.verified = t.doc
          /\ tasks' = (tasks \ {t}) \cup {[t EXCEPT !.stage = "result"]}
          /\ UNCHANGED <<jobVars, workVars>>
       \/ /\ Current(t) /\ job.verified # t.doc
          /\ tasks' = tasks \ {t}
          /\ FailTransport(Rejected)
    /\ UNCHANGED <<generation, request, shown, preparing, disposed, workers, toPage, tampered>>

ResultVerified(t) ==
    /\ t \in tasks /\ t.stage = "result"
    /\ tasks' = tasks \ {t}
    /\ \/ /\ ~Current(t)
          /\ UNCHANGED <<jobVars, workVars>>
       \/ /\ Current(t) /\ t.intact
          /\ SettleActive(Answer("result", t.doc, t.limits))
          /\ UNCHANGED workVars
       \/ /\ Current(t) /\ ~t.intact
          /\ FailTransport(Rejected)
    /\ UNCHANGED <<generation, request, shown, preparing, disposed, workers, toPage, tampered>>

-----------------------------------------------------------------------------
\* The worker: a step ends with the message it posts.

\* What may become of a message, once per bound.
Soundness(kind) ==
    {"ok"} \cup IF Cardinality(tampered) >= MaxTampered THEN {}
               ELSE IF kind \in {"draft", "result"} THEN Tampering
               ELSE Tampering \ {"corrupt", "other"}

\* options.post for the job of generation g
Post(g, kind, phase, level, doc, limits) ==
    /\ Len(toPage) < MaxInFlight
    /\ \E s \in Soundness(kind), d \in Docs \cup {NoDoc} :
        /\ s = "other" => d \notin {doc, NoDoc}
        /\ s # "other" => d = doc
        /\ toPage' = Append(toPage,
              [worker |-> binding, gen |-> g, kind |-> kind, phase |-> phase, level |-> level,
               doc |-> d, limits |-> limits, sound |-> s])
        /\ tampered' = IF s = "ok" THEN tampered ELSE tampered \cup {g}

WorkerFrame == UNCHANGED <<pageVars, jobVars, binding, toWorker>>

Asked == request[worker.gen]

\* The event loop of the worker handles a request between two tasks, also
\* while a decoder is awaited: then it answers that it is busy.
HandleMessage ==
    /\ binding # 0 /\ toWorker # <<>>
    /\ toWorker' = Tail(toWorker)
    /\ \/ /\ worker.pc = "idle"
          /\ worker' = [IdleWorker EXCEPT !.pc = "begin", !.gen = Head(toWorker)]
          /\ UNCHANGED <<toPage, tampered>>
       \/ /\ worker.pc = "decode"
          /\ Post(Head(toWorker), "error", 0, 0, NoDoc, NoLimits)
          /\ UNCHANGED worker
    /\ UNCHANGED <<pageVars, jobVars, binding, cache>>

\* Every stage may throw; its job ends with an error.
Throw ==
    /\ "throw" \in Faults
    /\ worker.pc \in {"begin", "decode", "decoded", "analyze", "repair", "extract"}
    /\ Post(worker.gen, "error", 0, 0, NoDoc, NoLimits)
    /\ worker' = [worker EXCEPT !.pc = "done"]
    /\ UNCHANGED cache
    /\ WorkerFrame

BeginDecode ==
    /\ worker.pc = "begin" /\ Asked.op = "decode-and-analyze"
    /\ Post(worker.gen, "progress", 1, 1, NoDoc, NoLimits)
    /\ cache' = Touch(cache, "decode", Asked.doc)
    /\ worker' = IF Has(cache, "decode", Asked.doc)
                 THEN [worker EXCEPT !.pc = "decoded",
                                     !.doc = EntryAt(cache, "decode", Asked.doc).value]
                 ELSE [worker EXCEPT !.pc = "decode"]
    /\ WorkerFrame

\* adapter.decode answers.
Decoded ==
    /\ worker.pc = "decode"
    /\ cache' = Store(cache, "decode", Asked.doc, SizeOf("decode", Asked.doc), Asked.doc)
    /\ worker' = [worker EXCEPT !.pc = "decoded", !.doc = Asked.doc]
    /\ UNCHANGED <<toPage, tampered>>
    /\ WorkerFrame

ReportDecoded ==
    /\ worker.pc = "decoded"
    /\ Post(worker.gen, "progress", 1, 2, NoDoc, NoLimits)
    /\ worker' = [worker EXCEPT !.pc = "draft"]
    /\ UNCHANGED cache
    /\ WorkerFrame

PostDraft ==
    /\ worker.pc = "draft"
    /\ Post(worker.gen, "draft", 0, 0, worker.doc, NoLimits)
    /\ worker' = [worker EXCEPT !.pc = "drafted"]
    /\ UNCHANGED cache
    /\ WorkerFrame

BeginAnalysis ==
    /\ worker.pc = "drafted"
    /\ Post(worker.gen, "progress", 2, 1, NoDoc, NoLimits)
    /\ worker' = [worker EXCEPT !.pc = "analyze"]
    /\ UNCHANGED cache
    /\ WorkerFrame

\* Mutant: a cached analysis is used under any limits.
UsesAnyLimits(c, stage, doc, limits) == Has(c, stage, doc)

\* The cached analysis of a document is used if it was made under the same
\* limits; else the document is analysed anew and the entry replaced.
UsesLimits(c, stage, doc, limits) ==
    Has(c, stage, doc) /\ EntryAt(c, stage, doc).value = limits

WithAnalysis(c, stage, doc, limits) ==
    IF UsesLimits(c, stage, doc, limits) THEN Touch(c, stage, doc)
    ELSE Store(Touch(c, stage, doc), stage, doc, SizeOf(stage, doc), limits)

AnalysisLimits(c, stage, doc, limits) ==
    IF UsesLimits(c, stage, doc, limits) THEN EntryAt(c, stage, doc).value ELSE limits

\* Diagnostics beyond the protected number are summed up in the last one.
BoundedDiagnostics(n) == IF n > MaxDiagnostics THEN MaxDiagnostics ELSE n

Analyze ==
    /\ worker.pc = "analyze"
    /\ Post(worker.gen, "progress", 2, 2, NoDoc, NoLimits)
    /\ cache' = WithAnalysis(cache, "analyze", worker.doc, Asked.limits)
    /\ \E n \in Found :
          worker' = [worker EXCEPT
                        !.pc = "diagnose",
                        !.limits = AnalysisLimits(cache, "analyze", worker.doc, Asked.limits),
                        !.left = BoundedDiagnostics(n)]
    /\ WorkerFrame

BeginRepair ==
    /\ worker.pc = "begin" /\ Asked.op = "repair"
    /\ Post(worker.gen, "progress", 1, 1, NoDoc, NoLimits)
    /\ worker' = [worker EXCEPT !.pc = "repair"]
    /\ UNCHANGED cache
    /\ WorkerFrame

Repair ==
    /\ worker.pc = "repair"
    /\ Post(worker.gen, "progress", 1, 2, NoDoc, NoLimits)
    /\ cache' = WithAnalysis(cache, "repair", Asked.doc, Asked.limits)
    /\ \E n \in Found :
          worker' = [worker EXCEPT
                        !.pc = "diagnose", !.doc = Asked.doc,
                        !.limits = AnalysisLimits(cache, "repair", Asked.doc, Asked.limits),
                        !.left = BoundedDiagnostics(n)]
    /\ WorkerFrame

PostDiagnostic ==
    /\ worker.pc = "diagnose" /\ worker.left > 0
    /\ Post(worker.gen, "diagnostic", 0, 0, NoDoc, NoLimits)
    /\ worker' = [worker EXCEPT !.left = @ - 1]
    /\ UNCHANGED cache
    /\ WorkerFrame

\* One or two reports of progress come before the files of an archive.
BeginExtract ==
    /\ worker.pc = "begin" /\ Asked.op = "extract-model-package"
    /\ Post(worker.gen, "progress", 1, 1, NoDoc, NoLimits)
    /\ worker' = [worker EXCEPT !.pc = "extract", !.doc = Asked.doc, !.level = 1]
    /\ UNCHANGED cache
    /\ WorkerFrame

ReportExtracted ==
    /\ worker.pc = "extract" /\ worker.level < 2
    /\ Post(worker.gen, "progress", 1, 2, NoDoc, NoLimits)
    /\ worker' = [worker EXCEPT !.level = 2]
    /\ UNCHANGED cache
    /\ WorkerFrame

PostResult ==
    /\ (worker.pc = "diagnose" /\ worker.left = 0) \/ worker.pc = "extract"
    /\ Post(worker.gen, "result", 0, 0, worker.doc, worker.limits)
    /\ worker' = [worker EXCEPT !.pc = "done"]
    /\ UNCHANGED cache
    /\ WorkerFrame

\* The job is over in a microtask of its last step.
Finish ==
    /\ worker.pc = "done"
    /\ worker' = IdleWorker
    /\ UNCHANGED <<cache, toPage, tampered>>
    /\ WorkerFrame

\* The thread dies and the page gets an error event.
Stop ==
    /\ "stop" \in Faults /\ binding # 0 /\ worker.pc # "dead"
    /\ Cardinality(tampered) < MaxTampered
    /\ worker' = [IdleWorker EXCEPT !.pc = "dead"]
    /\ toPage' = Append(toPage, [worker |-> binding, gen |-> 0, kind |-> "stopped", phase |-> 0,
                                 level |-> 0, doc |-> NoDoc, limits |-> NoLimits, sound |-> "ok"])
    /\ tampered' = tampered \cup {generation}
    /\ UNCHANGED cache
    /\ WorkerFrame

-----------------------------------------------------------------------------

PageTask ==
    \/ \E g \in Gens : SnapshotDone(g) \/ InputsVerified(g)
    \/ Receive
    \/ \E t \in tasks : DraftVerified(t) \/ ResultCompared(t) \/ ResultVerified(t)

WorkerStep ==
    \/ HandleMessage \/ Throw \/ Finish
    \/ BeginDecode \/ Decoded \/ ReportDecoded \/ PostDraft \/ BeginAnalysis \/ Analyze
    \/ BeginRepair \/ Repair
    \/ BeginExtract \/ ReportExtracted
    \/ PostDiagnostic \/ PostResult

Caller ==
    \/ \E r \in Requests, aborted \in BOOLEAN : StartJob(r, aborted)
    \/ Cancel
    \/ Dispose

Next == Caller \/ PageTask \/ WorkerStep \/ Stop

Spec == Init /\ [][Next]_vars

\* Every task of the page's event loop is run, and the worker computes: a
\* decoder answers some time.  Nobody has to call, nor to cancel.
Fairness == WF_vars(PageTask) /\ WF_vars(WorkerStep)

FairSpec == Spec /\ Fairness

-----------------------------------------------------------------------------
Jobs == Gens \cup {0}

AnswerType ==
    [kind : {"none", "pending", "cancelled", "error", "rejected", "result"},
     doc : Docs \cup {NoDoc}, limits : Limits \cup {NoLimits}]

\* Types of the variables of the client and the worker.
TypeOK ==
    /\ generation \in Jobs /\ active \in Jobs /\ binding \in Jobs /\ workers \in Jobs
    /\ request \in [Gens -> Requests]
    /\ job \in [posted : BOOLEAN, phase : 0 .. 2, level : 0 .. 2, drafted : BOOLEAN,
               terminal : BOOLEAN, diagnostics : 0 .. MaxDiagnostics, verified : Docs \cup {NoDoc}]
    /\ outcome \in [Gens -> AnswerType]
    /\ shown \in [Gens -> Docs \cup {NoDoc}]
    /\ preparing \in [Gens -> {"no", "snapshot", "inputs"}]
    /\ disposed \in BOOLEAN
    /\ \A i \in DOMAIN toWorker : toWorker[i] \in Gens
    /\ \A t \in tasks : t.stage \in {"draft", "compare", "result"} /\ t.gen \in Gens
    /\ worker.gen \in Jobs /\ worker.left \in 0 .. MaxDiagnostics
    /\ tampered \subseteq Jobs

\* A request waits only for the client's active job: whatever supersedes,
\* cancels, disposes of or fails a job has answered its caller before
\* another one takes its place, or nobody will.
OnlyActivePending ==
    \A g \in Gens : outcome[g].kind = "pending" <=> g = active

\* The client gives the worker a request only when it has nothing to do: it
\* has answered the one before, or it is a new worker since that one was
\* cancelled.  (The answer "model-worker-busy" is never seen.)
NeverBusy ==
    toWorker # <<>> => Len(toWorker) = 1 /\ worker.pc \in {"idle", "done", "dead"}

\* An import answers with the draft that its caller was shown before, and an
\* answer that nothing happened to is about the document and under the
\* limits of its own request, whatever was cached or cancelled meanwhile.
AnswerIsOwn ==
    \A g \in Gens : outcome[g].kind = "result" =>
        /\ request[g].op = "decode-and-analyze" => outcome[g].doc = shown[g]
        /\ request[g].op # "extract-model-package" => outcome[g].limits = request[g].limits
        /\ g \notin tampered => outcome[g].doc = request[g].doc

\* The client fails a job for an invalid message only if messages of its
\* worker were damaged: what the worker posts for a request, with cached
\* documents, analyses under other limits and more diagnostics than allowed,
\* always is a sequence that the client accepts.
RejectedOnlyDamaged ==
    \A g \in Gens : outcome[g].kind = "rejected" => \E h \in tampered : h <= g

\* The caches of the worker stay within their bounds, and the coordinator
\* accounts for exactly what they hold, through hits, replacements, evictions
\* across stages and entries that are too large.
CacheAccounting == CacheConsistent(cache)

\* Every request is answered: by a result, an error or a cancellation,
\* although a worker may die, a message be lost to a decoding error, and a
\* verification fail.  (A decoder that never ends can only be cancelled.)
EveryRequestAnswered ==
    \A g \in Gens : outcome[g].kind = "pending" ~> outcome[g].kind # "pending"
=============================================================================
