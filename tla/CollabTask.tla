----------------------------- MODULE CollabTask -----------------------------
(***************************************************************************)
(* One task of the collaboration service (collab/service.py, store.py):     *)
(* the coordinator's calls, the dispatcher thread, the watcher thread of an *)
(* invocation, the worker CLI, which is a process of its own, and a host    *)
(* that crashes and restarts over the same ledger.                          *)
(*                                                                         *)
(* TaskStore.transition reads the row, tests the edge and writes the new    *)
(* state in a second statement; the actors share nothing but the ledger, so *)
(* anything may happen between the two.  An actor carries out a plan: the   *)
(* states it still has to reach and, in capitals, the calls between them.   *)
(* A refused edge is a ValueError, which ends the plan.                     *)
(*                                                                         *)
(* Left out: the bytes of artifacts, events, the wording of answers, and    *)
(* the read-only calls.  Adapter.cancel only asks the worker to exit, which *)
(* it may do at any time.                                                   *)
(***************************************************************************)
EXTENDS Naturals, Sequences

CONSTANTS
    Manifests     \* the sets of input artifacts a coordinator may declare

VARIABLES
    host,         \* the host process
    state,        \* tasks.state, "absent" before the INSERT
    declared,     \* artifacts of the submitted input manifest
    manifest,     \* the manifest is in the ledger (kv input-manifest)
    offered,      \* artifacts in the ledger ...
    complete,     \* ... those whose files are all verified
    workspace,    \* artifacts unpacked into the workspace
    question,     \* the worker's input request
    plan,         \* what each actor has still to do
    checked,      \* actors between the read and the write of a transition
    invoked,      \* the ledger has an invocation
    submits,      \* how often the adapter was given the task
    watching,     \* a watcher thread observes the invocation
    proc,         \* the worker process of the adapter
    resultFile,   \* result.json
    unread        \* coordinator notes not delivered to the worker

inputs == <<declared, manifest, offered, complete, workspace, question>>
output == <<resultFile, unread>>
invocation == <<invoked, submits, watching, proc>>
actors == <<plan, checked>>
vars == <<host, state, inputs, actors, invocation, output>>

-----------------------------------------------------------------------------
Artifacts == UNION Manifests

Actors == {"rpc", "disp", "watch", "cli"}

Terminal == {"completed", "failed", "rejected", "cancelled", "expired"}

BeforeExecution == {"received", "waiting_inputs", "queued", "waiting_local_operator"}

States == Terminal \union BeforeExecution
    \union {"dispatching", "running", "cancel_requested", "execution_unknown", "export_check"}

\* TRANSITIONS: the edges of the state machine.
Edges ==
    [s \in States |->
        CASE s = "received" -> {"queued", "waiting_inputs", "cancelled", "rejected"}
          [] s = "waiting_inputs" -> {"queued", "cancelled", "expired"}
          [] s = "queued" -> {"dispatching", "cancelled", "expired"}
          [] s = "dispatching" -> {"running", "failed", "queued"}
          [] s = "running" -> {"waiting_local_operator", "cancel_requested",
                               "export_check", "failed", "execution_unknown"}
          [] s = "waiting_local_operator" -> {"running", "cancelled", "failed", "export_check"}
          [] s = "cancel_requested" -> {"cancelled", "execution_unknown", "completed", "failed"}
          [] s = "execution_unknown" -> {"running", "export_check", "failed", "cancelled",
                                         "completed"}
          [] s = "export_check" -> {"completed", "waiting_local_operator", "cancelled", "failed"}
          [] OTHER -> {}]

Calls == {"MANIFEST", "SUBMIT", "WATCH"}

TypeOK ==
    /\ host \in {"down", "starting", "up"}
    /\ state \in States \union {"absent"}
    /\ declared \in Manifests \union {{}}
    /\ manifest \in BOOLEAN
    /\ offered \subseteq declared
    /\ complete \subseteq offered
    /\ workspace \subseteq declared
    /\ question \in {"none", "pending", "answered"}
    /\ plan \in [Actors -> Seq(States \union Calls)]
    /\ checked \subseteq {a \in Actors : plan[a] # <<>> /\ Head(plan[a]) \in States}
    /\ invoked \in BOOLEAN
    /\ submits \in 0..2
    /\ watching \in BOOLEAN
    /\ proc \in {"none", "running", "ok", "fail"}
    /\ resultFile \in {"none", "completed", "failed"}
    /\ unread \in BOOLEAN

Init ==
    /\ host = "up" /\ state = "absent"
    /\ declared = {} /\ manifest = FALSE /\ offered = {} /\ complete = {}
    /\ workspace = {} /\ question = "none"
    /\ plan = [a \in Actors |-> <<>>] /\ checked = {}
    /\ invoked = FALSE /\ submits = 0 /\ watching = FALSE /\ proc = "none"
    /\ resultFile = "none" /\ unread = FALSE

Idle(a) == plan[a] = <<>>

Plan(a, p) == plan' = [plan EXCEPT ![a] = p]

\* The call actor a has come to.
At(a, call) == ~Idle(a) /\ Head(plan[a]) = call

-----------------------------------------------------------------------------
(* TaskStore.transition                                                      *)

\* The read and the test of the edge.  The state already reached is skipped
\* (allow_same); a refused edge raises.
Check(a) ==
    /\ ~Idle(a)
    /\ Head(plan[a]) \in States
    /\ a \notin checked
    /\ LET to == Head(plan[a]) IN
       \/ to = state /\ Plan(a, Tail(plan[a])) /\ checked' = checked
       \/ to # state /\ to \in Edges[state] /\ checked' = checked \union {a} /\ plan' = plan
       \/ to # state /\ to \notin Edges[state] /\ Plan(a, <<>>) /\ checked' = checked
    /\ UNCHANGED <<host, state, inputs, invocation, output>>

\* The UPDATE, which does not look at the state again.
Write(a) ==
    /\ a \in checked
    /\ state' = Head(plan[a])
    /\ Plan(a, Tail(plan[a]))
    /\ checked' = checked \ {a}
    /\ UNCHANGED <<host, inputs, invocation, output>>

-----------------------------------------------------------------------------
(* The coordinator's calls.  Handlers run one at a time on the event loop.   *)

Serving == host = "up" /\ Idle("rpc")

Known == state # "absent"

\* _on_task_submit: the row, then the manifest, then the first transition.
\* A resubmission of the same digest is answered from the row.
TaskSubmit(d) ==
    /\ Serving
    /\ ~Known
    /\ state' = "received"
    /\ declared' = d
    /\ Plan("rpc", IF d = {} THEN <<"queued">> ELSE <<"MANIFEST", "waiting_inputs">>)
    /\ UNCHANGED <<host, manifest, offered, complete, workspace, question, checked,
                   invocation, output>>

RecordManifest ==
    /\ At("rpc", "MANIFEST")
    /\ manifest' = TRUE
    /\ Plan("rpc", Tail(plan["rpc"]))
    /\ UNCHANGED <<host, state, declared, offered, complete, workspace, question, checked,
                   invocation, output>>

\* Mutant: the declared artifacts are not compared with the offered ones.
MutantInputsReady(off, com) ==
    state \in {"received", "waiting_inputs"} /\ off # {} /\ com = off

\* _maybe_inputs_ready, once the ledger holds the artifacts off, com of them
\* complete: without the manifest, what was offered counts as everything.
InputsReady(off, com) ==
    /\ state \in {"received", "waiting_inputs"}
    /\ off # {}
    /\ manifest => declared \subseteq off
    /\ com = off

InputsMayBeReady(off, com) ==
    IF InputsReady(off, com)
    THEN workspace' = off /\ Plan("rpc", <<"queued">>)
    ELSE UNCHANGED <<workspace, plan>>

\* _on_artifact_offer: the same files again keep what was received, others
\* start over.
ArtifactOffer(a, same) ==
    /\ Serving /\ Known
    /\ a \in declared
    /\ same => a \in offered
    /\ offered' = offered \union {a}
    /\ complete' = IF same THEN complete ELSE complete \ {a}
    /\ IF same /\ a \in complete
       THEN InputsMayBeReady(offered, complete)
       ELSE UNCHANGED <<workspace, plan>>
    /\ UNCHANGED <<host, state, declared, manifest, question, checked, invocation, output>>

\* _on_artifact_put: the batch completes the artifact, or leaves it partial or
\* corrupt.
ArtifactPut(a, whole) ==
    /\ Serving /\ Known
    /\ a \in offered
    /\ complete' = IF whole THEN complete \union {a} ELSE complete \ {a}
    /\ IF whole
       THEN InputsMayBeReady(offered, complete')
       ELSE UNCHANGED <<workspace, plan>>
    /\ UNCHANGED <<host, state, declared, manifest, offered, question, checked, invocation,
                   output>>

\* _on_input_submit: the last answer queues a task that waits for inputs.
InputSubmit ==
    /\ Serving
    /\ question # "none"
    /\ question' = "answered"
    /\ IF state = "waiting_inputs" THEN Plan("rpc", <<"queued">>) ELSE plan' = plan
    /\ UNCHANGED <<host, state, declared, manifest, offered, complete, workspace, checked,
                   invocation, output>>

\* _on_agent_note.
AgentNote ==
    /\ Serving /\ Known
    /\ unread' = TRUE
    /\ UNCHANGED <<host, state, inputs, actors, invocation, resultFile>>

\* _on_cancel_request, by the state read first.
CancelRequest ==
    /\ Serving /\ Known
    /\ state \notin Terminal \union {"execution_unknown"}
    /\ Plan("rpc", <<IF state \in BeforeExecution THEN "cancelled" ELSE "cancel_requested">>)
    /\ UNCHANGED <<host, state, inputs, checked, invocation, output>>

-----------------------------------------------------------------------------
(* The dispatcher thread: _dispatch_loop and _try_dispatch                   *)

\* Mutant: a task with an invocation is taken for one being dispatched.
MutantClaimable == state = "queued" /\ ~invoked

\* A queued task of a ready adapter: the package is built and the invocation
\* recorded before anything else.  (For an adapter that is not ready the code
\* asks for queued -> waiting_local_operator, which is no edge.)
Claimable == state = "queued"

Claim ==
    /\ host = "up"
    /\ Idle("disp")
    /\ Claimable
    /\ invoked' = TRUE
    /\ Plan("disp", <<"dispatching", "SUBMIT">>)
    /\ UNCHANGED <<host, state, inputs, checked, submits, watching, proc, output>>

Started(attended) == proc' = IF attended THEN proc ELSE "running"

\* adapter.submit returns a handle; an attended adapter leaves the task to the
\* operator, and starts no worker.
Submit(attended) ==
    /\ At("disp", "SUBMIT")
    /\ submits' = IF submits < 2 THEN submits + 1 ELSE submits
    /\ Started(attended)
    /\ Plan("disp", <<"running", IF attended THEN "waiting_local_operator" ELSE "WATCH">>)
    /\ UNCHANGED <<host, state, inputs, checked, invoked, watching, output>>

\* It raises, before or after the worker was started.
SubmitRaises ==
    /\ At("disp", "SUBMIT")
    /\ submits' = IF submits < 2 THEN submits + 1 ELSE submits
    /\ \E attended \in BOOLEAN : Started(attended)
    /\ Plan("disp", <<"execution_unknown">>)
    /\ UNCHANGED <<host, state, inputs, checked, invoked, watching, output>>

StartWatcher ==
    /\ At("disp", "WATCH")
    /\ watching' = TRUE
    /\ Plan("disp", <<>>)
    /\ UNCHANGED <<host, state, inputs, checked, invoked, submits, proc, output>>

-----------------------------------------------------------------------------
(* The worker, and the watcher thread: _watch_invocation                     *)

WorkerExit(code) ==
    /\ proc = "running"
    /\ proc' = code
    /\ UNCHANGED <<host, state, inputs, actors, invoked, submits, watching, output>>

Exited == watching /\ proc \in {"ok", "fail"}

\* The worker reported before it exited.
WatchDone ==
    /\ Exited
    /\ state \in Terminal
    /\ watching' = FALSE
    /\ UNCHANGED <<host, state, inputs, actors, invoked, submits, proc, output>>

\* adapter.resume: unread notes bring the worker's session back.
Resume ==
    /\ Exited
    /\ state \notin Terminal
    /\ proc = "ok"
    /\ unread
    /\ proc' = "running"
    /\ unread' = FALSE
    /\ UNCHANGED <<host, state, inputs, actors, invoked, submits, watching, resultFile>>

\* _apply_worker_outcome.
Outcome(r) == IF r = "completed" THEN <<"export_check", "completed">> ELSE <<"failed">>

\* Mutant: an exit without a result is not reported.
MutantAdopted(published) ==
    IF resultFile # "none" THEN Outcome(resultFile)
    ELSE IF published THEN Outcome("completed") ELSE <<>>

\* _finalize_from_result_file: result.json, else what the worker published.
Adopted(published) ==
    IF resultFile # "none" THEN Outcome(resultFile)
    ELSE Outcome(IF published THEN "completed" ELSE "failed")

\* Without notes, or when the session cannot be resumed.
Finalize ==
    /\ Exited
    /\ state \notin Terminal
    /\ watching' = FALSE
    /\ \E published \in BOOLEAN :
         Plan("watch", IF proc = "ok" THEN Adopted(published) ELSE <<"failed">>)
    /\ UNCHANGED <<host, state, inputs, checked, invoked, submits, proc, output>>

-----------------------------------------------------------------------------
(* The worker CLI: run by the worker or by the operator of the host          *)

CliReady == Known /\ Idle("cli")

WorkerFinish(r) ==
    /\ CliReady
    /\ state \notin Terminal
    /\ resultFile' = r
    /\ Plan("cli", Outcome(r))
    /\ UNCHANGED <<host, state, inputs, checked, invocation, unread>>

WorkerAsk ==
    /\ CliReady
    /\ question = "none"
    /\ question' = "pending"
    /\ UNCHANGED <<host, state, declared, manifest, offered, complete, workspace, actors,
                   invocation, output>>

WorkerInbox ==
    /\ CliReady
    /\ unread' = FALSE
    /\ UNCHANGED <<host, state, inputs, actors, invocation, resultFile>>

-----------------------------------------------------------------------------
(* Crash and restart of the host; the worker process and the CLI live on      *)

Crash ==
    /\ host # "down"
    /\ host' = "down"
    /\ plan' = [a \in Actors |-> IF a = "cli" THEN plan[a] ELSE <<>>]
    /\ checked' = checked \intersect {"cli"}
    /\ watching' = FALSE
    /\ UNCHANGED <<state, inputs, invoked, submits, proc, output>>

\* Mutants: a restart overlooks running tasks; it requeues what may have started.
MutantInterrupted == {"dispatching", "export_check"}

MutantVerdict == "queued"

Interrupted == {"dispatching", "running", "export_check"}

\* reconcile: no adapter can prove that an invocation never started.
Verdict ==
    IF invoked \/ state # "dispatching" THEN "execution_unknown" ELSE "queued"

\* recover_interrupted_tasks, before calls and dispatches are served.
Restart ==
    /\ host = "down"
    /\ host' = "starting"
    /\ Plan("disp", IF state \in Interrupted THEN <<Verdict>> ELSE <<>>)
    /\ UNCHANGED <<state, inputs, checked, invocation, output>>

Serve ==
    /\ host = "starting"
    /\ Idle("disp")
    /\ host' = "up"
    /\ UNCHANGED <<state, inputs, actors, invocation, output>>

-----------------------------------------------------------------------------
Coordinator ==
    \/ \E d \in Manifests : TaskSubmit(d)
    \/ RecordManifest
    \/ \E a \in Artifacts, b \in BOOLEAN : ArtifactOffer(a, b) \/ ArtifactPut(a, b)
    \/ InputSubmit \/ AgentNote \/ CancelRequest

Dispatcher ==
    \/ Claim
    \/ \E attended \in BOOLEAN : Submit(attended)
    \/ SubmitRaises \/ StartWatcher

Watcher == WatchDone \/ Resume \/ Finalize

Worker ==
    \/ \E c \in {"ok", "fail"} : WorkerExit(c)
    \/ \E r \in {"completed", "failed"} : WorkerFinish(r)
    \/ WorkerAsk \/ WorkerInbox

Next ==
    \/ \E a \in Actors : Check(a) \/ Write(a)
    \/ Coordinator \/ Dispatcher \/ Watcher \/ Worker
    \/ Crash \/ Restart \/ Serve

Spec == Init /\ [][Next]_vars

\* Fairness: the threads of a live host and the CLI run on; the adapter is
\* ready.  Nobody has to call, the worker need not exit, and a host that went
\* down need not come back.
Fairness ==
    /\ \A a \in Actors : WF_vars(Check(a)) /\ WF_vars(Write(a))
    /\ WF_vars(RecordManifest) /\ WF_vars(Dispatcher) /\ WF_vars(Watcher) /\ WF_vars(Serve)

FairSpec == Spec /\ Fairness

-----------------------------------------------------------------------------
(* Properties                                                                *)

\* The adapter is given a task at most once, over crashes at any point of a
\* dispatch and any restarts: a possibly started task is never dispatched
\* again.
SubmittedOnce == submits <= 1

\* What is executed has all its declared inputs, verified and unpacked, but in
\* the two ways the code leaves open: the manifest was lost in a crash between
\* the row and the manifest, or the answer to a question queued the task.
ExecutedWithInputs ==
    submits > 0 => declared \subseteq workspace \/ ~manifest \/ question = "answered"

\* A task in state running has a thread of this host that will see its worker
\* exit.
RunningIsWatched ==
    state = "running" /\ host = "up" =>
        watching \/ ~Idle("watch") \/ ~Idle("disp")

\* Every queued task leaves the queue while the host stays up.
QueuedIsDispatched == state = "queued" ~> state # "queued" \/ host # "up"

\* The exit of a worker ends the running state of its task, unless notes bring
\* the worker back or the host goes down.
ExitIsReported ==
    (state = "running" /\ proc \in {"ok", "fail"})
        ~> state # "running" \/ proc = "running" \/ host # "up"

\* A task that reached a terminal state stays there: no edge of TRANSITIONS
\* leaves one.
TerminalIsFinal == [][(state \in Terminal) => (state' = state)]_vars

\* A cancelled execution comes to an end once its worker has exited.
CancelResolves ==
    (state = "cancel_requested" /\ proc \in {"ok", "fail"})
        ~> state # "cancel_requested" \/ proc = "running" \/ host # "up"
=============================================================================
