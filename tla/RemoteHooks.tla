----------------------------- MODULE RemoteHooks ----------------------------
(***************************************************************************)
(* The sandboxed worker that runs the hooks of a protocol fetched from a   *)
(* peer (proto/remote_hooks.py, proto/remote_hooks_worker.py).  The        *)
(* threads of the engine call it through one pipe, a call at a time; the   *)
(* main thread starts it and closes it.  "other" is a second proxy that    *)
(* the same process makes for the same session.                            *)
(***************************************************************************)
EXTENDS Integers, Sequences

CONSTANTS
    Callers,   \* threads of the engine that call hooks
    MaxCalls,  \* bound: calls sent to the worker
    None

Main == "main"
CallThreads == Callers \cup {Main}

VARIABLES
    registry,  \* _ACTIVE_SESSION_WORKERS of the session: None, "self" or "other"
    life,      \* of the proxy: "new", "registered", "initializing", "ready", "closing", "shutdown", "closed"
    client,    \* _client is set
    process,   \* of the proxy: "none", "live" or "dead"
    other,     \* process of the other proxy: "none", "live" or "dead"
    lock,      \* _WorkerClient._lock: the thread that is in call, or None
    call,      \* per thread: the call it is in
    requests,  \* the worker's stdin: ids
    answers,   \* _responses: frames, and one exception at the end of the stream
    nextId,
    record     \* remote-hooks-worker.json

hooks == <<registry, life, client, process, other, lock, call, requests, answers, nextId, record>>

Quiet == [at |-> "idle", id |-> 0, got |-> None]
Closed == life \in {"closing", "shutdown", "closed"}

Init ==
    /\ registry = None /\ life = "new" /\ client = FALSE
    /\ process = "none" /\ other = "none" /\ lock = None
    /\ call = [t \in CallThreads |-> Quiet]
    /\ requests = <<>> /\ answers = <<>> /\ nextId = 1 /\ record = None
-----------------------------------------------------------------------------
(* _record_worker_state: the last one is in remote-hooks-worker.json         *)
WorkerState(status) == record' = status

(* proto_init: the session is claimed before the worker is started; what     *)
(* fails between the two leaves the claim to the garbage collector, a        *)
(* Popen that fails gives it back, and a record that cannot be written       *)
(* leaves a worker to close                                                  *)
Register ==
    /\ life = "new" /\ client = FALSE /\ registry # "other"
    /\ registry' = "self" /\ life' = "registered"
    /\ UNCHANGED <<client, process, other, lock, call, requests, answers, nextId, record>>
Spawn ==
    /\ life = "registered"
    /\ \/ /\ process' = "live" /\ client' = TRUE /\ life' = "initializing" /\ WorkerState("started")
          /\ UNCHANGED registry
       \/ /\ registry' = None /\ life' = "new"
          /\ UNCHANGED <<process, client, record>>
       \/ life' = "new" /\ UNCHANGED <<registry, process, client, record>>
       \/ /\ process' = "live" /\ client' = TRUE /\ life' = "closing"
          /\ UNCHANGED <<registry, record>>
    /\ UNCHANGED <<other, lock, call, requests, answers, nextId>>
OtherInit ==
    /\ other = "none" /\ registry = None
    /\ registry' = "other" /\ other' = "live"
    /\ UNCHANGED <<life, client, process, lock, call, requests, answers, nextId, record>>
OtherClose ==
    /\ other = "live"
    /\ registry' = None /\ other' = "dead"
    /\ UNCHANGED <<life, client, process, lock, call, requests, answers, nextId, record>>
-----------------------------------------------------------------------------
(* _WorkerClient.call, under the lock: a dead worker is an error; else the   *)
(* request is written and its answer awaited                                 *)
Calls(t) ==
    IF t = Main THEN (life = "initializing" /\ nextId = 1) \/ life = "closing"
    ELSE life \notin {"new", "registered", "initializing"} /\ client /\ nextId <= MaxCalls
Call(t) ==
    /\ call[t].at = "idle" /\ lock = None /\ Calls(t)
    /\ IF process = "live"
       THEN /\ call' = [call EXCEPT ![t] = [at |-> "waiting", id |-> nextId, got |-> None]]
            /\ lock' = t /\ nextId' = nextId + 1 /\ requests' = Append(requests, nextId)
       ELSE /\ call' = [call EXCEPT ![t] = [at |-> "failed", id |-> 0, got |-> "failed"]]
            /\ UNCHANGED <<lock, nextId, requests>>
    /\ life' = IF t = Main /\ life = "closing" THEN "shutdown" ELSE life
    /\ UNCHANGED <<registry, client, process, other, answers, record>>

(* What a frame means to the call that takes it: a result and the errors a   *)
(* hook may raise come back; an exception of the reader, an id of another    *)
(* call and any other error are failures of the worker, which is terminated  *)
Verdict(t, frame) ==
    CASE frame.kind = "end" -> "crashed"
      [] frame.id # call[t].id -> "failed"
      [] frame.kind \in {"result", "raised"} -> frame.kind
      [] OTHER -> "failed"
Returned(t, how) ==
    /\ call' = [call EXCEPT ![t] = [at |-> IF how \in {"result", "raised"} THEN "returned" ELSE "failed",
                                    id |-> @.id, got |-> how]]
    /\ lock' = None
    /\ process' = IF how \in {"result", "raised"} THEN process ELSE "dead"
Take(t) ==
    /\ call[t].at = "waiting" /\ answers # <<>>
    /\ Returned(t, Verdict(t, Head(answers)))
    /\ answers' = Tail(answers)
    /\ UNCHANGED <<registry, life, client, other, requests, nextId, record>>
MutantTimeout(t) ==
    /\ call[t].at = "waiting" /\ answers = <<>>
    /\ call' = [call EXCEPT ![t] = [at |-> "failed", id |-> @.id, got |-> "timeout"]] /\ lock' = None
    /\ UNCHANGED <<registry, life, client, process, other, requests, answers, nextId, record>>
Timeout(t) ==
    /\ call[t].at = "waiting" /\ answers = <<>>
    /\ Returned(t, "timeout")
    /\ UNCHANGED <<registry, life, client, other, requests, answers, nextId, record>>

(* _control_call: a failure is written down after the lock is released       *)
Recorded(t) ==
    /\ t # Main /\ call[t].at \in {"returned", "failed"}
    /\ call' = [call EXCEPT ![t] = Quiet]
    /\ call[t].at = "failed" => WorkerState(call[t].got)
    /\ call[t].at = "returned" => UNCHANGED record
    /\ UNCHANGED <<registry, life, client, process, other, lock, requests, answers, nextId>>
-----------------------------------------------------------------------------
(* The worker: a request at a time, in order, an answer for each; the reader *)
(* thread of the proxy queues what it writes                                 *)
Serve ==
    /\ process = "live" /\ requests # <<>>
    /\ \E kind \in {"result", "raised", "error"} :
          answers' = Append(answers, [kind |-> kind, id |-> Head(requests)])
    /\ requests' = Tail(requests)
    /\ UNCHANGED <<registry, life, client, process, other, lock, call, nextId, record>>
Die ==
    /\ process = "live" /\ process' = "dead"
    /\ answers' = Append(answers, [kind |-> "end", id |-> 0])
    /\ UNCHANGED <<registry, life, client, other, lock, call, requests, nextId, record>>
-----------------------------------------------------------------------------
(* The end of proto_init, and close                                          *)
Ready ==
    /\ life = "initializing" /\ call[Main].at = "returned" /\ call[Main].got = "result"
    /\ life' = "ready" /\ call' = [call EXCEPT ![Main] = Quiet]
    /\ UNCHANGED <<registry, client, process, other, lock, requests, answers, nextId, record>>
InitFails ==
    /\ life = "initializing" /\ call[Main].at \in {"returned", "failed"} /\ call[Main].got # "result"
    /\ life' = "closing" /\ call' = [call EXCEPT ![Main] = Quiet]
    /\ WorkerState(IF call[Main].got = "raised" THEN "failed" ELSE call[Main].got)
    /\ UNCHANGED <<registry, client, process, other, lock, requests, answers, nextId>>
Close ==
    /\ \/ life = "ready" /\ life' = "closing" /\ UNCHANGED registry
       \/ life = "new" /\ life' = "closed" /\ registry' = IF registry = "self" THEN None ELSE registry
    /\ UNCHANGED <<client, process, other, lock, call, requests, answers, nextId, record>>
MutantFinish ==
    /\ life = "shutdown" /\ call[Main].at \in {"returned", "failed"}
    /\ life' = "closed" /\ call' = [call EXCEPT ![Main] = Quiet]
    /\ client' = FALSE /\ record' = "stopped" /\ registry' = None
    /\ UNCHANGED <<process, other, lock, requests, answers, nextId>>
Finish ==
    /\ life = "shutdown" /\ call[Main].at \in {"returned", "failed"}
    /\ life' = "closed" /\ call' = [call EXCEPT ![Main] = Quiet]
    /\ process' = "dead"
    /\ \/ client' = FALSE /\ WorkerState("stopped") /\ registry' = None
       \/ UNCHANGED <<client, record, registry>>
    /\ UNCHANGED <<other, lock, requests, answers, nextId>>

Next ==
    \/ Register \/ Spawn \/ OtherInit \/ OtherClose
    \/ \E t \in CallThreads : Call(t) \/ Take(t) \/ Timeout(t) \/ Recorded(t)
    \/ Serve \/ Die \/ Ready \/ InitFails \/ Close \/ Finish
Spec == Init /\ [][Next]_hooks
-----------------------------------------------------------------------------
TypeOK ==
    /\ registry \in {None, "self", "other"}
    /\ life \in {"new", "registered", "initializing", "ready", "closing", "shutdown", "closed"}
    /\ client \in BOOLEAN /\ process \in {"none", "live", "dead"} /\ other \in {"none", "live", "dead"}
    /\ lock \in CallThreads \cup {None}
    /\ \A t \in CallThreads :
          /\ call[t].at \in {"idle", "waiting", "returned", "failed"} /\ call[t].id \in Nat
          /\ call[t].got \in {None, "result", "raised", "failed", "crashed", "timeout"}
    /\ requests \in Seq(Nat)
    /\ \A i \in DOMAIN answers : answers[i].kind \in {"result", "raised", "error", "end"}
    /\ nextId \in 1..MaxCalls + 2
    /\ record \in {None, "started", "failed", "crashed", "timeout", "stopped"}

(* A session never has two live workers: proto_init claims the session       *)
(* before it starts one, and close gives it back after the process is gone.  *)
OneWorker == ~(process = "live" /\ other = "live")

(* Between two calls nothing is on its way in either direction: no thread    *)
(* can take the answer to a question that another thread, or a call that     *)
(* timed out, has asked.                                                     *)
InStep ==
    /\ lock = None /\ process = "live" => requests = <<>> /\ answers = <<>>
    /\ \A t \in CallThreads : call[t].at = "waiting" <=> lock = t
=============================================================================
