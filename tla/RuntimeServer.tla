--------------------------- MODULE RuntimeServer ---------------------------
(***************************************************************************)
(* The protocol worker: a server on stdio that runs requests on a pool of  *)
(* threads (runtime/server.py), and the session they work on, which is     *)
(* written to disk so that a new process can go on                         *)
(* (protocol_worker/runner.py).  The service has no lock: what two threads *)
(* do to the session interleaves between its statements.                   *)
(***************************************************************************)
EXTENDS Naturals, Sequences, FiniteSets, FiniteSetsExt, SequencesExt, TLC

CONSTANTS
    Threads,       \* the executor's threads (eight in the code)
    MaxSent,       \* bound: requests of the client
    MaxRounds,     \* the match is over after so many steps
    MaxCrashes,    \* bound: ends of the process
    MaxCancels,    \* bound: cancels of the client
    CacheLimit,    \* entries of the idempotency table (1024 in the code)
    Impatient,     \* the client repeats a request that may still be answered
    None

VARIABLES
    process,    \* "up", "stopping", "down"
    crashes,
    sent,       \* the requests, by id: [method, key, params, after, crashes]
    pending,    \* ids that _pending holds
    queue,      \* ids whose future no thread has taken
    job,        \* per thread: what it runs
    cache,      \* the idempotency table, oldest first
    objects,    \* the WorkerSession objects, by generation
    session,    \* the generation the service has, or None
    disk,       \* [root, generations, binding]
    out         \* answers written, in order: [id, ok, code, result]

service == <<objects, session, disk>>
runtime == <<process, crashes, sent, pending, queue, job, cache, service, out>>

Binding(s, closed) == [generation |-> s.generation, sequence |-> s.sequence, history |-> s.history,
                       status |-> s.status, closed |-> closed]
State(s) == [generation |-> s.generation, sequence |-> s.sequence, digest |-> s.trail]

Init ==
    /\ process = "up" /\ crashes = 0
    /\ sent = <<>> /\ pending = {} /\ queue = <<>>
    /\ job = [t \in Threads |-> None]
    /\ cache = <<>> /\ objects = <<>> /\ session = None
    /\ disk = [root |-> FALSE, generations |-> {}, binding |-> None]
    /\ out = <<>>
-----------------------------------------------------------------------------
(* The client: what it asks is bound to the newest state it was told, or    *)
(* it asks again with the same key                                          *)
Lost(i) == sent[i].crashes < crashes
Answered(i) == \E k \in DOMAIN out : out[k].id = i /\ out[k].code \notin {"too_late", "unknown"}
Told == {out[k].result : k \in {n \in DOMAIN out : out[n].ok}}
Newest == LET last == Max({k \in DOMAIN out : out[k].ok}) IN out[last].result
Asks(method, key, params) ==
    /\ process = "up" /\ Len(sent) < MaxSent
    /\ sent' = Append(sent, [method |-> method, key |-> key, params |-> params, crashes |-> crashes,
                            after |-> {out[k].id : k \in {n \in DOMAIN out : out[n].ok}}])
    (* _accept_request: limit, then a future of the executor *)
    /\ IF Cardinality(pending) >= Cardinality(Threads)
       THEN /\ out' = Append(out, [id |-> Len(sent) + 1, ok |-> FALSE, code |-> "rate_limit", result |-> None])
            /\ UNCHANGED <<pending, queue>>
       ELSE /\ pending' = pending \union {Len(sent) + 1}
            /\ queue' = Append(queue, Len(sent) + 1)
            /\ UNCHANGED out
    /\ UNCHANGED <<process, crashes, job, cache, service>>
AskOpen == Asks("open", Len(sent) + 1, None)
AskNext ==
    /\ Told # {}
    /\ \E method \in {"step", "close"} : Asks(method, Len(sent) + 1, Newest)
AskAgain ==
    \E i \in DOMAIN sent :
        /\ sent[i].method # "close"
        /\ Impatient \/ \A k \in DOMAIN sent : sent[k].key = sent[i].key => Answered(k) \/ Lost(k)
        /\ Asks(sent[i].method, sent[i].key, sent[i].params)

(* Future.cancel succeeds while no thread has taken the future              *)
Notices == {"too_late", "unknown"}
MutantCancelCode(i) == IF i \in pending THEN "cancelled" ELSE "unknown"
CancelCode(i) ==
    IF i \notin pending THEN "unknown" ELSE IF i \in ToSet(queue) THEN "cancelled" ELSE "too_late"
AcceptCancel ==
    /\ process = "up"
    /\ Cardinality({k \in DOMAIN out : out[k].code \in Notices \union {"cancelled"}}) < MaxCancels
    /\ \E i \in DOMAIN sent :
        /\ LET code == CancelCode(i) IN
           /\ out' = Append(out, [id |-> i, ok |-> FALSE, code |-> code, result |-> None])
           /\ pending' = IF code = "cancelled" THEN pending \ {i} ELSE pending
           /\ IF code = "cancelled" /\ i \in ToSet(queue)
              THEN \E p \in DOMAIN queue : queue[p] = i /\ queue' = RemoveAt(queue, p)
              ELSE UNCHANGED queue
    /\ UNCHANGED <<process, crashes, sent, job, cache, service>>

(* runtime.shutdown or the end of the input: the loop ends, futures that no *)
(* thread has taken are dropped, the others are waited for                  *)
Shutdown ==
    /\ process = "up" /\ process' = "stopping" /\ queue' = <<>>
    /\ UNCHANGED <<crashes, sent, pending, job, cache, service, out>>
-----------------------------------------------------------------------------
(* A thread's run of _execute_domain                                        *)
At(t, pc) == job[t] # None /\ job[t].pc = pc
Asked(t) == sent[job[t].id]
Mine(t) == objects[job[t].on]
Goes(t, pc) == job' = [job EXCEPT ![t].pc = pc] /\ UNCHANGED <<process, crashes, sent, pending, queue, cache, out>>
Fails(t, code) ==
    /\ job' = [job EXCEPT ![t].pc = "failed", ![t].result = code]
    /\ UNCHANGED <<process, crashes, sent, pending, queue, cache, service, out>>

(* _dispatch_idempotent: the table is read, and the lock released           *)
Stored(key) == {i \in DOMAIN cache : cache[i].key = key}
Take(t) ==
    /\ process # "down" /\ job[t] = None /\ queue # <<>>
    /\ LET request == sent[Head(queue)]  found == Stored(request.key) IN
       job' = [job EXCEPT ![t] =
          [id |-> Head(queue), pc |-> IF found = {} THEN request.method ELSE "known", on |-> None, next |-> None,
           result |-> IF found = {} THEN None ELSE cache[Min(found)].result]]
    /\ queue' = Tail(queue)
    /\ UNCHANGED <<process, crashes, sent, pending, cache, service, out>>

(* open: refused while a session is there, or when what is on disk cannot   *)
(* be recovered; the generation's directory must be new                     *)
Recoverable == disk.binding # None /\ ~disk.binding.closed /\ disk.binding.sequence = Len(disk.binding.history)
Generation == IF disk.root THEN disk.binding.generation + 1 ELSE 1
OpenCheck(t) ==
    /\ At(t, "open")
    /\ IF session # None THEN Fails(t, "role_mismatch")
       ELSE IF disk.root /\ ~Recoverable THEN Fails(t, "version_conflict")
       ELSE IF Generation \in disk.generations THEN Fails(t, "internal")
       ELSE /\ disk' = [disk EXCEPT !.root = TRUE, !.generations = @ \union {Generation}]
            /\ Goes(t, "publish") /\ UNCHANGED <<objects, session>>
(* the hooks replay the history; the session is published, and then written *)
Opened(found) ==
    IF found = None THEN [generation |-> 1, trail |-> <<>>, sequence |-> 0, history |-> <<>>, status |-> "ready"]
    ELSE [generation |-> found.generation + 1, trail |-> <<>>, sequence |-> found.sequence,
          history |-> found.history, status |-> found.status]
OpenPublish(t) ==
    /\ At(t, "publish")
    /\ LET s == Opened(disk.binding) IN
       /\ objects' = Append(objects, s) /\ session' = s.generation
       /\ job' = [job EXCEPT ![t].pc = "replace", ![t].on = s.generation, ![t].next = Binding(s, FALSE),
                             ![t].result = State(s)]
    /\ UNCHANGED <<process, crashes, sent, pending, queue, cache, disk, out>>

(* step: the binding of the request to the state it was made for            *)
Bound(t) == session # None /\ Asked(t).params = State(objects[session])
StepCheck(t) ==
    /\ At(t, "step")
    /\ IF ~Bound(t) \/ objects[session].status = "completed" THEN Fails(t, "output_rejected")
       ELSE /\ job' = [job EXCEPT ![t].pc = "judge", ![t].on = session]
            /\ UNCHANGED <<process, crashes, sent, pending, queue, cache, service, out>>
(* the hooks judge; what follows is computed from the session as it is now  *)
StepJudge(t) ==
    /\ At(t, "judge")
    /\ LET s == Mine(t) IN
       job' = [job EXCEPT ![t].pc = "assign", ![t].next =
          [sequence |-> s.sequence + 1, trail |-> Append(s.trail, s.sequence),
           status |-> IF s.sequence + 1 >= MaxRounds THEN "completed" ELSE "running"]]
    /\ UNCHANGED <<process, crashes, sent, pending, queue, cache, service, out>>
(* the session changes, and _persist reads it into a value ...              *)
Stepped(s, next, key) ==
    [s EXCEPT !.sequence = next.sequence, !.trail = next.trail, !.status = next.status, !.history = Append(@, key)]
StepAssign(t) ==
    /\ At(t, "assign")
    /\ LET s == Stepped(Mine(t), job[t].next, Asked(t).key) IN
       /\ objects' = [objects EXCEPT ![job[t].on] = s]
       /\ job' = [job EXCEPT ![t].pc = "replace", ![t].next = Binding(s, FALSE), ![t].result = State(s)]
    /\ UNCHANGED <<process, crashes, sent, pending, queue, cache, session, disk, out>>
(* ... that replaces the file                                               *)
PersistReplace(t) ==
    /\ At(t, "replace")
    /\ disk' = [disk EXCEPT !.binding = job[t].next]
    /\ Goes(t, "done") /\ UNCHANGED <<objects, session>>

Close(t) ==
    /\ At(t, "close")
    /\ IF ~Bound(t) THEN Fails(t, "output_rejected")
       ELSE /\ disk' = [disk EXCEPT !.binding = Binding(objects[session], TRUE)]
            /\ session' = None
            /\ job' = [job EXCEPT ![t].pc = "done", ![t].result = State(objects[session])]
            /\ UNCHANGED <<process, crashes, sent, pending, queue, cache, objects, out>>

(* the table gets the result, over one that a repeat has put there, and the *)
(* oldest entry leaves a full table                                         *)
MutantStoredResult(key, result) == cache
StoredResult(key, result) ==
    LET room == IF Len(cache) >= CacheLimit THEN Tail(cache) ELSE cache
        at == {i \in DOMAIN room : room[i].key = key} IN
    IF at = {} THEN Append(room, [key |-> key, result |-> result])
    ELSE [room EXCEPT ![Min(at)].result = result]
Answer(t) ==
    /\ job[t] # None /\ job[t].pc \in {"done", "known", "failed"}
    /\ LET ok == job[t].pc # "failed" IN
       /\ cache' = IF job[t].pc = "done" THEN StoredResult(Asked(t).key, job[t].result) ELSE cache
       /\ out' = Append(out, [id |-> job[t].id, ok |-> ok, code |-> IF ok THEN "ok" ELSE job[t].result,
                              result |-> IF ok THEN job[t].result ELSE None])
       /\ job' = [job EXCEPT ![t].pc = "finish"]
    /\ UNCHANGED <<process, crashes, sent, pending, queue, service>>
Finish(t) ==
    /\ At(t, "finish")
    /\ pending' = pending \ {job[t].id}
    /\ job' = [job EXCEPT ![t] = None]
    /\ UNCHANGED <<process, crashes, sent, queue, cache, service, out>>

(* the process ends, and another is started on the same state root          *)
Crash ==
    /\ process # "down" /\ crashes < MaxCrashes
    /\ process' = "down" /\ crashes' = crashes + 1
    /\ pending' = {} /\ queue' = <<>> /\ job' = [t \in Threads |-> None]
    /\ cache' = <<>> /\ session' = None
    /\ UNCHANGED <<sent, objects, disk, out>>
Restart ==
    /\ process = "down" /\ process' = "up"
    /\ UNCHANGED <<crashes, sent, pending, queue, job, cache, service, out>>

Run(t) ==
    \/ Take(t) \/ OpenCheck(t) \/ OpenPublish(t) \/ StepCheck(t) \/ StepJudge(t) \/ StepAssign(t)
    \/ PersistReplace(t) \/ Close(t) \/ Answer(t) \/ Finish(t)
Next ==
    \/ AskOpen \/ AskNext \/ AskAgain \/ AcceptCancel \/ Shutdown \/ Crash \/ Restart
    \/ \E t \in Threads : Run(t)
Spec == Init /\ [][Next]_runtime
-----------------------------------------------------------------------------
(* A thread runs a pending request, and no two the same.                     *)
TypeOK ==
    /\ process \in {"up", "stopping", "down"}
    /\ \A t \in Threads : job[t] # None => job[t].id \in pending
    /\ \A t, u \in Threads : t # u /\ job[t] # None /\ job[u] # None => job[t].id # job[u].id
    /\ session # None => objects[session].generation = session
    /\ Len(cache) <= CacheLimit /\ ToSet(queue) \subseteq pending

(* A request gets one answer, whatever is cancelled, repeated or shut down:  *)
(* besides it only the notices that a cancel came too late or unknown.       *)
AnsweredOnce ==
    \A j, k \in DOMAIN out :
        j # k /\ out[j].id = out[k].id => out[j].code \in Notices \/ out[k].code \in Notices

(* A repeat sent after the answer, in the life of one process, gets the      *)
(* result of that answer and moves the session no further.                   *)
RepeatGetsFirstAnswer ==
    \A a, b \in DOMAIN out :
        LET first == sent[out[a].id]  again == sent[out[b].id] IN
        /\ out[a].ok /\ out[a].id \in again.after
        /\ first.key = again.key /\ first.crashes = again.crashes
        => /\ out[b].code \in {"ok", "rate_limit", "cancelled"} \union Notices
           /\ out[b].ok => out[b].result = out[a].result

(* What is on disk can be recovered: as many steps as the history has        *)
(* (_load_recovery refuses a binding whose sequence differs from it).        *)
DiskIsRecoverable == disk.binding # None => disk.binding.sequence = Len(disk.binding.history)
=============================================================================
