---------------------------- MODULE MCCollabTask ----------------------------
(* Collaboration: the life of a task, the transfer of its files, and the     *)
(* sessions of the guests.  They meet in the task only (its files are        *)
(* complete or not), so a behaviour runs one of them (part): a task without  *)
(* inputs or with two; two pages of inputs, uploaded by two commands, and    *)
(* three results; guests with their connections.                             *)
EXTENDS CollabTask

CONSTANTS a1, a2, Nothing, None,
          Commands, Pages, Chunks, Results, Before, Batch, MaxDrops,
          Guests, Trusted, Slots, MaxDials, MaxPosts, MaxBreaks

ASSUME SessionsAssumption == MaxDials \in Nat /\ MaxPosts \in Nat \ {0}

NoneOrTwo == {{}, {a1, a2}}
NoInputs == {{}}
TwoPages == <<<<"a", "b">>, <<"d", "e">>>>
EmptyFirst == <<<<"e">>, <<"d">>>>
FileChunks == [a |-> 2, b |-> 1, d |-> 1, e |-> 0, r |-> 3, s |-> 0, t |-> 2]
ThreeResults == <<"r", "s", "t">>
LeftBefore == [r |-> 2, s |-> 0, t |-> 1]

VARIABLES part,
    local, upload, artifact, staged, queued, published, pull, target, drops,
    posts, server, bindings, bound, call, serve, wire, cache, dials, breaks

Files == INSTANCE Transfer WITH MaxFaults <- MaxDrops, faults <- drops
\* collect_inputs gives no file twice, so that paginate puts it on one page.
ASSUME FilesAssumption ==
    /\ Pages \in Seq(Seq(DOMAIN Chunks)) /\ Results \in Seq(DOMAIN Chunks)
    /\ \A p, q \in DOMAIN Pages : \A i \in DOMAIN Pages[p], j \in DOMAIN Pages[q] :
           Pages[p][i] = Pages[q][j] => p = q
    /\ Batch \in Nat /\ \A f \in DOMAIN Chunks : Chunks[f] \in Nat
    /\ \A k \in DOMAIN Results : Before[Results[k]] \in Nat
Sessions == INSTANCE CollabSession WITH
    MaxFaults <- MaxBreaks, host <- server, faults <- breaks

transfer == <<local, upload, artifact, staged, queued, published, pull, target, drops>>
session == <<posts, server, bindings, bound, call, serve, wire, cache, dials, breaks>>

MCInit ==
    /\ part \in {"task", "files", "sessions"}
    /\ part = "task" \/ declared = {}
    /\ Init /\ Files!Init /\ Sessions!Init
MCNext ==
    /\ UNCHANGED part
    /\ \/ part = "task" /\ Next /\ UNCHANGED <<transfer, session>>
       \/ part = "files" /\ Files!Next /\ UNCHANGED <<vars, session>>
       \/ part = "sessions" /\ Sessions!Next /\ UNCHANGED <<vars, transfer>>
MCSpec == MCInit /\ [][MCNext]_<<part, vars, transfer, session>>

\* The fairness of each part.
MCFairSpec ==
    /\ MCSpec
    /\ \A a \in Actors : WF_vars(part = "task" /\ Check(a)) /\ WF_vars(part = "task" /\ Write(a))
    /\ WF_vars(part = "task" /\ RecordManifest) /\ WF_vars(part = "task" /\ Dispatcher)
    /\ WF_vars(part = "task" /\ Watcher) /\ WF_vars(part = "task" /\ Serve)
    /\ \A n \in Sessions!Connections : WF_session(part = "sessions" /\ Sessions!Handler(n))

(* The files: types; the worker is given the inputs as they were declared,   *)
(* but for what a batch wrote that the host did not finish; a pull ends in a *)
(* mismatch only when the results or what the guest had differ.              *)
FilesArrive == part = "files" => Files!TypeOK /\ Files!WorkerGetsTheInputs /\ Files!PullFindsTheResults
(* An upload that returns left every artifact complete; the inputs of the    *)
(* worker are verified without exception.  Both violated.                     *)
UploadsAreComplete == Files!UploadsAreComplete
InputsAreVerified == Files!InputsAreVerified
(* The sessions: types, whom the host serves.                                *)
SessionsAreReal == part = "sessions" => Sessions!TypeOK /\ Sessions!SessionsAreReal
(* Queued tasks are dispatched, exits reported, connections admitted.        *)
CollabProgress == QueuedIsDispatched /\ ExitIsReported /\ Sessions!CandidatesAreServed
=============================================================================
