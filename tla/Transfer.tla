------------------------------ MODULE Transfer ------------------------------
(***************************************************************************)
(* The files of a task (collab/transfer.py; the artifact calls of          *)
(* service.py; the loops of guest_app.py).  The commands of the guest      *)
(* upload the inputs, page by page and in batches of chunks, and pull the  *)
(* results; a connection may break at any call, and the command is given   *)
(* again.  A chunk is as declared ("good"), has other bytes ("bad"), or    *)
(* does not have the length of its place ("odd"); its place is its number. *)
(***************************************************************************)
EXTENDS Naturals, Sequences, FiniteSets, SequencesExt, FiniteSetsExt

CONSTANTS
    Commands,      \* the terminals in which the guest gives the command
    Pages,         \* paginate: the files of each artifact, sequences
    Chunks,        \* per file, inputs and results: its number of chunks
    Results,       \* the files of the result manifest, a sequence
    Before,        \* per result: the chunks of a file of this name that the guest has
    Batch,         \* UPLOAD_BATCH, and the 4 chunks of a pull
    MaxFaults,     \* bound: drops and edits
    Nothing        \* no request, no reply

VARIABLES
    local,         \* per input file of the guest: is it as declared, and what is read of it
    upload,        \* per command: where it is in upload_artifacts
    artifact,      \* the artifacts table, by page
    staged,        \* per input file: the chunks below in/; one is "stray" when it is bad
                   \* and of a batch that the host did not finish
    queued,        \* the inputs as they were unpacked, or Nothing
    published,     \* per result file: FALSE once the worker wrote it after the manifest
    pull,          \* where the guest is in pull_results
    target,        \* per result file: the guest's file, chunk by chunk
    faults

transfer == <<local, upload, artifact, staged, queued, published, pull, target, faults>>

Inputs == UNION {ToSet(Pages[p]) : p \in DOMAIN Pages}
All(f) == 1..Chunks[f]
Declared(f) == [intact |-> TRUE, reads |-> [i \in All(f) |-> "good"]]
Idle == [pc |-> "idle", page |-> 0, request |-> Nothing, reply |-> Nothing]
Failed == [Idle EXCEPT !.pc = "failed"]
Unasked == [pc |-> "idle", cursor |-> [f \in ToSet(Results) |-> 0], reply |-> Nothing]

Init ==
    /\ local = [f \in Inputs |-> Declared(f)] /\ upload = [c \in Commands |-> Idle]
    /\ artifact = [p \in DOMAIN Pages |-> [state |-> "none", received |-> {}]]
    /\ staged = [f \in Inputs |-> [i \in {} |-> "good"]] /\ queued = Nothing
    /\ published = [f \in ToSet(Results) |-> TRUE] /\ pull = Unasked
    /\ target = [f \in ToSet(Results) |-> [i \in 1..Before[f] |-> FALSE]]
    /\ faults = 0
-----------------------------------------------------------------------------
\* The guest's uploads.

Offering(page) ==
    IF page > Len(Pages) THEN [Idle EXCEPT !.pc = "done"]
    ELSE [pc |-> "asking", page |-> page, request |-> [call |-> "offer"], reply |-> Nothing]

(* _next_missing_batch, _read_local_chunk: the files in order, what is not  *)
(* received and can be read                                                  *)
Missing(page, have) ==
    FlattenSeq([k \in DOMAIN Pages[page] |->
        LET f == Pages[page][k] IN
        FlattenSeq([i \in All(f) |->
            IF i > Len(local[f].reads) \/ <<f, i>> \in have THEN <<>> ELSE <<<<f, i, local[f].reads[i]>>>>])])
Putting(page, have) ==
    LET missing == Missing(page, have) IN
    IF missing = <<>> THEN Offering(page + 1)
    ELSE [pc |-> "asking", page |-> page, reply |-> Nothing,
          request |-> [call |-> "put", chunks |-> SubSeq(missing, 1, Min({Batch, Len(missing)}))]]

(* collect_inputs: the files and their digests as they are by now           *)
AsDeclared == \A f \in Inputs : local[f].intact

(* task_submit: the digest of the request must be that of the task          *)
StartUpload(c) ==
    /\ upload[c].pc \in {"idle", "failed"} /\ AsDeclared
    /\ upload' = [upload EXCEPT ![c] = Offering(1)]
    /\ UNCHANGED <<local, artifact, staged, queued, published, pull, target, faults>>

(* upload_artifacts, at an answer                                           *)
Answered(c) ==
    /\ upload[c].pc = "answered"
    /\ LET u == upload[c]
           whole == \A f \in ToSet(Pages[u.page]) : f \in u.reply.complete IN
       upload' = [upload EXCEPT ![c] =
           IF u.reply.state = "verified_failed" THEN Failed
           ELSE IF whole THEN Offering(u.page + 1) ELSE Putting(u.page, u.reply.received)]
    /\ UNCHANGED <<local, artifact, staged, queued, published, pull, target, faults>>

(* The connection breaks, before or after the call is answered              *)
Drop(c) ==
    /\ upload[c].pc \in {"asking", "answered"} /\ faults < MaxFaults /\ faults' = faults + 1
    /\ upload' = [upload EXCEPT ![c] = Failed]
    /\ UNCHANGED <<local, artifact, staged, queued, published, pull, target>>

(* The user edits an input, removes it, or puts it back.  A file of another *)
(* length has its last chunk cut, or longer than declared: all that follows *)
(* a chunk of another length is not read.                                    *)
Readings(f) ==
    {s \in UNION {[1..n -> {"good", "bad", "odd"}] : n \in 0..Chunks[f]} :
        \A i \in DOMAIN s : s[i] = "odd" => i = Len(s)}
Edit(f) ==
    /\ faults < MaxFaults /\ faults' = faults + 1
    /\ \E as \in {Declared(f)} \union [intact : {FALSE}, reads : Readings(f)] :
           as # local[f] /\ local' = [local EXCEPT ![f] = as]
    /\ UNCHANGED <<upload, artifact, staged, queued, published, pull, target>>
-----------------------------------------------------------------------------
\* The host's calls.

Has(received, f) == {c \in received : c[1] = f}
(* verify_staged_file                                                       *)
Verified(disk, f) == DOMAIN disk[f] = All(f) /\ \A i \in All(f) : disk[f][i] = "good"

(* _maybe_inputs_ready: every declared artifact is complete; the files are  *)
(* copied into the workspace                                                 *)
MutantReady(disk, table) ==
    IF queued = Nothing /\ \E p \in DOMAIN Pages : table[p].state = "complete" THEN disk ELSE queued
Ready(disk, table) ==
    IF queued = Nothing /\ \A p \in DOMAIN Pages : table[p].state = "complete" THEN disk ELSE queued

Reply(c, state, received, complete) ==
    upload' = [upload EXCEPT ![c].pc = "answered", ![c].request = Nothing,
                 ![c].reply = [state |-> state, received |-> received, complete |-> complete]]

(* _on_artifact_offer: what has come before is kept; otherwise the row is   *)
(* new, and empty files are made                                             *)
Offer(c) ==
    /\ upload[c].pc = "asking" /\ upload[c].request.call = "offer"
    /\ LET p == upload[c].page
           a == artifact[p] IN
       IF a.state \in {"partial", "complete"}
       THEN /\ Reply(c, a.state, a.received,
                     {f \in ToSet(Pages[p]) : Chunks[f] <= Cardinality(Has(a.received, f))})
            /\ queued' = IF a.state = "complete" THEN Ready(staged, artifact) ELSE queued
            /\ UNCHANGED artifact
       ELSE /\ artifact' = [artifact EXCEPT ![p] = [state |-> "partial", received |-> {}]]
            /\ Reply(c, "partial", {}, {})
            /\ UNCHANGED queued
    /\ UNCHANGED <<local, staged, published, pull, target, faults>>

(* validate_chunk_object: the chunks before one of another length; and      *)
(* write_chunk for them, where what is bad becomes other                     *)
Valid(chunks) ==
    LET odd == {k \in DOMAIN chunks : chunks[k][3] = "odd"} IN
    IF odd = {} THEN chunks ELSE SubSeq(chunks, 1, Min(odd) - 1)
Written(disk, chunks, other) ==
    [f \in Inputs |->
        [i \in DOMAIN disk[f] \union {c[2] : c \in {d \in ToSet(chunks) : d[1] = f}} |->
            IF ~\E c \in ToSet(chunks) : c[1] = f /\ c[2] = i THEN disk[f][i]
            ELSE IF <<f, i, "good">> \in ToSet(chunks) THEN "good" ELSE other]]
MutantJudged(a, disk, files, received) ==   \* what was complete stays complete
    LET arrived == {f \in files : Cardinality(Has(received, f)) >= Chunks[f]}
        complete == {f \in arrived : Verified(disk, f)} IN
    [state |-> IF a.state = "complete" \/ complete = files THEN "complete"
               ELSE IF arrived # complete THEN "verified_failed" ELSE "partial",
     complete |-> complete]
Judged(a, disk, files, received) ==
    LET arrived == {f \in files : Cardinality(Has(received, f)) >= Chunks[f]}
        complete == {f \in arrived : Verified(disk, f)} IN
    [state |-> IF arrived # complete THEN "verified_failed" ELSE IF complete = files THEN "complete" ELSE "partial",
     complete |-> complete]
(* _on_artifact_put, when every chunk of the batch is taken                  *)
Puts(c) == upload[c].pc = "asking" /\ upload[c].request.call = "put"
Put(c) ==
    /\ Puts(c) /\ Valid(upload[c].request.chunks) = upload[c].request.chunks
    /\ LET p == upload[c].page
           chunks == upload[c].request.chunks
           disk == Written(staged, chunks, "bad")
           received == artifact[p].received \union {<<x[1], x[2]>> : x \in ToSet(chunks)}
           verdict == Judged(artifact[p], disk, ToSet(Pages[p]), received)
           table == [artifact EXCEPT ![p] = [state |-> verdict.state, received |-> received]] IN
       /\ staged' = disk /\ artifact' = table
       /\ queued' = IF verdict.state = "complete" THEN Ready(disk, table) ELSE queued
       /\ Reply(c, verdict.state, received, verdict.complete)
    /\ UNCHANGED <<local, published, pull, target, faults>>

(* When one is refused: those before it are on the disk, the row is as it   *)
(* was and nothing is verified; the guest's command ends with the error      *)
Refuse(c) ==
    /\ Puts(c) /\ Valid(upload[c].request.chunks) # upload[c].request.chunks
    /\ staged' = Written(staged, Valid(upload[c].request.chunks), "stray")
    /\ upload' = [upload EXCEPT ![c] = Failed]
    /\ UNCHANGED <<local, artifact, queued, published, pull, target, faults>>

(* The host's process ends after n chunks of a batch; it is started again    *)
HostEnds(c) ==
    /\ Puts(c) /\ faults < MaxFaults /\ faults' = faults + 1
    /\ \E n \in DOMAIN Valid(upload[c].request.chunks) :
           staged' = Written(staged, SubSeq(upload[c].request.chunks, 1, n), "stray")
    /\ upload' = [d \in Commands |-> IF upload[d].pc \in {"asking", "answered"} THEN Failed ELSE upload[d]]
    /\ pull' = IF pull.pc \in {"asking", "answered"} THEN [Unasked EXCEPT !.pc = "failed"] ELSE pull
    /\ UNCHANGED <<local, artifact, queued, published, target>>
-----------------------------------------------------------------------------
\* Pulling the results.

(* results are there when the task has run                                  *)
StartPull ==
    /\ queued # Nothing /\ pull.pc \in {"idle", "failed", "done"}
    /\ pull' = [Unasked EXCEPT !.pc = "asking"]
    /\ UNCHANGED <<local, upload, artifact, staged, queued, published, target, faults>>

(* _on_artifact_pull: the paths in order, from their cursors, up to a batch *)
MutantServed(cursor) ==
    LET all == FlattenSeq([k \in DOMAIN Results |->
                  LET f == Results[k] IN [j \in 1..(Chunks[f] - cursor[f]) |-> <<f, cursor[f] + j, published[f]>>]])
        batch == SubSeq(all, 1, Min({Batch, Len(all)})) IN
    [chunks |-> batch,
     cursor |-> [f \in ToSet(Results) |-> Min({Chunks[f], cursor[f] + Batch})],
     done |-> \A f \in ToSet(Results) : cursor[f] + Batch >= Chunks[f]]
Served(cursor) ==
    LET all == FlattenSeq([k \in DOMAIN Results |->
                  LET f == Results[k] IN [j \in 1..(Chunks[f] - cursor[f]) |-> <<f, cursor[f] + j, published[f]>>]])
        batch == SubSeq(all, 1, Min({Batch, Len(all)})) IN
    [chunks |-> batch,
     cursor |-> [f \in ToSet(Results) |-> cursor[f] + Cardinality({c \in ToSet(batch) : c[1] = f})],
     done |-> batch = all]
Pull ==
    /\ pull.pc = "asking"
    /\ pull' = [pull EXCEPT !.pc = "answered", !.reply = Served(pull.cursor)]
    /\ UNCHANGED <<local, upload, artifact, staged, queued, published, target, faults>>

(* pull_results: chunks are written over what is there; the digests are     *)
(* compared at the end                                                       *)
Landed(files, chunks) ==
    [f \in ToSet(Results) |->
        [i \in DOMAIN files[f] \union {c[2] : c \in {d \in ToSet(chunks) : d[1] = f}} |->
            IF \E c \in ToSet(chunks) : c[1] = f /\ c[2] = i
            THEN (CHOOSE c \in ToSet(chunks) : c[1] = f /\ c[2] = i)[3] ELSE files[f][i]]]
Exact(files) == \A f \in ToSet(Results) : DOMAIN files[f] = All(f) /\ \A i \in All(f) : files[f][i]
Pulled ==
    /\ pull.pc = "answered"
    /\ target' = Landed(target, pull.reply.chunks)
    /\ pull' = [pull EXCEPT !.cursor = pull.reply.cursor, !.reply = Nothing,
                  !.pc = IF ~pull.reply.done THEN "asking" ELSE IF Exact(target') THEN "done" ELSE "mismatch"]
    /\ UNCHANGED <<local, upload, artifact, staged, queued, published, faults>>
PullDrops ==
    /\ pull.pc \in {"asking", "answered"} /\ faults < MaxFaults /\ faults' = faults + 1
    /\ pull' = [Unasked EXCEPT !.pc = "failed"]
    /\ UNCHANGED <<local, upload, artifact, staged, queued, published, target>>

(* worker_publish after worker_finish has taken the manifest                *)
Publish(f) ==
    /\ published[f] /\ faults < MaxFaults /\ faults' = faults + 1
    /\ published' = [published EXCEPT ![f] = FALSE]
    /\ UNCHANGED <<local, upload, artifact, staged, queued, pull, target>>

Next ==
    \/ \E c \in Commands : StartUpload(c) \/ Answered(c) \/ Drop(c) \/ Offer(c)
                         \/ Put(c) \/ Refuse(c) \/ HostEnds(c)
    \/ \E f \in Inputs : Edit(f)
    \/ StartPull \/ Pull \/ Pulled \/ PullDrops
    \/ \E f \in ToSet(Results) : Publish(f)
Spec == Init /\ [][Next]_transfer
-----------------------------------------------------------------------------
(* Every variable keeps its type.                                           *)
TypeOK ==
    /\ \A p \in DOMAIN Pages : artifact[p].state \in {"none", "partial", "complete", "verified_failed"}
    /\ \A c \in Commands : upload[c].pc \in {"idle", "asking", "answered", "done", "failed"}

(* The inputs that are unpacked for the worker are the declared ones, chunk *)
(* by chunk, whatever two commands, broken connections and edited files have *)
(* left in the staging directory: all but what a batch wrote that the host   *)
(* did not finish.                                                           *)
Kept(disk, f) == DOMAIN disk[f] = All(f) /\ \A i \in All(f) : disk[f][i] \in {"good", "stray"}
WorkerGetsTheInputs == queued # Nothing => \A f \in Inputs : Kept(queued, f)
(* And without that exception.  Violated.                                    *)
InputsAreVerified == queued # Nothing => \A f \in Inputs : Verified(queued, f)

(* A pull only ends in a digest mismatch when the worker published again, or *)
(* when the guest had a longer file of that name.                            *)
PullFindsTheResults ==
    pull.pc = "mismatch" => \E f \in ToSet(Results) : ~published[f] \/ Before[f] > Chunks[f]

(* An upload that returns has left every artifact complete, unless a file    *)
(* was gone.                                                                 *)
UploadsAreComplete ==
    \A c \in Commands : upload[c].pc = "done" =>
        \A p \in DOMAIN Pages : artifact[p].state = "complete"
                                \/ \E f \in ToSet(Pages[p]) : ~local[f].intact
=============================================================================
