---------------------------- MODULE GroupFrames -----------------------------
(***************************************************************************)
(* What the frames of a group carry (proto/group.py): the authority builds *)
(* for every active Member a signed envelope with the Member's view and    *)
(* the recovery checkpoint, each in full or as a delta to the one before;  *)
(* a replica checks and decodes it.  With the Members that come late, the  *)
(* hooks that raise halfway, and an authority built from a checkpoint.     *)
(* A hash is what it is of; a frame's is its epoch and number.             *)
(***************************************************************************)
EXTENDS Naturals, Sequences, FiniteSets, JsonDelta

CONSTANTS
    Members,
    Founders,     \* who is there when the group starts, with its Leader
    First,        \* the first Leader
    States,       \* the states that hooks give: JSON values
    Ending,       \* the states in which they say that the match is over
    Refuses,      \* TRUE when the hooks may refuse a newcomer
    Nobody,       \* no frame, no checkpoint, no channel
    CheckpointEvery,
    MaxHistory,   \* 256: the checkpoints that an acknowledgement may be for
    MaxSeq, MaxEpoch, MaxFaults, MaxBehind   \* bounds

VARIABLES
    authority,    \* the fields of GroupAuthority
    channel,      \* per Member: the envelopes on the way to it, or Nobody
    replica,      \* per Member: the fields of GroupReplica
    faults        \* bound: channels that broke, hooks that raised

frames == <<authority, channel, replica, faults>>

(* proto_group_view, _make_checkpoint_state; a view shows what it shows to   *)
(* everyone, and the Members are counted                                     *)
View(a) == Obj([public |-> a.state])
CheckpointState(a) ==
    Obj([members |-> Num(Cardinality(a.members)), protocol |-> a.state,
         completed |-> Bool(IF a.completed THEN 1 ELSE 0)])

(* _build_envelopes: the next frame, its checkpoint and views.  small says  *)
(* which deltas are small enough to be sent                                 *)
Mode(full, small, previous, value) ==
    IF full \/ ~small THEN [mode |-> "full", body |-> value]
    ELSE [mode |-> "delta", body |-> MakeDelta(previous, value)]
Built(a, kind, small) ==
    LET seq == IF kind = "snapshot" THEN a.seq ELSE a.seq + 1
        state == CheckpointState(a)
        hash == <<a.epoch, seq>>
        full == a.base = Nobody \/ kind # "frame" \/ a.completed \/ seq % CheckpointEvery = 0
        checkpoint == [epoch |-> a.epoch, seq |-> seq, hash |-> hash, version |-> a.version, state |-> state]
        core == [epoch |-> a.epoch, leader |-> a.leader, seq |-> seq, hash |-> hash, prev |-> a.hash,
                 version |-> a.version, recovery |-> state, completed |-> a.completed]
        sent == Mode(full, "checkpoint" \in small, a.base, state) IN
    [core |-> core, checkpoint |-> checkpoint,
     envelopes |-> [m \in a.members |->
        [core |-> core, checkpoint |-> sent, seen |-> View(a),
         view |-> Mode(a.views[m] = Nobody \/ kind # "frame", "view" \in small, a.views[m], View(a))]]]

(* The authority after the frame is written: the bases of the next deltas,  *)
(* and the latest checkpoints                                                *)
Kept(history) == {c \in history : Cardinality({d \in history : d.seq > c.seq}) < MaxHistory}
MutantAfter(a, built) ==   \* the base of a delta is the last full checkpoint
    [a EXCEPT !.seq = built.core.seq, !.hash = built.core.hash,
              !.base = IF @ = Nobody \/ built.core.seq % CheckpointEvery = 0 THEN built.core.recovery ELSE @,
              !.current = built.checkpoint, !.core = built.core, !.history = Kept(@ \union {built.checkpoint}),
              !.views = [m \in Members |-> IF m \in a.members THEN View(a) ELSE Nobody]]
After(a, built) ==
    [a EXCEPT !.seq = built.core.seq, !.hash = built.core.hash, !.base = built.core.recovery,
              !.current = built.checkpoint, !.core = built.core, !.history = Kept(@ \union {built.checkpoint}),
              !.views = [m \in Members |-> IF m \in a.members THEN View(a) ELSE Nobody]]

Fresh(leader, epoch, seq, hash, members, version, state, completed) ==
    [leader |-> leader, epoch |-> epoch, seq |-> seq, hash |-> hash, members |-> members, seated |-> members,
     version |-> version, state |-> state, completed |-> completed, base |-> Nobody, current |-> Nobody,
     core |-> Nobody, history |-> {}, views |-> [m \in Members |-> Nobody],
     replicated |-> Nobody]
Blank == [leader |-> First, epoch |-> 1, seq |-> 0, hash |-> <<0, 0>>, checkpoint |-> Nobody, view |-> Nobody,
          refused |-> "none"]

Init ==
    /\ \E state \in States \ Ending :
         LET a == Fresh(First, 1, 0, <<0, 0>>, Founders, 1, state, FALSE) IN
         authority = After(a, Built(a, "snapshot", {}))
    /\ channel = [m \in Members |-> Nobody] /\ replica = [m \in Members |-> Blank]
    /\ faults = 0
-----------------------------------------------------------------------------
Connected == {m \in Members : channel[m] # Nobody}
Broadcast(built) ==
    channel' = [m \in Members |-> IF m \in Connected /\ m \in DOMAIN built.envelopes
                                  THEN Append(channel[m], built.envelopes[m]) ELSE channel[m]]
Going ==
    /\ authority.seq < MaxSeq /\ ~authority.completed
    /\ \A m \in Connected : Len(channel[m]) <= MaxBehind

(* apply_input: the hooks accept an action                                  *)
ApplyInput ==
    /\ Going
    /\ \E state \in States, small \in SUBSET {"view", "checkpoint"} :
         LET a == [authority EXCEPT !.state = state, !.completed = state \in Ending]
             built == Built(a, "frame", small) IN
         authority' = After(a, built) /\ Broadcast(built)
    /\ UNCHANGED <<replica, faults>>

(* apply_input when the snapshot or a view raises: the state and the number *)
(* have changed, no frame goes out and the Member is told "rejected"        *)
ApplyRaises ==
    /\ Going /\ faults < MaxFaults /\ faults' = faults + 1
    /\ \E state \in States \ {authority.state} :
         authority' = [authority EXCEPT !.state = state, !.completed = state \in Ending, !.seq = @ + 1]
    /\ UNCHANGED <<channel, replica>>

Follows(m) ==
    IF replica[m].epoch = authority.epoch THEN replica[m]
    ELSE [replica[m] EXCEPT !.leader = authority.leader, !.epoch = authority.epoch]

(* attach of a newcomer that the server has admitted, with add_member: the   *)
(* hooks may refuse it                                                       *)
Attach(m) ==
    /\ m \in Members \ authority.members /\ Going
    /\ replica' = [replica EXCEPT ![m] = [Follows(m) EXCEPT !.refused = "none"]]
    /\ LET added == [authority EXCEPT !.members = @ \union {m}, !.version = @ + 1] IN
       \/ \E state \in States :
            LET a == [added EXCEPT !.state = state, !.seated = @ \union {m}]
                built == Built(a, "membership", {}) IN
            /\ authority' = After(a, built)
            /\ channel' = [n \in Members |->
                 IF n = m THEN <<built.envelopes[m]>>
                 ELSE IF n \in Connected /\ n \in a.members THEN Append(channel[n], built.envelopes[n]) ELSE channel[n]]
       \/ Refuses /\ authority' = added /\ UNCHANGED channel
    /\ UNCHANGED faults

(* attach_existing, with bootstrap_envelope: the last frame's core, with a  *)
(* view of the state as it is now                                           *)
Bootstrap(m) ==
    [core |-> authority.core, seen |-> View(authority),
     view |-> [mode |-> "full", body |-> View(authority)],
     checkpoint |-> [mode |-> "full", body |-> authority.current.state]]
AttachExisting(m) ==
    /\ m \in authority.members \ {authority.leader} /\ channel[m] = Nobody
    /\ replica' = [replica EXCEPT ![m] = [Follows(m) EXCEPT !.refused = "none"]]
    /\ channel' = [channel EXCEPT ![m] = <<Bootstrap(m)>>]
    /\ UNCHANGED <<authority, faults>>
-----------------------------------------------------------------------------
(* GroupReplica.apply, with _decode_checkpoint and _decode_view; the first  *)
(* envelope of a channel is a bootstrap                                     *)
Decoded(sent, base) ==
    IF sent.mode = "full" THEN sent.body
    ELSE IF base = Nobody THEN Broken ELSE ApplyDelta(base, sent.body)
Verdict(r, envelope, bootstrap) ==
    LET c == envelope.core IN
    IF c.leader # r.leader \/ c.epoch # r.epoch THEN "epoch"
    ELSE IF r.checkpoint # Nobody /\ c.seq = r.seq /\ c.hash = r.hash THEN "known"
    ELSE IF r.checkpoint # Nobody /\ c.seq <= r.seq THEN "backwards"
    ELSE IF ~bootstrap /\ c.seq # r.seq + 1 THEN "gap"
    ELSE IF ~bootstrap /\ c.prev # r.hash THEN "chain"
    ELSE IF bootstrap /\ "delta" \in {envelope.view.mode, envelope.checkpoint.mode} THEN "no base"
    ELSE IF Decoded(envelope.checkpoint, IF r.checkpoint = Nobody THEN Nobody ELSE r.checkpoint.state) # c.recovery
         THEN "checkpoint"
    ELSE IF Decoded(envelope.view, r.view) # envelope.seen THEN "view"
    ELSE "good"
MutantStored(r, envelope, bootstrap) ==
    LET c == envelope.core IN
    [r EXCEPT !.seq = c.seq, !.hash = c.hash, !.view = IF bootstrap /\ @ # Nobody THEN @ ELSE envelope.seen,
              !.checkpoint = [epoch |-> c.epoch, seq |-> c.seq, hash |-> c.hash, version |-> c.version,
                              state |-> c.recovery]]
Stored(r, envelope, bootstrap) ==
    LET c == envelope.core IN
    [r EXCEPT !.seq = c.seq, !.hash = c.hash, !.view = envelope.seen,
              !.checkpoint = [epoch |-> c.epoch, seq |-> c.seq, hash |-> c.hash, version |-> c.version,
                              state |-> c.recovery]]

(* run_group_guest_channel: a refusal ends the channel                      *)
Receive(m) ==
    /\ m \in Connected /\ channel[m] # <<>>
    /\ LET envelope == Head(channel[m])
           bootstrap == replica[m].refused = "none"
           verdict == Verdict(replica[m], envelope, bootstrap) IN
       IF verdict \in {"good", "known"}
       THEN /\ replica' = [replica EXCEPT ![m] = [(IF verdict = "good" THEN Stored(@, envelope, bootstrap) ELSE @)
                                                  EXCEPT !.refused = "open"]]
            /\ channel' = [channel EXCEPT ![m] = Tail(@)]
       ELSE /\ replica' = [replica EXCEPT ![m].refused = verdict]
            /\ channel' = [channel EXCEPT ![m] = Nobody]
    /\ UNCHANGED <<authority, faults>>

(* The channel breaks: what is on the way is lost                           *)
Lose(m) ==
    /\ m \in Connected /\ faults < MaxFaults /\ faults' = faults + 1
    /\ channel' = [channel EXCEPT ![m] = Nobody]
    /\ UNCHANGED <<authority, replica>>

(* acknowledge, for the last frame that the Member has applied: an earlier   *)
(* acknowledgement that comes late changes nothing that this one does not    *)
MutantAcknowledge(m) ==
    /\ m \in Connected /\ replica[m].refused = "open"
    /\ authority' = IF m \in authority.members
                    THEN [authority EXCEPT !.replicated = authority.current] ELSE authority
    /\ UNCHANGED <<channel, replica, faults>>
Acknowledge(m) ==
    /\ m \in Connected /\ replica[m].refused = "open"
    /\ LET held == {c \in authority.history : c.hash = replica[m].hash} IN
       authority' = IF m \notin authority.members \ {authority.leader} \/ held = {} THEN authority
                    ELSE LET c == CHOOSE c \in held : TRUE IN
                         [authority EXCEPT !.replicated = IF @ = Nobody \/ c.seq > @.seq THEN c ELSE @]
    /\ UNCHANGED <<channel, replica, faults>>

(* GroupAuthority.__init__ of a successor: the metadata and the state of    *)
(* its checkpoint, the Members that the server lists; the hooks are told of *)
(* who has come and gone, and their last word is on the new leader          *)
Succeed(m) ==
    /\ m # authority.leader /\ replica[m].checkpoint # Nobody
    /\ authority.epoch < MaxEpoch /\ replica[m].seq < MaxSeq
    /\ \E state \in States, current \in SUBSET Members :
         LET c == replica[m].checkpoint
             a == Fresh(m, authority.epoch + 1, c.seq, c.hash, current, authority.version + 1, state, state \in Ending) IN
         /\ m \in current
         /\ authority' = After(a, Built(a, "epoch_start", {}))
    /\ channel' = [n \in Members |-> Nobody]
    /\ UNCHANGED <<replica, faults>>

Next ==
    \/ ApplyInput \/ ApplyRaises
    \/ \E m \in Members :
         \/ Attach(m) \/ AttachExisting(m)
         \/ Receive(m) \/ Lose(m) \/ Acknowledge(m) \/ Succeed(m)
Spec == Init /\ [][Next]_frames
-----------------------------------------------------------------------------
(* Every variable keeps its type, and a delta never breaks.                 *)
Refusals == {"none", "open", "epoch", "backwards", "gap", "chain", "no base", "checkpoint", "view"}
TypeOK ==
    /\ authority.members \subseteq Members /\ authority.seq \in 0..MaxSeq 
    /\ \A m \in Members : replica[m].refused \in Refusals

(* A replica only turns an envelope down because frames are missing or it   *)
(* is ahead of its Leader: never is a delta sent without the base that the  *)
(* replica has, nor does a decoded view or checkpoint miss its hash.        *)
OnlyGapsAreRefused ==
    \A m \in Members : replica[m].refused \in {"none", "open", "backwards", "gap"}

(* The checkpoint that the Leader counts as replicated is the very one that *)
(* another Member holds, unless that has replaced it by a later one.        *)
ReplicatedIsHeld ==
    authority.replicated # Nobody =>
        \E m \in Members \ {authority.leader} :
            \/ replica[m].checkpoint = authority.replicated
            \/ replica[m].checkpoint # Nobody /\ replica[m].checkpoint.epoch = authority.epoch
               /\ replica[m].seq > authority.replicated.seq

(* Who takes part as a Member is one whom the hooks have taken in.          *)
HooksKnowTheMembers == \A m \in Connected : m \in authority.seated
=============================================================================
