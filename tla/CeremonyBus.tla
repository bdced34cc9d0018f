---------------------------- MODULE CeremonyBus ----------------------------
(***************************************************************************)
(* The transport of a ceremony (ceremony/bus.py): public artifacts, direct *)
(* messages and signed contributions of the roles, the collection of a     *)
(* quorum of contributions before a deadline, and the abort that ends      *)
(* everything.  A delivery checks for an abort, may be delayed, and takes  *)
(* the condition's lock only afterwards: these are two steps.              *)
(***************************************************************************)
EXTENDS Naturals, Sequences, FiniteSets

CONSTANTS
    Roles,       \* the authorized role assignments
    Allowed,     \* of them, those whose kind the quorum rule admits
    Payloads,    \* what a role contributes
    Artifacts,   \* public artifacts: [id, scope, kindScope, clean]
    Collectors,  \* calls of collect_quorum
    QuorumMinimum,              \* of the frozen rule
    DropEvery, DuplicateEvery,  \* the fault policy, 0 for never
    MaxDeliveries,              \* bound: deliveries
    None

VARIABLES
    roles,         \* _roles: registered
    deliveries,    \* _delivery_count
    delayed,       \* deliveries that wait: [number, what, role, item]
    contributions, \* _contributions of the collected kind, per role
    public,        \* _public_artifacts
    direct,        \* _direct, per role
    abort,         \* _abort_record
    collectors,    \* per call: [at |-> "idle", "waiting", "got", "timeout" or "aborted", got |-> what was returned]
    read           \* the cursor of a subscriber of the public artifacts

bus == <<roles, deliveries, delayed, contributions, public, direct, abort, collectors, read>>

-----------------------------------------------------------------------------
(* verify_public_artifact: a kind is bound to the ceremony or to the        *)
(* decision, and a body holds no field that identifies a voter              *)
ValidArtifact(a) == a.scope = a.kindScope /\ a.clean

(* _before_delivery: counted, then delivered, dropped or doubled *)
Dropped(n) == DropEvery # 0 /\ n % DropEvery = 0
Duplicated(n) == DuplicateEvery # 0 /\ n % DuplicateEvery = 0

Init ==
    /\ roles = {} /\ deliveries = 0 /\ delayed = {}
    /\ contributions = [r \in Roles |-> None]
    /\ public = <<>>
    /\ direct = [r \in Roles |-> <<>>]
    /\ abort = FALSE
    /\ collectors = [c \in Collectors |-> [at |-> "idle", got |-> {}]]
    /\ read = 0

RegisterRole(r) ==
    /\ ~abort
    /\ r \notin roles
    /\ roles' = roles \union {r}
    /\ UNCHANGED <<deliveries, delayed, contributions, public, direct, abort, collectors, read>>

(* the first half of broadcast, send_to_role and submit_contribution *)
Begin(what, r, item) ==
    /\ ~abort
    /\ deliveries < MaxDeliveries
    /\ deliveries' = deliveries + 1
    /\ delayed' = IF Dropped(deliveries + 1) THEN delayed
                  ELSE delayed \union {[number |-> deliveries + 1, what |-> what,
                                        role |-> r, item |-> item]}
    /\ UNCHANGED <<roles, contributions, public, direct, abort, collectors, read>>

Broadcast(a) == ValidArtifact(a) /\ Begin("public", None, a)
SendToRole(r) == r \in roles /\ Begin("direct", r, None)
SubmitContribution(r, p) == r \in roles /\ Begin("contribution", r, p)

(* the second half, under the lock: the abort is looked at again *)
DeliverPublic(d) ==
    /\ d.what = "public"
    /\ public' = IF \E i \in DOMAIN public : public[i] = d.item
                 THEN public ELSE Append(public, d.item)
    /\ UNCHANGED <<contributions, direct>>

DeliverDirect(d) ==
    /\ d.what = "direct"
    /\ direct' = [direct EXCEPT ![d.role] =
                    IF Duplicated(d.number) THEN Append(Append(@, d.number), d.number)
                    ELSE Append(@, d.number)]
    /\ UNCHANGED <<contributions, public>>

MutantDeliverContribution(d) ==
    /\ d.what = "contribution"
    /\ contributions' = [contributions EXCEPT ![d.role] = d.item]
    /\ UNCHANGED <<public, direct>>

(* a second contribution that differs is a conflict, and refused *)
DeliverContribution(d) ==
    /\ d.what = "contribution"
    /\ contributions' = [contributions EXCEPT ![d.role] = IF @ = None THEN d.item ELSE @]
    /\ UNCHANGED <<public, direct>>

MutantDeliver(d) ==
    /\ delayed' = delayed \ {d}
    /\ DeliverPublic(d) \/ DeliverDirect(d) \/ DeliverContribution(d)
    /\ UNCHANGED <<roles, deliveries, abort, collectors, read>>

Deliver(d) ==
    /\ delayed' = delayed \ {d}
    /\ IF abort THEN UNCHANGED <<contributions, public, direct>>
       ELSE DeliverPublic(d) \/ DeliverDirect(d) \/ DeliverContribution(d)
    /\ UNCHANGED <<roles, deliveries, abort, collectors, read>>

ReceiveDirect(r) ==
    /\ r \in roles /\ ~abort /\ direct[r] # <<>>
    /\ direct' = [direct EXCEPT ![r] = <<>>]
    /\ UNCHANGED <<roles, deliveries, delayed, contributions, public, abort, collectors, read>>

-----------------------------------------------------------------------------
(* collect_quorum *)

Selected == {r \in Allowed : contributions[r] # None}

(* one round of the loop: aborted, enough, too late, or wait on *)
Round(late) ==
    IF abort THEN [at |-> "aborted", got |-> {}]
    ELSE IF Cardinality(Selected) >= QuorumMinimum THEN [at |-> "got", got |-> {<<r, contributions[r]>> : r \in Selected}]
    ELSE [at |-> IF late THEN "timeout" ELSE "waiting", got |-> {}]

Collect(c) ==
    /\ collectors[c].at = "idle"
    /\ \E late \in BOOLEAN : collectors' = [collectors EXCEPT ![c] = Round(late)]
    /\ UNCHANGED <<roles, deliveries, delayed, contributions, public, direct, abort, read>>

Waiting(c) == collectors[c].at = "waiting"

(* woken by a notify_all *)
Wake(c) ==
    /\ Waiting(c) /\ Round(FALSE).at # "waiting"
    /\ collectors' = [collectors EXCEPT ![c] = Round(FALSE)]
    /\ UNCHANGED <<roles, deliveries, delayed, contributions, public, direct, abort, read>>

(* the wait times out: whatever has arrived since the last round, too late  *)
Deadline(c) ==
    /\ Waiting(c)
    /\ collectors' = [collectors EXCEPT ![c].at = "timeout"]
    /\ UNCHANGED <<roles, deliveries, delayed, contributions, public, direct, abort, read>>

(* the caller is cancelled: the whole ceremony is aborted *)
Cancel(c) ==
    /\ Waiting(c)
    /\ abort' = TRUE
    /\ collectors' = [collectors EXCEPT ![c].at = "aborted"]
    /\ UNCHANGED <<roles, deliveries, delayed, contributions, public, direct, read>>

Abort ==
    /\ ~abort /\ abort' = TRUE
    /\ UNCHANGED <<roles, deliveries, delayed, contributions, public, direct, collectors, read>>

(* subscribe_public_artifacts: everything from the cursor on; what was      *)
(* published before an abort can still be read                              *)
Subscribe ==
    /\ read < Len(public)
    /\ read' = Len(public)
    /\ UNCHANGED <<roles, deliveries, delayed, contributions, public, direct, abort, collectors>>

Next ==
    \/ \E r \in Roles : RegisterRole(r) \/ SendToRole(r) \/ ReceiveDirect(r)
    \/ \E r \in Roles, p \in Payloads : SubmitContribution(r, p)
    \/ \E a \in Artifacts : Broadcast(a)
    \/ \E d \in delayed : Deliver(d)
    \/ \E c \in Collectors : Collect(c) \/ Wake(c) \/ Deadline(c) \/ Cancel(c)
    \/ Abort
    \/ Subscribe

Spec == Init /\ [][Next]_bus
-----------------------------------------------------------------------------
(* Every variable keeps its type (InMemoryCeremonyBus.__init__).            *)
TypeOK ==
    /\ roles \subseteq Roles
    /\ deliveries \in 0..MaxDeliveries
    /\ \A d \in delayed : d.number \in 1..deliveries
    /\ contributions \in [Roles -> {None} \union Payloads]
    /\ public \in Seq(Artifacts) /\ read \in 0..Len(public)
    /\ direct \in [Roles -> Seq(1..MaxDeliveries)]
    /\ abort \in BOOLEAN
    /\ collectors \in [Collectors -> [at : {"idle", "waiting", "got", "timeout", "aborted"},
                                    got : SUBSET (Roles \X Payloads)]]

(* Once the ceremony is aborted nothing is delivered any more, also not     *)
(* what had passed the first check and was delayed, and no collection that  *)
(* looks again finds a quorum (the second check under the lock).            *)
NothingAfterAbort ==
    [][abort => /\ contributions' = contributions /\ public' = public /\ direct' = direct
                /\ \A c \in Collectors :
                    collectors'[c] # collectors[c] => collectors'[c].at \in {"aborted", "timeout"}]_bus

(* Two collections of one kind never disagree: what the one returned is     *)
(* part of what the other returned, whoever was delayed, doubled or         *)
(* dropped in between (submit_contribution refuses a second, different      *)
(* contribution of a role, and nothing is taken back).                      *)
CollectorsAgree ==
    \A c, d \in Collectors :
        \/ collectors[c].got \subseteq collectors[d].got
        \/ collectors[d].got \subseteq collectors[c].got
=============================================================================
