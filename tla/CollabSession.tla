--------------------------- MODULE CollabSession ----------------------------
(***************************************************************************)
(* How a guest gets to a host of the collaboration service: the community  *)
(* server's invitations, the admission exchange (collab/admission.py), the *)
(* formal join and the reattachment (guest_app.py, host_app.py), with      *)
(* connections that break anywhere and a host that restarts.               *)
(*                                                                         *)
(* A session is the invitation, the guest and its nonce; nonces are the    *)
(* numbers of the connections, so none comes twice.  Signatures and MACs   *)
(* are over a transcript of these, and valid: both sides have the key.     *)
(***************************************************************************)
EXTENDS Naturals, FiniteSets

CONSTANTS
    Guests,
    Trusted,      \* who is in the host's registry
    Slots,        \* MAX_CONCURRENT_ADMISSIONS
    MaxDials, MaxPosts, MaxFaults,   \* bounds: connections, invitations, faults
    None

VARIABLES
    posts,        \* the server's invitations: status, who consumed, the ticket
    host,         \* the invitation it offers, its node
    bindings,     \* kv session-bindings: per guest
    bound,        \* every session that was ever bound
    call,         \* per guest: its command and connection
    serve,        \* per connection: the host's handler
    wire,         \* per connection: the message on the way, up or down
    cache,        \* per guest: the cached ticket and session
    dials, faults

session == <<posts, host, bindings, bound, call, serve, wire, cache, dials, faults>>

Session(post, g, nonce) == [post |-> post, guest |-> g, nonce |-> nonce]
Idle == [pc |-> "idle", nonce |-> 0, post |-> 0, session |-> None]
Gone == [pc |-> "gone", guest |-> None, post |-> 0, session |-> None]
Quiet == [up |-> None, down |-> None]
Blank == [status |-> "none", by |-> None, node |-> 0]

(* create_invitation: a new one at the server, the current one of the host  *)
Published == Cardinality({p \in DOMAIN posts : posts[p].status # "none"})
Invite(node) == [posts EXCEPT ![Published + 1] = [status |-> "active", by |-> None, node |-> node]]

Connections == 1..MaxDials
Init ==
    /\ posts = [p \in 1..MaxPosts |-> IF p = 1 THEN [Blank EXCEPT !.status = "active"] ELSE Blank]
    /\ host = [post |-> 1, node |-> 0]
    /\ bindings = [g \in Guests |-> None] /\ bound = {} /\ cache = [g \in Guests |-> None]
    /\ call = [g \in Guests |-> Idle]
    /\ serve = [n \in Connections |-> Gone] /\ wire = [n \in Connections |-> Quiet]
    /\ dials = 0 /\ faults = 0
-----------------------------------------------------------------------------
\* The guest.

(* collab_connect: the connection waits in the accept queue of that node    *)
Dial(g, node, as) ==
    /\ dials < MaxDials /\ dials' = dials + 1
    /\ IF node = host.node
       THEN /\ call' = [call EXCEPT ![g] = [as EXCEPT !.nonce = dials + 1]]
            /\ serve' = [serve EXCEPT ![dials + 1] = [Gone EXCEPT !.pc = "queued", !.guest = g]]
            /\ wire' = [wire EXCEPT ![dials + 1] = [Quiet EXCEPT !.up = [kind |-> "init"]]]
       ELSE /\ call' = [call EXCEPT ![g] = IF as.session = None THEN Idle ELSE [Idle EXCEPT !.pc = "join"]]
            /\ UNCHANGED <<serve, wire>>
    /\ UNCHANGED <<posts, host, bindings, bound, cache, faults>>

(* connect: the cached session first, then an active invitation, whichever  *)
(* the server lists first                                                    *)
Reattach(g) ==
    /\ call[g].pc = "idle" /\ cache[g] # None
    /\ Dial(g, cache[g].node, [Idle EXCEPT !.pc = "admission", !.session = cache[g].session])
Join(g) ==
    /\ call[g].pc = "join" \/ (call[g].pc = "idle" /\ cache[g] = None)
    /\ \E p \in DOMAIN posts :
         /\ posts[p].status = "active"
         /\ Dial(g, posts[p].node, [Idle EXCEPT !.pc = "admission", !.post = p])

(* A failure ends a formal join; after a reattachment a join follows        *)
Failed(g) == [Idle EXCEPT !.pc = IF call[g].session # None THEN "join" ELSE "idle"]
Says(g, message) == wire' = [wire EXCEPT ![call[g].nonce] = [up |-> message, down |-> None]]
Hears(g, kind) == call[g].nonce # 0 /\ wire[call[g].nonce].down # None /\ wire[call[g].nonce].down.kind = kind

Finish(g) ==   \* run_guest_admission, at the challenge
    /\ call[g].pc = "admission" /\ Hears(g, "challenge")
    /\ Says(g, [kind |-> "finish"])
    /\ UNCHANGED <<posts, host, bindings, bound, call, serve, cache, dials, faults>>
SessionInit(g) ==
    /\ call[g].pc = "admission" /\ Hears(g, "ok")
    /\ call' = [call EXCEPT ![g].pc = "session"]
    /\ Says(g, [kind |-> "session", session |-> call[g].session])
    /\ UNCHANGED <<posts, host, bindings, bound, serve, cache, dials, faults>>
Reattached(g) ==
    /\ call[g].pc = "session" /\ Hears(g, "reattached")
    /\ call' = [call EXCEPT ![g].pc = "open"] /\ wire' = [wire EXCEPT ![call[g].nonce] = Quiet]
    /\ UNCHANGED <<posts, host, bindings, bound, serve, cache, dials, faults>>

(* _formal_join at the proof: it must be for the invitation that was found; *)
(* the server takes a proof for an active invitation once                   *)
MutantSubmit(g) ==
    /\ call[g].pc = "session" /\ Hears(g, "proof") /\ wire[call[g].nonce].down.post = call[g].post
    /\ LET s == Session(call[g].post, g, call[g].nonce) IN
       /\ posts' = IF posts[s.post].status = "active"
                   THEN [posts EXCEPT ![s.post].status = "consumed", ![s.post].by = s] ELSE posts
       /\ call' = [call EXCEPT ![g].pc = "proved", ![g].session = s]
    /\ wire' = [wire EXCEPT ![call[g].nonce] = Quiet]
    /\ UNCHANGED <<host, bindings, bound, serve, cache, dials, faults>>
Submit(g) ==
    /\ call[g].pc = "session" /\ Hears(g, "proof") /\ wire[call[g].nonce].down.post = call[g].post
    /\ posts[call[g].post].status = "active"
    /\ LET s == Session(call[g].post, g, call[g].nonce) IN
       /\ posts' = [posts EXCEPT ![s.post].status = "consumed", ![s.post].by = s]
       /\ call' = [call EXCEPT ![g].pc = "proved", ![g].session = s]
    /\ wire' = [wire EXCEPT ![call[g].nonce] = Quiet]
    /\ UNCHANGED <<host, bindings, bound, serve, cache, dials, faults>>
Rejected(g) ==   \* it hangs up
    /\ \/ /\ call[g].pc = "session" /\ Hears(g, "proof")
          /\ wire[call[g].nonce].down.post = call[g].post => posts[call[g].post].status # "active"
       \/ Hears(g, "reject")
    /\ call' = [call EXCEPT ![g] = Failed(g)] /\ wire' = [wire EXCEPT ![call[g].nonce] = Quiet]
    /\ UNCHANGED <<posts, host, bindings, bound, serve, cache, dials, faults>>
Ready(g) ==
    /\ call[g].pc = "proved"
    /\ Says(g, [kind |-> "ready", session |-> call[g].session])
    /\ call' = [call EXCEPT ![g].pc = "open"]
    /\ cache' = [cache EXCEPT ![g] = [node |-> posts[call[g].post].node, session |-> call[g].session]]
    /\ UNCHANGED <<posts, host, bindings, bound, serve, dials, faults>>

(* The command is done, or the connection broke: the host's handler of it   *)
(* sees that when it next receives                                           *)
HangUp(g) ==
    /\ call[g].pc = "open" /\ call' = [call EXCEPT ![g] = Idle]
    /\ UNCHANGED <<posts, host, bindings, bound, serve, wire, cache, dials, faults>>
Break(g) ==
    /\ call[g].nonce # 0 /\ faults < MaxFaults /\ faults' = faults + 1
    /\ call' = [call EXCEPT ![g] = IF call[g].pc \in {"proved", "open"} THEN Idle ELSE Failed(g)]
    /\ wire' = [wire EXCEPT ![call[g].nonce] = Quiet]
    /\ UNCHANGED <<posts, host, bindings, bound, serve, cache, dials>>
-----------------------------------------------------------------------------
\* The host: _handle_candidate.

Answers(n, message) == wire' = [wire EXCEPT ![n] = [up |-> None, down |-> message]]
Asked(n, kind) == wire[n].up # None /\ wire[n].up.kind = kind
MutantAdmitting == {n \in Connections : serve[n].pc \in {"init", "challenged", "admitted", "ready"}}
Admitting == {n \in Connections : serve[n].pc \in {"init", "challenged"}}

(* The semaphore, for the time of the admission                             *)
Acquire(n) ==
    /\ serve[n].pc = "queued" /\ Cardinality(Admitting) < Slots
    /\ serve' = [serve EXCEPT ![n].pc = "init"]
    /\ UNCHANGED <<posts, host, bindings, bound, call, wire, cache, dials, faults>>

(* run_host_admission                                                       *)
Challenge(n) ==
    /\ serve[n].pc = "init" /\ Asked(n, "init")
    /\ IF serve[n].guest \in Trusted
       THEN serve' = [serve EXCEPT ![n].pc = "challenged"] /\ Answers(n, [kind |-> "challenge"])
       ELSE serve' = [serve EXCEPT ![n] = Gone] /\ Answers(n, [kind |-> "reject"])
    /\ UNCHANGED <<posts, host, bindings, bound, call, cache, dials, faults>>
Admit(n) ==
    /\ serve[n].pc = "challenged" /\ Asked(n, "finish")
    /\ serve' = [serve EXCEPT ![n].pc = "admitted"] /\ Answers(n, [kind |-> "ok"])
    /\ UNCHANGED <<posts, host, bindings, bound, call, cache, dials, faults>>
(* The budget of the exchange, of which no step of the host waits for more   *)
Timeout(n) ==
    /\ serve[n].pc \in {"init", "challenged"} /\ wire[n].up = None
    /\ serve' = [serve EXCEPT ![n] = Gone] /\ Answers(n, [kind |-> "reject"])
    /\ UNCHANGED <<posts, host, bindings, bound, call, cache, dials, faults>>

(* _session_handshake                                                       *)
MutantAttach(n) ==
    /\ serve[n].pc = "admitted" /\ Asked(n, "session") /\ wire[n].up.session # None
    /\ Answers(n, [kind |-> "reattached"])
    /\ serve' = [serve EXCEPT ![n].pc = "rpc", ![n].session = wire[n].up.session]
    /\ UNCHANGED <<posts, host, bindings, bound, call, cache, dials, faults>>
Attach(n) ==
    /\ serve[n].pc = "admitted" /\ Asked(n, "session") /\ wire[n].up.session # None
    /\ IF bindings[serve[n].guest] = wire[n].up.session
       THEN /\ Answers(n, [kind |-> "reattached"])
            /\ serve' = [serve EXCEPT ![n].pc = "rpc", ![n].session = wire[n].up.session]
       ELSE /\ Answers(n, [kind |-> "reject"])
            /\ serve' = [serve EXCEPT ![n] = Gone]
    /\ UNCHANGED <<posts, host, bindings, bound, call, cache, dials, faults>>
Prove(n) ==
    /\ serve[n].pc = "admitted" /\ Asked(n, "session") /\ wire[n].up.session = None
    /\ Answers(n, [kind |-> "proof", post |-> host.post])
    /\ serve' = [serve EXCEPT ![n].pc = "ready", ![n].post = host.post]
    /\ UNCHANGED <<posts, host, bindings, bound, call, cache, dials, faults>>

(* _session_ready: bind, then a fresh invitation, which may fail            *)
Bind(n) ==
    /\ serve[n].pc = "ready" /\ Asked(n, "ready")
    /\ LET s == Session(serve[n].post, serve[n].guest, n) IN
       /\ wire[n].up.session = s
       /\ bindings' = [bindings EXCEPT ![serve[n].guest] = s] /\ bound' = bound \union {s}
       /\ serve' = [serve EXCEPT ![n].pc = "rpc", ![n].session = s]
    /\ \/ /\ Published < MaxPosts /\ posts' = Invite(host.node)
          /\ host' = [host EXCEPT !.post = Published + 1] /\ UNCHANGED faults
       \/ faults < MaxFaults /\ faults' = faults + 1 /\ UNCHANGED <<posts, host>>
    /\ wire' = [wire EXCEPT ![n] = Quiet]
    /\ UNCHANGED <<call, cache, dials>>

(* Its connection is closed.  The flag formal is only set when the session  *)
(* handshake has returned, with the session bound: an invitation that a     *)
(* guest used up without getting so far is not replaced                      *)
Close(n) ==
    /\ serve[n].pc \notin {"gone", "queued"} /\ wire[n].up = None /\ call[serve[n].guest].nonce # n
    /\ serve' = [serve EXCEPT ![n] = Gone]
    /\ UNCHANGED <<posts, host, bindings, bound, call, wire, cache, dials, faults>>

(* The host process ends and is started again, as another node              *)
Restart ==
    /\ faults < MaxFaults /\ faults' = faults + 1 /\ Published < MaxPosts
    /\ host' = [post |-> Published + 1, node |-> host.node + 1]
    /\ posts' = Invite(host.node + 1)
    /\ serve' = [n \in Connections |-> Gone] /\ wire' = [n \in Connections |-> Quiet]
    /\ call' = [g \in Guests |-> IF call[g].nonce = 0 THEN call[g]
                                 ELSE IF call[g].pc \in {"proved", "open"} THEN Idle ELSE Failed(g)]
    /\ UNCHANGED <<bindings, bound, cache, dials>>
(* An invitation that its host does not renew runs out                      *)
Expire ==
    /\ \E p \in DOMAIN posts \ {host.post} :
         posts[p].status = "active" /\ posts' = [posts EXCEPT ![p].status = "expired"]
    /\ UNCHANGED <<host, bindings, bound, call, serve, wire, cache, dials, faults>>

Handler(n) ==
    \/ Acquire(n) \/ Challenge(n) \/ Admit(n) \/ Timeout(n)
    \/ Attach(n) \/ Prove(n) \/ Bind(n) \/ Close(n)
Next ==
    \/ \E g \in Guests :
         \/ Reattach(g) \/ Join(g) \/ Finish(g) \/ SessionInit(g) \/ Reattached(g)
         \/ Submit(g) \/ Rejected(g) \/ Ready(g) \/ HangUp(g) \/ Break(g)
    \/ \E n \in Connections : Handler(n)
    \/ Restart \/ Expire
(* The host's event loop runs its handlers; a guest may stop at any point   *)
Fairness == \A n \in Connections : WF_session(Handler(n))
Spec == Init /\ [][Next]_session /\ Fairness
-----------------------------------------------------------------------------
(* Every variable keeps its type.                                           *)
TypeOK ==
    /\ host.post \in DOMAIN posts
    /\ \A n \in Connections : serve[n].pc \in {"gone", "queued", "init", "challenged", "admitted", "ready", "rpc"}

(* Whom the host serves is on a session that it has bound, and that is the   *)
(* one for which the server took the invitation: no two have the same.       *)
SessionsAreReal ==
    /\ \A n \in Connections : serve[n].pc = "rpc" => serve[n].session \in bound
    /\ \A s \in bound : posts[s.post].by = s

(* A connection that waits for its admission gets it, whatever the guests    *)
(* that were admitted before it do.                                          *)
CandidatesAreServed == \A n \in Connections : serve[n].pc = "queued" ~> serve[n].pc # "queued"

(* With no handshake under way the host offers an invitation that a guest    *)
(* can still use, unless a session was bound and a fresh one was refused.    *)
SomeInvitationIsOpen ==
    (\A n \in Connections : serve[n].pc \in {"gone", "rpc"}) =>
        posts[host.post].status = "active" \/ posts[host.post].by \in bound
=============================================================================
