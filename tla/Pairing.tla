------------------------------- MODULE Pairing -------------------------------
(***************************************************************************)
(* How a Host and a Guest come to play (agent/host.py, agent/join.py): an  *)
(* invitation on the platform, a channel, a session both have signed, the  *)
(* Host's own hooks if both agree to that (agent/protocol_bundle_p2p.py),  *)
(* the match, and the end of the session on the platform.  Each side is a  *)
(* process whose parent (the daemon command) writes session.json too.      *)
(* The platform is external: it keeps invitations and sessions.            *)
(***************************************************************************)
EXTENDS Naturals, Sequences

CONSTANT None

Roles == {"host", "guest"}
Other(r) == IF r = "host" THEN "guest" ELSE "host"

VARIABLES
    consent,   \* [share, accept, local]: --share-bundle, --accept-host-bundle, the Guest's own hooks are usable
    post,      \* the invitation: "none", "open", "expired" or "closed"
    renewing,  \* the renewal task of the Host runs
    matched,   \* the session on the platform: "none", "matched", "closed" or "failed"
    reports,   \* per role: the outcome it has reported
    open,      \* the channel is up
    wire,      \* per role: frames on the way to it
    child,     \* per role: where the process is, and what it has taken
    parent,    \* per role: where the daemon command is
    event,     \* per role: the event its parent waits for has been emitted
    meta       \* per role: session.json

pairing == <<consent, post, renewing, matched, reports, open, wire, child, parent, event, meta>>

Frame(kind) == [kind |-> kind, good |-> TRUE]
Ended == {"finished", "dead"}

Init ==
    /\ consent \in [share : BOOLEAN, accept : BOOLEAN, local : BOOLEAN]
    /\ post = "none" /\ renewing = FALSE /\ matched = "none" /\ reports = [r \in Roles |-> None]
    /\ open = FALSE /\ wire = [r \in Roles |-> <<>>]
    /\ child = [r \in Roles |-> [at |-> "starting", bundle |-> FALSE, result |-> None]]
    /\ parent = [r \in Roles |-> [at |-> "spawned", copy |-> None]]
    /\ event = [r \in Roles |-> FALSE]
    /\ meta = [r \in Roles |-> [status |-> "starting", bundle |-> FALSE]]
-----------------------------------------------------------------------------
Goes(r, there) == child' = [child EXCEPT ![r].at = there]
Sends(r, kinds) == wire' = [wire EXCEPT ![Other(r)] = @ \o [i \in DOMAIN kinds |-> Frame(kinds[i])]]
Gets(r, kind) == wire[r] # <<>> /\ Head(wire[r]).kind = kind
Takes(r) == wire' = [wire EXCEPT ![r] = Tail(@)]
Answers(r, kinds) ==
    wire' = [wire EXCEPT ![r] = Tail(@), ![Other(r)] = @ \o [i \in DOMAIN kinds |-> Frame(kinds[i])]]

(* _network_host: the invitation, and its renewal until a Guest is there     *)
Invite ==
    /\ child["host"].at = "starting" /\ post = "none"
    /\ post' = "open" /\ Goes("host", "waiting")
    /\ renewing' \in BOOLEAN
    /\ event' = [event EXCEPT !["host"] = TRUE]
    /\ UNCHANGED <<consent, matched, reports, open, wire, parent, meta>>
RenewalEnds ==
    /\ renewing /\ renewing' = FALSE
    /\ UNCHANGED <<consent, post, matched, reports, open, wire, child, parent, event, meta>>
Expires ==
    /\ post = "open" /\ ~renewing /\ post' = "expired"
    /\ UNCHANGED <<consent, renewing, matched, reports, open, wire, child, parent, event, meta>>

(* _join: local hooks that are not usable need the Host's                    *)
Join ==
    /\ child["guest"].at = "starting" /\ post = "open"
    /\ IF consent.local \/ consent.accept
       THEN open' = TRUE /\ Goes("guest", "proof?") /\ Sends("guest", <<"init">>)
       ELSE UNCHANGED <<open, wire>> /\ Goes("guest", "dead")
    /\ UNCHANGED <<consent, post, renewing, matched, reports, parent, event, meta>>
Offered == consent.share /\ consent.accept
Prove ==
    /\ child["host"].at = "waiting" /\ Gets("host", "init")
    /\ Answers("host", <<"proof">>) /\ Goes("host", "request?")
    /\ UNCHANGED <<consent, post, renewing, matched, reports, open, parent, event, meta>>

(* maybe_receive_host_bundle, and the hooks that the match will run          *)
Proved ==
    /\ child["guest"].at = "proof?" /\ Gets("guest", "proof")
    /\ IF Offered THEN Answers("guest", <<"request">>) /\ Goes("guest", "bundle?")
       ELSE /\ Takes("guest")
            /\ IF consent.local THEN Goes("guest", "submitting") ELSE Goes("guest", "dead")
    /\ UNCHANGED <<consent, post, renewing, matched, reports, open, parent, event, meta>>
Serve ==
    /\ child["host"].at = "request?" /\ Gets("host", "request")
    /\ \E good \in BOOLEAN :
          wire' = [wire EXCEPT !["host"] = Tail(@),
                   !["guest"] = @ \o <<Frame("begin"), [Frame("file") EXCEPT !.good = good], Frame("end")>>]
    /\ Goes("host", "ack?")
    /\ UNCHANGED <<consent, post, renewing, matched, reports, open, parent, event, meta>>
Receive ==
    /\ child["guest"].at = "bundle?" /\ wire["guest"] # <<>>
    /\ LET frame == Head(wire["guest"]) IN
       CASE frame.kind # "end" /\ frame.good -> Takes("guest") /\ UNCHANGED child
         [] frame.kind # "end" /\ ~frame.good -> Answers("guest", <<"rejected">>) /\ Goes("guest", "dead")
         [] OTHER -> /\ Answers("guest", <<"installed">>)
                     /\ child' = [child EXCEPT !["guest"].at = "submitting", !["guest"].bundle = TRUE]
    /\ UNCHANGED <<consent, post, renewing, matched, reports, open, parent, event, meta>>
Acknowledged ==
    /\ child["host"].at = "ack?" /\ (Gets("host", "installed") \/ Gets("host", "rejected"))
    /\ Takes("host")
    /\ IF Gets("host", "installed")
       THEN child' = [child EXCEPT !["host"].at = "ready?", !["host"].bundle = TRUE]
       ELSE Goes("host", "dead")
    /\ UNCHANGED <<consent, post, renewing, matched, reports, open, parent, event, meta>>

(* submit_session: both signatures go to the platform, then the Host is told *)
Submit ==
    /\ child["guest"].at = "submitting"
    /\ IF post = "open"
       THEN /\ matched' = "matched"
            /\ \/ Goes("guest", "playing") /\ Sends("guest", <<"ready">>) /\ event' = [event EXCEPT !["guest"] = TRUE]
               \/ Goes("guest", "dead") /\ UNCHANGED <<wire, event>>
       ELSE Goes("guest", "dead") /\ UNCHANGED <<matched, wire, event>>
    /\ meta' = [meta EXCEPT !["guest"].bundle = child["guest"].bundle]
    /\ UNCHANGED <<consent, post, renewing, reports, open, parent>>
MutantReady ==
    /\ child["host"].at \in {"request?", "ready?", "ack?"} /\ (Gets("host", "ready") \/ Gets("host", "installed"))
    /\ Takes("host") /\ Goes("host", "playing") /\ renewing' = FALSE
    /\ meta' = [meta EXCEPT !["host"].bundle = child["host"].bundle]
    /\ UNCHANGED <<consent, post, matched, reports, open, parent, event>>
Ready ==
    /\ child["host"].at \in {"request?", "ready?"} /\ Gets("host", "ready")
    /\ Takes("host") /\ Goes("host", "playing") /\ renewing' = FALSE
    /\ meta' = [meta EXCEPT !["host"].bundle = child["host"].bundle]
    /\ UNCHANGED <<consent, post, matched, reports, open, parent, event>>

(* A peer that is gone, a frame that does not come, an error of the network  *)
(* or of the platform: the process ends where it is                          *)
Breaks ==
    /\ open /\ open' = FALSE
    /\ UNCHANGED <<consent, post, renewing, matched, reports, wire, child, parent, event, meta>>
GivesUp(r) ==
    /\ child[r].at \in {"starting", "proof?", "bundle?", "request?", "ack?", "ready?"}
    /\ child[r].at = "starting" \/ (~open /\ wire[r] = <<>>) \/ child[Other(r)].at = "dead"
    /\ Goes(r, "dead") /\ renewing' = IF r = "host" THEN FALSE ELSE renewing
    /\ UNCHANGED <<consent, post, matched, reports, open, wire, parent, event, meta>>
-----------------------------------------------------------------------------
(* The match (its engine is not of this module) ends; the session is closed  *)
(* on the platform, the outcome reported, and session.json brought to its    *)
(* end.  The platform takes the first status, and may not be reached.        *)
MatchEnds(r) ==
    /\ child[r].at = "playing"
    /\ \E result \in {"completed", "aborted", "error"} :
          child' = [child EXCEPT ![r].at = "closing", ![r].result = result]
    /\ UNCHANGED <<consent, post, renewing, matched, reports, open, wire, parent, event, meta>>
MutantCloses(r) ==
    /\ child[r].at = "closing"
    /\ matched' = IF matched = "matched" THEN "closed" ELSE matched
    /\ post' = "closed" /\ Goes(r, "reporting")
    /\ UNCHANGED <<consent, renewing, reports, open, wire, parent, event, meta>>
Closes(r) ==
    /\ child[r].at = "closing"
    /\ IF matched = "matched"
       THEN matched' = IF child[r].result = "completed" THEN "closed" ELSE "failed"
       ELSE UNCHANGED matched
    /\ post' = "closed" /\ Goes(r, "reporting")
    /\ UNCHANGED <<consent, renewing, reports, open, wire, parent, event, meta>>
CloseFails(r) ==
    /\ child[r].at = "closing" /\ child' = [child EXCEPT ![r].at = "reporting"]
    /\ UNCHANGED <<consent, post, renewing, matched, reports, open, wire, parent, event, meta>>
Reports(r) ==
    /\ child[r].at = "reporting" /\ Goes(r, "ending")
    /\ \/ child[r].result = "completed" /\ \E w \in {"host", "draw"} : reports' = [reports EXCEPT ![r] = w]
       \/ UNCHANGED reports
    /\ UNCHANGED <<consent, post, renewing, matched, open, wire, parent, event, meta>>
Status(result) == CASE result = "completed" -> "closed" [] result = "aborted" -> "aborted" [] OTHER -> "crashed"
Finishes(r) ==
    /\ child[r].at = "ending" /\ Goes(r, "finished")
    /\ meta' = [meta EXCEPT ![r].status = Status(child[r].result)]
    /\ UNCHANGED <<consent, post, renewing, matched, reports, open, wire, parent, event>>
-----------------------------------------------------------------------------
(* _run_daemon: the parent writes the whole of session.json as it knows it,  *)
(* when the child is started and, in the Host's, again when the invitation   *)
(* is there and when the web page is up; the Guest's merges what it has      *)
(* learnt into the file                                                      *)
Whole(r, status) == meta' = [meta EXCEPT ![r] = [status |-> status, bundle |-> FALSE]]
ParentGoes(r, there) == parent' = [parent EXCEPT ![r].at = there]
Running(r) ==
    /\ parent[r].at = "spawned" /\ ParentGoes(r, "event?") /\ Whole(r, "running")
    /\ UNCHANGED <<consent, post, renewing, matched, reports, open, wire, child, event>>
Announced(r) ==
    /\ parent[r].at = "event?" /\ event[r]
    /\ IF r = "host" THEN ParentGoes(r, "web") /\ Whole(r, "running")
       ELSE parent' = [parent EXCEPT ![r] = [at |-> "merge", copy |-> meta[r]]] /\ UNCHANGED meta
    /\ UNCHANGED <<consent, post, renewing, matched, reports, open, wire, child, event>>
Merges ==
    /\ parent["guest"].at = "merge" /\ parent' = [parent EXCEPT !["guest"] = [at |-> "web", copy |-> None]]
    /\ meta' = [meta EXCEPT !["guest"] = parent["guest"].copy]
    /\ UNCHANGED <<consent, post, renewing, matched, reports, open, wire, child, event>>
Killed(r) ==
    /\ child' = [child EXCEPT ![r].at = IF @ \in Ended THEN @ ELSE "dead"]
    /\ renewing' = IF r = "host" THEN FALSE ELSE renewing
StartFails(r) ==
    /\ parent[r].at = "event?" /\ ~event[r] /\ ParentGoes(r, "failed")
    /\ Whole(r, IF child[r].at \in Ended THEN "startup_failed" ELSE "startup_timeout")
    /\ Killed(r)
    /\ UNCHANGED <<consent, post, matched, reports, open, wire, event>>
WebUp(r) ==
    /\ parent[r].at = "web" /\ ParentGoes(r, "done")
    /\ IF r = "host" THEN Whole(r, "running") ELSE UNCHANGED meta
    /\ UNCHANGED <<consent, post, renewing, matched, reports, open, wire, child, event>>
(* a human's page that does not come up ends the process, too                *)
WebFails(r) ==
    /\ parent[r].at = "web" /\ ParentGoes(r, "failed") /\ Whole(r, "startup_failed") /\ Killed(r)
    /\ UNCHANGED <<consent, post, matched, reports, open, wire, event>>

Next ==
    \/ Invite \/ RenewalEnds \/ Expires \/ Join \/ Prove \/ Proved \/ Serve \/ Receive \/ Acknowledged
    \/ Submit \/ Ready \/ Breaks \/ Merges
    \/ \E r \in Roles : GivesUp(r) \/ MatchEnds(r) \/ Closes(r) \/ CloseFails(r) \/ Reports(r) \/ Finishes(r)
                        \/ Running(r) \/ Announced(r) \/ StartFails(r) \/ WebUp(r) \/ WebFails(r)
Spec == Init /\ [][Next]_pairing
-----------------------------------------------------------------------------
TypeOK ==
    /\ post \in {"none", "open", "expired", "closed"} /\ matched \in {"none", "matched", "closed", "failed"}
    /\ renewing \in BOOLEAN /\ open \in BOOLEAN
    /\ \A r \in Roles :
          /\ child[r].at \in {"starting", "waiting", "proof?", "request?", "bundle?", "ack?", "submitting", "ready?",
                              "playing", "closing", "reporting", "ending", "finished", "dead"}
          /\ child[r].result \in {None, "completed", "aborted", "error"} /\ reports[r] \in {None, "host", "draw"}
          /\ parent[r].at \in {"spawned", "event?", "merge", "web", "done", "failed"}
          /\ meta[r].status \in {"starting", "running", "closed", "aborted", "crashed",
                                 "startup_failed", "startup_timeout"}

Past(r) == child[r].at \in {"playing", "closing", "reporting", "ending", "finished"}

(* A Host that plays has a session on the platform which the Guest, too, has *)
(* signed, and both know which hooks the Guest runs: the Host's only if both *)
(* have agreed and every file has been verified.                             *)
PairedAgree ==
    /\ Past("host") => matched # "none" /\ event["guest"]
    /\ Past("host") /\ Past("guest") => child["host"].bundle = child["guest"].bundle
    /\ child["guest"].bundle => Offered
    /\ Past("guest") /\ ~consent.local => child["guest"].bundle

(* The platform has the session closed only by a side for which the match    *)
(* was completed, failed only by one for which it was not, and an outcome    *)
(* only from a side that has completed it.                                   *)
MatchIsClosed ==
    /\ post = "closed" => matched \in {"closed", "failed"}
    /\ matched = "closed" => \E r \in Roles : child[r].result = "completed"
    /\ matched = "failed" => \E r \in Roles : child[r].result \in {"aborted", "error"}
    /\ \A r \in Roles : reports[r] # None => child[r].result = "completed"

(* The parent never takes back the end that the process has written.         *)
FinalStatusStays ==
    \A r \in Roles : parent[r].at = "done" /\ child[r].at = "finished" =>
        meta[r].status \in {"closed", "aborted", "crashed"}
=============================================================================
