---------------------------- MODULE ServicesProofs ----------------------------
(***************************************************************************)
(* Theorems about the services around a match.                             *)
(***************************************************************************)
EXTENDS RuntimeProofs

(* Host and Guest: the frames, and session.json.                            *)
Steps == {"starting", "waiting", "proof?", "request?", "bundle?", "ack?", "submitting", "ready?",
          "playing", "closing", "reporting", "ending", "finished", "dead"}
Paired == {"playing", "closing", "reporting", "ending", "finished"}
Endings == {"completed", "aborted", "error"}
FrameKinds == {"init", "proof", "request", "begin", "file", "end", "installed", "rejected", "ready"}
FrameRecord == [kind : FrameKinds, good : BOOLEAN]
Meta == [status : {"starting", "running", "closed", "aborted", "crashed", "startup_failed", "startup_timeout"},
         bundle : BOOLEAN]
Process == [at : Steps, bundle : BOOLEAN, result : Endings \union {None}]
Command == [at : {"spawned", "event?", "merge", "web", "done", "failed"}, copy : Meta \union {None}]

PairTypes ==
    /\ consent \in [share : BOOLEAN, accept : BOOLEAN, local : BOOLEAN]
    /\ post \in {"none", "open", "expired", "closed"} /\ matched \in {"none", "matched", "closed", "failed"}
    /\ renewing \in BOOLEAN /\ open \in BOOLEAN
    /\ reports \in [Pairs!Roles -> {None, "host", "draw"}] /\ event \in [Pairs!Roles -> BOOLEAN]
    /\ wire \in [Pairs!Roles -> Seq(FrameRecord)]
    /\ child \in [Pairs!Roles -> Process] /\ parent \in [Pairs!Roles -> Command]
    /\ \A r \in Pairs!Roles : parent[r].at = "merge" => parent[r].copy \in Meta
    /\ meta \in [Pairs!Roles -> Meta]

(* How far the two are: where each is, unless it is dead, and the frames on *)
(* the way to the Host and to the Guest; given: the Guest has the bundle.   *)
F(kind) == Pairs!Frame(kind)
Download(good) == {<<F("begin"), [F("file") EXCEPT !.good = good], F("end")>>,
                   <<[F("file") EXCEPT !.good = good], F("end")>>, <<F("end")>>}
Stage(hosts, guests, up, down, given) ==
    /\ child["host"].at \in hosts \union {"dead"} /\ child["guest"].at \in guests \union {"dead"}
    /\ wire["host"] = up /\ wire["guest"] = down /\ child["guest"].bundle = given
Signed == matched # "none" /\ event["guest"]

Apart     == Stage({"starting", "waiting"}, {"starting"}, <<>>, <<>>, FALSE)
Greeting  == Stage({"waiting"}, {"proof?"}, <<F("init")>>, <<>>, FALSE)
Proving   == Stage({"request?"}, {"proof?"}, <<>>, <<F("proof")>>, FALSE)
Asking    == Stage({"request?"}, {"bundle?"}, <<F("request")>>, <<>>, FALSE)
Loading   == \E good \in BOOLEAN : \E down \in Download(good) : Stage({"ack?"}, {"bundle?"}, <<>>, down, FALSE)
Refused   == Stage({"ack?"}, {}, <<F("rejected")>>, <<F("end")>>, FALSE)
Installed == \/ Stage({"ack?"}, {"submitting"}, <<F("installed")>>, <<>>, TRUE)
             \/ Stage({"ready?"}, {"submitting"}, <<>>, <<>>, TRUE)
Plain     == Stage({"request?"}, {"submitting"}, <<>>, <<>>, FALSE)
Announced ==
    /\ Signed
    /\ \/ Stage({"request?"}, Paired, <<F("ready")>>, <<>>, FALSE)
       \/ Stage({"ack?"}, Paired, <<F("installed"), F("ready")>>, <<>>, TRUE)
       \/ Stage({"ready?"}, Paired, <<F("ready")>>, <<>>, TRUE)
Together  == Signed /\ \E given \in BOOLEAN : Stage(Paired, Paired, <<>>, <<>>, given)
Over      == child["host"].at = "dead" /\ child["guest"].at = "dead"
Dialogue ==
    \/ Apart \/ Greeting \/ Proving \/ Asking \/ Loading \/ Refused
    \/ Installed \/ Plain \/ Announced \/ Together \/ Over

(* Whose hooks the Guest runs.                                              *)
Hooks ==
    /\ child["guest"].bundle \/ child["guest"].at = "bundle?" => Pairs!Offered
    /\ child["guest"].at \in Paired \union {"submitting"} => child["guest"].bundle \/ consent.local
    /\ child["host"].at \in {"starting", "waiting", "request?", "ack?"} => ~child["host"].bundle
    /\ child["host"].at = "ready?" => child["host"].bundle
    /\ child["host"].at \in Paired => child["host"].bundle = child["guest"].bundle

(* A process has the result of its match when it is over, and reports it    *)
(* after that.                                                              *)
ResultsFound ==
    \A r \in Pairs!Roles :
        /\ child[r].at \notin {"closing", "reporting", "ending", "finished", "dead"} => child[r].result = None
        /\ child[r].at \in {"closing", "reporting", "ending", "finished"} => child[r].result \in Endings
        /\ child[r].at \notin {"ending", "finished", "dead"} => reports[r] = None

(* There is an invitation from the Host's first step on.                    *)
Invited == child["host"].at = "starting" => post = "none"

PairInv == PairTypes /\ Dialogue /\ Hooks /\ ResultsFound /\ Invited /\ Pairs!MatchIsClosed
-----------------------------------------------------------------------------
(* The wires.                                                               *)

\* What a side sends is a frame at the end of the other's wire.
LEMMA OneFrame ==
    ASSUME NEW k
    PROVE  [i \in DOMAIN <<k>> |-> Pairs!Frame(<<k>>[i])] = <<F(k)>>
  BY DEF F

LEMMA FrameTyped ==
    ASSUME NEW k \in FrameKinds
    PROVE  F(k) \in FrameRecord /\ F(k).kind = k /\ F(k).good = TRUE
  BY DEF F, Pairs!Frame, FrameRecord

\* A frame joins a wire that is empty, or one that has a frame.
LEMMA Joins ==
    ASSUME NEW f, NEW g
    PROVE  <<>> \o <<f>> = <<f>> /\ <<f>> \o <<g>> = <<f, g>>
<1> DEFINE S == {f, g}  a == <<f>>  b == <<g>>  c == <<f, g>>
<1>1. /\ a \in Seq(S) /\ Len(a) = 1 /\ a[1] = f
      /\ b \in Seq(S) /\ Len(b) = 1 /\ b[1] = g
      /\ c \in Seq(S) /\ Len(c) = 2 /\ c[1] = f /\ c[2] = g
  OBVIOUS
<1>2. <<>> \o a = a  BY <1>1, ConcatEmptySeq
<1>3. a \o b = c
  <2> DEFINE d == a \o b
  <2> HIDE DEF S, a, b, c
  <2>1. /\ d \in Seq(S) /\ Len(d) = Len(a) + Len(b)
        /\ \A i \in 1..(Len(a) + Len(b)) : d[i] = IF i <= Len(a) THEN a[i] ELSE b[i - Len(a)]
    BY <1>1, ConcatProperties
  <2> HIDE DEF d
  <2>2. Len(d) = 2 /\ d[1] = f /\ d[2] = g  BY <1>1, <2>1
  <2>3. \A i \in 1..2 : d[i] = c[i]
    <3>1. \A i \in 1..2 : i = 1 \/ i = 2  OBVIOUS
    <3>2. QED  BY <1>1, <2>2, <3>1
  <2>4. d = c  BY <1>1, <2>1, <2>2, <2>3, SeqEqual
  <2>5. QED  BY <2>4 DEF d
<1>4. QED  BY <1>2, <1>3

LEMMA SendStep ==
    ASSUME NEW r \in Pairs!Roles, NEW k \in FrameKinds, PairTypes, Pairs!Sends(r, <<k>>)
    PROVE  /\ wire' \in [Pairs!Roles -> Seq(FrameRecord)]
           /\ wire'[Pairs!Other(r)] = wire[Pairs!Other(r)] \o <<F(k)>> /\ wire'[r] = wire[r]
<1>1. F(k) \in FrameRecord  BY FrameTyped
<1>2. wire' = [wire EXCEPT ![Pairs!Other(r)] = @ \o <<F(k)>>]  BY OneFrame DEF Pairs!Sends
<1>3. Pairs!Other(r) \in Pairs!Roles /\ Pairs!Other(r) # r  BY DEF Pairs!Other, Pairs!Roles
<1>4. wire[Pairs!Other(r)] \o <<F(k)>> \in Seq(FrameRecord)
  BY <1>1, <1>3, ConcatProperties DEF PairTypes
<1>5. QED  BY <1>2, <1>3, <1>4 DEF PairTypes

LEMMA TakeStep ==
    ASSUME NEW r \in Pairs!Roles, PairTypes, wire[r] # <<>>, Pairs!Takes(r)
    PROVE  /\ wire' \in [Pairs!Roles -> Seq(FrameRecord)]
           /\ wire'[r] = Tail(wire[r]) /\ wire'[Pairs!Other(r)] = wire[Pairs!Other(r)]
<1>1. Tail(wire[r]) \in Seq(FrameRecord)  BY HeadTailProperties DEF PairTypes
<1>2. Pairs!Other(r) \in Pairs!Roles /\ Pairs!Other(r) # r  BY DEF Pairs!Other, Pairs!Roles
<1>3. QED  BY <1>1, <1>2 DEF PairTypes, Pairs!Takes

LEMMA AnswerStep ==
    ASSUME NEW r \in Pairs!Roles, NEW k \in FrameKinds, PairTypes, wire[r] # <<>>, Pairs!Answers(r, <<k>>)
    PROVE  /\ wire' \in [Pairs!Roles -> Seq(FrameRecord)]
           /\ wire'[r] = Tail(wire[r]) /\ wire'[Pairs!Other(r)] = wire[Pairs!Other(r)] \o <<F(k)>>
<1>1. F(k) \in FrameRecord  BY FrameTyped
<1>2. Tail(wire[r]) \in Seq(FrameRecord)  BY HeadTailProperties DEF PairTypes
<1>3. Pairs!Other(r) \in Pairs!Roles /\ Pairs!Other(r) # r  BY DEF Pairs!Other, Pairs!Roles
<1>4. wire[Pairs!Other(r)] \o <<F(k)>> \in Seq(FrameRecord)
  BY <1>1, <1>3, ConcatProperties DEF PairTypes
<1>5. wire' = [wire EXCEPT ![r] = Tail(@), ![Pairs!Other(r)] = @ \o <<F(k)>>]
  BY OneFrame DEF Pairs!Answers
<1>6. QED  BY <1>2, <1>3, <1>4, <1>5 DEF PairTypes
-----------------------------------------------------------------------------
(* Steps that leave the dialogue alone: a side dies, or goes on in a match. *)
GoesOn ==
    /\ wire' = wire /\ consent' = consent
    /\ \A r \in Pairs!Roles :
          /\ child'[r].bundle = child[r].bundle
          /\ child'[r].at # child[r].at =>
                child'[r].at = "dead" \/ (child[r].at \in Paired /\ child'[r].at \in Paired)

\* Where the two are stays, but for a side that dies or goes on.
LEMMA StageStays ==
    ASSUME NEW hosts, NEW guests, NEW up, NEW down, NEW given,
           \A p \in {hosts, guests} : p \cap Paired = {} \/ p = Paired,
           GoesOn, Stage(hosts, guests, up, down, given)
    PROVE  Stage(hosts, guests, up, down, given)'
<1>1. "host" \in Pairs!Roles /\ "guest" \in Pairs!Roles  BY DEF Pairs!Roles
<1>2. child'["host"].at \in hosts \union {"dead"}
  <2>1. (\A x \in hosts : x \notin Paired) \/ hosts = Paired  OBVIOUS
  <2>2. QED  BY <1>1, <2>1 DEF Stage, GoesOn, Paired
<1>3. child'["guest"].at \in guests \union {"dead"}
  <2>1. (\A x \in guests : x \notin Paired) \/ guests = Paired  OBVIOUS
  <2>2. QED  BY <1>1, <2>1 DEF Stage, GoesOn, Paired
<1>4. QED  BY <1>1, <1>2, <1>3 DEF Stage, GoesOn

LEMMA DialogueStays ==
    ASSUME GoesOn, Signed => Signed', Dialogue
    PROVE  Dialogue'
<1>1. \A p \in {{"starting", "waiting"}, {"starting"}, {"waiting"}, {"proof?"}, {"request?"}, {"bundle?"},
               {"ack?"}, {}, {"submitting"}, {"ready?"}} : p \cap Paired = {}
  BY DEF Paired
<1>2. CASE Apart
  <2>1. Apart'  BY <1>1, <1>2, StageStays DEF Apart
  <2>2. QED  BY <2>1 DEF Dialogue
<1>3. CASE Greeting
  <2>1. Greeting'  BY <1>1, <1>3, StageStays DEF Greeting
  <2>2. QED  BY <2>1 DEF Dialogue
<1>4. CASE Proving
  <2>1. Proving'  BY <1>1, <1>4, StageStays DEF Proving
  <2>2. QED  BY <2>1 DEF Dialogue
<1>5. CASE Asking
  <2>1. Asking'  BY <1>1, <1>5, StageStays DEF Asking
  <2>2. QED  BY <2>1 DEF Dialogue
<1>6. CASE Loading
  <2>1. PICK good \in BOOLEAN : \E down \in Download(good) : Stage({"ack?"}, {"bundle?"}, <<>>, down, FALSE)
    BY <1>6 DEF Loading
  <2>2. PICK down \in Download(good) : Stage({"ack?"}, {"bundle?"}, <<>>, down, FALSE)
    BY <2>1
  <2>3. Stage({"ack?"}, {"bundle?"}, <<>>, down, FALSE)'  BY <1>1, <2>2, StageStays
  <2>4. Loading'  BY <2>3 DEF Loading, Download, F, Pairs!Frame
  <2>5. QED  BY <2>4 DEF Dialogue
<1>7. CASE Refused
  <2>1. Refused'  BY <1>1, <1>7, StageStays DEF Refused
  <2>2. QED  BY <2>1 DEF Dialogue
<1>8. CASE Installed
  <2>1. Installed'  BY <1>1, <1>8, StageStays DEF Installed
  <2>2. QED  BY <2>1 DEF Dialogue
<1>9. CASE Plain
  <2>1. Plain'  BY <1>1, <1>9, StageStays DEF Plain
  <2>2. QED  BY <2>1 DEF Dialogue
<1>10. CASE Announced
  <2>1. Announced'  BY <1>1, <1>10, StageStays DEF Announced
  <2>2. QED  BY <2>1 DEF Dialogue
<1>11. CASE Together
  <2>1. Together'  BY <1>1, <1>11, StageStays DEF Together
  <2>2. QED  BY <2>1 DEF Dialogue
<1>12. CASE Over
  <2>1. Over'  BY <1>12 DEF Over, GoesOn, Paired, Pairs!Roles
  <2>2. QED  BY <2>1 DEF Dialogue
<1>13. QED
  BY <1>2, <1>3, <1>4, <1>5, <1>6, <1>7, <1>8, <1>9, <1>10, <1>11, <1>12 DEF Dialogue
-----------------------------------------------------------------------------
(* Where the dialogue is, by what a side waits for.                         *)

LEMMA ReadsFirst ==
    ASSUME NEW f, NEW g
    PROVE  /\ Head(<<f>>) = f /\ Tail(<<f>>) = <<>> /\ <<f>> # <<>>
           /\ Head(<<f, g>>) = f /\ Tail(<<f, g>>) = <<g>> /\ <<f, g>> # <<>>
  OBVIOUS

LEMMA Kinds ==
    ASSUME NEW k PROVE F(k).kind = k
  BY DEF F, Pairs!Frame

LEMMA HostStarts == Dialogue /\ child["host"].at = "starting" => Apart
BY DEF Dialogue, Apart, Greeting, Proving, Asking, Loading, Refused, Installed, Plain, Announced, Together, Over, Stage, Paired

LEMMA GuestStarts == Dialogue /\ child["guest"].at = "starting" => Apart
BY DEF Dialogue, Apart, Greeting, Proving, Asking, Loading, Refused, Installed, Plain, Announced, Together, Over, Stage, Paired

LEMMA HostWaits == Dialogue /\ child["host"].at = "waiting" /\ wire["host"] # <<>> => Greeting
BY DEF Dialogue, Apart, Greeting, Proving, Asking, Loading, Refused, Installed, Plain, Announced, Together, Over, Stage, Paired

LEMMA GuestAwaitsProof == Dialogue /\ child["guest"].at = "proof?" /\ wire["guest"] # <<>> => Proving
BY DEF Dialogue, Apart, Greeting, Proving, Asking, Loading, Refused, Installed, Plain, Announced, Together, Over, Stage, Paired

LEMMA HostAwaitsRequest == Dialogue /\ child["host"].at = "request?" /\ Pairs!Gets("host", "request") => Asking
BY ReadsFirst, Kinds DEF Pairs!Gets, Dialogue, Apart, Greeting, Proving, Asking, Loading, Refused, Installed, Plain, Announced, Together, Over, Stage, Paired

LEMMA GuestDownloads == Dialogue /\ child["guest"].at = "bundle?" /\ wire["guest"] # <<>> => Loading
BY DEF Dialogue, Apart, Greeting, Proving, Asking, Loading, Refused, Installed, Plain, Announced, Together, Over, Stage, Paired

LEMMA HostAwaitsAck == Dialogue /\ child["host"].at = "ack?" /\ wire["host"] # <<>> => Refused \/ Installed \/ Announced
BY DEF Dialogue, Apart, Greeting, Proving, Asking, Loading, Refused, Installed, Plain, Announced, Together, Over, Stage, Paired

LEMMA GuestSubmits == Dialogue /\ child["guest"].at = "submitting" => Installed \/ Plain
BY DEF Dialogue, Apart, Greeting, Proving, Asking, Loading, Refused, Installed, Plain, Announced, Together, Over, Stage, Paired

LEMMA HostAwaitsReady ==
    Dialogue /\ child["host"].at \in {"request?", "ready?"} /\ Pairs!Gets("host", "ready") => Announced
BY ReadsFirst, Kinds DEF Pairs!Gets, Dialogue, Apart, Greeting, Proving, Asking, Loading, Refused, Installed, Plain, Announced, Together, Over, Stage, Paired
-----------------------------------------------------------------------------
(* The steps of the dialogue.                                               *)
Talks == wire' \in [Pairs!Roles -> Seq(FrameRecord)] /\ Dialogue'

LEMMA InviteTalks == PairInv /\ Pairs!Invite => Talks
<1> SUFFICES ASSUME PairInv, Pairs!Invite PROVE Talks  OBVIOUS
<1>1. Apart  BY HostStarts DEF PairInv, Pairs!Invite
<1>2. child' = [child EXCEPT !["host"].at = "waiting"] /\ wire' = wire  BY DEF Pairs!Invite, Pairs!Goes
<1>3. Apart'  BY <1>1, <1>2 DEF PairInv, PairTypes, Process, Apart, Stage, Pairs!Roles
<1>4. QED  BY <1>2, <1>3 DEF Talks, Dialogue, PairInv, PairTypes

LEMMA JoinTalks == PairInv /\ Pairs!Join => Talks
<1> SUFFICES ASSUME PairInv, Pairs!Join PROVE Talks  OBVIOUS
<1>1. Apart /\ child["host"].at \in {"waiting", "dead"}
  BY GuestStarts DEF PairInv, Pairs!Join, Invited, Apart, Stage
<1>2. CASE consent.local \/ consent.accept
  <2>1. child' = [child EXCEPT !["guest"].at = "proof?"] /\ Pairs!Sends("guest", <<"init">>)
    BY <1>2 DEF Pairs!Join, Pairs!Goes
  <2>2. /\ wire' \in [Pairs!Roles -> Seq(FrameRecord)]
        /\ wire'["host"] = wire["host"] \o <<F("init")>> /\ wire'["guest"] = wire["guest"]
    BY <2>1, SendStep DEF PairInv, FrameKinds, Pairs!Roles, Pairs!Other
  <2>3. wire'["host"] = <<F("init")>> /\ wire'["guest"] = <<>>
    BY <1>1, <2>2, Joins DEF Apart, Stage
  <2>4. Stage({"waiting"}, {"proof?"}, <<F("init")>>, <<>>, FALSE)'
    BY <1>1, <2>1, <2>3 DEF PairInv, PairTypes, Process, Apart, Stage, Pairs!Roles, F, Pairs!Frame
  <2>5. Greeting'  BY <2>4 DEF Greeting, F, Pairs!Frame
  <2>6. QED  BY <2>2, <2>5 DEF Talks, Dialogue
<1>3. CASE ~(consent.local \/ consent.accept)
  <2>1. child' = [child EXCEPT !["guest"].at = "dead"] /\ wire' = wire
    BY <1>3 DEF Pairs!Join, Pairs!Goes
  <2>2. Apart'  BY <1>1, <2>1 DEF PairInv, PairTypes, Process, Apart, Stage, Pairs!Roles
  <2>3. QED  BY <2>1, <2>2 DEF Talks, Dialogue, PairInv, PairTypes
<1>4. QED  BY <1>2, <1>3

LEMMA ProveTalks == PairInv /\ Pairs!Prove => Talks
<1> SUFFICES ASSUME PairInv, Pairs!Prove PROVE Talks  OBVIOUS
<1>1. Greeting /\ wire["host"] # <<>>  BY HostWaits DEF PairInv, Pairs!Prove, Pairs!Gets
<1>2. child' = [child EXCEPT !["host"].at = "request?"] /\ Pairs!Answers("host", <<"proof">>)
  BY DEF Pairs!Prove, Pairs!Goes
<1>3. /\ wire' \in [Pairs!Roles -> Seq(FrameRecord)]
      /\ wire'["host"] = Tail(wire["host"]) /\ wire'["guest"] = wire["guest"] \o <<F("proof")>>
  BY <1>1, <1>2, AnswerStep DEF PairInv, FrameKinds, Pairs!Roles, Pairs!Other
<1>4. wire'["host"] = <<>> /\ wire'["guest"] = <<F("proof")>>
  BY <1>1, <1>3, Joins, ReadsFirst DEF Greeting, Stage
<1>5. Stage({"request?"}, {"proof?"}, <<>>, <<F("proof")>>, FALSE)'
  BY <1>1, <1>2, <1>4 DEF PairInv, PairTypes, Process, Greeting, Stage, Pairs!Roles, F, Pairs!Frame
<1>6. Proving'  BY <1>5 DEF Proving, F, Pairs!Frame
<1>7. QED  BY <1>3, <1>6 DEF Talks, Dialogue

LEMMA ProvedTalks == PairInv /\ Pairs!Proved => Talks
<1> SUFFICES ASSUME PairInv, Pairs!Proved PROVE Talks  OBVIOUS
<1>1. Proving /\ wire["guest"] # <<>>  BY GuestAwaitsProof DEF PairInv, Pairs!Proved, Pairs!Gets
<1>2. CASE Pairs!Offered
  <2>1. child' = [child EXCEPT !["guest"].at = "bundle?"] /\ Pairs!Answers("guest", <<"request">>)
    BY <1>2 DEF Pairs!Proved, Pairs!Goes
  <2>2. /\ wire' \in [Pairs!Roles -> Seq(FrameRecord)]
        /\ wire'["guest"] = Tail(wire["guest"]) /\ wire'["host"] = wire["host"] \o <<F("request")>>
    BY <1>1, <2>1, AnswerStep DEF PairInv, FrameKinds, Pairs!Roles, Pairs!Other
  <2>3. wire'["guest"] = <<>> /\ wire'["host"] = <<F("request")>>
    BY <1>1, <2>2, Joins, ReadsFirst DEF Proving, Stage
  <2>4. Stage({"request?"}, {"bundle?"}, <<F("request")>>, <<>>, FALSE)'
    BY <1>1, <2>1, <2>3 DEF PairInv, PairTypes, Process, Proving, Stage, Pairs!Roles, F, Pairs!Frame
  <2>5. Asking'  BY <2>4 DEF Asking, F, Pairs!Frame
  <2>6. QED  BY <2>2, <2>5 DEF Talks, Dialogue
<1>3. CASE ~Pairs!Offered
  <2>1. PICK there \in {"submitting", "dead"} : child' = [child EXCEPT !["guest"].at = there]
    BY <1>3 DEF Pairs!Proved, Pairs!Goes
  <2>2. /\ wire' \in [Pairs!Roles -> Seq(FrameRecord)]
        /\ wire'["guest"] = Tail(wire["guest"]) /\ wire'["host"] = wire["host"]
    BY <1>1, <1>3, TakeStep DEF PairInv, Pairs!Proved, Pairs!Roles, Pairs!Other
  <2>3. wire'["guest"] = <<>> /\ wire'["host"] = <<>>
    BY <1>1, <2>2, ReadsFirst DEF Proving, Stage
  <2>4. Plain'
    BY <1>1, <2>1, <2>3 DEF PairInv, PairTypes, Process, Proving, Plain, Stage, Pairs!Roles
  <2>5. QED  BY <2>2, <2>4 DEF Talks, Dialogue
<1>4. QED  BY <1>2, <1>3

LEMMA ServeTalks == PairInv /\ Pairs!Serve => Talks
<1> SUFFICES ASSUME PairInv, Pairs!Serve PROVE Talks  OBVIOUS
<1>1. Asking /\ wire["host"] # <<>>
  BY HostAwaitsRequest DEF PairInv, Pairs!Serve, Pairs!Gets
<1>2. PICK good \in BOOLEAN :
         wire' = [wire EXCEPT !["host"] = Tail(@),
                  !["guest"] = @ \o <<F("begin"), [F("file") EXCEPT !.good = good], F("end")>>]
  BY DEF Pairs!Serve, F
<1>3. child' = [child EXCEPT !["host"].at = "ack?"]  BY DEF Pairs!Serve, Pairs!Goes
<1> DEFINE sent3 == <<F("begin"), [F("file") EXCEPT !.good = good], F("end")>>
<1>4. sent3 \in Seq(FrameRecord)
  BY DEF F, Pairs!Frame, FrameRecord, FrameKinds
<1>5. <<>> \o sent3 = sent3  BY <1>4, ConcatEmptySeq
<1>6. wire["host"] = <<F("request")>> /\ wire["guest"] = <<>>  BY <1>1 DEF Asking, Stage
<1>7. wire'["host"] = <<>> /\ wire'["guest"] = sent3
  <2> HIDE DEF sent3
  <2>1. wire' = [wire EXCEPT !["host"] = Tail(@), !["guest"] = @ \o sent3]  BY <1>2 DEF sent3
  <2>2. QED  BY <2>1, <1>5, <1>6, ReadsFirst DEF PairInv, PairTypes, Pairs!Roles
<1>8. wire' \in [Pairs!Roles -> Seq(FrameRecord)]
  <2>1. /\ wire' \in [Pairs!Roles -> {wire'["host"], wire'["guest"]}]
        /\ <<>> \in Seq(FrameRecord)
    BY <1>2 DEF PairInv, PairTypes, Pairs!Roles
  <2> HIDE DEF sent3
  <2>2. QED  BY <2>1, <1>4, <1>7
<1>9. Stage({"ack?"}, {"bundle?"}, <<>>, sent3, FALSE)'
  BY <1>1, <1>3, <1>7 DEF PairInv, PairTypes, Process, Asking, Stage, Pairs!Roles, F, Pairs!Frame
<1>10. Loading'  BY <1>9 DEF Loading, Download, F, Pairs!Frame
<1>11. QED  BY <1>8, <1>10 DEF Talks, Dialogue

\* A frame after another of the download.
LEMMA ReadsThird ==
    ASSUME NEW f, NEW g, NEW h
    PROVE  Head(<<f, g, h>>) = f /\ Tail(<<f, g, h>>) = <<g, h>> /\ <<f, g, h>> # <<>>
  OBVIOUS

\* What the Guest takes from its wire or answers while it downloads.
LEMMA GuestTakes ==
    ASSUME PairTypes, wire["guest"] # <<>>, Pairs!Takes("guest")
    PROVE  /\ wire' \in [Pairs!Roles -> Seq(FrameRecord)]
           /\ wire'["guest"] = Tail(wire["guest"]) /\ wire'["host"] = wire["host"]
BY TakeStep DEF Pairs!Roles, Pairs!Other

LEMMA GuestReplies ==
    ASSUME NEW k \in FrameKinds, PairTypes, wire["guest"] # <<>>, wire["host"] = <<>>,
           Pairs!Answers("guest", <<k>>)
    PROVE  /\ wire' \in [Pairs!Roles -> Seq(FrameRecord)]
           /\ wire'["guest"] = Tail(wire["guest"]) /\ wire'["host"] = <<F(k)>>
<1>1. wire'["host"] = <<>> \o <<F(k)>>  BY AnswerStep DEF Pairs!Roles, Pairs!Other
<1>2. <<>> \o <<F(k)>> = <<F(k)>>  BY Joins
<1>3. QED  BY <1>1, <1>2, AnswerStep DEF Pairs!Roles, Pairs!Other

LEMMA HostTakes ==
    ASSUME PairTypes, wire["host"] # <<>>, Pairs!Takes("host")
    PROVE  /\ wire' \in [Pairs!Roles -> Seq(FrameRecord)]
           /\ wire'["host"] = Tail(wire["host"]) /\ wire'["guest"] = wire["guest"]
BY TakeStep DEF Pairs!Roles, Pairs!Other

LEMMA ReceiveTalks == PairInv /\ Pairs!Receive => Talks
<1> SUFFICES ASSUME PairInv, Pairs!Receive PROVE Talks  OBVIOUS
<1>1. Loading /\ wire["guest"] # <<>>  BY GuestDownloads DEF PairInv, Pairs!Receive
<1>2. PICK good \in BOOLEAN :
         \E down \in Download(good) : Stage({"ack?"}, {"bundle?"}, <<>>, down, FALSE)
  BY <1>1 DEF Loading
<1>3. PICK down \in Download(good) : Stage({"ack?"}, {"bundle?"}, <<>>, down, FALSE)  BY <1>2
<1>4. wire["guest"] = down /\ wire["host"] = <<>> /\ PairTypes  BY <1>3 DEF Stage, PairInv
<1>5. PICK file : file = [F("file") EXCEPT !.good = good]  OBVIOUS
<1>6. /\ file.kind = "file" /\ file.good = good
      /\ F("begin").kind = "begin" /\ F("begin").good = TRUE
      /\ F("end").kind = "end" /\ F("end").good = TRUE
  BY <1>5 DEF F, Pairs!Frame
<1>7. \/ down = <<F("begin"), file, F("end")>> \/ down = <<file, F("end")>> \/ down = <<F("end")>>
  BY <1>5 DEF Download
<1>8. ASSUME NEW rest \in {<<file, F("end")>>, <<F("end")>>}, Tail(down) = rest,
             Pairs!Takes("guest"), child' = child
      PROVE  Talks
  <2>1. /\ wire' \in [Pairs!Roles -> Seq(FrameRecord)] /\ wire'["guest"] = rest /\ wire'["host"] = <<>>
    BY <1>1, <1>4, <1>8, GuestTakes
  <2>2. Stage({"ack?"}, {"bundle?"}, <<>>, rest, FALSE)'  BY <1>3, <1>8, <2>1 DEF Stage
  <2>3. rest \in Download(good)  BY <1>5 DEF Download
  <2>4. Loading'  BY <2>2, <2>3 DEF Loading, Download, F, Pairs!Frame
  <2>5. QED  BY <2>1, <2>4 DEF Talks, Dialogue
<1>9. CASE down = <<F("begin"), file, F("end")>>
  <2>1. Head(down) = F("begin") /\ Tail(down) = <<file, F("end")>>  BY <1>9, ReadsThird
  <2>2. Pairs!Takes("guest") /\ child' = child  BY <1>4, <1>6, <2>1 DEF Pairs!Receive
  <2>3. QED  BY <1>8, <2>1, <2>2
<1>10. CASE down = <<file, F("end")>>
  <2>1. Head(down) = file /\ Tail(down) = <<F("end")>>  BY <1>10, ReadsFirst
  <2>2. CASE good
    <3>1. Pairs!Takes("guest") /\ child' = child  BY <1>4, <1>6, <2>1, <2>2 DEF Pairs!Receive
    <3>2. QED  BY <1>8, <2>1, <3>1
  <2>3. CASE ~good
    <3>1. Pairs!Answers("guest", <<"rejected">>) /\ child' = [child EXCEPT !["guest"].at = "dead"]
      BY <1>4, <1>6, <2>1, <2>3 DEF Pairs!Receive, Pairs!Goes
    <3>2. /\ wire' \in [Pairs!Roles -> Seq(FrameRecord)]
          /\ wire'["guest"] = <<F("end")>> /\ wire'["host"] = <<F("rejected")>>
      BY <1>1, <1>4, <2>1, <3>1, GuestReplies DEF FrameKinds
    <3>3. Stage({"ack?"}, {}, <<F("rejected")>>, <<F("end")>>, FALSE)'
      BY <1>3, <3>1, <3>2 DEF PairInv, PairTypes, Process, Stage, Pairs!Roles, F, Pairs!Frame
    <3>4. Refused'  BY <3>3 DEF Refused, F, Pairs!Frame
    <3>5. QED  BY <3>2, <3>4 DEF Talks, Dialogue
  <2>4. QED  BY <2>2, <2>3
<1>11. CASE down = <<F("end")>>
  <2>1. Head(down) = F("end") /\ Tail(down) = <<>>  BY <1>11, ReadsFirst
  <2>2. /\ Pairs!Answers("guest", <<"installed">>)
        /\ child' = [child EXCEPT !["guest"].at = "submitting", !["guest"].bundle = TRUE]
    BY <1>4, <1>6, <2>1 DEF Pairs!Receive
  <2>3. /\ wire' \in [Pairs!Roles -> Seq(FrameRecord)]
        /\ wire'["guest"] = <<>> /\ wire'["host"] = <<F("installed")>>
    BY <1>1, <1>4, <2>1, <2>2, GuestReplies DEF FrameKinds
  <2>4. child'["host"] = child["host"] /\ child'["guest"].at = "submitting" /\ child'["guest"].bundle = TRUE
    BY <2>2 DEF PairInv, PairTypes, Process, Stage, Pairs!Roles
  <2>5. Stage({"ack?"}, {"submitting"}, <<F("installed")>>, <<>>, TRUE)'
    BY <1>3, <2>3, <2>4 DEF Stage, F, Pairs!Frame
  <2>6. Installed'  BY <2>5 DEF Installed, F, Pairs!Frame
  <2>7. QED  BY <2>3, <2>6 DEF Talks, Dialogue
<1>12. QED  BY <1>7, <1>9, <1>10, <1>11

LEMMA AcknowledgedTalks == PairInv /\ Pairs!Acknowledged => Talks
<1> SUFFICES ASSUME PairInv, Pairs!Acknowledged PROVE Talks  OBVIOUS
<1>1. wire["host"] # <<>> /\ child["host"].at = "ack?"  BY DEF Pairs!Acknowledged, Pairs!Gets
<1>2. /\ wire' \in [Pairs!Roles -> Seq(FrameRecord)]
      /\ wire'["host"] = Tail(wire["host"]) /\ wire'["guest"] = wire["guest"]
  BY <1>1, HostTakes DEF PairInv, Pairs!Acknowledged
<1>3. CASE Pairs!Gets("host", "installed")
  <2>1. child' = [child EXCEPT !["host"].at = "ready?", !["host"].bundle = TRUE]
    BY <1>3 DEF Pairs!Acknowledged
  <2>2. child'["guest"] = child["guest"] /\ child'["host"].at = "ready?"
    BY <2>1 DEF PairInv, PairTypes, Process, Stage, Pairs!Roles
  <2>3. Installed \/ Announced
    <3>1. ~Refused  BY <1>3, ReadsFirst, Kinds DEF Refused, Stage, Pairs!Gets
    <3>2. QED  BY <1>1, <3>1, HostAwaitsAck DEF PairInv
  <2>4. CASE Installed
    <3>1. Stage({"ack?"}, {"submitting"}, <<F("installed")>>, <<>>, TRUE)
      BY <1>1, <2>4 DEF Installed, Stage
    <3>2. Stage({"ready?"}, {"submitting"}, <<>>, <<>>, TRUE)'
      BY <1>2, <2>2, <3>1, ReadsFirst DEF Stage
    <3>3. QED  BY <1>2, <3>2 DEF Talks, Dialogue, Installed
  <2>5. CASE Announced
    <3>1. Stage({"ack?"}, Paired, <<F("installed"), F("ready")>>, <<>>, TRUE) /\ Signed
      BY <1>1, <2>5 DEF Announced, Stage
    <3>2. Stage({"ready?"}, Paired, <<F("ready")>>, <<>>, TRUE)'
      <4>1. wire'["host"] = <<F("ready")>>  BY <1>2, <3>1, ReadsFirst DEF Stage
      <4>2. QED  BY <1>2, <2>2, <3>1, <4>1 DEF Stage, F, Pairs!Frame
    <3>3. Signed'  BY <3>1 DEF Signed, Pairs!Acknowledged
    <3>4. Announced'  BY <3>2, <3>3 DEF Announced, F, Pairs!Frame
    <3>5. QED  BY <1>2, <3>4 DEF Talks, Dialogue
  <2>6. QED  BY <2>3, <2>4, <2>5
<1>4. CASE ~Pairs!Gets("host", "installed")
  <2>1. /\ Pairs!Gets("host", "rejected") /\ child' = [child EXCEPT !["host"].at = "dead"]
    BY <1>4 DEF Pairs!Acknowledged, Pairs!Goes
  <2>2. Refused
    <3>1. Head(wire["host"]).kind = "rejected"  BY <2>1 DEF Pairs!Gets
    <3>2. ~Installed /\ ~Announced
      BY <1>1, <3>1, ReadsFirst, Kinds DEF Installed, Announced, Stage
    <3>3. QED  BY <1>1, <3>2, HostAwaitsAck DEF PairInv
  <2>3. child'["host"].at = "dead" /\ child'["guest"].at = "dead"
    BY <2>1, <2>2 DEF Refused, PairInv, PairTypes, Process, Stage, Pairs!Roles
  <2>4. QED  BY <1>2, <2>3 DEF Talks, Dialogue, Over
<1>5. QED  BY <1>3, <1>4

LEMMA SubmitTalks == PairInv /\ Pairs!Submit => Talks
<1> SUFFICES ASSUME PairInv, Pairs!Submit PROVE Talks  OBVIOUS
<1>1. Installed \/ Plain  BY GuestSubmits DEF PairInv, Pairs!Submit
<1>2. PICK there \in {"playing", "dead"} : child' = [child EXCEPT !["guest"].at = there]
  BY DEF Pairs!Submit, Pairs!Goes
<1>3. /\ child'["host"] = child["host"] /\ child'["guest"].at = there
      /\ child'["guest"].bundle = child["guest"].bundle
  BY <1>2 DEF PairInv, PairTypes, Process, Stage, Pairs!Roles
<1>4. CASE there = "dead"
  <2>1. wire' = wire
    <3>1. child'["guest"].at # "playing"  BY <1>3, <1>4
    <3>2. ~ (child' = [child EXCEPT !["guest"].at = "playing"])
      BY <3>1 DEF PairInv, PairTypes, Process, Stage, Pairs!Roles
    <3>3. QED  BY <3>2 DEF Pairs!Submit, Pairs!Goes
  <2>2. Installed' \/ Plain'  BY <1>1, <1>3, <1>4, <2>1 DEF Installed, Plain, Stage, F, Pairs!Frame
  <2>3. QED  BY <2>1, <2>2 DEF Talks, Dialogue, PairInv, PairTypes
<1>5. CASE there = "playing"
  <2>1. Pairs!Sends("guest", <<"ready">>) /\ matched' = "matched" /\ event' = [event EXCEPT !["guest"] = TRUE]
    <3>1. child'["guest"].at # "dead"  BY <1>3, <1>5
    <3>2. ~ (child' = [child EXCEPT !["guest"].at = "dead"])
      BY <3>1 DEF PairInv, PairTypes, Process, Stage, Pairs!Roles
    <3>3. QED  BY <3>2 DEF Pairs!Submit, Pairs!Goes
  <2>2. Signed'  BY <2>1 DEF Signed, PairInv, PairTypes, Pairs!Roles
  <2>3. /\ wire' \in [Pairs!Roles -> Seq(FrameRecord)]
        /\ wire'["host"] = wire["host"] \o <<F("ready")>> /\ wire'["guest"] = wire["guest"]
    BY <2>1, SendStep DEF PairInv, FrameKinds, Pairs!Roles, Pairs!Other
  <2>4. \/ Stage({"ack?"}, {"submitting"}, <<F("installed")>>, <<>>, TRUE)
        \/ Stage({"ready?"}, {"submitting"}, <<>>, <<>>, TRUE)
        \/ Stage({"request?"}, {"submitting"}, <<>>, <<>>, FALSE)
    BY <1>1 DEF Installed, Plain
  <2>5. \/ Stage({"ack?"}, Paired, <<F("installed"), F("ready")>>, <<>>, TRUE)'
        \/ Stage({"ready?"}, Paired, <<F("ready")>>, <<>>, TRUE)'
        \/ Stage({"request?"}, Paired, <<F("ready")>>, <<>>, FALSE)'
    <3>1. /\ <<>> \o <<F("ready")>> = <<F("ready")>>
          /\ <<F("installed")>> \o <<F("ready")>> = <<F("installed"), F("ready")>>
      BY Joins
    <3>2. there \in Paired  BY <1>5 DEF Paired
    <3>3. QED  BY <1>3, <2>3, <2>4, <3>1, <3>2 DEF Stage, F, Pairs!Frame
  <2>6. Announced'  BY <2>2, <2>5 DEF Announced, F, Pairs!Frame
  <2>7. QED  BY <2>3, <2>6 DEF Talks, Dialogue
<1>6. QED  BY <1>4, <1>5

LEMMA ReadyTalks == PairInv /\ Pairs!Ready => Talks
<1> SUFFICES ASSUME PairInv, Pairs!Ready PROVE Talks  OBVIOUS
<1>1. Announced /\ wire["host"] # <<>> /\ child["host"].at \in {"request?", "ready?"}
  BY HostAwaitsReady DEF PairInv, Pairs!Ready, Pairs!Gets
<1>2. /\ wire' \in [Pairs!Roles -> Seq(FrameRecord)]
      /\ wire'["host"] = Tail(wire["host"]) /\ wire'["guest"] = wire["guest"]
  BY <1>1, HostTakes DEF PairInv, Pairs!Ready
<1>3. child' = [child EXCEPT !["host"].at = "playing"]  BY DEF Pairs!Ready, Pairs!Goes
<1>4. child'["guest"] = child["guest"] /\ child'["host"].at = "playing"  BY <1>3 DEF PairInv, PairTypes, Process, Stage, Pairs!Roles
<1>5. PICK given \in BOOLEAN : Stage({"request?", "ready?"}, Paired, <<F("ready")>>, <<>>, given)
  BY <1>1 DEF Announced, Stage
<1>6. Stage(Paired, Paired, <<>>, <<>>, given)'
  BY <1>2, <1>4, <1>5, ReadsFirst DEF Stage, Paired
<1>7. Signed'  BY <1>1 DEF Signed, Announced, Pairs!Ready
<1>8. Together'  BY <1>6, <1>7 DEF Together
<1>9. QED  BY <1>2, <1>8 DEF Talks, Dialogue
-----------------------------------------------------------------------------
(* What every step keeps of the types, but for the wires.                   *)

\* A side's step changes where it is, or the parent where it is and the file.
LEMMA GoesTyped ==
    ASSUME PairTypes, NEW r \in Pairs!Roles, NEW there \in Steps, child' = [child EXCEPT ![r].at = there]
    PROVE  child' \in [Pairs!Roles -> Process]
<1>1. child[r] \in Process  BY DEF PairTypes
<1>2. [child[r] EXCEPT !.at = there] \in Process  BY <1>1 DEF Process
<1>3. QED  BY <1>2 DEF PairTypes

LEMMA BundleTyped ==
    ASSUME PairTypes, NEW r \in Pairs!Roles, NEW there \in Steps, NEW b \in BOOLEAN,
           child' = [child EXCEPT ![r].at = there, ![r].bundle = b]
    PROVE  child' \in [Pairs!Roles -> Process]
<1>1. PICK was : was = [child EXCEPT ![r].at = there]  OBVIOUS
<1>2. was \in [Pairs!Roles -> Process]
  <2>1. child \in [Pairs!Roles -> Process]  BY DEF PairTypes
  <2>2. [child[r] EXCEPT !.at = there] \in Process  BY <2>1 DEF Process
  <2>3. QED  BY <1>1, <2>1, <2>2
<1>3. child' = [was EXCEPT ![r].bundle = b]
  <2>1. child \in [Pairs!Roles -> Process]  BY DEF PairTypes
  <2>2. QED  BY <1>1, <2>1
<1>4. [was[r] EXCEPT !.bundle = b] \in Process  BY <1>2 DEF Process
<1>5. QED  BY <1>2, <1>3, <1>4

LEMMA KilledTyped ==
    ASSUME PairTypes, NEW r \in Pairs!Roles, Pairs!Killed(r)
    PROVE  child' \in [Pairs!Roles -> Process] /\ renewing' \in BOOLEAN
<1>1. PICK there \in Steps : child' = [child EXCEPT ![r].at = there]
  <2>1. child[r].at \in Steps /\ "dead" \in Steps  BY DEF PairTypes, Process, Steps
  <2>2. QED  BY <2>1 DEF Pairs!Killed, PairTypes
<1>2. QED  BY <1>1, GoesTyped DEF Pairs!Killed, PairTypes

LEMMA MetaTyped ==
    ASSUME PairTypes, NEW r \in Pairs!Roles, NEW m \in Meta, meta' = [meta EXCEPT ![r] = m]
    PROVE  meta' \in [Pairs!Roles -> Meta]
BY DEF PairTypes

LEMMA WholeTyped ==
    ASSUME PairTypes, NEW r \in Pairs!Roles, Pairs!Whole(r, "running") \/ Pairs!Whole(r, "startup_failed")
                                             \/ Pairs!Whole(r, "startup_timeout")
    PROVE  meta' \in [Pairs!Roles -> Meta]
<1>1. PICK m \in Meta : meta' = [meta EXCEPT ![r] = m]  BY DEF Pairs!Whole, Meta
<1>2. QED  BY <1>1, MetaTyped

LEMMA ParentTyped ==
    ASSUME PairTypes, NEW r \in Pairs!Roles, NEW there \in {"event?", "web", "done", "failed"},
           Pairs!ParentGoes(r, there)
    PROVE  /\ parent' \in [Pairs!Roles -> Command]
           /\ \A s \in Pairs!Roles : parent'[s].at = "merge" => parent'[s].copy \in Meta
<1>1. [parent[r] EXCEPT !.at = there] \in Command /\ [parent[r] EXCEPT !.at = there].at # "merge"
  BY DEF PairTypes, Command
<1>2. parent' = [parent EXCEPT ![r] = [parent[r] EXCEPT !.at = there]]  BY DEF Pairs!ParentGoes
<1>3. QED  BY <1>1, <1>2 DEF PairTypes

\* Every step keeps the types, given that it keeps those of the wires.
LEMMA PairTypesKept ==
    ASSUME PairTypes, Pairs!Next, wire' \in [Pairs!Roles -> Seq(FrameRecord)]
    PROVE  PairTypes'
<1> DEFINE ChildTyped == child' \in [Pairs!Roles -> Process]
<1>1. "host" \in Pairs!Roles /\ "guest" \in Pairs!Roles  BY DEF Pairs!Roles
<1>2. {"waiting", "proof?", "request?", "bundle?", "ack?", "submitting", "ready?", "playing", "closing",
       "reporting", "ending", "finished", "dead"} \subseteq Steps
  BY DEF Steps
<1> HIDE DEF ChildTyped
<1>3. CASE Pairs!Invite
  <2>1. ChildTyped  BY <1>1, <1>2, <1>3, GoesTyped DEF Pairs!Invite, Pairs!Goes, ChildTyped
  <2>2. QED  BY <1>3, <2>1 DEF Pairs!Invite, PairTypes, ChildTyped
<1>4. CASE Pairs!RenewalEnds \/ Pairs!Expires \/ Pairs!Breaks
  BY <1>4 DEF Pairs!RenewalEnds, Pairs!Expires, Pairs!Breaks, PairTypes
<1>5. CASE Pairs!Join
  <2>1. ChildTyped  BY <1>1, <1>2, <1>5, GoesTyped DEF Pairs!Join, Pairs!Goes, ChildTyped
  <2>2. QED  BY <1>5, <2>1 DEF Pairs!Join, PairTypes, ChildTyped
<1>6. CASE Pairs!Prove
  <2>1. ChildTyped  BY <1>1, <1>2, <1>6, GoesTyped DEF Pairs!Prove, Pairs!Goes, ChildTyped
  <2>2. QED  BY <1>6, <2>1 DEF Pairs!Prove, PairTypes, ChildTyped
<1>7. CASE Pairs!Proved
  <2>1. ChildTyped  BY <1>1, <1>2, <1>7, GoesTyped DEF Pairs!Proved, Pairs!Goes, ChildTyped
  <2>2. QED  BY <1>7, <2>1 DEF Pairs!Proved, PairTypes, ChildTyped
<1>8. CASE Pairs!Serve
  <2>1. ChildTyped  BY <1>1, <1>2, <1>8, GoesTyped DEF Pairs!Serve, Pairs!Goes, ChildTyped
  <2>2. QED  BY <1>8, <2>1 DEF Pairs!Serve, PairTypes, ChildTyped
<1>9. CASE Pairs!Receive
  <2>1. \/ child' = child \/ child' = [child EXCEPT !["guest"].at = "dead"]
        \/ child' = [child EXCEPT !["guest"].at = "submitting", !["guest"].bundle = TRUE]
    BY <1>9 DEF Pairs!Receive, Pairs!Goes
  <2>3. ChildTyped  BY <1>1, <1>2, <2>1, GoesTyped, BundleTyped DEF PairTypes, ChildTyped
  <2>4. QED  BY <1>9, <2>3 DEF Pairs!Receive, PairTypes, ChildTyped
<1>10. CASE Pairs!Acknowledged
  <2>1. \/ child' = [child EXCEPT !["host"].at = "dead"]
        \/ child' = [child EXCEPT !["host"].at = "ready?", !["host"].bundle = TRUE]
    BY <1>10 DEF Pairs!Acknowledged, Pairs!Goes
  <2>3. ChildTyped  BY <1>1, <1>2, <2>1, GoesTyped, BundleTyped DEF ChildTyped
  <2>4. QED  BY <1>10, <2>3 DEF Pairs!Acknowledged, PairTypes, ChildTyped
<1>11. CASE Pairs!Submit
  <2>1. ChildTyped  BY <1>1, <1>2, <1>11, GoesTyped DEF Pairs!Submit, Pairs!Goes, ChildTyped
  <2>2. [meta["guest"] EXCEPT !.bundle = child["guest"].bundle] \in Meta
    <3>1. meta["guest"] \in Meta /\ child["guest"] \in Process  BY <1>1 DEF PairTypes
    <3>2. child["guest"].bundle \in BOOLEAN  BY <3>1, Zenon DEF Process
    <3>3. PICK given \in BOOLEAN : given = child["guest"].bundle  BY <3>2
    <3>4. [meta["guest"] EXCEPT !.bundle = given] \in Meta  BY <3>1, <3>3 DEF Meta
    <3>5. QED  BY <3>3, <3>4
  <2>3. meta' \in [Pairs!Roles -> Meta]  BY <1>1, <1>11, <2>2 DEF Pairs!Submit, PairTypes
  <2>4. event' \in [Pairs!Roles -> BOOLEAN] /\ matched' \in {"none", "matched", "closed", "failed"}
    BY <1>11 DEF Pairs!Submit, PairTypes
  <2>5. QED  BY <1>11, <2>1, <2>3, <2>4 DEF Pairs!Submit, PairTypes, ChildTyped
<1>12. CASE Pairs!Ready
  <2>1. ChildTyped  BY <1>1, <1>2, <1>12, GoesTyped DEF Pairs!Ready, Pairs!Goes, ChildTyped
  <2>2. [meta["host"] EXCEPT !.bundle = child["host"].bundle] \in Meta
    <3>1. meta["host"] \in Meta /\ child["host"] \in Process  BY <1>1 DEF PairTypes
    <3>2. child["host"].bundle \in BOOLEAN  BY <3>1, Zenon DEF Process
    <3>3. PICK given \in BOOLEAN : given = child["host"].bundle  BY <3>2
    <3>4. [meta["host"] EXCEPT !.bundle = given] \in Meta  BY <3>1, <3>3 DEF Meta
    <3>5. QED  BY <3>3, <3>4
  <2>3. meta' \in [Pairs!Roles -> Meta]  BY <1>1, <1>12, <2>2 DEF Pairs!Ready, PairTypes
  <2>4. QED  BY <1>12, <2>1, <2>3 DEF Pairs!Ready, PairTypes, ChildTyped
<1>13. CASE Pairs!Merges
  <2>1. parent["guest"].copy \in Meta  BY <1>1, <1>13 DEF Pairs!Merges, PairTypes
  <2>2. meta' \in [Pairs!Roles -> Meta]  BY <1>1, <1>13, <2>1, MetaTyped DEF Pairs!Merges
  <2>3. [at |-> "web", copy |-> None] \in Command  BY DEF Command
  <2>4. parent' \in [Pairs!Roles -> Command]  BY <1>13, <2>3 DEF Pairs!Merges, PairTypes
  <2>5. \A s \in Pairs!Roles : parent'[s].at = "merge" => parent'[s].copy \in Meta
    BY <1>13 DEF Pairs!Merges, PairTypes
  <2>6. QED  BY <1>13, <2>2, <2>4, <2>5 DEF Pairs!Merges, PairTypes
<1>14. ASSUME NEW r \in Pairs!Roles, Pairs!GivesUp(r) PROVE PairTypes'
  <2>1. ChildTyped  BY <1>2, <1>14, GoesTyped DEF Pairs!GivesUp, Pairs!Goes, ChildTyped
  <2>2. QED  BY <1>14, <2>1 DEF Pairs!GivesUp, PairTypes, ChildTyped
<1>15. ASSUME NEW r \in Pairs!Roles, Pairs!MatchEnds(r) PROVE PairTypes'
  <2>1. PICK result \in Endings : child' = [child EXCEPT ![r].at = "closing", ![r].result = result]
    BY <1>15 DEF Pairs!MatchEnds, Endings
  <2>2. PICK was : was = [child EXCEPT ![r].at = "closing"]  OBVIOUS
  <2>3. was \in [Pairs!Roles -> Process] /\ child' = [was EXCEPT ![r].result = result]
    <3>1. child \in [Pairs!Roles -> Process]  BY DEF PairTypes
    <3>2. [child[r] EXCEPT !.at = "closing"] \in Process  BY <1>2, <3>1 DEF Process
    <3>3. QED  BY <2>1, <2>2, <3>1, <3>2
  <2>5. [was[r] EXCEPT !.result = result] \in Process  BY <2>3 DEF Process
  <2>6. ChildTyped  BY <2>3, <2>5 DEF ChildTyped
  <2>7. QED  BY <1>15, <2>6 DEF Pairs!MatchEnds, PairTypes, ChildTyped
<1>16. ASSUME NEW r \in Pairs!Roles, Pairs!Closes(r) PROVE PairTypes'
  <2>1. ChildTyped  BY <1>2, <1>16, GoesTyped DEF Pairs!Closes, Pairs!Goes, ChildTyped
  <2>2. QED  BY <1>16, <2>1 DEF Pairs!Closes, PairTypes, ChildTyped
<1>17. ASSUME NEW r \in Pairs!Roles, Pairs!CloseFails(r) PROVE PairTypes'
  <2>1. ChildTyped  BY <1>2, <1>17, GoesTyped DEF Pairs!CloseFails, ChildTyped
  <2>2. QED  BY <1>17, <2>1 DEF Pairs!CloseFails, PairTypes, ChildTyped
<1>18. ASSUME NEW r \in Pairs!Roles, Pairs!Reports(r) PROVE PairTypes'
  <2>1. ChildTyped  BY <1>2, <1>18, GoesTyped DEF Pairs!Reports, Pairs!Goes, ChildTyped
  <2>2. reports' \in [Pairs!Roles -> {None, "host", "draw"}]  BY <1>18 DEF Pairs!Reports, PairTypes
  <2>3. QED  BY <1>18, <2>1, <2>2 DEF Pairs!Reports, PairTypes, ChildTyped
<1>19. ASSUME NEW r \in Pairs!Roles, Pairs!Finishes(r) PROVE PairTypes'
  <2>1. ChildTyped  BY <1>2, <1>19, GoesTyped DEF Pairs!Finishes, Pairs!Goes, ChildTyped
  <2>2. [meta[r] EXCEPT !.status = Pairs!Status(child[r].result)] \in Meta
    <3>1. meta[r] \in Meta  BY DEF PairTypes
    <3>2. PICK s : s = Pairs!Status(child[r].result)  OBVIOUS
    <3>3. s \in {"closed", "aborted", "crashed"}  BY <3>2 DEF Pairs!Status
    <3>4. [meta[r] EXCEPT !.status = s] \in Meta  BY <3>1, <3>3 DEF Meta
    <3>5. QED  BY <3>2, <3>4
  <2>3. meta' \in [Pairs!Roles -> Meta]  BY <1>19, <2>2 DEF Pairs!Finishes, PairTypes
  <2>4. QED  BY <1>19, <2>1, <2>3 DEF Pairs!Finishes, PairTypes, ChildTyped
<1>20. ASSUME NEW r \in Pairs!Roles, Pairs!Running(r) PROVE PairTypes'
  BY <1>20, WholeTyped, ParentTyped DEF Pairs!Running, PairTypes
<1>21. ASSUME NEW r \in Pairs!Roles, Pairs!Announced(r) PROVE PairTypes'
  <2>1. CASE r = "host"
    BY <1>21, <2>1, WholeTyped, ParentTyped DEF Pairs!Announced, PairTypes
  <2>2. CASE r # "host"
    <3>1. parent' = [parent EXCEPT ![r] = [at |-> "merge", copy |-> meta[r]]] /\ meta' = meta
      BY <1>21, <2>2 DEF Pairs!Announced
    <3>2. meta[r] \in Meta /\ [at |-> "merge", copy |-> meta[r]] \in Command  BY DEF Command, PairTypes
    <3>3. parent' \in [Pairs!Roles -> Command]  BY <3>1, <3>2 DEF PairTypes
    <3>4. \A s \in Pairs!Roles : parent'[s].at = "merge" => parent'[s].copy \in Meta
      BY <3>1, <3>2 DEF PairTypes
    <3>5. QED  BY <1>21, <3>1, <3>3, <3>4 DEF Pairs!Announced, PairTypes
  <2>3. QED  BY <2>1, <2>2
<1>22. ASSUME NEW r \in Pairs!Roles, Pairs!StartFails(r) PROVE PairTypes'
  <2>1. ChildTyped /\ renewing' \in BOOLEAN  BY <1>22, KilledTyped DEF Pairs!StartFails, ChildTyped
  <2>2. meta' \in [Pairs!Roles -> Meta]  BY <1>22, WholeTyped DEF Pairs!StartFails
  <2>3. /\ parent' \in [Pairs!Roles -> Command]
        /\ \A s \in Pairs!Roles : parent'[s].at = "merge" => parent'[s].copy \in Meta
    BY <1>22, ParentTyped DEF Pairs!StartFails
  <2>4. QED  BY <1>22, <2>1, <2>2, <2>3 DEF Pairs!StartFails, PairTypes, ChildTyped
<1>23. ASSUME NEW r \in Pairs!Roles, Pairs!WebUp(r) PROVE PairTypes'
  BY <1>23, WholeTyped, ParentTyped DEF Pairs!WebUp, PairTypes
<1>24. ASSUME NEW r \in Pairs!Roles, Pairs!WebFails(r) PROVE PairTypes'
  <2>1. ChildTyped /\ renewing' \in BOOLEAN  BY <1>24, KilledTyped DEF Pairs!WebFails, ChildTyped
  <2>2. meta' \in [Pairs!Roles -> Meta]  BY <1>24, WholeTyped DEF Pairs!WebFails
  <2>3. /\ parent' \in [Pairs!Roles -> Command]
        /\ \A s \in Pairs!Roles : parent'[s].at = "merge" => parent'[s].copy \in Meta
    BY <1>24, ParentTyped DEF Pairs!WebFails
  <2>4. QED  BY <1>24, <2>1, <2>2, <2>3 DEF Pairs!WebFails, PairTypes, ChildTyped
<1>25. QED
  BY <1>3, <1>4, <1>5, <1>6, <1>7, <1>8, <1>9, <1>10, <1>11, <1>12, <1>13, <1>14,
     <1>15, <1>16, <1>17, <1>18, <1>19, <1>20, <1>21, <1>22, <1>23, <1>24
  DEF Pairs!Next
-----------------------------------------------------------------------------
(* What every step keeps.                                                   *)

\* Where a side that is past the dialogue is in it, the Guest has signed.
LEMMA GuestPlays == Dialogue /\ child["guest"].at \in Paired => Signed
BY DEF Dialogue, Apart, Greeting, Proving, Asking, Loading, Refused, Installed, Plain, Announced, Together, Over, Stage, Paired, Signed

LEMMA HostPlays == Dialogue /\ child["host"].at \in Paired => Signed
BY DEF Dialogue, Apart, Greeting, Proving, Asking, Loading, Refused, Installed, Plain, Announced, Together, Over, Stage, Paired, Signed

LEMMA PairedSigned ==
    ASSUME NEW r \in Pairs!Roles, Dialogue, child[r].at \in Paired
    PROVE  Signed
BY GuestPlays, HostPlays DEF Pairs!Roles

\* The steps of the parents leave the processes alone, or kill one.
LEMMA KilledGoesOn ==
    ASSUME PairTypes, NEW r \in Pairs!Roles, Pairs!Killed(r), wire' = wire, consent' = consent
    PROVE  GoesOn
<1>1. child \in [Pairs!Roles -> Process]  BY DEF PairTypes
<1>2. PICK there : /\ child' = [child EXCEPT ![r].at = there]
                   /\ there # child[r].at => there = "dead"
  BY DEF Pairs!Killed
<1>3. QED  BY <1>1, <1>2 DEF GoesOn, Process

LEMMA StepGoesOn ==
    ASSUME PairTypes, NEW r \in Pairs!Roles, NEW there \in Paired \union {"dead"},
           child[r].at \in Paired \/ there = "dead",
           child' = [child EXCEPT ![r].at = there], wire' = wire, consent' = consent
    PROVE  GoesOn
<1>1. child \in [Pairs!Roles -> Process]  BY DEF PairTypes
<1>2. QED  BY <1>1 DEF GoesOn, Process

LEMMA AloneGoesOn ==
    ASSUME child' = child, wire' = wire, consent' = consent
    PROVE  GoesOn
BY DEF GoesOn

\* A step that is none of the dialogue's.
QuietStep(r) ==
    \/ Pairs!GivesUp(r) \/ Pairs!MatchEnds(r) \/ Pairs!Closes(r) \/ Pairs!CloseFails(r) \/ Pairs!Reports(r)
    \/ Pairs!Finishes(r) \/ Pairs!Running(r) \/ Pairs!Announced(r) \/ Pairs!StartFails(r) \/ Pairs!WebUp(r)
    \/ Pairs!WebFails(r)

LEMMA QuietGoesOn ==
    ASSUME PairTypes, Dialogue, NEW r \in Pairs!Roles, QuietStep(r)
    PROVE  GoesOn /\ (Signed => Signed')
<1>1. {"playing", "closing", "reporting", "ending", "finished"} \subseteq Paired  BY DEF Paired
<1>2. CASE Pairs!GivesUp(r)
  BY <1>2, StepGoesOn DEF Pairs!GivesUp, Pairs!Goes, Signed
<1>3. CASE Pairs!MatchEnds(r)
  <2>1. PICK result : child' = [child EXCEPT ![r].at = "closing", ![r].result = result]
    BY <1>3 DEF Pairs!MatchEnds
  <2>2. child \in [Pairs!Roles -> Process] /\ child[r].at = "playing"  BY <1>3 DEF PairTypes, Pairs!MatchEnds
  <2>3. GoesOn  BY <1>1, <1>3, <2>1, <2>2 DEF GoesOn, Process, Pairs!MatchEnds
  <2>4. QED  BY <1>3, <2>3 DEF Signed, Pairs!MatchEnds
<1>4. CASE Pairs!Closes(r)
  <2>1. GoesOn  BY <1>1, <1>4, StepGoesOn DEF Pairs!Closes, Pairs!Goes
  <2>2. QED  BY <1>4, <2>1 DEF Signed, Pairs!Closes
<1>5. CASE Pairs!CloseFails(r)
  BY <1>1, <1>5, StepGoesOn DEF Pairs!CloseFails, Signed
<1>6. CASE Pairs!Reports(r)
  BY <1>1, <1>6, StepGoesOn DEF Pairs!Reports, Pairs!Goes, Signed
<1>7. CASE Pairs!Finishes(r)
  BY <1>1, <1>7, StepGoesOn DEF Pairs!Finishes, Pairs!Goes, Signed
<1>8. CASE Pairs!Running(r) \/ Pairs!Announced(r) \/ Pairs!WebUp(r)
  BY <1>8, AloneGoesOn DEF Pairs!Running, Pairs!Announced, Pairs!WebUp, Signed
<1>9. CASE Pairs!StartFails(r)
  BY <1>9, KilledGoesOn DEF Pairs!StartFails, Signed
<1>10. CASE Pairs!WebFails(r)
  BY <1>10, KilledGoesOn DEF Pairs!WebFails, Signed
<1>11. QED
  BY <1>2, <1>3, <1>4, <1>5, <1>6, <1>7, <1>8, <1>9, <1>10 DEF QuietStep

Still == Pairs!RenewalEnds \/ Pairs!Expires \/ Pairs!Breaks \/ Pairs!Merges

LEMMA StillGoesOn == Still => GoesOn /\ (Signed => Signed')
BY AloneGoesOn DEF Still, Pairs!RenewalEnds, Pairs!Expires, Pairs!Breaks, Pairs!Merges, Signed

\* Every step is one of the dialogue, or one that it goes on through.
LEMMA PairSteps ==
    Pairs!Next => \/ Pairs!Invite \/ Pairs!Join \/ Pairs!Prove \/ Pairs!Proved \/ Pairs!Serve \/ Pairs!Receive
                  \/ Pairs!Acknowledged \/ Pairs!Submit \/ Pairs!Ready \/ Still
                  \/ \E r \in Pairs!Roles : QuietStep(r)
BY DEF Pairs!Next, QuietStep, Still

LEMMA EveryStepTalks == PairInv /\ Pairs!Next => Talks
<1> SUFFICES ASSUME PairInv, Pairs!Next PROVE Talks  OBVIOUS
<1>1. ASSUME GoesOn, Signed => Signed' PROVE Talks
  BY <1>1, DialogueStays DEF Talks, PairInv, PairTypes, GoesOn
<1>2. CASE Still  BY <1>1, <1>2, StillGoesOn
<1>3. ASSUME NEW r \in Pairs!Roles, QuietStep(r) PROVE Talks
  BY <1>1, <1>3, QuietGoesOn DEF PairInv
<1>4. QED
  BY <1>2, <1>3, PairSteps, InviteTalks, JoinTalks, ProveTalks, ProvedTalks, ServeTalks, ReceiveTalks,
     AcknowledgedTalks, SubmitTalks, ReadyTalks

\* Whose hooks the Guest runs is settled when it has them, and known to the
\* Host when it plays.
LEMMA HooksKept == PairInv /\ Pairs!Next => Hooks'
<1> SUFFICES ASSUME PairInv, Pairs!Next PROVE Hooks'  OBVIOUS
<1>1. child \in [Pairs!Roles -> Process] /\ "host" \in Pairs!Roles /\ "guest" \in Pairs!Roles /\ Hooks
  BY DEF PairInv, PairTypes, Pairs!Roles
<1>2. ASSUME GoesOn PROVE Hooks'
  BY <1>1, <1>2 DEF Hooks, GoesOn, Paired, Pairs!Offered
<1>3. CASE Still  BY <1>2, <1>3, StillGoesOn
<1>4. ASSUME NEW r \in Pairs!Roles, QuietStep(r) PROVE Hooks'
  BY <1>2, <1>4, QuietGoesOn DEF PairInv
<1>5. CASE Pairs!Invite
  BY <1>1, <1>5 DEF Pairs!Invite, Pairs!Goes, Hooks, Process, Paired, Pairs!Offered
<1>6. CASE Pairs!Join
  BY <1>1, <1>6 DEF Pairs!Join, Pairs!Goes, Hooks, Process, Paired, Pairs!Offered
<1>7. CASE Pairs!Prove
  BY <1>1, <1>7 DEF Pairs!Prove, Pairs!Goes, Hooks, Process, Paired, Pairs!Offered
<1>8. CASE Pairs!Proved
  BY <1>1, <1>8 DEF Pairs!Proved, Pairs!Goes, Hooks, Process, Paired, Pairs!Offered
<1>9. CASE Pairs!Serve
  BY <1>1, <1>9 DEF Pairs!Serve, Pairs!Goes, Hooks, Process, Paired, Pairs!Offered
<1>10. CASE Pairs!Receive
  <2>1. child["host"].at \notin Paired
    <3>1. Loading  BY <1>10, GuestDownloads DEF PairInv, Pairs!Receive
    <3>2. QED  BY <3>1 DEF Loading, Stage, Paired
  <2>2. Pairs!Offered /\ consent' = consent  BY <1>1, <1>10 DEF Hooks, Pairs!Receive
  <2>3. \/ child' = child \/ child' = [child EXCEPT !["guest"].at = "dead"]
        \/ child' = [child EXCEPT !["guest"].at = "submitting", !["guest"].bundle = TRUE]
    BY <1>10 DEF Pairs!Receive, Pairs!Goes
  <2>4. /\ child'["host"] = child["host"]
        /\ \/ child'["guest"].at = child["guest"].at /\ child'["guest"].bundle = child["guest"].bundle
           \/ child'["guest"].at = "dead" /\ child'["guest"].bundle = child["guest"].bundle
           \/ child'["guest"].at = "submitting" /\ child'["guest"].bundle = TRUE
    BY <1>1, <2>3 DEF Process
  <2>5. QED  BY <1>1, <2>1, <2>2, <2>4 DEF Hooks, Pairs!Offered, Paired
<1>11. CASE Pairs!Acknowledged
  <2>1. \/ child' = [child EXCEPT !["host"].at = "dead"]
        \/ child' = [child EXCEPT !["host"].at = "ready?", !["host"].bundle = TRUE]
    BY <1>11 DEF Pairs!Acknowledged, Pairs!Goes
  <2>2. /\ child'["guest"] = child["guest"] /\ consent' = consent
        /\ \/ child'["host"].at = "dead"
           \/ child'["host"].at = "ready?" /\ child'["host"].bundle = TRUE
    BY <1>1, <1>11, <2>1 DEF Process, Pairs!Acknowledged
  <2>3. QED  BY <1>1, <2>2 DEF Hooks, Pairs!Offered, Paired
<1>12. CASE Pairs!Submit
  BY <1>1, <1>12 DEF Pairs!Submit, Pairs!Goes, Hooks, Process, Paired, Pairs!Offered
<1>13. CASE Pairs!Ready
  <2>1. child["host"].bundle = child["guest"].bundle
    <3>1. Announced  BY <1>13, HostAwaitsReady DEF PairInv, Pairs!Ready
    <3>2. QED  BY <1>1, <1>13, <3>1 DEF Announced, Stage, Hooks, Pairs!Ready, Process
  <2>2. child' = [child EXCEPT !["host"].at = "playing"] /\ consent' = consent
    BY <1>13 DEF Pairs!Ready, Pairs!Goes
  <2>3. QED  BY <1>1, <2>1, <2>2 DEF Hooks, Process, Paired, Pairs!Offered
<1>14. QED
  BY <1>3, <1>4, <1>5, <1>6, <1>7, <1>8, <1>9, <1>10, <1>11, <1>12, <1>13, PairSteps

\* Where a process is before its match is over, and after.
Later == {"closing", "reporting", "ending", "finished", "dead"}

\* A side that comes no nearer to the end of its match has no result yet.
Aside ==
    /\ reports' = reports
    /\ \A r \in Pairs!Roles :
          /\ child'[r].result = child[r].result
          /\ child'[r].at = child[r].at \/ child'[r].at = "dead" \/ (child[r].at \notin Later /\ child'[r].at \notin Later)

LEMMA AsideKeeps == ResultsFound /\ Aside => ResultsFound'
BY DEF ResultsFound, Aside, Later

LEMMA GoesAside ==
    ASSUME PairTypes, NEW r \in Pairs!Roles, NEW there, there = "dead" \/ (there \notin Later /\ child[r].at \notin Later),
           child' = [child EXCEPT ![r].at = there], reports' = reports
    PROVE  Aside
<1>1. child \in [Pairs!Roles -> Process]  BY DEF PairTypes
<1>2. QED  BY <1>1 DEF Aside, Process

LEMMA BundleAside ==
    ASSUME PairTypes, NEW r \in Pairs!Roles, NEW there, there \notin Later, child[r].at \notin Later, NEW b,
           child' = [child EXCEPT ![r].at = there, ![r].bundle = b], reports' = reports
    PROVE  Aside
<1>1. child \in [Pairs!Roles -> Process]  BY DEF PairTypes
<1>2. QED  BY <1>1 DEF Aside, Process

LEMMA KilledAside ==
    ASSUME PairTypes, NEW r \in Pairs!Roles, Pairs!Killed(r), reports' = reports
    PROVE  Aside
<1>1. child \in [Pairs!Roles -> Process]  BY DEF PairTypes
<1>2. PICK there : /\ child' = [child EXCEPT ![r].at = there]
                   /\ there # child[r].at => there = "dead"
  BY DEF Pairs!Killed
<1>3. QED  BY <1>1, <1>2 DEF Aside, Process

\* The steps that end a match; of the others, each leaves its result alone.
Ending(r) ==
    Pairs!MatchEnds(r) \/ Pairs!Closes(r) \/ Pairs!CloseFails(r) \/ Pairs!Reports(r) \/ Pairs!Finishes(r)

LEMMA StepsAside ==
    ASSUME PairTypes, Pairs!Next
    PROVE  Aside \/ \E r \in Pairs!Roles : Ending(r)
<1>1. "host" \in Pairs!Roles /\ "guest" \in Pairs!Roles  BY DEF Pairs!Roles
<1>2. \A x \in {"starting", "waiting", "proof?", "request?", "bundle?", "ack?", "submitting", "ready?", "playing"} :
         x \notin Later
  BY DEF Later
<1>3. CASE Pairs!Invite
  BY <1>1, <1>2, <1>3, GoesAside DEF Pairs!Invite, Pairs!Goes
<1>4. CASE Still
  BY <1>4 DEF Still, Pairs!RenewalEnds, Pairs!Expires, Pairs!Breaks, Pairs!Merges, Aside
<1>5. CASE Pairs!Join
  BY <1>1, <1>2, <1>5, GoesAside DEF Pairs!Join, Pairs!Goes
<1>6. CASE Pairs!Prove
  BY <1>1, <1>2, <1>6, GoesAside DEF Pairs!Prove, Pairs!Goes
<1>7. CASE Pairs!Proved
  BY <1>1, <1>2, <1>7, GoesAside DEF Pairs!Proved, Pairs!Goes
<1>8. CASE Pairs!Serve
  BY <1>1, <1>2, <1>8, GoesAside DEF Pairs!Serve, Pairs!Goes
<1>9. CASE Pairs!Receive
  <2>1. \/ child' = child \/ child' = [child EXCEPT !["guest"].at = "dead"]
        \/ child' = [child EXCEPT !["guest"].at = "submitting", !["guest"].bundle = TRUE]
    BY <1>9 DEF Pairs!Receive, Pairs!Goes
  <2>2. child["guest"].at \notin Later /\ reports' = reports  BY <1>2, <1>9 DEF Pairs!Receive
  <2>3. CASE child' = child  BY <2>2, <2>3 DEF Aside
  <2>4. QED  BY <1>1, <1>2, <2>1, <2>2, <2>3, GoesAside, BundleAside
<1>10. CASE Pairs!Acknowledged
  <2>1. \/ child' = [child EXCEPT !["host"].at = "dead"]
        \/ child' = [child EXCEPT !["host"].at = "ready?", !["host"].bundle = TRUE]
    BY <1>10 DEF Pairs!Acknowledged, Pairs!Goes
  <2>2. child["host"].at \notin Later /\ reports' = reports  BY <1>2, <1>10 DEF Pairs!Acknowledged
  <2>3. QED  BY <1>1, <1>2, <2>1, <2>2, GoesAside, BundleAside
<1>11. CASE Pairs!Submit
  BY <1>1, <1>2, <1>11, GoesAside DEF Pairs!Submit, Pairs!Goes
<1>12. CASE Pairs!Ready
  BY <1>1, <1>2, <1>12, GoesAside DEF Pairs!Ready, Pairs!Goes
<1>13. ASSUME NEW r \in Pairs!Roles, Pairs!GivesUp(r) PROVE Aside
  BY <1>13, GoesAside DEF Pairs!GivesUp, Pairs!Goes
<1>14. ASSUME NEW r \in Pairs!Roles, Pairs!Running(r) \/ Pairs!Announced(r) \/ Pairs!WebUp(r) PROVE Aside
  BY <1>14 DEF Pairs!Running, Pairs!Announced, Pairs!WebUp, Aside
<1>15. ASSUME NEW r \in Pairs!Roles, Pairs!StartFails(r) \/ Pairs!WebFails(r) PROVE Aside
  BY <1>15, KilledAside DEF Pairs!StartFails, Pairs!WebFails
<1>16. QED
  BY <1>3, <1>4, <1>5, <1>6, <1>7, <1>8, <1>9, <1>10, <1>11, <1>12, <1>13, <1>14, <1>15, PairSteps
  DEF QuietStep, Ending

\* The result of a match is there from its end on, and reported after it.
LEMMA ResultsKept == PairInv /\ Pairs!Next => ResultsFound'
<1> SUFFICES ASSUME PairInv, Pairs!Next PROVE ResultsFound'  OBVIOUS
<1>1. child \in [Pairs!Roles -> Process] /\ reports \in [Pairs!Roles -> {None, "host", "draw"}]
      /\ ResultsFound /\ PairTypes
  BY DEF PairInv, PairTypes
<1>2. ASSUME NEW r \in Pairs!Roles, NEW there, child' = [child EXCEPT ![r].at = there], reports' = reports,
             child[r].at \in Later, there \in {"reporting", "ending", "finished"},
             child[r].at # "dead", there = "reporting" => child[r].at = "closing"
      PROVE  ResultsFound'
  BY <1>1, <1>2 DEF ResultsFound, Process, Later
<1>3. ASSUME NEW r \in Pairs!Roles, Ending(r) PROVE ResultsFound'
  <2>1. CASE Pairs!MatchEnds(r)
    <3>1. PICK result \in Endings : child' = [child EXCEPT ![r].at = "closing", ![r].result = result]
      BY <2>1 DEF Pairs!MatchEnds, Endings
    <3>2. child[r].at = "playing" /\ reports' = reports  BY <2>1 DEF Pairs!MatchEnds
    <3>3. child'[r].at = "closing" /\ child'[r].result = result /\ \A s \in Pairs!Roles : s # r => child'[s] = child[s]
      BY <1>1, <3>1 DEF Process
    <3>4. QED  BY <1>1, <3>2, <3>3 DEF ResultsFound
  <2>2. CASE Pairs!Closes(r)
    BY <1>2, <2>2 DEF Pairs!Closes, Pairs!Goes, Later
  <2>3. CASE Pairs!CloseFails(r)
    BY <1>2, <2>3 DEF Pairs!CloseFails, Later
  <2>4. CASE Pairs!Reports(r)
    <3>1. child' = [child EXCEPT ![r].at = "ending"] /\ child[r].at = "reporting"
      BY <2>4 DEF Pairs!Reports, Pairs!Goes
    <3>2. \A s \in Pairs!Roles : s # r => reports'[s] = reports[s]  BY <1>1, <2>4 DEF Pairs!Reports
    <3>3. /\ child'[r].at = "ending" /\ child'[r].result = child[r].result
          /\ \A s \in Pairs!Roles : s # r => child'[s] = child[s]
      BY <1>1, <3>1 DEF Process
    <3>4. QED  BY <1>1, <3>1, <3>2, <3>3 DEF ResultsFound
  <2>5. CASE Pairs!Finishes(r)
    BY <1>2, <2>5 DEF Pairs!Finishes, Pairs!Goes, Later
  <2>6. QED  BY <1>3, <2>1, <2>2, <2>3, <2>4, <2>5 DEF Ending
<1>4. QED  BY <1>1, <1>3, StepsAside, AsideKeeps

\* A result stays, and is only found once.
LEMMA ResultsStay ==
    ASSUME PairInv, Pairs!Next, NEW r \in Pairs!Roles, child[r].result # None
    PROVE  child'[r].result = child[r].result
<1>1. child \in [Pairs!Roles -> Process] /\ ResultsFound  BY DEF PairInv, PairTypes
<1>2. ASSUME NEW s \in Pairs!Roles, Ending(s) PROVE child'[r].result = child[r].result
  <2>1. CASE Pairs!MatchEnds(s)
    <3>1. child[s].result = None  BY <1>1, <2>1 DEF ResultsFound, Pairs!MatchEnds
    <3>2. QED  BY <1>1, <2>1, <3>1 DEF Pairs!MatchEnds
  <2>2. CASE Pairs!Closes(s)  BY <1>1, <2>2 DEF Pairs!Closes, Pairs!Goes, Process
  <2>3. CASE Pairs!CloseFails(s)  BY <1>1, <2>3 DEF Pairs!CloseFails, Process
  <2>4. CASE Pairs!Reports(s)  BY <1>1, <2>4 DEF Pairs!Reports, Pairs!Goes, Process
  <2>5. CASE Pairs!Finishes(s)  BY <1>1, <2>5 DEF Pairs!Finishes, Pairs!Goes, Process
  <2>6. QED  BY <1>2, <2>1, <2>2, <2>3, <2>4, <2>5 DEF Ending
<1>3. QED  BY <1>2, StepsAside DEF Aside, PairInv

\* The invitation and the session of a step that closes nothing.
LEMMA OpenStays ==
    ASSUME PairTypes, Pairs!Next
    PROVE  \/ \E r \in Pairs!Roles : Pairs!Closes(r)
           \/ /\ post' = "closed" => post = "closed"
              /\ \/ matched' = matched
                 \/ matched' = "matched" /\ post = "open" /\ post' = post
<1>1. ASSUME NEW r \in Pairs!Roles, QuietStep(r)
      PROVE  Pairs!Closes(r) \/ (post' = post /\ matched' = matched)
  BY <1>1 DEF QuietStep, Pairs!GivesUp, Pairs!MatchEnds, Pairs!CloseFails, Pairs!Reports, Pairs!Finishes,
     Pairs!Running, Pairs!Announced, Pairs!StartFails, Pairs!WebUp, Pairs!WebFails
<1>2. QED
  BY <1>1, PairSteps
  DEF Pairs!Invite, Pairs!Join, Pairs!Prove, Pairs!Proved, Pairs!Serve, Pairs!Receive, Pairs!Acknowledged,
      Pairs!Submit, Pairs!Ready, Still, Pairs!RenewalEnds, Pairs!Expires, Pairs!Breaks, Pairs!Merges

\* The platform has the session closed or failed by a side with that result.
LEMMA ClosingKept == PairInv /\ Pairs!Next => Pairs!MatchIsClosed'
<1> SUFFICES ASSUME PairInv, Pairs!Next PROVE Pairs!MatchIsClosed'  OBVIOUS
<1>1. /\ PairTypes /\ ResultsFound /\ Pairs!MatchIsClosed /\ Dialogue
      /\ child \in [Pairs!Roles -> Process] /\ reports \in [Pairs!Roles -> {None, "host", "draw"}]
  BY DEF PairInv, PairTypes
<1>2. \A r \in Pairs!Roles : child[r].result \in Endings => child'[r].result = child[r].result
  BY ResultsStay, ServicesAssumption DEF Endings
<1>3. \A r \in Pairs!Roles : reports'[r] # None => child'[r].result = "completed"
  <2>1. ASSUME NEW r \in Pairs!Roles, reports'[r] # None, reports[r] = None PROVE child[r].result = "completed"
    <3>1. ~Aside  BY <2>1 DEF Aside
    <3>2. PICK s \in Pairs!Roles : Ending(s)  BY <1>1, <3>1, StepsAside
    <3>3. Pairs!Reports(s)
      BY <2>1, <3>2 DEF Ending, Pairs!MatchEnds, Pairs!Closes, Pairs!CloseFails, Pairs!Finishes
    <3>4. QED  BY <1>1, <2>1, <3>3 DEF Pairs!Reports
  <2>2. QED  BY <1>1, <1>2, <2>1 DEF Pairs!MatchIsClosed, Endings
<1>4. /\ post' = "closed" => matched' \in {"closed", "failed"}
      /\ matched' = "closed" => \E r \in Pairs!Roles : child[r].result = "completed"
      /\ matched' = "failed" => \E r \in Pairs!Roles : child[r].result \in {"aborted", "error"}
  <2>1. ASSUME NEW r \in Pairs!Roles, Pairs!Closes(r)
        PROVE  /\ matched' \in {"closed", "failed"}
               /\ matched' = "closed" => \E s \in Pairs!Roles : child[s].result = "completed"
               /\ matched' = "failed" => \E s \in Pairs!Roles : child[s].result \in {"aborted", "error"}
    <3>1. child[r].result \in Endings /\ child[r].at \in Paired
      BY <1>1, <2>1 DEF ResultsFound, Pairs!Closes, Paired
    <3>2. matched # "none"  BY <1>1, <3>1, PairedSigned DEF Signed
    <3>3. QED  BY <1>1, <2>1, <3>1, <3>2 DEF Pairs!Closes, Pairs!MatchIsClosed, PairTypes, Endings
  <2>2. QED  BY <1>1, <2>1, OpenStays DEF Pairs!MatchIsClosed
<1>5. /\ matched' = "closed" => \E r \in Pairs!Roles : child'[r].result = "completed"
      /\ matched' = "failed" => \E r \in Pairs!Roles : child'[r].result \in {"aborted", "error"}
  BY <1>2, <1>4 DEF Endings
<1>6. QED  BY <1>3, <1>4, <1>5 DEF Pairs!MatchIsClosed

\* A Host that has not yet asked has no invitation.
LEMMA InvitedKept == PairInv /\ Pairs!Next => Invited'
<1> SUFFICES ASSUME PairInv, Pairs!Next, child'["host"].at = "starting" PROVE post' = "none"
  BY DEF Invited
<1>1. /\ PairTypes /\ Invited /\ Dialogue
      /\ child \in [Pairs!Roles -> Process] /\ "host" \in Pairs!Roles /\ "guest" \in Pairs!Roles
  BY DEF PairInv, PairTypes, Pairs!Roles
<1>2. child["host"].at = "starting"
  <2>1. ASSUME NEW r \in Pairs!Roles, QuietStep(r) PROVE GoesOn  BY <1>1, <2>1, QuietGoesOn
  <2>2. Still => GoesOn  BY StillGoesOn
  <2>3. GoesOn => child["host"].at = "starting"  BY <1>1 DEF GoesOn, Paired
  <2>4. ~Pairs!Invite /\ ~Pairs!Prove /\ ~Pairs!Serve /\ ~Pairs!Ready
    BY <1>1 DEF Pairs!Invite, Pairs!Prove, Pairs!Serve, Pairs!Ready, Pairs!Goes, Process
  <2>5. ~Pairs!Acknowledged
    <3>1. Pairs!Acknowledged => \/ child' = [child EXCEPT !["host"].at = "dead"]
                                \/ child' = [child EXCEPT !["host"].at = "ready?", !["host"].bundle = TRUE]
      BY DEF Pairs!Acknowledged, Pairs!Goes
    <3>2. QED  BY <1>1, <3>1 DEF Process
  <2>6. Pairs!Join \/ Pairs!Proved \/ Pairs!Submit => child'["host"] = child["host"]
    BY <1>1 DEF Pairs!Join, Pairs!Proved, Pairs!Submit, Pairs!Goes, Process, Pairs!Roles
  <2>7. Pairs!Receive => child'["host"] = child["host"]
    <3>1. Pairs!Receive =>
             \/ child' = child \/ child' = [child EXCEPT !["guest"].at = "dead"]
             \/ child' = [child EXCEPT !["guest"].at = "submitting", !["guest"].bundle = TRUE]
      BY DEF Pairs!Receive, Pairs!Goes
    <3>2. QED  BY <1>1, <3>1 DEF Process
  <2>8. QED  BY <2>1, <2>2, <2>3, <2>4, <2>5, <2>6, <2>7, PairSteps
<1>3. post = "none"  BY <1>1, <1>2 DEF Invited
<1>4. ASSUME NEW r \in Pairs!Roles, Pairs!Closes(r) PROVE FALSE
  <2>1. GoesOn /\ child[r].at \in Paired
    BY <1>1, <1>4, QuietGoesOn DEF QuietStep, Pairs!Closes, Paired
  <2>2. Apart  BY <1>1, <1>2, HostStarts
  <2>3. QED  BY <1>2, <2>1, <2>2 DEF Apart, Stage, Paired, Pairs!Roles
<1>5. ~Pairs!Expires  BY <1>3 DEF Pairs!Expires
<1>6. ~Pairs!Invite  BY <1>1 DEF Pairs!Invite, Pairs!Goes, Process
<1>7. ASSUME NEW r \in Pairs!Roles, QuietStep(r) PROVE post' = post
  BY <1>4, <1>7 DEF QuietStep, Pairs!GivesUp, Pairs!MatchEnds, Pairs!CloseFails, Pairs!Reports, Pairs!Finishes,
     Pairs!Running, Pairs!Announced, Pairs!StartFails, Pairs!WebUp, Pairs!WebFails
<1>8. QED
  BY <1>3, <1>5, <1>6, <1>7, PairSteps
  DEF Pairs!Join, Pairs!Prove, Pairs!Proved, Pairs!Serve, Pairs!Receive, Pairs!Acknowledged,
      Pairs!Submit, Pairs!Ready, Still, Pairs!RenewalEnds, Pairs!Breaks, Pairs!Merges
-----------------------------------------------------------------------------
\* The invariant starts, is kept, and says what the run checks.
LEMMA PairKept == PairInv /\ Pairs!Next => PairInv'
<1> SUFFICES ASSUME PairInv, Pairs!Next PROVE PairInv'  OBVIOUS
<1>1. Talks /\ Hooks' /\ ResultsFound' /\ Invited' /\ Pairs!MatchIsClosed'
  BY EveryStepTalks, HooksKept, ResultsKept, InvitedKept, ClosingKept
<1>2. PairTypes'  BY <1>1, PairTypesKept DEF Talks, PairInv
<1>3. QED  BY <1>1, <1>2 DEF PairInv, Talks

LEMMA PairInit == Pairs!Init => PairInv
<1> SUFFICES ASSUME Pairs!Init PROVE PairInv  OBVIOUS
<1>1. PairTypes
  BY EmptySeq DEF Pairs!Init, PairTypes, Pairs!Roles, Process, Steps, Command, Meta
<1>2. Apart  BY DEF Pairs!Init, Apart, Stage, Pairs!Roles
<1>3. Hooks /\ ResultsFound /\ Invited
  BY DEF Pairs!Init, Hooks, ResultsFound, Invited, Pairs!Roles, Paired
<1>4. Pairs!MatchIsClosed  BY DEF Pairs!Init, Pairs!MatchIsClosed
<1>5. QED  BY <1>1, <1>2, <1>3, <1>4 DEF PairInv, Dialogue

LEMMA PairImplies == PairInv => Pairs!TypeOK /\ Pairs!PairedAgree /\ Pairs!MatchIsClosed
<1> SUFFICES ASSUME PairInv PROVE Pairs!TypeOK /\ Pairs!PairedAgree /\ Pairs!MatchIsClosed  OBVIOUS
<1>1. Pairs!TypeOK
  BY DEF PairInv, PairTypes, Process, Command, Meta, Steps, Endings, Pairs!TypeOK
<1>2. \A r \in Pairs!Roles : Pairs!Past(r) <=> child[r].at \in Paired  BY DEF Pairs!Past, Paired
<1>3. Pairs!Past("host") => matched # "none" /\ event["guest"]
  BY <1>2, HostPlays DEF PairInv, Signed, Pairs!Roles
<1>4. Pairs!PairedAgree
  BY <1>2, <1>3 DEF PairInv, Hooks, Pairs!PairedAgree, Pairs!Roles
<1>5. QED  BY <1>1, <1>4 DEF PairInv

LEMMA PairStands == PairInv /\ UNCHANGED pairs => PairInv'
<1> SUFFICES ASSUME PairInv, UNCHANGED pairs PROVE PairInv'  OBVIOUS
<1>1. GoesOn /\ Aside /\ (Signed => Signed')  BY DEF pairs, GoesOn, Aside, Signed
<1>2. Dialogue' /\ ResultsFound'  BY <1>1, DialogueStays, AsideKeeps DEF PairInv
<1>3. PairTypes'  BY DEF pairs, PairInv, PairTypes
<1>4. Hooks' /\ Invited' /\ Pairs!MatchIsClosed'
  BY DEF pairs, PairInv, Hooks, Invited, Pairs!MatchIsClosed, Pairs!Offered
<1>5. QED  BY <1>2, <1>3, <1>4 DEF PairInv
-----------------------------------------------------------------------------
(* Remote hooks: one pipe, one call at a time, one worker for a session.    *)
LiveLives == {"initializing", "ready", "closing", "shutdown"}
Failures == {"failed", "crashed", "timeout"}
CallRecord == [at : {"idle", "waiting", "returned", "failed"}, id : Nat,
               got : {None, "result", "raised"} \union Failures]
AnswerRecord == [kind : {"result", "raised", "error", "end"}, id : Nat]

WorkerTypes ==
    /\ registry \in {None, "self", "other"}
    /\ life \in LiveLives \union {"new", "registered", "closed"}
    /\ client \in BOOLEAN /\ sandbox \in {"none", "live", "dead"} /\ other \in {"none", "live", "dead"}
    /\ lock \in Remote!CallThreads \union {None} /\ call \in [Remote!CallThreads -> CallRecord]
    /\ requests \in Seq(Nat) /\ answers \in Seq(AnswerRecord)
    /\ nextId \in 1..(MaxCalls + 2) /\ record \in {None, "started", "stopped"} \union Failures

(* What a call has come to.                                                 *)
CallEnds ==
    \A t \in Remote!CallThreads :
        /\ call[t].at = "failed" => call[t].got \in Failures
        /\ call[t].at = "returned" => call[t].got \in {"result", "raised"}

(* The session belongs to the proxy from before its worker starts until the *)
(* worker is gone.                                                          *)
WorkerClaims ==
    /\ life \in LiveLives \union {"registered"} => registry = "self"
    /\ sandbox = "live" => life \in LiveLives
    /\ other = "live" => registry = "other"

(* Before the worker there is nothing in the pipe, and its last call is the *)
(* one that shuts it down.                                                  *)
WorkerCalls ==
    /\ life \in {"new", "registered"} =>
          nextId = 1 /\ lock = None /\ requests = <<>> /\ answers = <<>>
    /\ life = "initializing" => nextId \in {1, 2}
    /\ life \notin {"shutdown", "closed"} => nextId <= MaxCalls + 1

(* What is in the pipe is the question of the call that has the lock, or    *)
(* the answer to it.                                                        *)
WorkerPipe ==
    /\ \A t \in Remote!CallThreads : call[t].at = "waiting" <=> lock = t
    /\ lock = None /\ sandbox = "live" => requests = <<>> /\ answers = <<>>
    /\ lock # None /\ sandbox = "live" =>
          \/ requests = <<call[lock].id>> /\ answers = <<>>
          \/ requests = <<>> /\ \E kind \in {"result", "raised", "error"} :
                                   answers = <<[kind |-> kind, id |-> call[lock].id]>>

WorkerInv == WorkerTypes /\ CallEnds /\ WorkerClaims /\ WorkerCalls /\ WorkerPipe

LEMMA JoinsEmpty ==
    ASSUME NEW x
    PROVE  Append(<<>>, x) = <<x>> /\ Head(<<x>>) = x /\ Tail(<<x>>) = <<>> /\ <<x>> # <<>>
  OBVIOUS

LEMMA ThreadsNamed == None \notin Remote!CallThreads /\ Remote!Main \in Remote!CallThreads /\ None # "self" /\ None # "other"
BY ServicesAssumption DEF Remote!CallThreads, Remote!Main

\* A call that becomes a record of its own.
LEMMA CallChanges ==
    ASSUME WorkerTypes, NEW t \in Remote!CallThreads, NEW c \in CallRecord, call' = [call EXCEPT ![t] = c]
    PROVE  /\ call' \in [Remote!CallThreads -> CallRecord] /\ call'[t] = c
           /\ \A u \in Remote!CallThreads : u # t => call'[u] = call[u]
BY DEF WorkerTypes

\* The claim of the session, and the start of the worker.
LEMMA RegisterKeeps == WorkerInv /\ Remote!Register => WorkerInv'
<1> SUFFICES ASSUME WorkerInv, Remote!Register PROVE WorkerInv'  OBVIOUS
<1>1. WorkerTypes' /\ CallEnds'
  BY DEF WorkerInv, WorkerTypes, CallEnds, Remote!Register
<1>2. WorkerClaims' /\ WorkerCalls' /\ WorkerPipe'
  BY DEF WorkerInv, WorkerClaims, WorkerCalls, WorkerPipe, Remote!Register, LiveLives
<1>3. QED  BY <1>1, <1>2 DEF WorkerInv

LEMMA SpawnKeeps == WorkerInv /\ Remote!Spawn => WorkerInv'
<1> SUFFICES ASSUME WorkerInv, Remote!Spawn PROVE WorkerInv'  OBVIOUS
<1>1. WorkerTypes' /\ CallEnds'
  BY DEF WorkerInv, WorkerTypes, CallEnds, Remote!Spawn, Remote!WorkerState, LiveLives
<1>2. WorkerClaims'
  BY ThreadsNamed DEF WorkerInv, WorkerClaims, Remote!Spawn, LiveLives
<1>3. WorkerCalls'
  BY ServicesAssumption DEF WorkerInv, WorkerCalls, Remote!Spawn, LiveLives
<1>4. WorkerPipe'
  BY DEF WorkerInv, WorkerCalls, WorkerPipe, Remote!Spawn
<1>5. QED  BY <1>1, <1>2, <1>3, <1>4 DEF WorkerInv

LEMMA OtherKeeps == WorkerInv /\ (Remote!OtherInit \/ Remote!OtherClose) => WorkerInv'
<1> SUFFICES ASSUME WorkerInv, Remote!OtherInit \/ Remote!OtherClose PROVE WorkerInv'  OBVIOUS
<1>1. WorkerTypes' /\ CallEnds'
  BY DEF WorkerInv, WorkerTypes, CallEnds, Remote!OtherInit, Remote!OtherClose
<1>2. WorkerClaims'
  BY ThreadsNamed DEF WorkerInv, WorkerClaims, Remote!OtherInit, Remote!OtherClose, LiveLives
<1>3. WorkerCalls' /\ WorkerPipe'
  BY DEF WorkerInv, WorkerCalls, WorkerPipe, Remote!OtherInit, Remote!OtherClose
<1>4. QED  BY <1>1, <1>2, <1>3 DEF WorkerInv

\* A call asks its question of a live worker, when the pipe is empty.
LEMMA CallKeeps == ASSUME NEW t \in Remote!CallThreads, WorkerInv, Remote!Call(t) PROVE WorkerInv'
<1>1. /\ WorkerTypes /\ WorkerCalls /\ WorkerPipe /\ WorkerClaims /\ CallEnds
      /\ lock = None /\ call[t].at = "idle" /\ life \notin {"new", "registered"} /\ nextId \in Nat
      /\ UNCHANGED <<registry, client, sandbox, other, answers, record>>
  BY DEF WorkerInv, Remote!Call, Remote!Calls, WorkerTypes
<1>2. /\ life' \in LiveLives \union {"closed"}
      /\ life' = life \/ (life = "closing" /\ life' = "shutdown")
  BY <1>1 DEF Remote!Call, WorkerTypes, LiveLives
<1>3. WorkerClaims'  BY <1>1, <1>2 DEF WorkerClaims, LiveLives
<1>4. CASE sandbox = "live"
  <2> DEFINE c == [at |-> "waiting", id |-> nextId, got |-> None]
  <2>1. /\ call' = [call EXCEPT ![t] = c] /\ lock' = t /\ nextId' = nextId + 1
        /\ requests' = Append(requests, nextId)
    BY <1>4 DEF Remote!Call
  <2>2. c \in CallRecord /\ c.at = "waiting" /\ c.id = nextId  BY <1>1 DEF CallRecord
  <2> HIDE DEF c
  <2>3. /\ call' \in [Remote!CallThreads -> CallRecord] /\ call'[t] = c
        /\ \A u \in Remote!CallThreads : u # t => call'[u] = call[u]
    BY <1>1, <2>1, <2>2, CallChanges
  <2>4. requests = <<>> /\ answers = <<>>  BY <1>1, <1>4 DEF WorkerPipe
  <2>5. requests' = <<nextId>> /\ requests' \in Seq(Nat)
    <3>1. requests' = <<nextId>>  BY <2>1, <2>4, JoinsEmpty
    <3>2. QED  BY <1>1, <2>1, <3>1, AppendProperties DEF WorkerTypes
  <2>6. /\ nextId <= MaxCalls \/ (life = "initializing" /\ nextId = 1) \/ (life = "closing" /\ life' = "shutdown")
    BY DEF Remote!Call, Remote!Calls
  <2>7. MaxCalls \in Nat /\ MaxCalls >= 1  BY ServicesAssumption
  <2>8. nextId' \in 1..(MaxCalls + 2) /\ WorkerCalls'
    <3>1. life = "closing" => nextId <= MaxCalls + 1  BY <1>1 DEF WorkerCalls
    <3>2. nextId' \in 1..(MaxCalls + 2)  BY <1>1, <2>1, <2>6, <2>7, <3>1
    <3>3. life' = "initializing" => nextId' \in {1, 2}
      BY <1>1, <1>2, <2>1 DEF Remote!Call, Remote!Calls
    <3>4. life' \notin {"shutdown", "closed"} => nextId' <= MaxCalls + 1
      BY <1>1, <2>1, <2>6, <2>7
    <3>5. QED  BY <1>2, <3>2, <3>3, <3>4 DEF WorkerCalls, LiveLives
  <2>9. WorkerTypes'  BY <1>1, <1>2, <2>1, <2>3, <2>5, <2>8 DEF WorkerTypes
  <2>10. CallEnds'  BY <1>1, <2>2, <2>3 DEF CallEnds
  <2>11. WorkerPipe'
    BY <1>1, <2>1, <2>2, <2>3, <2>4, <2>5, ThreadsNamed DEF WorkerPipe
  <2>12. QED  BY <1>3, <2>8, <2>9, <2>10, <2>11 DEF WorkerInv
<1>5. CASE sandbox # "live"
  <2> DEFINE c == [at |-> "failed", id |-> 0, got |-> "failed"]
  <2>1. call' = [call EXCEPT ![t] = c] /\ UNCHANGED <<lock, nextId, requests>>
    BY <1>5 DEF Remote!Call
  <2>2. c \in CallRecord /\ c.at = "failed" /\ c.got = "failed"  BY DEF CallRecord, Failures
  <2> HIDE DEF c
  <2>3. /\ call' \in [Remote!CallThreads -> CallRecord] /\ call'[t] = c
        /\ \A u \in Remote!CallThreads : u # t => call'[u] = call[u]
    BY <1>1, <2>1, <2>2, CallChanges
  <2>4. WorkerTypes'  BY <1>1, <1>2, <2>1, <2>3 DEF WorkerTypes
  <2>5. CallEnds'  BY <1>1, <2>2, <2>3 DEF CallEnds, Failures
  <2>6. WorkerCalls'  BY <1>1, <1>2, <2>1 DEF WorkerCalls, LiveLives
  <2>7. WorkerPipe'
    BY <1>1, <1>5, <2>1, <2>2, <2>3, ThreadsNamed DEF WorkerPipe
  <2>8. QED  BY <1>3, <2>4, <2>5, <2>6, <2>7 DEF WorkerInv
<1>6. QED  BY <1>4, <1>5

\* A call that comes back leaves the pipe as the answer left it: empty, if the
\* worker still lives.
LEMMA ReturnedKeeps ==
    ASSUME NEW t \in Remote!CallThreads, NEW how \in {"result", "raised"} \union Failures, WorkerInv,
           call[t].at = "waiting", Remote!Returned(t, how),
           UNCHANGED <<registry, life, client, other, requests, nextId, record>>,
           answers' \in Seq(AnswerRecord),
           answers = <<>> => answers' = <<>>,
           sandbox = "live" /\ how \in {"result", "raised"} => requests = <<>> /\ answers' = <<>>
    PROVE  WorkerInv'
<1>1. WorkerTypes /\ WorkerCalls /\ WorkerPipe /\ WorkerClaims /\ CallEnds /\ lock = t
  BY DEF WorkerInv, WorkerPipe
<1> DEFINE c == [at |-> IF how \in {"result", "raised"} THEN "returned" ELSE "failed", id |-> call[t].id, got |-> how]
<1>2. /\ call' = [call EXCEPT ![t] = c] /\ lock' = None
      /\ sandbox' = IF how \in {"result", "raised"} THEN sandbox ELSE "dead"
  BY DEF Remote!Returned
<1>3. /\ c \in CallRecord /\ c.at \in {"returned", "failed"} /\ c.got = how
      /\ c.at = "returned" <=> how \in {"result", "raised"}
  BY <1>1 DEF CallRecord, WorkerTypes, Failures
<1> HIDE DEF c
<1>4. /\ call' \in [Remote!CallThreads -> CallRecord] /\ call'[t] = c
      /\ \A u \in Remote!CallThreads : u # t => call'[u] = call[u]
  BY <1>1, <1>2, <1>3, CallChanges
<1>5. WorkerTypes'  BY <1>1, <1>2, <1>4 DEF WorkerTypes
<1>6. CallEnds'  BY <1>1, <1>3, <1>4 DEF CallEnds, Failures
<1>7. WorkerClaims'  BY <1>1, <1>2 DEF WorkerClaims
<1>8. WorkerCalls'  BY <1>1, <1>2 DEF WorkerCalls
<1>9. WorkerPipe'  BY <1>1, <1>2, <1>3, <1>4, ThreadsNamed DEF WorkerPipe
<1>10. QED  BY <1>5, <1>6, <1>7, <1>8, <1>9 DEF WorkerInv

LEMMA TakeKeeps == ASSUME NEW t \in Remote!CallThreads, WorkerInv, Remote!Take(t) PROVE WorkerInv'
<1>1. /\ call[t].at = "waiting" /\ answers # <<>> /\ answers' = Tail(answers) /\ answers \in Seq(AnswerRecord)
      /\ UNCHANGED <<registry, life, client, other, requests, nextId, record>>
  BY DEF Remote!Take, WorkerInv, WorkerTypes
<1>2. PICK how : how = Remote!Verdict(t, Head(answers))  OBVIOUS
<1>3. Head(answers) \in AnswerRecord /\ answers' \in Seq(AnswerRecord)  BY <1>1, HeadTailProperties
<1>4. how \in {"result", "raised"} \union Failures
  BY <1>2, <1>3 DEF Remote!Verdict, AnswerRecord, Failures
<1>5. ASSUME sandbox = "live" PROVE requests = <<>> /\ answers' = <<>>
  <2>1. lock = t /\ lock # None  BY <1>1, ThreadsNamed DEF WorkerInv, WorkerPipe
  <2>2. PICK kind : requests = <<>> /\ answers = <<[kind |-> kind, id |-> call[lock].id]>>
    BY <1>1, <1>5, <2>1 DEF WorkerInv, WorkerPipe
  <2>3. QED  BY <1>1, <2>2, JoinsEmpty
<1>6. Remote!Returned(t, how)  BY <1>2 DEF Remote!Take
<1>7. QED  BY <1>1, <1>3, <1>4, <1>5, <1>6, ReturnedKeeps

LEMMA TimeoutKeeps == ASSUME NEW t \in Remote!CallThreads, WorkerInv, Remote!Timeout(t) PROVE WorkerInv'
<1>1. /\ call[t].at = "waiting" /\ answers = <<>> /\ Remote!Returned(t, "timeout")
      /\ answers' = answers /\ answers \in Seq(AnswerRecord)
      /\ UNCHANGED <<registry, life, client, other, requests, nextId, record>>
  BY DEF Remote!Timeout, WorkerInv, WorkerTypes
<1>2. "timeout" \in {"result", "raised"} \union Failures /\ "timeout" \notin {"result", "raised"}
  BY DEF Failures
<1>3. QED  BY <1>1, <1>2, ReturnedKeeps

\* A call whose end its thread has seen is over.
LEMMA QuietKeeps ==
    ASSUME NEW t \in Remote!CallThreads, WorkerInv, call[t].at \in {"returned", "failed"},
           call' = [call EXCEPT ![t] = Remote!Quiet], UNCHANGED <<lock, requests, answers>>,
           sandbox' = sandbox \/ sandbox' = "dead"
    PROVE  /\ call' \in [Remote!CallThreads -> CallRecord] /\ CallEnds' /\ WorkerPipe'
<1>1. WorkerTypes /\ WorkerPipe /\ CallEnds  BY DEF WorkerInv
<1>2. Remote!Quiet \in CallRecord /\ Remote!Quiet.at = "idle"  BY DEF Remote!Quiet, CallRecord
<1>3. /\ call' \in [Remote!CallThreads -> CallRecord] /\ call'[t] = Remote!Quiet
      /\ \A u \in Remote!CallThreads : u # t => call'[u] = call[u]
  BY <1>1, <1>2, CallChanges
<1>4. CallEnds'  BY <1>1, <1>2, <1>3 DEF CallEnds
<1>5. lock # t  BY <1>1 DEF WorkerPipe
<1>6. lock \in Remote!CallThreads \union {None}  BY <1>1 DEF WorkerTypes
<1>7. WorkerPipe'  BY <1>1, <1>2, <1>3, <1>5, <1>6 DEF WorkerPipe
<1>8. QED  BY <1>3, <1>4, <1>7

LEMMA RecordedKeeps == ASSUME NEW t \in Remote!CallThreads, WorkerInv, Remote!Recorded(t) PROVE WorkerInv'
<1>1. /\ call[t].at \in {"returned", "failed"} /\ call' = [call EXCEPT ![t] = Remote!Quiet]
      /\ UNCHANGED <<registry, life, client, sandbox, other, lock, requests, answers, nextId>>
  BY DEF Remote!Recorded
<1>2. call' \in [Remote!CallThreads -> CallRecord] /\ CallEnds' /\ WorkerPipe'  BY <1>1, QuietKeeps
<1>3. record' \in {None, "started", "stopped"} \union Failures
  BY <1>1 DEF Remote!Recorded, Remote!WorkerState, WorkerInv, WorkerTypes, CallEnds
<1>4. WorkerTypes'  BY <1>1, <1>2, <1>3 DEF WorkerInv, WorkerTypes
<1>5. WorkerClaims' /\ WorkerCalls'  BY <1>1 DEF WorkerInv, WorkerClaims, WorkerCalls
<1>6. QED  BY <1>2, <1>4, <1>5 DEF WorkerInv

\* The worker answers the question that is in the pipe, or dies.
LEMMA ServeKeeps == WorkerInv /\ Remote!Serve => WorkerInv'
<1> SUFFICES ASSUME WorkerInv, Remote!Serve PROVE WorkerInv'  OBVIOUS
<1>1. /\ sandbox = "live" /\ requests # <<>> /\ requests' = Tail(requests)
      /\ UNCHANGED <<registry, life, client, sandbox, other, lock, call, nextId, record>>
      /\ requests \in Seq(Nat) /\ answers \in Seq(AnswerRecord)
  BY DEF Remote!Serve, WorkerInv, WorkerTypes
<1>2. lock # None  BY <1>1 DEF WorkerInv, WorkerPipe
<1>3. requests = <<call[lock].id>> /\ answers = <<>>  BY <1>1, <1>2 DEF WorkerInv, WorkerPipe
<1>4. PICK kind \in {"result", "raised", "error"} :
         answers' = Append(answers, [kind |-> kind, id |-> Head(requests)])
  BY DEF Remote!Serve
<1>5. Head(requests) \in Nat /\ requests' \in Seq(Nat)  BY <1>1, HeadTailProperties
<1>6. [kind |-> kind, id |-> Head(requests)] \in AnswerRecord  BY <1>4, <1>5 DEF AnswerRecord
<1>7. answers' \in Seq(AnswerRecord)  BY <1>1, <1>4, <1>6, AppendProperties
<1>8. requests' = <<>> /\ answers' = <<[kind |-> kind, id |-> call[lock].id]>>
  BY <1>1, <1>3, <1>4, JoinsEmpty
<1>9. WorkerTypes' /\ CallEnds'  BY <1>1, <1>5, <1>7 DEF WorkerInv, WorkerTypes, CallEnds
<1>10. WorkerClaims'  BY <1>1 DEF WorkerInv, WorkerClaims
<1>11. WorkerCalls'  BY <1>1, <1>2 DEF WorkerInv, WorkerCalls
<1>12. WorkerPipe'  BY <1>1, <1>2, <1>4, <1>8 DEF WorkerInv, WorkerPipe
<1>13. QED  BY <1>9, <1>10, <1>11, <1>12 DEF WorkerInv

LEMMA DieKeeps == WorkerInv /\ Remote!Die => WorkerInv'
<1> SUFFICES ASSUME WorkerInv, Remote!Die PROVE WorkerInv'  OBVIOUS
<1>1. /\ sandbox = "live" /\ sandbox' = "dead" /\ answers \in Seq(AnswerRecord)
      /\ answers' = Append(answers, [kind |-> "end", id |-> 0])
      /\ UNCHANGED <<registry, life, client, other, lock, call, requests, nextId, record>>
  BY DEF Remote!Die, WorkerInv, WorkerTypes
<1>2. answers' \in Seq(AnswerRecord)
  <2>1. [kind |-> "end", id |-> 0] \in AnswerRecord  BY DEF AnswerRecord
  <2>2. QED  BY <1>1, <2>1, AppendProperties
<1>3. WorkerTypes' /\ CallEnds'  BY <1>1, <1>2 DEF WorkerInv, WorkerTypes, CallEnds
<1>4. WorkerClaims'  BY <1>1 DEF WorkerInv, WorkerClaims
<1>5. WorkerCalls'  BY <1>1 DEF WorkerInv, WorkerCalls, WorkerClaims, LiveLives
<1>6. WorkerPipe'  BY <1>1 DEF WorkerInv, WorkerPipe
<1>7. QED  BY <1>3, <1>4, <1>5, <1>6 DEF WorkerInv

\* The main thread: the worker is ready, or it is closed.
LEMMA ReadyKeeps == WorkerInv /\ (Remote!Ready \/ Remote!InitFails) => WorkerInv'
<1> SUFFICES ASSUME WorkerInv, Remote!Ready \/ Remote!InitFails PROVE WorkerInv'  OBVIOUS
<1> DEFINE main == Remote!Main
<1>1. /\ life = "initializing" /\ life' \in {"ready", "closing"} /\ call[main].at \in {"returned", "failed"}
      /\ call' = [call EXCEPT ![main] = Remote!Quiet]
      /\ UNCHANGED <<registry, client, sandbox, other, lock, requests, answers, nextId>>
  BY DEF Remote!Ready, Remote!InitFails
<1>2. main \in Remote!CallThreads  BY ThreadsNamed
<1> HIDE DEF main
<1>3. call' \in [Remote!CallThreads -> CallRecord] /\ CallEnds' /\ WorkerPipe'
  BY <1>1, <1>2, QuietKeeps
<1>4. record' \in {None, "started", "stopped"} \union Failures
  <2>1. CASE Remote!Ready  BY <2>1 DEF Remote!Ready, WorkerInv, WorkerTypes
  <2>2. CASE Remote!InitFails
    <3>1. call[main].got \in Failures \/ call[main].got = "raised"
      BY <1>2, <2>2 DEF Remote!InitFails, WorkerInv, CallEnds, main
    <3>2. QED  BY <2>2, <3>1 DEF Remote!InitFails, Remote!WorkerState, Failures, main
  <2>3. QED  BY <2>1, <2>2
<1>5. WorkerTypes'  BY <1>1, <1>3, <1>4 DEF WorkerInv, WorkerTypes, LiveLives
<1>6. WorkerClaims'  BY <1>1 DEF WorkerInv, WorkerClaims, LiveLives
<1>7. WorkerCalls'  BY <1>1 DEF WorkerInv, WorkerCalls
<1>8. QED  BY <1>3, <1>5, <1>6, <1>7 DEF WorkerInv

LEMMA CloseKeeps == WorkerInv /\ Remote!Close => WorkerInv'
<1> SUFFICES ASSUME WorkerInv, Remote!Close PROVE WorkerInv'  OBVIOUS
<1>1. WorkerTypes' /\ CallEnds'
  BY DEF WorkerInv, WorkerTypes, CallEnds, Remote!Close, LiveLives
<1>2. WorkerClaims'
  BY ThreadsNamed DEF WorkerInv, WorkerClaims, Remote!Close, LiveLives
<1>3. WorkerCalls'  BY DEF WorkerInv, WorkerCalls, Remote!Close
<1>4. WorkerPipe'  BY DEF WorkerInv, WorkerPipe, Remote!Close
<1>5. QED  BY <1>1, <1>2, <1>3, <1>4 DEF WorkerInv

LEMMA FinishKeeps == WorkerInv /\ Remote!Finish => WorkerInv'
<1> SUFFICES ASSUME WorkerInv, Remote!Finish PROVE WorkerInv'  OBVIOUS
<1> DEFINE main == Remote!Main
<1>1. /\ life = "shutdown" /\ life' = "closed" /\ call[main].at \in {"returned", "failed"}
      /\ call' = [call EXCEPT ![main] = Remote!Quiet] /\ sandbox' = "dead"
      /\ UNCHANGED <<other, lock, requests, answers, nextId>>
  BY DEF Remote!Finish
<1>2. main \in Remote!CallThreads  BY ThreadsNamed
<1> HIDE DEF main
<1>3. call' \in [Remote!CallThreads -> CallRecord] /\ CallEnds' /\ WorkerPipe'
  BY <1>1, <1>2, QuietKeeps
<1>4. WorkerTypes'
  BY <1>1, <1>3 DEF WorkerInv, WorkerTypes, Remote!Finish, Remote!WorkerState
<1>5. WorkerClaims'
  <2>1. registry = "self"  BY <1>1 DEF WorkerInv, WorkerClaims, LiveLives
  <2>2. other # "live"  BY <2>1 DEF WorkerInv, WorkerClaims
  <2>3. QED  BY <1>1, <2>2 DEF WorkerClaims, LiveLives
<1>6. WorkerCalls'  BY <1>1 DEF WorkerCalls
<1>7. QED  BY <1>3, <1>4, <1>5, <1>6 DEF WorkerInv

LEMMA WorkerKept == WorkerInv /\ Remote!Next => WorkerInv'
BY RegisterKeeps, SpawnKeeps, OtherKeeps, CallKeeps, TakeKeeps, TimeoutKeeps, RecordedKeeps, ServeKeeps,
   DieKeeps, ReadyKeeps, CloseKeeps, FinishKeeps
DEF Remote!Next

LEMMA WorkerInit == Remote!Init => WorkerInv
<1> SUFFICES ASSUME Remote!Init PROVE WorkerInv  OBVIOUS
<1>1. call \in [Remote!CallThreads -> CallRecord] /\ \A t \in Remote!CallThreads : call[t].at = "idle"
  BY DEF Remote!Init, Remote!Quiet, CallRecord
<1>2. WorkerTypes
  <2>1. 1 \in 1..(MaxCalls + 2)  BY ServicesAssumption
  <2>2. <<>> \in Seq(Nat) /\ <<>> \in Seq(AnswerRecord)  BY EmptySeq
  <2>3. QED  BY <1>1, <2>1, <2>2 DEF Remote!Init, WorkerTypes
<1>3. CallEnds /\ WorkerClaims /\ WorkerCalls
  BY <1>1, ServicesAssumption DEF Remote!Init, CallEnds, WorkerClaims, WorkerCalls, LiveLives
<1>4. WorkerPipe  BY <1>1, ThreadsNamed DEF Remote!Init, WorkerPipe
<1>5. QED  BY <1>2, <1>3, <1>4 DEF WorkerInv

LEMMA WorkerImplies == WorkerInv => Remote!TypeOK /\ Remote!OneWorker /\ Remote!InStep
<1> SUFFICES ASSUME WorkerInv PROVE Remote!TypeOK /\ Remote!OneWorker /\ Remote!InStep  OBVIOUS
<1>1. \A i \in DOMAIN answers : answers[i].kind \in {"result", "raised", "error", "end"}
  <2>1. \A i \in DOMAIN answers : answers[i] \in AnswerRecord
    <3>1. answers \in Seq(AnswerRecord)  BY DEF WorkerInv, WorkerTypes
    <3>2. QED  BY <3>1
  <2>2. QED  BY <2>1 DEF AnswerRecord
<1>2. Remote!TypeOK
  BY <1>1 DEF WorkerInv, WorkerTypes, CallRecord, Failures, LiveLives, Remote!TypeOK
<1>3. Remote!OneWorker
  BY DEF WorkerInv, WorkerClaims, LiveLives, Remote!OneWorker
<1>4. Remote!InStep  BY DEF WorkerInv, WorkerPipe, Remote!InStep
<1>5. QED  BY <1>2, <1>3, <1>4

LEMMA WorkerStands == WorkerInv /\ UNCHANGED remote => WorkerInv'
BY DEF remote, WorkerInv, WorkerTypes, CallEnds, WorkerClaims, WorkerCalls, WorkerPipe
-----------------------------------------------------------------------------
(* The peer overlay: what a and b have of a message, wherever a is with it. *)
FlightStages == {"sent", "received", "refused", "recorded"}
Item == [id : Nat, seq : Nat]
Envelope == [id : Nat, seq : Int, ticket : Nat, sentAt : Nat]
Observation == [direction : {"sent", "received"}, seq : Int, peer : {"a", "b"}, message : Envelope]
DirectoryRecord == [kind : {"directory"}, seq : Nat, ticket : Nat]
LinkRecord(newest) ==
    [kind : {"frame"}, seq : 0..newest] \union [kind : {"directory"}, seq : 0..newest, ticket : Nat]
Flying == [at : FlightStages, status : {None, "duplicate", "accepted"}, message : Envelope]

OverlayTypes ==
    /\ authority \in [seq : Nat, ticket : Nat]
    /\ link \in [Overlay!Members -> Seq(LinkRecord(authority.seq))]
    /\ context \in [Overlay!Members -> -1..authority.seq]
    /\ directory # None => directory \in DirectoryRecord
    /\ saved # None => saved \in DirectoryRecord
    /\ actions \in Seq(Item) /\ fate \in Seq({"queued", "expired", "failed", "sent"})
    /\ outbox \in [offset : Nat, pending : Item \union {None}, attempts : 0..(MaxAttempts - 1)]
    /\ flight \in Flying \union {Overlay!Idle}
    /\ ticket \in Nat /\ sentAt \in Nat /\ evidence \in [Overlay!Members -> Seq(Observation)]

(* The outbox takes the queue in order, and what is on its way is built of  *)
(* the message it holds, for the context the message was written in.        *)
Outboxed ==
    /\ Len(fate) = Len(actions) /\ \A i \in 1..Len(actions) : actions[i].id = i
    /\ outbox.offset <= Len(actions) /\ (outbox.pending = None => flight = Overlay!Idle)
    /\ outbox.pending # None => outbox.offset < Len(actions) /\ outbox.pending = actions[outbox.offset + 1]
    /\ flight # Overlay!Idle =>
          flight.message.id = outbox.offset + 1 /\ flight.message.seq = actions[outbox.offset + 1].seq

(* b has one record of a message that it has received, a has none of another *)
(* envelope, and a goes on to the next message only when b has this one.    *)
Has(envelope) == \E i \in DOMAIN evidence["b"] : evidence["b"][i].message = envelope
KeptOnce ==
    \A i \in DOMAIN evidence["b"] :
        LET e == evidence["b"][i] IN
        /\ e.direction = "received" /\ e.peer = "a"
        /\ e.message.id \in 1..Len(actions) /\ e.message.seq = actions[e.message.id].seq
        /\ \A j \in DOMAIN evidence["b"] : evidence["b"][j].message.id = e.message.id => i = j
SaidOfKept ==
    \A i \in DOMAIN evidence["a"] :
        LET e == evidence["a"][i] IN e.direction = "sent" /\ e.peer = "b" /\ Has(e.message)
Received ==
    /\ flight # Overlay!Idle /\ flight.at \in {"received", "recorded"} => Has(flight.message)
    /\ \A id \in DOMAIN fate : fate[id] = "sent" =>
          \E i \in DOMAIN evidence["b"] : evidence["b"][i].message.id = id

OverlayInv == OverlayTypes /\ Outboxed /\ KeptOnce /\ SaidOfKept /\ Received

LEMMA OverlayBegins == Overlay!Init => OverlayInv
<1> SUFFICES ASSUME Overlay!Init PROVE OverlayInv  OBVIOUS
<1>1. Overlay!Directory \in LinkRecord(0)
  BY DEF Overlay!Init, Overlay!Directory, LinkRecord
<1>2. link \in [Overlay!Members -> Seq(LinkRecord(authority.seq))]
  BY <1>1 DEF Overlay!Init
<1>3. OverlayTypes
  BY <1>2, ServicesAssumption DEF Overlay!Init, OverlayTypes, Overlay!Members
<1>4. Outboxed /\ KeptOnce /\ SaidOfKept /\ Received
  BY DEF Overlay!Init, Outboxed, KeptOnce, SaidOfKept, Received, Overlay!Members
<1>5. QED  BY <1>3, <1>4 DEF OverlayInv

\* What every message proves of itself is left alone by all but two steps.
EvidenceStays == UNCHANGED <<evidence, actions, fate>>
LEMMA EvidenceFrame ==
    ASSUME OverlayInv, EvidenceStays, UNCHANGED flight \/ flight' = Overlay!Idle
    PROVE  KeptOnce' /\ SaidOfKept' /\ Received'
BY DEF OverlayInv, EvidenceStays, KeptOnce, SaidOfKept, Received, Has

\* A link only ever has records and directories that there are.
LEMMA LinksGrow ==
    ASSUME NEW m \in Nat, NEW n \in Nat, m <= n
    PROVE  Seq(LinkRecord(m)) \subseteq Seq(LinkRecord(n))
<1>1. LinkRecord(m) \subseteq LinkRecord(n)  BY DEF LinkRecord
<1>2. QED  BY <1>1

LEMMA PublishedTyped ==
    ASSUME OverlayTypes, NEW latest \in [seq : Nat, ticket : Nat], authority.seq <= latest.seq,
           NEW joined \in SUBSET Overlay!Members
    PROVE  Overlay!Published(latest, joined) \in [Overlay!Members -> Seq(LinkRecord(latest.seq))]
<1>1. ASSUME NEW m \in Overlay!Members
      PROVE  Overlay!Published(latest, joined)[m] \in Seq(LinkRecord(latest.seq))
  <2> DEFINE R == LinkRecord(latest.seq)
             frame == IF latest.seq > authority.seq THEN <<[kind |-> "frame", seq |-> latest.seq]>> ELSE <<>>
             directories == <<[kind |-> "directory", seq |-> latest.seq, ticket |-> latest.ticket]>>
  <2>1. link[m] \in Seq(R)  BY LinksGrow DEF OverlayTypes
  <2>2. frame \in Seq(R) /\ directories \in Seq(R) /\ <<>> \in Seq(R)
    <3>1. [kind |-> "frame", seq |-> latest.seq] \in R  BY DEF LinkRecord
    <3>2. [kind |-> "directory", seq |-> latest.seq, ticket |-> latest.ticket] \in R  BY DEF LinkRecord
    <3>3. QED  BY <3>1, <3>2
  <2> HIDE DEF R, frame, directories
  <2>3. (link[m] \o frame) \o directories \in Seq(R)  BY <2>1, <2>2
  <2>4. Overlay!Published(latest, joined)[m] = IF m \notin joined THEN <<>> ELSE (link[m] \o frame) \o directories
    BY DEF Overlay!Published, frame, directories
  <2>5. QED  BY <2>2, <2>3, <2>4 DEF R
<1>2. QED  BY <1>1 DEF Overlay!Published

LEMMA AdvanceKeeps == OverlayInv /\ Overlay!Advance => OverlayInv'
<1> SUFFICES ASSUME OverlayInv, Overlay!Advance PROVE OverlayInv'  OBVIOUS
<1> USE DEF OverlayInv
<1>0. authority \in [seq : Nat, ticket : Nat]  BY DEF OverlayTypes
<1>1. authority' \in [seq : Nat, ticket : Nat] /\ authority'.seq = authority.seq + 1
  <2>1. authority' = [authority EXCEPT !.seq = authority.seq + 1]  BY DEF Overlay!Advance
  <2>2. QED  BY <1>0, <2>1
<1>2. link' \in [Overlay!Members -> Seq(LinkRecord(authority'.seq))]
  <2>1. Overlay!Joined \in SUBSET Overlay!Members  BY DEF Overlay!Joined
  <2>2. authority.seq <= authority'.seq  BY <1>0, <1>1
  <2>3. Overlay!Published(authority', Overlay!Joined) \in [Overlay!Members -> Seq(LinkRecord(authority'.seq))]
    BY <1>1, <2>1, <2>2, PublishedTyped
  <2>4. QED  BY <2>3 DEF Overlay!Advance
<1>3. context' \in [Overlay!Members -> -1..authority'.seq]
  BY SMTT(30), <1>1 DEF OverlayInv, OverlayTypes, Overlay!Advance
<1>4. OverlayTypes'
  BY <1>1, <1>2, <1>3 DEF OverlayInv, OverlayTypes, Overlay!Advance
<1>5. Outboxed'  BY DEF OverlayInv, Outboxed, Overlay!Advance
<1>6. QED  BY <1>4, <1>5, EvidenceFrame DEF OverlayInv, EvidenceStays, Overlay!Advance

LEMMA RejoinKeeps ==
    ASSUME OverlayInv, NEW m \in Overlay!Members, Overlay!Rejoin(m)
    PROVE  OverlayInv'
<1>1. authority' \in [seq : Nat, ticket : Nat] /\ authority'.seq = authority.seq
  BY DEF OverlayInv, OverlayTypes, Overlay!Rejoin
<1>2. link' \in [Overlay!Members -> Seq(LinkRecord(authority'.seq))]
  <2>1. Overlay!Joined \union {m} \in SUBSET Overlay!Members  BY DEF Overlay!Joined
  <2>2. authority.seq <= authority'.seq  BY <1>1 DEF OverlayInv, OverlayTypes
  <2>3. Overlay!Published(authority', Overlay!Joined \union {m})
            \in [Overlay!Members -> Seq(LinkRecord(authority'.seq))]
    BY <1>1, <2>1, <2>2, PublishedTyped DEF OverlayInv
  <2>4. QED  BY <2>3 DEF Overlay!Rejoin
<1>3. context' \in [Overlay!Members -> -1..authority'.seq]
  BY SMTT(30), <1>1 DEF OverlayInv, OverlayTypes, Overlay!Rejoin
<1>4. OverlayTypes'
  BY <1>1, <1>2, <1>3 DEF OverlayInv, OverlayTypes, Overlay!Rejoin
<1>5. Outboxed'  BY DEF OverlayInv, Outboxed, Overlay!Rejoin
<1>6. QED  BY <1>4, <1>5, EvidenceFrame DEF OverlayInv, EvidenceStays, Overlay!Rejoin

\* What a Member reads of its link.
LEMMA LinkRead ==
    ASSUME OverlayTypes, NEW m \in Overlay!Members, link[m] # <<>>, link' = [link EXCEPT ![m] = Tail(@)]
    PROVE  /\ Head(link[m]) \in LinkRecord(authority.seq)
           /\ link' \in [Overlay!Members -> Seq(LinkRecord(authority.seq))]
<1>1. link[m] \in Seq(LinkRecord(authority.seq))  BY DEF OverlayTypes
<1>2. Head(link[m]) \in LinkRecord(authority.seq) /\ Tail(link[m]) \in Seq(LinkRecord(authority.seq))
  BY <1>1, HeadTailProperties
<1>3. QED  BY <1>2 DEF OverlayTypes

LEMMA AppliedKeeps ==
    ASSUME OverlayInv, NEW m \in Overlay!Members, Overlay!Applied(m)
    PROVE  OverlayInv'
<1>1. /\ Head(link[m]) \in LinkRecord(authority.seq)
      /\ link' \in [Overlay!Members -> Seq(LinkRecord(authority.seq))]
  BY LinkRead DEF OverlayInv, Overlay!Applied
<1>2. Head(link[m]).seq \in 0..authority.seq  BY <1>1 DEF LinkRecord
<1>3. context' \in [Overlay!Members -> -1..authority.seq]
  BY SMTT(30), <1>2 DEF OverlayInv, OverlayTypes, Overlay!Applied
<1>4. OverlayTypes'  BY <1>1, <1>3 DEF OverlayInv, OverlayTypes, Overlay!Applied
<1>5. Outboxed'  BY DEF OverlayInv, Outboxed, Overlay!Applied
<1>6. QED  BY <1>4, <1>5, EvidenceFrame DEF OverlayInv, EvidenceStays, Overlay!Applied

LEMMA InstalledKeeps ==
    ASSUME OverlayInv, NEW m \in Overlay!Members, Overlay!Installed(m)
    PROVE  OverlayInv'
<1>1. /\ Head(link[m]) \in LinkRecord(authority.seq)
      /\ link' \in [Overlay!Members -> Seq(LinkRecord(authority.seq))]
  BY LinkRead DEF OverlayInv, Overlay!Installed
<1>2. Head(link[m]) \in DirectoryRecord
  BY <1>1 DEF LinkRecord, DirectoryRecord, Overlay!Installed
<1>3. OverlayTypes'  BY <1>1, <1>2 DEF OverlayInv, OverlayTypes, Overlay!Installed
<1>4. Outboxed'  BY DEF OverlayInv, Outboxed, Overlay!Installed
<1>5. QED  BY <1>3, <1>4, EvidenceFrame DEF OverlayInv, EvidenceStays, Overlay!Installed

LEMMA RestartKeeps ==
    ASSUME OverlayInv, NEW m \in Overlay!Members, Overlay!Restart(m)
    PROVE  OverlayInv'
<1>1. link' \in [Overlay!Members -> Seq(LinkRecord(authority.seq))]
  BY DEF OverlayInv, OverlayTypes, Overlay!Restart
<1>2. context' \in [Overlay!Members -> -1..authority.seq]
  BY DEF OverlayInv, OverlayTypes, Overlay!Restart
<1>3. UNCHANGED flight \/ flight' = Overlay!Idle  BY DEF Overlay!Restart
<1>4. OverlayTypes'
  BY SMTT(30), <1>1, <1>2, <1>3 DEF OverlayInv, OverlayTypes, Overlay!Restart
<1>5. Outboxed'  BY <1>3 DEF OverlayInv, Outboxed, Overlay!Restart
<1>6. QED  BY <1>3, <1>4, <1>5, EvidenceFrame DEF OverlayInv, EvidenceStays, Overlay!Restart
-----------------------------------------------------------------------------
LEMMA QueueKeeps == OverlayInv /\ Overlay!Queue => OverlayInv'
<1> SUFFICES ASSUME OverlayInv, Overlay!Queue PROVE OverlayInv'  OBVIOUS
<1>1. PICK item \in Item : item = [id |-> Len(actions) + 1, seq |-> saved.seq] /\ actions' = Append(actions, item)
  <2>1. saved.seq \in Nat  BY DEF OverlayInv, OverlayTypes, Overlay!Queue, DirectoryRecord
  <2>2. Len(actions) + 1 \in Nat  BY DEF OverlayInv, OverlayTypes
  <2>3. [id |-> Len(actions) + 1, seq |-> saved.seq] \in Item  BY <2>1, <2>2 DEF Item
  <2>4. QED  BY <2>3 DEF Overlay!Queue
<1>2. /\ actions' \in Seq(Item) /\ Len(actions') = Len(actions) + 1
      /\ \A i \in 1..Len(actions) : actions'[i] = actions[i]
      /\ actions'[Len(actions) + 1] = item
  BY <1>1 DEF OverlayInv, OverlayTypes
<1>3. /\ fate' \in Seq({"queued", "expired", "failed", "sent"}) /\ Len(fate') = Len(fate) + 1
      /\ \A i \in 1..Len(fate) : fate'[i] = fate[i]
      /\ fate'[Len(fate) + 1] = "queued"
  BY DEF OverlayInv, OverlayTypes, Overlay!Queue
<1>4. OverlayTypes'  BY <1>2, <1>3 DEF OverlayInv, OverlayTypes, Overlay!Queue
<1>5. Len(actions) \in Nat /\ Len(fate) \in Nat /\ outbox.offset \in Nat
  BY DEF OverlayInv, OverlayTypes
<1>6. Outboxed'
  <2>1. Len(fate') = Len(actions') /\ \A i \in 1..Len(actions') : actions'[i].id = i
    BY <1>1, <1>2, <1>3, <1>5 DEF OverlayInv, Outboxed
  <2>2. UNCHANGED <<outbox, flight>>  BY DEF Overlay!Queue
  <2>3. outbox.pending = None => flight = Overlay!Idle  BY DEF OverlayInv, Outboxed
  <2>4. outbox.pending # None => actions'[outbox.offset + 1] = actions[outbox.offset + 1] /\ outbox.offset < Len(actions)
    BY <1>2, <1>5 DEF OverlayInv, Outboxed
  <2>5. QED  BY <1>2, <1>5, <2>1, <2>2, <2>3, <2>4 DEF OverlayInv, Outboxed
<1>7. KeptOnce'
  BY SMTT(30), <1>2, <1>5 DEF OverlayInv, KeptOnce, Overlay!Queue
<1>8. SaidOfKept'  BY DEF OverlayInv, SaidOfKept, Has, Overlay!Queue
<1>9. Received'
  <2>1. DOMAIN fate = 1..Len(fate) /\ DOMAIN fate' = 1..(Len(fate) + 1)
    BY <1>3, <1>5 DEF OverlayInv, OverlayTypes
  <2>2. UNCHANGED <<evidence, flight>>  BY DEF Overlay!Queue
  <2>3. QED  BY <1>3, <1>5, <2>1, <2>2 DEF OverlayInv, Received, Has
<1>10. QED  BY <1>4, <1>6, <1>7, <1>8, <1>9 DEF OverlayInv

LEMMA PrepareKeeps == OverlayInv /\ Overlay!Prepare => OverlayInv'
<1> SUFFICES ASSUME OverlayInv, Overlay!Prepare PROVE OverlayInv'  OBVIOUS
<1>1. actions[outbox.offset + 1] \in Item /\ 0 \in 0..(MaxAttempts - 1)
  <2>1. actions \in Seq(Item) /\ outbox.offset \in Nat /\ outbox.offset < Len(actions)
    BY DEF OverlayInv, OverlayTypes, Overlay!Prepare
  <2>2. QED  BY <2>1, ServicesAssumption
<1>2. /\ outbox' \in [offset : Nat, pending : Item \union {None}, attempts : 0..(MaxAttempts - 1)]
      /\ outbox'.offset = outbox.offset /\ outbox'.pending = actions[outbox.offset + 1]
  BY <1>1 DEF OverlayInv, OverlayTypes, Overlay!Prepare
<1>3. OverlayTypes'  BY <1>2 DEF OverlayInv, OverlayTypes, Overlay!Prepare
<1>4. Outboxed'  BY <1>2 DEF OverlayInv, Outboxed, Overlay!Prepare
<1>5. QED  BY <1>3, <1>4, EvidenceFrame DEF OverlayInv, EvidenceStays, Overlay!Prepare

\* However the outbox ends a message, it goes on to the next.
LEMMA FinishedKeeps ==
    ASSUME OverlayInv, NEW how \in {"expired", "failed", "sent"}, outbox.pending # None, Overlay!Finished(how),
           UNCHANGED <<authority, link, context, directory, saved, actions, ticket, sentAt, evidence>>,
           flight' = Overlay!Idle,
           how = "sent" => flight # Overlay!Idle /\ flight.at = "recorded"
    PROVE  OverlayInv'
<1>1. /\ outbox.offset \in Nat /\ outbox.offset < Len(actions) /\ Len(actions) \in Nat
      /\ outbox.pending = actions[outbox.offset + 1] /\ Len(fate) = Len(actions)
      /\ outbox.pending.id = outbox.offset + 1
  BY DEF OverlayInv, OverlayTypes, Outboxed
<1>2. /\ outbox' \in [offset : Nat, pending : Item \union {None}, attempts : 0..(MaxAttempts - 1)]
      /\ outbox'.offset = outbox.offset + 1 /\ outbox'.pending = None
  BY <1>1, ServicesAssumption DEF Overlay!Finished
<1>3. /\ fate' \in Seq({"queued", "expired", "failed", "sent"}) /\ Len(fate') = Len(fate)
      /\ \A id \in DOMAIN fate' : id \in DOMAIN fate /\ (fate'[id] = fate[id] \/ (id = outbox.offset + 1 /\ fate'[id] = how))
  <2>1. fate' = [fate EXCEPT ![outbox.offset + 1] = how]  BY <1>1 DEF Overlay!Finished
  <2>2. fate \in Seq({"queued", "expired", "failed", "sent"})  BY DEF OverlayInv, OverlayTypes
  <2>3. outbox.offset + 1 \in 1..Len(fate) /\ how \in {"queued", "expired", "failed", "sent"}  BY <1>1
  <2>4. QED  BY <2>1, <2>2, <2>3
<1>4. OverlayTypes'  BY <1>2, <1>3 DEF OverlayInv, OverlayTypes
<1>5. Outboxed'  BY <1>1, <1>2, <1>3 DEF OverlayInv, Outboxed
<1>6. KeptOnce' /\ SaidOfKept'  BY DEF OverlayInv, KeptOnce, SaidOfKept, Has
<1>7. Received'
  <2>1. ASSUME NEW id \in DOMAIN fate', fate'[id] = "sent"
        PROVE  \E i \in DOMAIN evidence["b"] : evidence["b"][i].message.id = id
    <3>1. CASE fate'[id] = fate[id]  BY <1>3, <2>1, <3>1 DEF OverlayInv, Received
    <3>2. CASE id = outbox.offset + 1 /\ how = "sent"
      BY <3>2 DEF OverlayInv, Outboxed, Received, Has
    <3>3. QED  BY <1>3, <2>1, <3>1, <3>2
  <2>2. QED  BY <2>1 DEF Received
<1>8. QED  BY <1>4, <1>5, <1>6, <1>7 DEF OverlayInv

LEMMA ExpireKeeps == OverlayInv /\ Overlay!Expire => OverlayInv'
BY FinishedKeeps DEF Overlay!Expire

LEMMA FlightTyped == OverlayInv /\ flight.at # "idle" => flight # Overlay!Idle /\ flight \in Flying /\ outbox.pending # None
BY DEF OverlayInv, OverlayTypes, Outboxed, Overlay!Idle

LEMMA SentKeeps == OverlayInv /\ Overlay!Sent => OverlayInv'
BY FinishedKeeps, FlightTyped DEF Overlay!Sent

LEMMA FailKeeps == OverlayInv /\ Overlay!Fail => OverlayInv'
<1> SUFFICES ASSUME OverlayInv, Overlay!Fail PROVE OverlayInv'  OBVIOUS
<1>1. outbox.pending # None  BY FlightTyped DEF Overlay!Fail
<1>2. CASE outbox.attempts + 1 >= MaxAttempts
  BY <1>1, <1>2, FinishedKeeps DEF Overlay!Fail
<1>3. CASE ~(outbox.attempts + 1 >= MaxAttempts)
  <2>3. outbox \in [offset : Nat, pending : Item \union {None}, attempts : 0..(MaxAttempts - 1)]
    BY DEF OverlayInv, OverlayTypes
  <2>4. outbox.attempts + 1 \in 0..(MaxAttempts - 1)
    <3>1. MaxAttempts \in Nat /\ outbox.attempts \in 0..(MaxAttempts - 1)  BY <2>3, ServicesAssumption
    <3>2. QED  BY <1>3, <3>1
  <2>5. outbox' = [outbox EXCEPT !.attempts = @ + 1]  BY <1>3 DEF Overlay!Fail
  <2>1. /\ outbox' \in [offset : Nat, pending : Item \union {None}, attempts : 0..(MaxAttempts - 1)]
        /\ outbox'.offset = outbox.offset /\ outbox'.pending = outbox.pending
    BY <2>3, <2>4, <2>5
  <2>2. OverlayTypes'  BY <1>3, <2>1 DEF OverlayInv, OverlayTypes, Overlay!Fail
  <2>6. Outboxed'  BY <1>3, <2>1 DEF OverlayInv, Outboxed, Overlay!Fail
  <2>7. QED  BY <1>3, <2>2, <2>6, EvidenceFrame DEF OverlayInv, EvidenceStays, Overlay!Fail
<1>4. QED  BY <1>2, <1>3

LEMMA SendKeeps == OverlayInv /\ Overlay!Send => OverlayInv'
<1> SUFFICES ASSUME OverlayInv, Overlay!Send PROVE OverlayInv'  OBVIOUS
<1>1. /\ outbox.pending \in Item /\ outbox.pending = actions[outbox.offset + 1] /\ outbox.offset < Len(actions)
      /\ outbox.offset \in Nat /\ outbox.pending.id = outbox.offset + 1
  BY DEF OverlayInv, OverlayTypes, Outboxed, Overlay!Send
<1>2. Overlay!Message \in Envelope
  <2>1. directory.ticket \in Nat /\ context["a"] \in Int /\ sentAt \in Nat /\ outbox.pending.id \in Nat
    <3>1. directory \in DirectoryRecord /\ sentAt \in Nat  BY DEF OverlayInv, OverlayTypes, Overlay!Send
    <3>2. context["a"] \in Int /\ authority.seq \in Nat  BY DEF OverlayInv, OverlayTypes, Overlay!Members
    <3>3. QED  BY <1>1, <3>1, <3>2 DEF DirectoryRecord, Item
  <2>2. QED  BY <2>1 DEF Overlay!Message, Envelope
<1>3. /\ flight' \in Flying /\ flight'.message = Overlay!Message /\ flight'.at = "sent"
      /\ flight' # Overlay!Idle
  BY <1>2 DEF Overlay!Send, Flying, FlightStages, Overlay!Idle
<1>4. OverlayTypes'  BY <1>3 DEF OverlayInv, OverlayTypes, Overlay!Send
<1>5. Outboxed'
  BY <1>1, <1>3 DEF OverlayInv, Outboxed, Overlay!Send, Overlay!Message, Overlay!Current
<1>6. KeptOnce' /\ SaidOfKept'  BY DEF OverlayInv, KeptOnce, SaidOfKept, Has, Overlay!Send
<1>7. Received'  BY <1>3 DEF OverlayInv, Received, Has, Overlay!Send
<1>8. QED  BY <1>4, <1>5, <1>6, <1>7 DEF OverlayInv
-----------------------------------------------------------------------------
\* A record that a Member adds to its evidence.
LEMMA AppendedTyped ==
    ASSUME OverlayInv, flight \in Flying, NEW m \in Overlay!Members, NEW whom \in {"a", "b"},
           NEW way \in {"sent", "received"},
           evidence' = Overlay!Appended(m, way, whom)
    PROVE  /\ evidence' \in [Overlay!Members -> Seq(Observation)]
           /\ \A n \in Overlay!Members \ {m} : evidence'[n] = evidence[n]
           /\ Len(evidence[m]) \in Nat /\ DOMAIN evidence[m] = 1..Len(evidence[m])
           /\ DOMAIN evidence'[m] = 1..(Len(evidence[m]) + 1)
           /\ \A i \in DOMAIN evidence[m] : evidence'[m][i] = evidence[m][i]
           /\ evidence'[m][Len(evidence[m]) + 1] =
                 [direction |-> way, seq |-> context[m], peer |-> whom, message |-> flight.message]
<1> DEFINE e == [direction |-> way, seq |-> context[m], peer |-> whom, message |-> flight.message]
<1>1. e \in Observation
  BY DEF OverlayInv, OverlayTypes, Observation, Flying
<1>2. evidence[m] \in Seq(Observation)  BY DEF OverlayInv, OverlayTypes
<1>3. evidence' = [evidence EXCEPT ![m] = Append(@, e)]  BY DEF Overlay!Appended
<1> HIDE DEF e
<1>4. evidence'[m] = Append(evidence[m], e) /\ \A n \in Overlay!Members \ {m} : evidence'[n] = evidence[n]
  BY <1>3 DEF OverlayInv, OverlayTypes
<1>5. evidence' \in [Overlay!Members -> Seq(Observation)]
  BY <1>1, <1>2, <1>3 DEF OverlayInv, OverlayTypes
<1>6. /\ Len(evidence[m]) \in Nat /\ DOMAIN evidence[m] = 1..Len(evidence[m])
      /\ Len(Append(evidence[m], e)) = Len(evidence[m]) + 1
      /\ DOMAIN Append(evidence[m], e) = 1..(Len(evidence[m]) + 1)
      /\ \A i \in 1..Len(evidence[m]) : Append(evidence[m], e)[i] = evidence[m][i]
      /\ Append(evidence[m], e)[Len(evidence[m]) + 1] = e
  BY <1>1, <1>2
<1>7. QED  BY <1>4, <1>5, <1>6 DEF e

LEMMA HandleKeeps == OverlayInv /\ Overlay!Handle => OverlayInv'
<1> SUFFICES ASSUME OverlayInv, Overlay!Handle PROVE OverlayInv'  OBVIOUS
<1>1. flight \in Flying /\ flight # Overlay!Idle /\ flight.message \in Envelope
  BY FlightTyped DEF Overlay!Handle, Flying
<1>2. /\ flight' \in Flying /\ flight' # Overlay!Idle /\ flight'.message = flight.message
      /\ flight'.at = "refused" \/ (flight'.at = "received" /\ Overlay!Acceptable(flight.message))
  <2>1. PICK at \in {"refused", "received"}, status \in {None, "duplicate", "accepted"} :
            /\ flight' = [at |-> at, status |-> status, message |-> flight.message]
            /\ at = "received" => Overlay!Acceptable(flight.message)
    <3>1. flight.status \in {None, "duplicate", "accepted"} /\ flight = [at |-> flight.at, status |-> flight.status, message |-> flight.message]
      BY <1>1 DEF Flying
    <3>2. CASE Overlay!Acceptable(flight.message)
      BY <3>1, <3>2 DEF Overlay!Handle
    <3>3. CASE ~Overlay!Acceptable(flight.message)
      BY <3>1, <3>3 DEF Overlay!Handle
    <3>4. QED  BY <3>2, <3>3
  <2>2. flight' \in Flying /\ flight'.message = flight.message /\ flight'.at = at
    BY <1>1, <2>1 DEF Flying, FlightStages
  <2>3. flight' # Overlay!Idle  BY <2>2 DEF Overlay!Idle
  <2>4. QED  BY <2>1, <2>2, <2>3
<1>3. \/ UNCHANGED evidence /\ flight'.at = "refused"
      \/ UNCHANGED evidence /\ Has(flight.message)
      \/ /\ evidence' = Overlay!Appended("b", "received", "a")
         /\ \A i \in DOMAIN evidence["b"] : evidence["b"][i].message.id # flight.message.id
  BY <1>1 DEF Overlay!Handle, Overlay!Received, Overlay!Acceptable, Has, Flying, FlightStages
<1>4. CASE UNCHANGED evidence /\ (flight'.at = "refused" \/ Has(flight.message))
  <2>1. OverlayTypes'  BY <1>2, <1>4 DEF OverlayInv, OverlayTypes, Overlay!Handle
  <2>2. Outboxed'  BY <1>1, <1>2, FlightTyped DEF OverlayInv, Outboxed, Overlay!Handle
  <2>3. KeptOnce' /\ SaidOfKept' /\ Received'
    BY <1>2, <1>4 DEF OverlayInv, KeptOnce, SaidOfKept, Received, Has, Overlay!Handle
  <2>4. QED  BY <2>1, <2>2, <2>3 DEF OverlayInv
<1>5. CASE /\ evidence' = Overlay!Appended("b", "received", "a")
           /\ \A i \in DOMAIN evidence["b"] : evidence["b"][i].message.id # flight.message.id
  <2>1. /\ evidence' \in [Overlay!Members -> Seq(Observation)]
        /\ evidence'["a"] = evidence["a"]
        /\ Len(evidence["b"]) \in Nat /\ DOMAIN evidence["b"] = 1..Len(evidence["b"])
        /\ DOMAIN evidence'["b"] = 1..(Len(evidence["b"]) + 1)
        /\ \A i \in DOMAIN evidence["b"] : evidence'["b"][i] = evidence["b"][i]
        /\ evidence'["b"][Len(evidence["b"]) + 1] =
              [direction |-> "received", seq |-> context["b"], peer |-> "a", message |-> flight.message]
    BY <1>1, <1>5, AppendedTyped DEF Overlay!Members
  <2>2. OverlayTypes'  BY <1>2, <2>1 DEF OverlayInv, OverlayTypes, Overlay!Handle
  <2>3. Outboxed'  BY <1>1, <1>2, FlightTyped DEF OverlayInv, Outboxed, Overlay!Handle
  <2>4. /\ flight.message.id \in 1..Len(actions)
        /\ flight.message.seq = actions[flight.message.id].seq
    BY SMTT(30), <1>1, FlightTyped DEF OverlayInv, OverlayTypes, Outboxed, Overlay!Handle
  <2>5. KeptOnce'
    <3>1. UNCHANGED actions  BY DEF Overlay!Handle
    <3>2. PICK n \in Nat : n = Len(evidence["b"])  BY <2>1
    <3>3. ASSUME NEW i \in 1..n
          PROVE  /\ evidence'["b"][i] = evidence["b"][i]
                 /\ evidence["b"][i].direction = "received" /\ evidence["b"][i].peer = "a"
                 /\ evidence["b"][i].message.id \in 1..Len(actions)
                 /\ evidence["b"][i].message.seq = actions[evidence["b"][i].message.id].seq
                 /\ evidence["b"][i].message.id # flight.message.id
                 /\ \A j \in 1..n : evidence["b"][j].message.id = evidence["b"][i].message.id => i = j
      BY <1>5, <2>1, <3>2 DEF OverlayInv, KeptOnce
    <3>4. /\ evidence'["b"][n + 1].direction = "received" /\ evidence'["b"][n + 1].peer = "a"
          /\ evidence'["b"][n + 1].message = flight.message
      BY <2>1, <3>2
    <3>5. \A i \in DOMAIN evidence'["b"] : i \in 1..n \/ i = n + 1  BY <2>1, <3>2
    <3>6. QED  
      <4>1. ASSUME NEW i \in DOMAIN evidence'["b"], NEW j \in DOMAIN evidence'["b"],
                   evidence'["b"][j].message.id = evidence'["b"][i].message.id
            PROVE  i = j
        <5>1. CASE i \in 1..n /\ j \in 1..n  BY <3>3, <4>1, <5>1
        <5>2. CASE i = n + 1 /\ j \in 1..n
          <6>1. evidence["b"][j].message.id # flight.message.id /\ evidence'["b"][j] = evidence["b"][j]  BY <3>3, <5>2
          <6>2. QED  BY <3>4, <4>1, <5>2, <6>1
        <5>3. CASE i \in 1..n /\ j = n + 1
          <6>1. evidence["b"][i].message.id # flight.message.id /\ evidence'["b"][i] = evidence["b"][i]  BY <3>3, <5>3
          <6>2. QED  BY <3>4, <4>1, <5>3, <6>1
        <5>4. QED  BY <3>5, <5>1, <5>2, <5>3
      <4>2. ASSUME NEW i \in DOMAIN evidence'["b"]
            PROVE  /\ evidence'["b"][i].direction = "received" /\ evidence'["b"][i].peer = "a"
                   /\ evidence'["b"][i].message.id \in 1..Len(actions')
                   /\ evidence'["b"][i].message.seq = actions'[evidence'["b"][i].message.id].seq
        BY SMTT(30), <2>4, <3>1, <3>3, <3>4, <3>5
      <4>3. QED  BY <4>1, <4>2 DEF KeptOnce
  <2>6. \A envelope : Has(envelope) => Has(envelope)'  BY <2>1 DEF Has
  <2>7. Has(flight.message)'
    <3>1. Len(evidence["b"]) + 1 \in DOMAIN evidence'["b"]  BY <2>1
    <3>2. evidence'["b"][Len(evidence["b"]) + 1].message = flight'.message  BY <1>2, <2>1
    <3>3. QED  BY <3>1, <3>2 DEF Has
  <2>8. SaidOfKept'  BY <2>1, <2>6 DEF OverlayInv, SaidOfKept
  <2>9. Received'
    <3>1. UNCHANGED fate  BY DEF Overlay!Handle
    <3>2. QED  BY <1>2, <2>1, <2>7, <3>1 DEF OverlayInv, Received
  <2>10. QED  BY <2>2, <2>3, <2>5, <2>8, <2>9 DEF OverlayInv
<1>6. QED  BY <1>3, <1>4, <1>5

LEMMA RecordKeeps == OverlayInv /\ Overlay!Record => OverlayInv'
<1> SUFFICES ASSUME OverlayInv, Overlay!Record PROVE OverlayInv'  OBVIOUS
<1>1. flight \in Flying /\ flight # Overlay!Idle /\ flight.at = "received"
  BY FlightTyped DEF Overlay!Record, Overlay!Receipt
<1>2. flight' \in Flying /\ flight' # Overlay!Idle /\ flight'.message = flight.message
  BY <1>1 DEF Overlay!Record, Flying, FlightStages, Overlay!Idle
<1>3. Has(flight.message)  BY <1>1 DEF OverlayInv, Received
<1>4. /\ evidence' \in [Overlay!Members -> Seq(Observation)]
      /\ evidence'["b"] = evidence["b"]
      /\ Len(evidence["a"]) \in Nat /\ DOMAIN evidence["a"] = 1..Len(evidence["a"])
      /\ DOMAIN evidence'["a"] = 1..(Len(evidence["a"]) + 1)
      /\ \A i \in DOMAIN evidence["a"] : evidence'["a"][i] = evidence["a"][i]
      /\ evidence'["a"][Len(evidence["a"]) + 1] =
            [direction |-> "sent", seq |-> context["a"], peer |-> "b", message |-> flight.message]
  BY <1>1, AppendedTyped DEF Overlay!Record, Overlay!Members
<1>5. OverlayTypes'  BY <1>2, <1>4 DEF OverlayInv, OverlayTypes, Overlay!Record
<1>6. Outboxed'  BY <1>1, <1>2, FlightTyped DEF OverlayInv, Outboxed, Overlay!Record
<1>7. KeptOnce'  BY <1>4 DEF OverlayInv, KeptOnce, Overlay!Record
<1>8. \A envelope : Has(envelope) => Has(envelope)'  BY <1>4 DEF Has
<1>9. SaidOfKept'  BY <1>3, <1>4, <1>8 DEF OverlayInv, SaidOfKept
<1>10. Received'  BY SMTT(30), <1>2, <1>3, <1>4 DEF OverlayInv, Received, Has, Overlay!Record
<1>11. QED  BY <1>5, <1>6, <1>7, <1>9, <1>10 DEF OverlayInv
-----------------------------------------------------------------------------
LEMMA OverlayStep == OverlayInv /\ [Overlay!Next]_overlay => OverlayInv'
<1> SUFFICES ASSUME OverlayInv, [Overlay!Next]_overlay PROVE OverlayInv'  OBVIOUS
<1>1. CASE UNCHANGED overlay
  BY <1>1 DEF overlay, OverlayInv, OverlayTypes, Outboxed, KeptOnce, SaidOfKept, Received, Has
<1>2. CASE Overlay!Next
  BY <1>2, AdvanceKeeps, RejoinKeeps, AppliedKeeps, InstalledKeeps, RestartKeeps, QueueKeeps, PrepareKeeps,
     ExpireKeeps, SentKeeps, FailKeeps, SendKeeps, HandleKeeps, RecordKeeps DEF Overlay!Next
<1>3. QED  BY <1>1, <1>2

LEMMA CardinalityIs == \A S : Overlay!Cardinality(S) = Cardinality(S)
BY DEF Overlay!Cardinality, Cardinality

\* What the evidence of both says of a message.
LEMMA ObservedIs ==
    ASSUME NEW id, NEW o
    PROVE  o \in Overlay!Observed(id) <=>
              \E m \in {"a", "b"} : \E i \in DOMAIN evidence[m] :
                  evidence[m][i].message.id = id /\ o = [by |-> m, record |-> evidence[m][i]]
BY DEF Overlay!Observed, Overlay!Members

LEMMA OverlayImplies == OverlayInv => Overlay!TypeOK /\ Overlay!BundlesReconcile /\ Overlay!DeliveredInContext
<1> SUFFICES ASSUME OverlayInv PROVE Overlay!TypeOK /\ Overlay!BundlesReconcile /\ Overlay!DeliveredInContext
  OBVIOUS
<1>1. Overlay!TypeOK
  BY DEF OverlayInv, OverlayTypes, Outboxed, Overlay!TypeOK, Flying, FlightStages, Overlay!Idle
<1>2. \A i \in DOMAIN evidence["a"] : \E j \in DOMAIN evidence["b"] : evidence["b"][j].message = evidence["a"][i].message
  BY DEF OverlayInv, SaidOfKept, Has
<1>3. ASSUME NEW id \in 1..Len(actions)
      PROVE  /\ ~Overlay!Conflict(id)
             /\ \A o \in Overlay!Observed(id) : o.record.direction = "sent" =>
                   \E r \in Overlay!Observed(id) :
                       r.record.direction = "received" /\ r.record.message = o.record.message
  <2>1. ASSUME NEW o \in Overlay!Observed(id)
        PROVE  \E j \in DOMAIN evidence["b"] :
                   /\ evidence["b"][j].message.id = id /\ o.record.message = evidence["b"][j].message
                   /\ [by |-> "b", record |-> evidence["b"][j]] \in Overlay!Observed(id)
    BY <1>2, <2>1, ObservedIs
  <2>2. ASSUME NEW o \in Overlay!Observed(id), o.record.direction = "sent"
        PROVE  o.by = "a" /\ o.record.peer = "b"
    BY <2>2, ObservedIs DEF OverlayInv, KeptOnce, SaidOfKept
  <2>3. ASSUME NEW j \in DOMAIN evidence["b"]
        PROVE  evidence["b"][j].direction = "received" /\ evidence["b"][j].peer = "a"
    BY DEF OverlayInv, KeptOnce
  <2>4. ~(Cardinality({o.record.message : o \in Overlay!Observed(id)}) > 1)
    <3>1. CASE Overlay!Observed(id) = {}
      BY <3>1, FS_EmptySet
    <3>2. CASE Overlay!Observed(id) # {}
      <4>1. PICK o \in Overlay!Observed(id) : TRUE  BY <3>2
      <4>2. ASSUME NEW p \in Overlay!Observed(id) PROVE p.record.message = o.record.message
        <5>1. PICK i \in DOMAIN evidence["b"] :
                  evidence["b"][i].message.id = id /\ o.record.message = evidence["b"][i].message
          BY <2>1, <4>1
        <5>2. PICK j \in DOMAIN evidence["b"] :
                  evidence["b"][j].message.id = id /\ p.record.message = evidence["b"][j].message
          BY <2>1, <4>2
        <5>3. i = j  BY <5>1, <5>2 DEF OverlayInv, KeptOnce
        <5>4. QED  BY <5>1, <5>2, <5>3
      <4>3. {p.record.message : p \in Overlay!Observed(id)} = {o.record.message}  BY <4>2
      <4>4. Cardinality({p.record.message : p \in Overlay!Observed(id)}) = 1  BY <4>3, FS_Singleton
      <4>5. QED  BY <4>4
    <3>3. QED  BY <3>1, <3>2
  <2>5. {"sent", "received"} \subseteq {o.record.direction : o \in Overlay!Observed(id)} =>
            Overlay!Matches(Overlay!Observed(id))
    <3>1. SUFFICES ASSUME NEW s \in Overlay!Observed(id), s.record.direction = "sent"
                   PROVE  Overlay!Matches(Overlay!Observed(id))
      OBVIOUS
    <3>2. PICK j \in DOMAIN evidence["b"] : [by |-> "b", record |-> evidence["b"][j]] \in Overlay!Observed(id)
      BY <2>1
    <3>3. QED  BY <2>2, <2>3, <3>1, <3>2 DEF Overlay!Matches
  <2>6. ASSUME NEW o \in Overlay!Observed(id)
        PROVE  \E r \in Overlay!Observed(id) :
                   r.record.direction = "received" /\ r.record.message = o.record.message
    <3>1. PICK j \in DOMAIN evidence["b"] :
              /\ o.record.message = evidence["b"][j].message
              /\ [by |-> "b", record |-> evidence["b"][j]] \in Overlay!Observed(id)
      BY <2>1
    <3>2. QED  BY <2>3, <3>1
  <2>7. QED  BY <2>4, <2>5, <2>6, CardinalityIs DEF Overlay!Conflict
<1>4. Overlay!BundlesReconcile  BY <1>3 DEF Overlay!BundlesReconcile
<1>5. ASSUME NEW i \in DOMAIN evidence["b"]
      PROVE  /\ evidence["b"][i].message.seq = actions[evidence["b"][i].message.id].seq
             /\ Cardinality(Overlay!Received(evidence["b"][i].message.id)) = 1
  <2>1. Overlay!Received(evidence["b"][i].message.id) = {i}
    BY DEF OverlayInv, KeptOnce, Overlay!Received
  <2>2. QED  BY <2>1, FS_Singleton DEF OverlayInv, KeptOnce
<1>6. \A id \in DOMAIN fate : fate[id] = "sent" => Overlay!Received(id) # {}
  BY DEF OverlayInv, Received, Overlay!Received
<1>7. Overlay!DeliveredInContext  BY <1>5, <1>6, CardinalityIs DEF Overlay!DeliveredInContext
<1>8. QED  BY <1>1, <1>4, <1>7
-----------------------------------------------------------------------------
(* The services together: the invariant of the one a behaviour runs.        *)
ServicesInv ==
    /\ part = "pairing" => PairInv
    /\ part = "remote" => WorkerInv
    /\ part = "overlay" => OverlayInv
    /\ part = "runtime" => RuntimeInv
    /\ part = "coach" => CoachInv

LEMMA ServicesInit == MCInit => ServicesInv
BY PairInit, WorkerInit, OverlayBegins, RuntimeBegins, CoachBegins DEF MCInit, ServicesInv

LEMMA ServicesKept ==
    ServicesInv /\ [MCNext]_<<part, runtime, overlay, remote, coaching, pairs>> => ServicesInv'
<1> SUFFICES ASSUME ServicesInv, [MCNext]_<<part, runtime, overlay, remote, coaching, pairs>> PROVE ServicesInv'
  OBVIOUS
<1>1. part' = part  BY DEF MCNext
<1>2. part = "pairing" => Pairs!Next \/ UNCHANGED pairs  BY DEF MCNext
<1>3. part = "remote" => Remote!Next \/ UNCHANGED remote  BY DEF MCNext
<1>4. part = "pairing" => PairInv'  BY <1>2, PairKept, PairStands DEF ServicesInv
<1>5. part = "remote" => WorkerInv'  BY <1>3, WorkerKept, WorkerStands DEF ServicesInv
<1>6. part = "overlay" => [Overlay!Next]_overlay  BY DEF MCNext
<1>7. part = "overlay" => OverlayInv'  BY <1>6, OverlayStep DEF ServicesInv
<1>8. part = "runtime" => [Next]_runtime  BY DEF MCNext
<1>9. part = "runtime" => RuntimeInv'  BY <1>8, RuntimeStep DEF ServicesInv
<1>10. part = "coach" => [Coaching!Next]_coaching  BY DEF MCNext
<1>11. part = "coach" => CoachInv'  BY <1>10, CoachStep DEF ServicesInv
<1>12. QED  BY <1>1, <1>4, <1>5, <1>7, <1>9, <1>11 DEF ServicesInv

\* A Host that plays has a session that the Guest, too, has signed; both know
\* whose hooks the Guest runs; and the platform has the session closed, failed
\* or its outcome only from a side of which that is true (PairingHolds,
\* host.py, join.py, protocol_bundle_p2p.py).
THEOREM PairingSound == MCSpec => []PairingHolds
<1>1. ServicesInv => PairingHolds  BY PairImplies DEF ServicesInv, PairingHolds
<1>2. QED  BY <1>1, ServicesInit, ServicesKept, PTL DEF MCSpec

\* A session has one live worker of hooks at most, and between two calls of it
\* nothing is on its way: no thread takes the answer to another's question
\* (WorkerInStep, remote_hooks.py, remote_hooks_worker.py).
THEOREM WorkerSound == MCSpec => []WorkerInStep
<1>1. ServicesInv => WorkerInStep  BY WorkerImplies DEF ServicesInv, WorkerInStep
<1>2. QED  BY <1>1, ServicesInit, ServicesKept, PTL DEF MCSpec

\* Of one message the evidence of two Members never conflicts: a Member has
\* one copy of it, and who sent it one that says the same.  It is kept once,
\* with the context it was queued in, and what the outbox ends as sent has been
\* received (PeersReconcile, group_peer.py).
THEOREM PeersSound == MCSpec => []PeersReconcile
<1>1. ServicesInv => PeersReconcile  BY OverlayImplies DEF ServicesInv, PeersReconcile
<1>2. QED  BY <1>1, ServicesInit, ServicesKept, PTL DEF MCSpec

\* A request has one answer and no more, whatever is cancelled, repeated, shut
\* down or lost with the process; and threads run pending requests only, no two
\* the same one, for any client and any size of the table (server.py).
THEOREM AnswersSound == MCSpec => [](part = "runtime" => TypeOK /\ AnsweredOnce)
<1>1. ServicesInv => (part = "runtime" => TypeOK /\ AnsweredOnce)  BY RuntimeImplies DEF ServicesInv
<1>2. QED  BY <1>1, ServicesInit, ServicesKept, PTL DEF MCSpec

\* To a client that waits for an answer before it repeats the request, and with
\* a table that has room for its keys, a repeat gets the result of the first
\* answer: the session is not moved on again (RequestsAnswered, server.py).
THEOREM RequestsSound ==
    ASSUME ~Impatient, MaxSent <= CacheLimit
    PROVE  MCSpec => []RequestsAnswered
<1>1. ServicesInv => RequestsAnswered  BY RuntimeImplies DEF ServicesInv, RequestsAnswered, Patient
<1>2. QED  BY <1>1, ServicesInit, ServicesKept, PTL DEF MCSpec

\* What the coach's inbox says is to do is on its way to be done, in the queue,
\* with the worker or with the thread that sends it, whatever is reset, stopped
\* or lost with the process; and a turn that is marked done is not run again
\* (TurnsAreKept, coach.py, proto/sdk.py).
THEOREM TurnsSound == MCSpec => []TurnsAreKept
<1>1. ServicesInv => TurnsAreKept  BY CoachImplies DEF ServicesInv, TurnsAreKept
<1>2. QED  BY <1>1, ServicesInit, ServicesKept, PTL DEF MCSpec
=============================================================================
