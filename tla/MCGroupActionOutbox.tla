------------------------ MODULE MCGroupActionOutbox ------------------------
(* The way of a Member's actions to the authority, and the hub that serves   *)
(* the channels they come on.  A behaviour runs one of them (part); each is  *)
(* checked under its own fairness.                                           *)
EXTENDS GroupActionOutbox

CONSTANTS MaxConns, MaxSeq, MaxInputs

VARIABLES part,
    conns, ch, channel, held, read, upward, gone, sent, shut, events, reg, receiver, task, acked, pend,
    lock, accept, run, seq, known

Hub == INSTANCE GroupLeaderHub WITH mode <- channel, up <- upward, wire <- sent, queue <- events
hub == <<conns, ch, channel, held, read, upward, gone, sent, shut, events, reg, receiver, task, acked, pend,
         lock, accept, run, seq, known>>

MCInit ==
    /\ part \in {"outbox", "hub"} /\ Init /\ Hub!Init
    /\ part = "hub" \/ known
MCNext ==
    /\ UNCHANGED part
    /\ \/ part = "outbox" /\ Next /\ UNCHANGED hub
       \/ part = "hub" /\ Hub!Next /\ UNCHANGED vars
MCSpec == MCInit /\ [][MCNext]_<<part, vars, hub>>

\* The fairness of each part.
InHub(action) == part = "hub" /\ action
InOutbox(action) == part = "outbox" /\ action
MCFairSpec ==
    /\ MCSpec
    /\ WF_vars(InOutbox(Send)) /\ WF_vars(InOutbox(ReceiveReceipt)) /\ WF_vars(InOutbox(ReceiveFinal))
    /\ WF_vars(InOutbox(Finish)) /\ WF_vars(InOutbox(Reconnect)) /\ WF_vars(InOutbox(FindClosed))
    /\ WF_vars(InOutbox(Enqueue))
    /\ WF_vars(InOutbox((\E fin \in BOOLEAN : Apply(fin)) \/ AnswerDuplicate \/ Refuse))
    /\ WF_hub(InHub(Hub!Accept)) /\ WF_hub(InHub(Hub!Run))
    /\ \A c \in Hub!Chans : WF_hub(InHub(Hub!Receive(c))) /\ WF_hub(InHub(Hub!ReceiverEnds(c)))
    /\ WF_hub(InHub(Hub!Read)) /\ WF_hub(InHub(Hub!SeeClosed))

(* Attachments come to an end, and a Member that waits gets an answer.       *)
HubProgress == Hub!AttachCompletes /\ Hub!AwaitEnds
=============================================================================
