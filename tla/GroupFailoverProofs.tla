-------------------------- MODULE GroupFailoverProofs --------------------------
(***************************************************************************)
(* Theorems about GroupFailover for every number of Members and every      *)
(* bound: type correctness, one Leader per epoch, the recovery floor never *)
(* rolls back, epoch fencing.                                              *)
(***************************************************************************)
EXTENDS GroupFailover, Sequences, SequencesExt, SequenceTheorems, TLAPS

\* A prefix is shorter and agrees entry by entry.
LEMMA PrefixByEntries ==
    ASSUME NEW S, NEW s \in Seq(S), NEW t \in Seq(S)
    PROVE  IsPrefix(s, t) <=> /\ Len(s) <= Len(t)
                              /\ \A i \in 1..Len(s) : s[i] = t[i]
<1>1. Len(s) \in Nat /\ Len(t) \in Nat  BY LenProperties
<1>2. SubSeq(s, 1, Len(s)) = s  BY SubSeqFull
<1>3. ASSUME Len(s) <= Len(t)
      PROVE  /\ SubSeq(t, 1, Len(s)) \in Seq(S)
             /\ Len(SubSeq(t, 1, Len(s))) = Len(s)
             /\ \A i \in 1..Len(s) : SubSeq(t, 1, Len(s))[i] = t[i]
  <2>1. \A i \in 1..Len(s) : t[i] \in S  BY <1>1, <1>3, ElementOfSeq
  <2>2. QED  BY <1>1, <2>1, SubSeqProperties
<1>4. ASSUME Len(s) <= Len(t), \A i \in 1..Len(s) : s[i] = t[i]
      PROVE  SubSeq(t, 1, Len(s)) = s
  BY <1>1, <1>3, <1>4, SeqEqual
<1>5. QED  BY <1>2, <1>3, <1>4 DEF IsPrefix

\* A log is a prefix of itself.
LEMMA PrefixReflexive ==
    ASSUME NEW S, NEW s \in Seq(S)
    PROVE  IsPrefix(s, s)
BY PrefixByEntries, LenProperties

\* The empty log, of a node without a checkpoint, is a prefix of every log.
LEMMA PrefixOfEmpty ==
    ASSUME NEW S, NEW s \in Seq(S)
    PROVE  IsPrefix(<<>>, s)
<1> DEFINE e == <<>>
<1>1. e \in Seq(S) /\ Len(e) = 0  BY EmptySeq
<1>2. Len(s) \in Nat  BY LenProperties
<1> HIDE DEF e
<1>3. Len(e) <= Len(s) /\ \A i \in 1..Len(e) : e[i] = s[i]  BY <1>1, <1>2
<1>4. IsPrefix(e, s)  BY <1>1, <1>3, PrefixByEntries
<1>5. QED  BY <1>4 DEF e

\* Continuing a continuation of a log continues the log.
LEMMA PrefixTransitive ==
    ASSUME NEW S, NEW r \in Seq(S), NEW s \in Seq(S), NEW t \in Seq(S),
           IsPrefix(r, s), IsPrefix(s, t)
    PROVE  IsPrefix(r, t)
<1>1. Len(r) \in Nat /\ Len(s) \in Nat /\ Len(t) \in Nat  BY LenProperties
<1>2. Len(r) <= Len(s) /\ \A i \in 1..Len(r) : r[i] = s[i]  BY PrefixByEntries
<1>3. Len(s) <= Len(t) /\ \A i \in 1..Len(s) : s[i] = t[i]  BY PrefixByEntries
<1>4. Len(r) <= Len(t) /\ \A i \in 1..Len(r) : r[i] = t[i]  BY <1>1, <1>2, <1>3
<1>5. QED  BY <1>4, PrefixByEntries

\* A log only gains a record at its end.
LEMMA PrefixOfAppend ==
    ASSUME NEW S, NEW s \in Seq(S), NEW t \in Seq(S), NEW e \in S, IsPrefix(s, t)
    PROVE  IsPrefix(s, Append(t, e))
<1>1. Len(s) \in Nat /\ Len(t) \in Nat  BY LenProperties
<1>2. /\ Append(t, e) \in Seq(S)
      /\ Len(Append(t, e)) = Len(t) + 1
      /\ \A i \in 1..Len(t) : Append(t, e)[i] = t[i]
  BY AppendProperties
<1>3. Len(s) <= Len(t) /\ \A i \in 1..Len(s) : s[i] = t[i]  BY PrefixByEntries
<1>4. /\ Len(s) <= Len(Append(t, e))
      /\ \A i \in 1..Len(s) : s[i] = Append(t, e)[i]
  BY <1>1, <1>2, <1>3
<1>5. QED  BY <1>2, <1>4, PrefixByEntries

\* Two prefixes of one log are ordered by their lengths.
LEMMA PrefixesOrderedByLength ==
    ASSUME NEW S, NEW r \in Seq(S), NEW s \in Seq(S), NEW t \in Seq(S),
           IsPrefix(r, t), IsPrefix(s, t), Len(r) <= Len(s)
    PROVE  IsPrefix(r, s)
<1>1. Len(r) \in Nat /\ Len(s) \in Nat /\ Len(t) \in Nat  BY LenProperties
<1>2. \A i \in 1..Len(r) : r[i] = t[i]  BY PrefixByEntries
<1>3. \A i \in 1..Len(s) : s[i] = t[i]  BY PrefixByEntries
<1>4. \A i \in 1..Len(r) : r[i] = s[i]  BY <1>1, <1>2, <1>3
<1>5. QED  BY <1>4, PrefixByEntries

\* What a heartbeat advertises: the first n records of a log.
LEMMA TruncationIsPrefix ==
    ASSUME NEW S, NEW t \in Seq(S), NEW n \in Nat, n <= Len(t)
    PROVE  /\ SubSeq(t, 1, n) \in Seq(S)
           /\ Len(SubSeq(t, 1, n)) = n
           /\ IsPrefix(SubSeq(t, 1, n), t)
<1>1. Len(t) \in Nat  BY LenProperties
<1>2. \A i \in 1..n : t[i] \in S  BY <1>1, ElementOfSeq
<1>3. /\ SubSeq(t, 1, n) \in Seq(S)
      /\ Len(SubSeq(t, 1, n)) = n
      /\ \A i \in 1..n : SubSeq(t, 1, n)[i] = t[i]
  BY <1>1, <1>2, SubSeqProperties
<1>4. QED  BY <1>1, <1>3, PrefixByEntries

\* A leading process signs with the epoch of its last record, which is its own;
\* a node with a record of its own leads or is gone; a claimant has a checkpoint.
Ownership ==
    /\ \A n \in Nodes : pc[n] \in Leading => Reigned(n)
    /\ \A n \in Nodes : Reigned(n) => /\ pc[n] \in Leading \union {"stopped"}
                                      /\ CertEpoch(log[n]) = repEpoch[n]
    /\ \A n \in Nodes : pc[n] = "claim" => Certified(log[n])
    /\ \A n \in Nodes : ~Reigned(n) => renewal[n] = {}

\* Checkpoint epoch <= replica epoch <= control-plane epoch, and a node of the
\* current epoch's authority is the Leader the control plane names.
EpochOrder ==
    /\ \A n \in Nodes : repEpoch[n] <= server.epoch
    /\ \A n \in Nodes : Certified(log[n]) => CertEpoch(log[n]) <= repEpoch[n]
    /\ \A n \in Nodes :
          Reigned(n) /\ CertEpoch(log[n]) = server.epoch => server.leader = n

\* In the logs L, node n holds a record of its own.
Owns(L, n) == Certified(L[n]) /\ Last(L[n]).leader = n

\* In the logs L, l was cut from the log of the node that signed its last record.
Sourced(L, l) ==
    /\ Certified(l)
    /\ Owns(L, Last(l).leader)
    /\ CertEpoch(L[Last(l).leader]) = CertEpoch(l)
    /\ IsPrefix(l, L[Last(l).leader])

\* Every checkpoint, and every envelope on a channel, was cut from the log of
\* its signer.
Provenance ==
    /\ \A m \in Nodes : Certified(log[m]) => Sourced(log, log[m])
    /\ \A m \in Nodes : \A i \in DOMAIN chan[m] : Sourced(log, chan[m][i].log)

\* What is advertised is part of the log and not below the floor.
Advertising ==
    /\ \A n \in Nodes : repl[n] <= Len(log[n])
    /\ \A n \in Nodes : \A r \in renewal[n] : r <= repl[n]
    /\ \A n \in Nodes :
          Reigned(n) /\ CertEpoch(log[n]) = server.epoch
            => /\ Len(server.floor) <= repl[n]
               /\ \A r \in renewal[n] : Len(server.floor) <= r

IInv ==
    /\ TypeOK
    /\ Ownership
    /\ EpochOrder
    /\ OneLeaderPerEpoch
    /\ Provenance
    /\ Advertising
    /\ FloorInLeader

-----------------------------------------------------------------------------
(* Types                                                                     *)

\* The last record of a log that is not empty.
LEMMA LastInSet ==
    ASSUME NEW S, NEW s \in Seq(S), s # <<>>
    PROVE  Len(s) \in Nat \ {0} /\ Last(s) \in S
<1>1. Len(s) \in Nat /\ Len(s) # 0  BY EmptySeq, LenProperties
<1>2. s[Len(s)] \in S  BY <1>1, ElementOfSeq
<1>3. QED  BY <1>1, <1>2 DEF Last

\* The started room is well typed.
LEMMA InitType == Init => TypeOK
<1> SUFFICES ASSUME Init PROVE TypeOK  OBVIOUS
<1> USE HostAssumption, NoNodeAssumption, BoundsAssumption
<1>1. [epoch |-> 0, leader |-> Host, fin |-> FALSE] \in Entry  BY DEF Entry, Epochs
<1>2. Snapshot \in Seq(Entry)  BY <1>1 DEF Snapshot
<1>3. <<>> \in Seq(Entry)  OBVIOUS
<1>4. <<[log |-> Snapshot, full |-> TRUE]>> \in Seq(Envelope)  BY <1>2 DEF Envelope
<1>5. <<>> \in Seq(Envelope)  OBVIOUS
<1>6. QED  BY <1>2, <1>3, <1>4, <1>5 DEF Init, TypeOK, PCs, Leading, Epochs

\* A channel that is gone leaves empty queues behind.
LEMMA DropLinkType ==
    ASSUME TypeOK, NEW m \in Nodes, DropLink(m)
    PROVE  /\ link' \in [Nodes -> Nodes \union {NoNode}]
           /\ chan' \in [Nodes -> Seq(Envelope)]
           /\ fresh' \in [Nodes -> BOOLEAN]
           /\ greet' \in [Nodes -> BOOLEAN]
           /\ acks' \in [Nodes -> SUBSET Seq(Entry)]
<1>1. <<>> \in Seq(Envelope)  OBVIOUS
<1>2. {} \in SUBSET Seq(Entry)  OBVIOUS
<1>3. QED  BY <1>1, <1>2 DEF TypeOK, DropLink

\* Spending a fault stays within the bound.
LEMMA FaultType == TypeOK /\ Fault => faults' \in 0..MaxFaults
BY BoundsAssumption DEF TypeOK, Fault

\* A lease that is granted or runs out leaves the rest of the record.
LEMMA LeaseType ==
    ASSUME TypeOK, NEW b \in BOOLEAN, server' = [server EXCEPT !.lease = b]
    PROVE  server' \in [epoch : Epochs, leader : Nodes, lease : BOOLEAN,
                        floor : Seq(Entry), status : {"active", "closed"}]
BY DEF TypeOK

\* The record the control plane writes when it grants a claim.
LEMMA GrantedType ==
    ASSUME TypeOK, NEW m \in Nodes, server.epoch < MaxEpoch
    PROVE  Granted(m) \in [epoch : Epochs, leader : Nodes, lease : BOOLEAN,
                           floor : Seq(Entry), status : {"active", "closed"}]
<1>1. server.epoch + 1 \in Epochs /\ log[m] \in Seq(Entry)
  BY BoundsAssumption DEF TypeOK, Epochs
<1>2. QED  BY <1>1 DEF Granted, TypeOK

\* Every action keeps the types; a heartbeat needs Advertising, for the
\* checkpoint it carries lies within the log it is cut from.
LEMMA TypeStep == IInv /\ [Next]_vars => TypeOK'
<1> SUFFICES ASSUME IInv, [Next]_vars PROVE TypeOK'  OBVIOUS
<1> USE HostAssumption, NoNodeAssumption, BoundsAssumption
<1>t. TypeOK  BY DEF IInv
<1> USE DEF PCs, Leading, Epochs, room, member, leader
<1>1. ASSUME NEW l \in Nodes, NEW fin \in BOOLEAN, NEW full \in BOOLEAN,
             AcceptInput(l, fin, full)
      PROVE  TypeOK'
  <2> DEFINE e   == [epoch |-> repEpoch[l], leader |-> l, fin |-> fin]
             new == Append(log[l], e)
             env == [log |-> new, full |-> full]
  <2>1. e \in Entry  BY <1>t DEF Entry, TypeOK
  <2>2. new \in Seq(Entry)  BY <1>t, <2>1, AppendProperties DEF TypeOK
  <2>3. env \in Envelope  BY <2>2 DEF Envelope
  <2>4. \A m \in Nodes : Append(chan[m], env) \in Seq(Envelope)
    BY <1>t, <2>3, AppendProperties DEF TypeOK
  <2>5. log' = [log EXCEPT ![l] = new]  BY <1>1 DEF AcceptInput
  <2>6. chan' = [m \in Nodes |-> IF link[m] = l /\ ~greet[m] THEN Append(chan[m], env)
                                 ELSE chan[m]]
    BY <1>1 DEF AcceptInput
  <2> HIDE DEF e, new, env
  <2>7. chan' \in [Nodes -> Seq(Envelope)]  BY <1>t, <2>4, <2>6 DEF TypeOK
  <2>8. log' \in [Nodes -> Seq(Entry)]  BY <1>t, <2>2, <2>5 DEF TypeOK
  <2>9. QED  BY <1>t, <1>1, <2>7, <2>8 DEF AcceptInput, TypeOK
<1>2. ASSUME NEW l \in Nodes, NEW m \in Nodes, Bootstrap(l, m)
      PROVE  TypeOK'
  <2> DEFINE env == [log |-> log[l], full |-> TRUE]
  <2>1. env \in Envelope  BY <1>t DEF Envelope, TypeOK
  <2>2. Append(chan[m], env) \in Seq(Envelope)
    BY <1>t, <2>1, AppendProperties DEF TypeOK
  <2>3. chan' = [chan EXCEPT ![m] = Append(chan[m], env)]  BY <1>t, <1>2 DEF Bootstrap, TypeOK
  <2> HIDE DEF env
  <2>4. chan' \in [Nodes -> Seq(Envelope)]  BY <1>t, <2>2, <2>3 DEF TypeOK
  <2>5. QED  BY <1>t, <1>2, <2>4 DEF Bootstrap, TypeOK
<1>3. ASSUME NEW l \in Nodes, NEW m \in Nodes, HandleAck(l, m)
      PROVE  TypeOK'
  <2>1. \A a \in acks[m] : Len(a) \in Nat  BY <1>t, LenProperties DEF TypeOK
  <2>2. PICK a \in acks[m] : repl' = [repl EXCEPT ![l] = IF Len(a) > @ THEN Len(a) ELSE @]
    BY <1>3 DEF HandleAck
  <2>3. (IF Len(a) > repl[l] THEN Len(a) ELSE repl[l]) \in Nat  BY <1>t, <2>1 DEF TypeOK
  <2>4. repl' \in [Nodes -> Nat]  BY <1>t, <2>2, <2>3 DEF TypeOK
  <2>5. acks' \in [Nodes -> SUBSET Seq(Entry)]  BY <1>t, <1>3 DEF HandleAck, TypeOK
  <2>6. QED  BY <1>t, <1>3, <2>4, <2>5 DEF HandleAck, TypeOK
<1>4. ASSUME NEW l \in Nodes, RenewSend(l)
      PROVE  TypeOK'
  <2>1. {repl[l]} \in SUBSET Nat  BY <1>t DEF TypeOK
  <2>2. renewal' \in [Nodes -> SUBSET Nat]
    BY <1>t, <1>4, <2>1 DEF RenewSend, Advertised, TypeOK
  <2>3. QED  BY <1>t, <1>4, <2>2 DEF RenewSend, TypeOK
<1>5. ASSUME NEW l \in Nodes, RenewArrive(l)
      PROVE  TypeOK'
  <2>1. PICK n \in renewal[l] :
          server' = IF ServerAccepts(l)
                    THEN [server EXCEPT !.lease = TRUE, !.floor = SubSeq(log[l], 1, n)]
                    ELSE server
    BY <1>5 DEF RenewArrive
  <2>2. n \in Nat /\ n <= Len(log[l]) /\ log[l] \in Seq(Entry)
    <3>1. n \in Nat /\ repl[l] \in Nat /\ log[l] \in Seq(Entry)  BY <1>t DEF TypeOK
    <3>2. n <= repl[l] /\ repl[l] <= Len(log[l])  BY DEF IInv, Advertising
    <3>3. QED  BY <3>1, <3>2, LenProperties
  <2>3. SubSeq(log[l], 1, n) \in Seq(Entry)  BY <2>2, TruncationIsPrefix
  <2>4. QED  BY <1>t, <1>5, <2>1, <2>3 DEF RenewArrive, TypeOK
<1>6. ASSUME NEW l \in Nodes, LeaseLost(l)
      PROVE  TypeOK'
  <2>1. faults' \in 0..MaxFaults  BY <1>t, <1>6, FaultType DEF LeaseLost, TypeOK
  <2>2. QED  BY <1>t, <1>6, <2>1 DEF LeaseLost, TypeOK
<1>7. ASSUME NEW l \in Nodes, CloseRoom(l)
      PROVE  TypeOK'
  <2>1. faults' \in 0..MaxFaults  BY <1>t, <1>7, FaultType DEF CloseRoom, TypeOK
  <2>2. server' \in [epoch : Epochs, leader : Nodes, lease : BOOLEAN,
                     floor : Seq(Entry), status : {"active", "closed"}]
    BY <1>t, <1>7 DEF CloseRoom, TypeOK
  <2>3. QED  BY <1>t, <1>7, <2>1, <2>2 DEF CloseRoom, TypeOK
<1>8. ASSUME NEW m \in Nodes, ReceiveApply(m)
      PROVE  TypeOK'
  <2>1. Head(chan[m]) \in Envelope /\ Tail(chan[m]) \in Seq(Envelope)
    BY <1>t, <1>8, HeadTailProperties DEF ReceiveApply, TypeOK
  <2>2. Head(chan[m]).log \in Seq(Entry)  BY <2>1 DEF Envelope
  <2>3. log' \in [Nodes -> Seq(Entry)]  BY <1>t, <1>8, <2>2 DEF ReceiveApply, TypeOK
  <2>4. CASE DropLink(m) /\ faults' \in 0..MaxFaults /\ \E x \in PCs : pc' = [pc EXCEPT ![m] = x]
    BY <1>t, <1>8, <2>3, <2>4, DropLinkType DEF ReceiveApply, TypeOK
  <2>5. CASE /\ acks' = [acks EXCEPT ![m] = {Head(chan[m]).log}]
             /\ chan' = [chan EXCEPT ![m] = Tail(@)]
             /\ fresh' = [fresh EXCEPT ![m] = FALSE]
             /\ UNCHANGED <<pc, link, greet, faults>>
    <3>1. acks' \in [Nodes -> SUBSET Seq(Entry)]  BY <1>t, <2>2, <2>5 DEF TypeOK
    <3>2. chan' \in [Nodes -> Seq(Envelope)]  BY <1>t, <2>1, <2>5 DEF TypeOK
    <3>3. QED  BY <1>t, <1>8, <2>3, <2>5, <3>1, <3>2 DEF ReceiveApply, TypeOK
  <2>6. QED  BY <1>t, <1>8, <2>4, <2>5, FaultType DEF ReceiveApply, TypeOK
<1>9. ASSUME NEW m \in Nodes, ReceiveHeld(m)
      PROVE  TypeOK'
  <2>1. Head(chan[m]) \in Envelope /\ Tail(chan[m]) \in Seq(Envelope)
    BY <1>t, <1>9, HeadTailProperties DEF ReceiveHeld, TypeOK
  <2>2. Head(chan[m]).log \in Seq(Entry)  BY <2>1 DEF Envelope
  <2>3. CASE DropLink(m) /\ pc' = [pc EXCEPT ![m] = "stopped"]
    BY <1>t, <1>9, <2>3, DropLinkType DEF ReceiveHeld, TypeOK
  <2>4. CASE /\ acks' = [acks EXCEPT ![m] = IF fresh[m] THEN {Head(chan[m]).log} ELSE @]
             /\ chan' = [chan EXCEPT ![m] = Tail(@)]
             /\ fresh' = [fresh EXCEPT ![m] = FALSE]
             /\ UNCHANGED <<pc, link, greet>>
    <3>1. acks' \in [Nodes -> SUBSET Seq(Entry)]  BY <1>t, <2>2, <2>4 DEF TypeOK
    <3>2. chan' \in [Nodes -> Seq(Envelope)]  BY <1>t, <2>1, <2>4 DEF TypeOK
    <3>3. QED  BY <1>t, <1>9, <2>4, <3>1, <3>2 DEF ReceiveHeld, TypeOK
  <2>5. QED  BY <1>9, <2>3, <2>4 DEF ReceiveHeld
<1>10. ASSUME NEW m \in Nodes, ReceiveReject(m)
       PROVE  TypeOK'
  BY <1>t, <1>10, DropLinkType DEF ReceiveReject, TypeOK
<1>11. ASSUME NEW m \in Nodes, Disconnect(m)
       PROVE  TypeOK'
  <2>1. faults' \in 0..MaxFaults  BY <1>t, <1>11, FaultType DEF Disconnect, TypeOK
  <2>2. QED  BY <1>t, <1>11, <2>1, DropLinkType DEF Disconnect, TypeOK
<1>12. ASSUME NEW m \in Nodes, Query(m)
       PROVE  TypeOK'
  BY <1>t, <1>12, ZenonT(60) DEF Query, TypeOK
<1>13. ASSUME NEW m \in Nodes, Claim(m)
       PROVE  TypeOK'
  <2>0. server.epoch \in Epochs /\ server.epoch < MaxEpoch
    BY <1>t, <1>13 DEF Claim, TypeOK
  <2>00. server.epoch + 1 \in Epochs  BY <2>0, BoundsAssumption DEF Epochs
  <2>1. EpochStart(m) \in Entry /\ server.epoch + 1 \in Epochs
    BY <2>00 DEF EpochStart, Entry
  <2>2. log[m] \in Seq(Entry)  BY <1>t DEF TypeOK
  <2>3. Append(log[m], EpochStart(m)) \in Seq(Entry)  BY <2>1, <2>2, AppendProperties
  <2>4. Len(log[m]) \in Nat  BY <2>2, LenProperties
  <2>5. log' \in [Nodes -> Seq(Entry)]  BY <1>t, <1>13, <2>3 DEF Claim, TypeOK
  <2>6. repl' \in [Nodes -> Nat]
    BY <1>t, <1>13, <2>4 DEF Claim, InitialAdvertised, TypeOK
  <2>7. QED  BY <1>t, <1>13, <2>1, <2>2, <2>5, <2>6, GrantedType DEF Claim, TypeOK
<1>14. ASSUME NEW m \in Nodes, ClaimRefused(m)
       PROVE  TypeOK'
  BY <1>t, <1>14 DEF ClaimRefused, TypeOK
<1>15. ASSUME NEW m \in Nodes, ClaimReplyLost(m)
       PROVE  TypeOK'
  <2>1. faults' \in 0..MaxFaults  BY <1>t, <1>15, FaultType DEF ClaimReplyLost
  <2>2. PICK next \in {"query", "stopped"} : pc' = [pc EXCEPT ![m] = next]
    BY <1>15 DEF ClaimReplyLost
  <2>3. pc' \in [Nodes -> PCs]  BY <1>t, <2>2 DEF TypeOK
  <2>4. server' \in [epoch : Epochs, leader : Nodes, lease : BOOLEAN,
                     floor : Seq(Entry), status : {"active", "closed"}]
    BY <1>t, <1>15, GrantedType DEF ClaimReplyLost
  <2>5. QED  BY <1>t, <1>15, <2>1, <2>3, <2>4 DEF ClaimReplyLost, TypeOK
<1>16. ASSUME NEW m \in Nodes, Connect(m)
       PROVE  TypeOK'
  <2>1. seen[m].epoch \in Epochs  BY <1>t DEF TypeOK
  <2>2. repEpoch' \in [Nodes -> Epochs]  BY <1>t, <1>16, <2>1 DEF Connect, TypeOK
  <2>3. link' \in [Nodes -> Nodes \union {NoNode}]  BY <1>t, <1>16 DEF Connect, TypeOK
  <2>4. QED  BY <1>t, <1>16, <2>2, <2>3 DEF Connect, TypeOK
<1>17. ASSUME NEW m \in Nodes, ConnectFails(m)
       PROVE  TypeOK'
  BY <1>t, <1>17 DEF ConnectFails, TypeOK
<1>18. ASSUME NEW n \in Nodes, Crash(n)
       PROVE  TypeOK'
  BY <1>t, <1>18, FaultType, DropLinkType DEF Crash, TypeOK
<1>19. CASE LeaseExpire  BY <1>t, <1>19, LeaseType DEF LeaseExpire, TypeOK
<1>20. CASE LeaseStall  BY <1>t, <1>20, FaultType, LeaseType DEF LeaseStall, TypeOK
<1>21. CASE UNCHANGED vars  BY <1>t, <1>21 DEF vars, TypeOK
<1>22. QED
  BY <1>1, <1>2, <1>3, <1>4, <1>5, <1>6, <1>7, <1>8, <1>9, <1>10, <1>11, <1>12, <1>13,
     <1>14, <1>15, <1>16, <1>17, <1>18, <1>19, <1>20, <1>21
  DEF Next, LeaderStep, MemberStep

-----------------------------------------------------------------------------
(* What a step leaves alone                                                  *)

\* The three steps that change a log.
LEMMA LogFrame ==
    ASSUME [Next]_vars
    PROVE  \/ UNCHANGED log
           \/ \E l \in Nodes, fin, full \in BOOLEAN : AcceptInput(l, fin, full)
           \/ \E m \in Nodes : ReceiveApply(m)
           \/ \E m \in Nodes : Claim(m)
BY DEF Next, LeaderStep, MemberStep, vars, Bootstrap, HandleAck, RenewSend, RenewArrive,
       LeaseLost, LeaseExpire, LeaseStall, CloseRoom, ReceiveHeld, ReceiveReject, Disconnect,
       Query, ClaimRefused, ClaimReplyLost, Connect, ConnectFails, Crash

\* The three steps that change more of the room record than lease and status.
LEMMA ServerFrame ==
    ASSUME [Next]_vars, TypeOK
    PROVE  \/ /\ server'.epoch = server.epoch
              /\ server'.leader = server.leader
              /\ server'.floor = server.floor
           \/ \E l \in Nodes : RenewArrive(l)
           \/ \E m \in Nodes : Claim(m)
           \/ \E m \in Nodes : ClaimReplyLost(m)
<1>1. \A b : LET t == [server EXCEPT !.lease = b]
            IN  t.epoch = server.epoch /\ t.leader = server.leader /\ t.floor = server.floor
  BY DEF TypeOK
<1>2. LET t == [server EXCEPT !.status = "closed"]
      IN  t.epoch = server.epoch /\ t.leader = server.leader /\ t.floor = server.floor
  BY DEF TypeOK
<1>3. CASE LeaseExpire \/ LeaseStall
  <2>1. server' = [server EXCEPT !.lease = FALSE]  BY <1>3 DEF LeaseExpire, LeaseStall
  <2>2. QED  BY <1>1, <2>1
<1>4. CASE \E l \in Nodes : CloseRoom(l)
  <2>1. server' = server \/ server' = [server EXCEPT !.status = "closed"]
    BY <1>4 DEF CloseRoom
  <2>2. QED  BY <1>2, <2>1
<1>5. CASE UNCHANGED server  BY <1>5
<1>6. QED
  BY <1>3, <1>4, <1>5, ZenonT(60)
  DEF Next, LeaderStep, MemberStep, vars, room, AcceptInput, Bootstrap,
       HandleAck, RenewSend, LeaseLost, ReceiveApply, ReceiveHeld, ReceiveReject, Disconnect,
       Query, ClaimRefused, Connect, ConnectFails, Crash

\* The steps that change what a Leader advertises.
LEMMA AdvertisingFrame ==
    ASSUME [Next]_vars
    PROVE  \/ UNCHANGED <<repl, renewal>>
           \/ \E l, m \in Nodes : HandleAck(l, m)
           \/ \E l \in Nodes : RenewSend(l)
           \/ \E l \in Nodes : RenewArrive(l)
           \/ \E m \in Nodes : Claim(m)
<1>1. CASE UNCHANGED vars \/ LeaseExpire \/ LeaseStall \/ \E n \in Nodes : Crash(n)
  BY <1>1 DEF vars, leader, LeaseExpire, LeaseStall, Crash
<1>2. ASSUME NEW l \in Nodes, LeaderStep(l)
      PROVE  \/ UNCHANGED <<repl, renewal>>
             \/ \E m \in Nodes : HandleAck(l, m)
             \/ RenewSend(l)
             \/ RenewArrive(l)
  BY <1>2 DEF LeaderStep, leader, AcceptInput, Bootstrap, LeaseLost, CloseRoom
<1>3. ASSUME NEW m \in Nodes, MemberStep(m)
      PROVE  UNCHANGED <<repl, renewal>> \/ Claim(m)
  BY <1>3, ZenonT(60)
  DEF MemberStep, leader, ReceiveApply, ReceiveHeld, ReceiveReject, Disconnect,
       Query, ClaimRefused, ClaimReplyLost, Connect, ConnectFails
<1>4. QED  BY <1>1, <1>2, <1>3 DEF Next

\* The two steps that change the epoch of a replica.
LEMMA ReplicaEpochFrame ==
    ASSUME [Next]_vars
    PROVE  \/ UNCHANGED repEpoch
           \/ \E m \in Nodes : Claim(m)
           \/ \E m \in Nodes : Connect(m)
BY ZenonT(60) DEF Next, LeaderStep, MemberStep, vars, AcceptInput, Bootstrap, HandleAck, RenewSend,
       RenewArrive, LeaseLost, LeaseExpire, LeaseStall, CloseRoom, ReceiveApply, ReceiveHeld,
       ReceiveReject, Disconnect, Query, ClaimRefused, ClaimReplyLost, ConnectFails, Crash

\* What may happen to the queues of envelopes.
LEMMA ChannelFrame ==
    ASSUME [Next]_vars
    PROVE  \/ UNCHANGED chan
           \/ \E l \in Nodes, fin, full \in BOOLEAN : AcceptInput(l, fin, full)
           \/ \E l, m \in Nodes : Bootstrap(l, m)
           \/ \E m \in Nodes : chan' = [chan EXCEPT ![m] = <<>>]
           \/ \E m \in Nodes : chan[m] # <<>> /\ chan' = [chan EXCEPT ![m] = Tail(@)]
BY ZenonT(60) DEF Next, LeaderStep, MemberStep, vars, member, DropLink, HandleAck, RenewSend,
       RenewArrive, LeaseLost, LeaseExpire, LeaseStall, CloseRoom, ReceiveApply, ReceiveHeld,
       ReceiveReject, Disconnect, Query, Claim, ClaimRefused, ClaimReplyLost, Connect,
       ConnectFails, Crash

\* How a process moves: it leads only by a claim, and never turns back from it.
LEMMA ProcessFrame ==
    ASSUME [Next]_vars, TypeOK, NEW n \in Nodes
    PROVE  /\ pc'[n] \in Leading => pc[n] \in Leading \/ Claim(n)
           /\ pc[n] \in Leading \union {"stopped"} => pc'[n] \in Leading \union {"stopped"}
           /\ pc'[n] = "claim" => pc[n] = "claim" \/ Certified(log[n])
           /\ pc[n] \notin {"connect", "claim"} => repEpoch'[n] = repEpoch[n]
<1> USE DEF Leading, member, room, leader, TypeOK
<1>1. ASSUME NEW l \in Nodes, LeaderStep(l)
      PROVE  /\ pc'[n] \in Leading => pc[n] \in Leading
             /\ pc[n] \in Leading \union {"stopped"} => pc'[n] \in Leading \union {"stopped"}
             /\ pc'[n] = "claim" => pc[n] = "claim"
             /\ repEpoch' = repEpoch
  BY <1>1 DEF LeaderStep, AcceptInput, Bootstrap, HandleAck, RenewSend, RenewArrive,
              LeaseLost, CloseRoom
<1>2. ASSUME NEW m \in Nodes, MemberStep(m), ~Claim(m)
      PROVE  /\ pc[m] \in {"member", "query", "connect", "claim"}
             /\ \E x \in {"member", "query", "connect", "claim", "stopped"} :
                   /\ pc' = [pc EXCEPT ![m] = x]
                   /\ x = "claim" => Certified(log[m])
             /\ pc[m] = "connect" \/ repEpoch' = repEpoch
  <2>1. CASE ReceiveApply(m)
    <3>1. pc[m] = "member" /\ repEpoch' = repEpoch  BY <2>1 DEF ReceiveApply
    <3>2. \E x \in {"member", "query", "stopped"} : pc' = [pc EXCEPT ![m] = x]
      BY <2>1, <3>1 DEF ReceiveApply
    <3>3. QED  BY <3>1, <3>2
  <2>2. CASE ReceiveHeld(m)
    <3>1. pc[m] = "member" /\ repEpoch' = repEpoch  BY <2>2 DEF ReceiveHeld
    <3>2. \E x \in {"member", "stopped"} : pc' = [pc EXCEPT ![m] = x]
      BY <2>2, <3>1 DEF ReceiveHeld
    <3>3. QED  BY <3>1, <3>2
  <2>3. CASE ReceiveReject(m)  BY <2>3 DEF ReceiveReject
  <2>4. CASE Disconnect(m)  BY <2>4 DEF Disconnect
  <2>5. CASE Query(m)  BY <2>5 DEF Query
  <2>6. CASE ClaimRefused(m)  BY <2>6 DEF ClaimRefused
  <2>7. CASE ClaimReplyLost(m)  BY <2>7 DEF ClaimReplyLost
  <2>8. CASE Connect(m)  BY <2>8 DEF Connect
  <2>9. CASE ConnectFails(m)  BY <2>9 DEF ConnectFails
  <2>10. QED  BY <1>2, <2>1, <2>2, <2>3, <2>4, <2>5, <2>6, <2>7, <2>8, <2>9 DEF MemberStep
<1>3. ASSUME NEW m \in Nodes, Claim(m)
      PROVE  /\ pc[m] = "claim"
             /\ pc' = [pc EXCEPT ![m] = "leader"]
             /\ \A k \in Nodes \ {m} : repEpoch'[k] = repEpoch[k]
  BY <1>3 DEF Claim
<1>4. ASSUME NEW m \in Nodes, Connect(m)
      PROVE  pc[m] = "connect" /\ \A k \in Nodes \ {m} : repEpoch'[k] = repEpoch[k]
  BY <1>4 DEF Connect
<1>5. ASSUME NEW m \in Nodes, Crash(m)
      PROVE  pc' = [pc EXCEPT ![m] = "stopped"] /\ repEpoch' = repEpoch
  BY <1>5 DEF Crash
<1>6. CASE LeaseExpire \/ LeaseStall \/ UNCHANGED vars
  BY <1>6 DEF LeaseExpire, LeaseStall, vars
<1>7. CASE \E m \in Nodes : MemberStep(m) /\ ~Claim(m)
  <2>1. PICK m \in Nodes : MemberStep(m) /\ ~Claim(m)  BY <1>7
  <2>2. pc[n] \notin {"connect", "claim"} => repEpoch'[n] = repEpoch[n]
    BY <1>2, <1>4, <2>1, ReplicaEpochFrame, <1>3
  <2>3. QED  BY <1>2, <2>1, <2>2
<1>8. CASE \E m \in Nodes : Claim(m)  BY <1>3, <1>8
<1>9. QED  BY <1>1, <1>5, <1>6, <1>7, <1>8 DEF Next

-----------------------------------------------------------------------------
(* Logs                                                                      *)

\* What no step does to a log: an owner's is only extended, in its epoch.
Grows(L, M) ==
    \A n \in Nodes : Owns(L, n) => /\ Owns(M, n)
                                   /\ CertEpoch(M[n]) = CertEpoch(L[n])
                                   /\ IsPrefix(L[n], M[n])

\* A cut of its signer's log remains one while owners only extend their logs.
LEMMA SourcedGrows ==
    ASSUME NEW L \in [Nodes -> Seq(Entry)], NEW M \in [Nodes -> Seq(Entry)], Grows(L, M),
           NEW l \in Seq(Entry), Sourced(L, l)
    PROVE  Sourced(M, l)
<1> DEFINE n == Last(l).leader
<1>1. n \in Nodes
  <2>1. l # <<>>  BY DEF Sourced, Certified
  <2>2. Last(l) \in Entry  BY <2>1, LastInSet
  <2>3. QED  BY <2>2 DEF Entry
<1>2. Owns(L, n) /\ CertEpoch(L[n]) = CertEpoch(l) /\ IsPrefix(l, L[n]) /\ Certified(l)
  BY DEF Sourced
<1> HIDE DEF n
<1>3. Owns(M, n) /\ CertEpoch(M[n]) = CertEpoch(L[n]) /\ IsPrefix(L[n], M[n])
  BY <1>1, <1>2 DEF Grows
<1>4. IsPrefix(l, M[n])  BY <1>1, <1>2, <1>3, PrefixTransitive
<1>5. QED  BY <1>2, <1>3, <1>4 DEF Sourced, n

\* An owner's log is a cut of itself.
LEMMA OwnIsSourced ==
    ASSUME NEW L \in [Nodes -> Seq(Entry)], NEW n \in Nodes, Owns(L, n)
    PROVE  Sourced(L, L[n])
BY PrefixReflexive DEF Sourced, Owns

\* The record an authority appends: it owns its log from then on.
LEMMA AppendOwned ==
    ASSUME NEW s \in Seq(Entry), NEW e \in Entry
    PROVE  /\ Append(s, e) \in Seq(Entry)
           /\ Certified(Append(s, e))
           /\ Last(Append(s, e)) = e
           /\ IsPrefix(s, Append(s, e))
           /\ Len(Append(s, e)) = Len(s) + 1
<1>1. Len(s) \in Nat  BY LenProperties
<1>2. /\ Append(s, e) \in Seq(Entry)
      /\ Append(s, e) # <<>>
      /\ Len(Append(s, e)) = Len(s) + 1
      /\ Append(s, e)[Len(s) + 1] = e
  BY AppendProperties
<1>3. IsPrefix(s, Append(s, e))  BY PrefixReflexive, PrefixOfAppend
<1>4. QED  BY <1>1, <1>2, <1>3 DEF Certified, Last

\* The channels after the envelope env is sent to every Member greeted by l.
Broadcast(l, env) ==
    [m \in Nodes |-> IF link[m] = l /\ ~greet[m] THEN Append(chan[m], env) ELSE chan[m]]

\* The log and the channels after the authority of l accepted an input.
LEMMA AcceptInputLog ==
    ASSUME IInv, NEW l \in Nodes, NEW fin \in BOOLEAN, NEW full \in BOOLEAN,
           AcceptInput(l, fin, full)
    PROVE  \E new \in Seq(Entry) :
             /\ log' = [log EXCEPT ![l] = new]
             /\ chan' = Broadcast(l, [log |-> new, full |-> full])
             /\ Certified(new)
             /\ Last(new).leader = l
             /\ CertEpoch(new) = repEpoch[l]
             /\ IsPrefix(log[l], new)
             /\ Len(log[l]) <= Len(new)
             /\ Owns(log, l)
             /\ CertEpoch(log[l]) = repEpoch[l]
<1> DEFINE e   == [epoch |-> repEpoch[l], leader |-> l, fin |-> fin]
           new == Append(log[l], e)
<1>1. e \in Entry /\ log[l] \in Seq(Entry)  BY DEF IInv, TypeOK, Entry
<1>2. e.leader = l /\ e.epoch = repEpoch[l]  OBVIOUS
<1>3. /\ log' = [log EXCEPT ![l] = new]
      /\ chan' = Broadcast(l, [log |-> new, full |-> full])
  BY DEF AcceptInput, Broadcast
<1>4. Owns(log, l) /\ CertEpoch(log[l]) = repEpoch[l]
  BY DEF AcceptInput, Leading, IInv, Ownership, Owns, Reigned
<1> HIDE DEF e
<1>5. /\ new \in Seq(Entry)
      /\ Certified(new)
      /\ Last(new) = e
      /\ IsPrefix(log[l], new)
      /\ Len(new) = Len(log[l]) + 1
  BY <1>1, AppendOwned
<1>6. Len(log[l]) \in Nat  BY <1>1, LenProperties
<1>7. CertEpoch(new) = repEpoch[l] /\ Last(new).leader = l  BY <1>2, <1>5 DEF CertEpoch
<1>8. Len(log[l]) <= Len(new)  BY <1>5, <1>6
<1> HIDE DEF new
<1> USE <1>5
<1> WITNESS new \in Seq(Entry)
<1> QED  BY <1>3, <1>4, <1>5, <1>7, <1>8

\* The log and the room record after a granted claim.
LEMMA ClaimLog ==
    ASSUME IInv, NEW m \in Nodes, Claim(m)
    PROVE  \E new \in Seq(Entry) :
             /\ log' = [log EXCEPT ![m] = new]
             /\ Certified(new)
             /\ Last(new).leader = m
             /\ CertEpoch(new) = server.epoch + 1
             /\ IsPrefix(log[m], new)
             /\ Len(log[m]) <= Len(new)
             /\ ~Owns(log, m)
             /\ server' = Granted(m)
             /\ server'.epoch = server.epoch + 1
             /\ server'.leader = m
             /\ server'.floor = log[m]
             /\ repEpoch' = [repEpoch EXCEPT ![m] = server.epoch + 1]
<1> DEFINE e   == EpochStart(m)
           new == Append(log[m], e)
<1>1. e \in Entry /\ log[m] \in Seq(Entry)
  <2>1. server.epoch + 1 \in Epochs
    BY BoundsAssumption DEF IInv, TypeOK, Epochs, Claim
  <2>2. QED  BY <2>1 DEF IInv, TypeOK, Entry, EpochStart
<1>2. e.leader = m /\ e.epoch = server.epoch + 1  BY DEF EpochStart
<1>3. /\ log' = [log EXCEPT ![m] = new]
      /\ repEpoch' = [repEpoch EXCEPT ![m] = server.epoch + 1]
      /\ server' = Granted(m)
  BY DEF Claim, IInv, TypeOK
<1>4. ~Owns(log, m)
  BY DEF Claim, Leading, IInv, Ownership, Owns, Reigned
<1>5. /\ Granted(m).epoch = server.epoch + 1
      /\ Granted(m).leader = m
      /\ Granted(m).floor = log[m]
  BY DEF Granted, IInv, TypeOK
<1> HIDE DEF e
<1>6. /\ new \in Seq(Entry)
      /\ Certified(new)
      /\ Last(new) = e
      /\ IsPrefix(log[m], new)
      /\ Len(new) = Len(log[m]) + 1
  BY <1>1, AppendOwned
<1>7. Len(log[m]) \in Nat  BY <1>1, LenProperties
<1>8. CertEpoch(new) = server.epoch + 1 /\ Last(new).leader = m
  BY <1>2, <1>6 DEF CertEpoch
<1>9. Len(log[m]) <= Len(new)  BY <1>6, <1>7
<1> HIDE DEF new
<1> USE <1>6
<1> WITNESS new \in Seq(Entry)
<1> QED  BY <1>3, <1>4, <1>5, <1>6, <1>8, <1>9

\* The log of a Member after it applied an envelope.
LEMMA ReceiveApplyLog ==
    ASSUME IInv, NEW m \in Nodes, ReceiveApply(m)
    PROVE  \E new \in Seq(Entry) :
             /\ log' = [log EXCEPT ![m] = new]
             /\ Sourced(log, new)
             /\ CertEpoch(new) = repEpoch[m]
             /\ Len(log[m]) <= Len(new)
             /\ ~Owns(log, m)
<1> DEFINE new == Head(chan[m]).log
<1>1. chan[m] \in Seq(Envelope) /\ chan[m] # <<>>  BY DEF IInv, TypeOK, ReceiveApply
<1>2. Head(chan[m]) = chan[m][1] /\ 1 \in DOMAIN chan[m] /\ chan[m][1] \in Envelope
  <2>1. Len(chan[m]) \in Nat /\ Len(chan[m]) # 0 /\ DOMAIN chan[m] = 1..Len(chan[m])
    BY <1>1, EmptySeq, LenProperties
  <2>2. 1 \in 1..Len(chan[m])  BY <2>1
  <2>3. QED  BY <1>1, <2>1, <2>2, ElementOfSeq
<1>3. new \in Seq(Entry) /\ Sourced(log, new)
  BY <1>2 DEF IInv, Provenance, Envelope
<1>4. /\ log' = [log EXCEPT ![m] = new]
      /\ CertEpoch(new) = repEpoch[m]
      /\ Len(new) > Len(log[m])
  BY DEF ReceiveApply, Acceptable, FromEpoch
<1>5. ~Owns(log, m)
  BY DEF ReceiveApply, Leading, IInv, Ownership, Owns, Reigned
<1>6. Len(new) \in Nat /\ Len(log[m]) \in Nat  BY <1>3, LenProperties DEF IInv, TypeOK
<1>7. Len(log[m]) <= Len(new)  BY <1>4, <1>6
<1> HIDE DEF new
<1> USE <1>3
<1> WITNESS new \in Seq(Entry)
<1> QED  BY <1>3, <1>4, <1>5, <1>7

\* Owners' logs grow, logs never shrink or empty.
LEMMA LogGrowth ==
    ASSUME IInv, [Next]_vars
    PROVE  /\ Grows(log, log')
           /\ \A n \in Nodes : /\ Len(log[n]) <= Len(log'[n])
                               /\ Certified(log[n]) => Certified(log'[n])
<1> DEFINE Grown == /\ Grows(log, log')
                    /\ \A n \in Nodes : /\ Len(log[n]) <= Len(log'[n])
                                        /\ Certified(log[n]) => Certified(log'[n])
<1>t. log \in [Nodes -> Seq(Entry)] /\ \A n \in Nodes : Len(log[n]) \in Nat
  BY LenProperties DEF IInv, TypeOK
<1>1. ASSUME NEW n \in Nodes
      PROVE  IsPrefix(log[n], log[n])
  BY <1>t, PrefixReflexive
<1>2. CASE UNCHANGED log  BY <1>t, <1>1, <1>2 DEF Grows
<1>3. ASSUME NEW l \in Nodes, NEW fin \in BOOLEAN, NEW full \in BOOLEAN,
             AcceptInput(l, fin, full)
      PROVE  Grown
  <2>1. PICK new \in Seq(Entry) :
           /\ log' = [log EXCEPT ![l] = new]
           /\ Certified(new)
           /\ Last(new).leader = l
           /\ CertEpoch(new) = repEpoch[l]
           /\ IsPrefix(log[l], new)
           /\ Len(log[l]) <= Len(new)
           /\ Owns(log, l)
           /\ CertEpoch(log[l]) = repEpoch[l]
    BY <1>3, AcceptInputLog
  <2>2. log'[l] = new /\ \A n \in Nodes \ {l} : log'[n] = log[n]  BY <1>t, <2>1
  <2>3. QED  BY <1>t, <1>1, <2>1, <2>2 DEF Grows, Owns
<1>4. CASE \E m \in Nodes : ReceiveApply(m)
  BY <1>t, <1>1, <1>4, ReceiveApplyLog DEF Grows, Owns, Sourced
<1>5. ASSUME NEW m \in Nodes, Claim(m)
      PROVE  Grown
  <2>1. PICK new \in Seq(Entry) :
           /\ log' = [log EXCEPT ![m] = new]
           /\ Certified(new)
           /\ Len(log[m]) <= Len(new)
           /\ ~Owns(log, m)
    BY <1>5, ClaimLog
  <2>2. log'[m] = new /\ \A n \in Nodes \ {m} : log'[n] = log[n]  BY <1>t, <2>1
  <2>3. QED  BY <1>t, <1>1, <2>1, <2>2 DEF Grows, Owns
<1>6. QED  BY <1>2, <1>3, <1>4, <1>5, LogFrame

\* A node comes to own a log only by a claim.
LEMMA NewOwner ==
    ASSUME IInv, [Next]_vars, NEW n \in Nodes, Owns(log', n)
    PROVE  Owns(log, n) \/ Claim(n)
<1>t. log \in [Nodes -> Seq(Entry)]  BY DEF IInv, TypeOK
<1>2. CASE UNCHANGED log  BY <1>2 DEF Owns
<1>3. CASE \E l \in Nodes, fin, full \in BOOLEAN : AcceptInput(l, fin, full)
  BY <1>t, <1>3, AcceptInputLog DEF Owns
<1>4. CASE \E m \in Nodes : ReceiveApply(m)
  BY <1>t, <1>4, ReceiveApplyLog DEF Owns, Sourced
<1>5. CASE \E m \in Nodes : Claim(m)
  BY <1>t, <1>5, ClaimLog DEF Owns
<1>6. QED  BY <1>2, <1>3, <1>4, <1>5, LogFrame

\* A claim, seen from the node that makes it.
LEMMA ClaimFacts ==
    ASSUME IInv, NEW n \in Nodes, Claim(n)
    PROVE  /\ Owns(log', n)
           /\ ~Owns(log, n)
           /\ CertEpoch(log'[n]) = server.epoch + 1
           /\ IsPrefix(log[n], log'[n])
           /\ Len(log[n]) <= Len(log'[n])
           /\ server'.epoch = server.epoch + 1
           /\ server'.leader = n
           /\ server'.floor = log[n]
           /\ repEpoch'[n] = server.epoch + 1
           /\ pc'[n] = "leader"
           /\ repl'[n] = Len(log[n])
           /\ renewal' = renewal
           /\ \A k \in Nodes \ {n} : log'[k] = log[k] /\ repEpoch'[k] = repEpoch[k]
                                     /\ repl'[k] = repl[k]
<1>t. /\ log \in [Nodes -> Seq(Entry)]
      /\ repEpoch \in [Nodes -> Epochs]
      /\ pc \in [Nodes -> PCs]
      /\ repl \in [Nodes -> Nat]
  BY DEF IInv, TypeOK
<1>1. PICK new \in Seq(Entry) :
        /\ log' = [log EXCEPT ![n] = new]
        /\ Certified(new)
        /\ Last(new).leader = n
        /\ CertEpoch(new) = server.epoch + 1
        /\ IsPrefix(log[n], new)
        /\ Len(log[n]) <= Len(new)
        /\ ~Owns(log, n)
        /\ server'.epoch = server.epoch + 1
        /\ server'.leader = n
        /\ server'.floor = log[n]
        /\ repEpoch' = [repEpoch EXCEPT ![n] = server.epoch + 1]
  BY ClaimLog
<1>2. log'[n] = new /\ \A k \in Nodes \ {n} : log'[k] = log[k]  BY <1>t, <1>1
<1>3. /\ repEpoch'[n] = server.epoch + 1
      /\ \A k \in Nodes \ {n} : repEpoch'[k] = repEpoch[k]
  BY <1>t, <1>1
<1>4. /\ pc'[n] = "leader"
      /\ repl'[n] = Len(log[n])
      /\ \A k \in Nodes \ {n} : repl'[k] = repl[k]
      /\ renewal' = renewal
  BY <1>t DEF Claim, InitialAdvertised
<1>5. QED  BY <1>1, <1>2, <1>3, <1>4 DEF Owns

\* How the control plane's record moves: by the heartbeat of the Leader it names,
\* or by a claim from a checkpoint of the current epoch.
LEMMA ServerMoves ==
    ASSUME IInv, [Next]_vars
    PROVE  \/ /\ server'.epoch = server.epoch
              /\ server'.leader = server.leader
              /\ server'.floor = server.floor
           \/ \E l \in Nodes : \E r \in renewal[l] :
                /\ ServerAccepts(l)
                /\ server'.epoch = server.epoch
                /\ server'.leader = server.leader
                /\ server'.floor = SubSeq(log[l], 1, r)
                /\ log' = log
                /\ repl' = repl
                /\ renewal'[l] = {}
           \/ \E m \in Nodes :
                /\ ClaimWins(m)
                /\ Certified(log[m])
                /\ server'.epoch = server.epoch + 1
                /\ server'.leader = m
                /\ server'.floor = log[m]
<1>t. TypeOK  BY DEF IInv
<1>1. ASSUME NEW l \in Nodes, RenewArrive(l)
      PROVE  \/ server' = server
             \/ \E r \in renewal[l] :
                  /\ ServerAccepts(l)
                  /\ server'.epoch = server.epoch
                  /\ server'.leader = server.leader
                  /\ server'.floor = SubSeq(log[l], 1, r)
                  /\ log' = log
                  /\ repl' = repl
                  /\ renewal'[l] = {}
  <2>1. PICK r \in renewal[l] :
          server' = IF ServerAccepts(l)
                    THEN [server EXCEPT !.lease = TRUE, !.floor = SubSeq(log[l], 1, r)]
                    ELSE server
    BY <1>1 DEF RenewArrive
  <2>2. log' = log /\ repl' = repl /\ renewal'[l] = {}  BY <1>t, <1>1 DEF RenewArrive, TypeOK
  <2>3. CASE ServerAccepts(l)
    <3>1. /\ server'.epoch = server.epoch
          /\ server'.leader = server.leader
          /\ server'.floor = SubSeq(log[l], 1, r)
      BY <1>t, <2>1, <2>3 DEF TypeOK
    <3>2. QED  BY <2>2, <2>3, <3>1
  <2>4. CASE ~ServerAccepts(l)  BY <2>1, <2>4
  <2>5. QED  BY <2>3, <2>4
<1>2. ASSUME NEW m \in Nodes, Claim(m) \/ ClaimReplyLost(m)
      PROVE  /\ ClaimWins(m)
             /\ Certified(log[m])
             /\ server'.epoch = server.epoch + 1
             /\ server'.leader = m
             /\ server'.floor = log[m]
  <2>1. ClaimWins(m) /\ pc[m] = "claim" /\ server' = Granted(m)
    BY <1>2 DEF Claim, ClaimReplyLost
  <2>2. Certified(log[m])  BY <2>1 DEF IInv, Ownership
  <2>3. /\ Granted(m).epoch = server.epoch + 1
        /\ Granted(m).leader = m
        /\ Granted(m).floor = log[m]
    BY <1>t DEF Granted, TypeOK
  <2>4. QED  BY <2>1, <2>2, <2>3
<1>3. QED  BY <1>t, <1>1, <1>2, ServerFrame

\* Epochs of replicas and of the control plane only grow.
LEMMA EpochsGrow ==
    ASSUME IInv, [Next]_vars
    PROVE  /\ server.epoch \in Nat /\ server'.epoch \in Nat
           /\ server.epoch <= server'.epoch
           /\ \A n \in Nodes : /\ repEpoch[n] \in Nat
                               /\ repEpoch'[n] \in Nat
                               /\ repEpoch[n] <= repEpoch'[n]
                               /\ repEpoch'[n] <= server'.epoch
<1>t. /\ server.epoch \in Nat
      /\ \A n \in Nodes : repEpoch[n] \in Nat /\ repEpoch[n] <= server.epoch
      /\ repEpoch \in [Nodes -> Epochs]
  BY BoundsAssumption DEF IInv, TypeOK, Epochs, EpochOrder
<1>1. server'.epoch \in Nat /\ server.epoch <= server'.epoch  BY <1>t, ServerMoves
<1>2. CASE UNCHANGED repEpoch  BY <1>t, <1>1, <1>2
<1>3. ASSUME NEW m \in Nodes, Claim(m)
      PROVE  \A n \in Nodes : /\ repEpoch'[n] \in Nat
                              /\ repEpoch[n] <= repEpoch'[n]
                              /\ repEpoch'[n] <= server'.epoch
  BY <1>t, <1>3, ClaimFacts
<1>4. ASSUME NEW m \in Nodes, Connect(m)
      PROVE  \A n \in Nodes : /\ repEpoch'[n] \in Nat
                              /\ repEpoch[n] <= repEpoch'[n]
                              /\ repEpoch'[n] <= server'.epoch
  <2>1. PICK l \in Nodes : Admits(l, m)  BY <1>4 DEF Connect
  <2>2. seen[m].epoch = server.epoch  BY <2>1 DEF Admits
  <2>3. repEpoch' = [repEpoch EXCEPT ![m] = server.epoch]  BY <1>4, <2>2 DEF Connect
  <2>4. QED  BY <1>t, <1>1, <2>3
<1>5. QED  BY <1>t, <1>1, <1>2, <1>3, <1>4, ReplicaEpochFrame

-----------------------------------------------------------------------------
(* The parts of the inductive invariant, one step                            *)

\* Who owns a log leads or is gone, and only such a process heartbeats.
LEMMA OwnershipStep == IInv /\ [Next]_vars => Ownership'
<1> SUFFICES ASSUME IInv, [Next]_vars PROVE Ownership'  OBVIOUS
<1>t. TypeOK  BY DEF IInv
<1>i. Ownership  BY DEF IInv
<1>o. \A n \in Nodes : /\ Reigned(n) <=> Owns(log, n)
                       /\ Reigned(n)' <=> Owns(log', n)
  BY DEF Reigned, Owns
<1>g. Grows(log, log') /\ \A n \in Nodes : Certified(log[n]) => Certified(log'[n])
  BY LogGrowth
<1>1. ASSUME NEW n \in Nodes, pc'[n] \in Leading
      PROVE  Owns(log', n)
  <2>1. CASE pc[n] \in Leading  BY <1>i, <1>o, <1>g, <2>1 DEF Ownership, Grows
  <2>2. CASE Claim(n)  BY <2>2, ClaimFacts
  <2>3. QED  BY <1>t, <1>1, <2>1, <2>2, ProcessFrame
<1>2. ASSUME NEW n \in Nodes, Owns(log', n)
      PROVE  pc'[n] \in Leading \union {"stopped"} /\ CertEpoch(log'[n]) = repEpoch'[n]
  <2>1. CASE Owns(log, n)
    <3>1. pc[n] \in Leading \union {"stopped"} /\ CertEpoch(log[n]) = repEpoch[n]
      BY <1>i, <1>o, <2>1 DEF Ownership
    <3>2. CertEpoch(log'[n]) = CertEpoch(log[n])  BY <1>g, <2>1 DEF Grows
    <3>3. pc'[n] \in Leading \union {"stopped"}  BY <1>t, <3>1, ProcessFrame
    <3>4. repEpoch'[n] = repEpoch[n]  BY <1>t, <3>1, ProcessFrame DEF Leading
    <3>5. QED  BY <3>1, <3>2, <3>3, <3>4
  <2>2. CASE Claim(n)  BY <2>2, ClaimFacts DEF Leading
  <2>3. QED  BY <1>2, <2>1, <2>2, NewOwner
<1>3. ASSUME NEW n \in Nodes, pc'[n] = "claim"
      PROVE  Certified(log'[n])
  BY <1>t, <1>i, <1>g, <1>3, ProcessFrame DEF Ownership
<1>4. ASSUME NEW n \in Nodes, ~Owns(log', n)
      PROVE  renewal'[n] = {}
  <2>1. ~Owns(log, n) /\ renewal[n] = {} /\ pc[n] \notin Leading
    BY <1>i, <1>o, <1>g, <1>4 DEF Ownership, Grows
  <2>2. CASE UNCHANGED renewal  BY <2>1, <2>2
  <2>3. ASSUME NEW l \in Nodes, RenewSend(l)
        PROVE  renewal'[n] = {}
    BY <1>t, <2>1, <2>3 DEF RenewSend, TypeOK
  <2>4. ASSUME NEW l \in Nodes, RenewArrive(l)
        PROVE  renewal'[n] = {}
    BY <1>t, <2>1, <2>4 DEF RenewArrive, TypeOK
  <2>5. QED  BY <2>2, <2>3, <2>4, AdvertisingFrame, ClaimFacts DEF HandleAck
<1>5. QED  BY <1>1, <1>2, <1>3, <1>4, <1>o DEF Ownership

\* What an owner's log says about the epoch of the control plane after a step.
LEMMA OwnerStays ==
    ASSUME IInv, [Next]_vars, NEW n \in Nodes, Owns(log, n)
    PROVE  /\ Owns(log', n)
           /\ CertEpoch(log'[n]) = CertEpoch(log[n])
           /\ CertEpoch(log[n]) = repEpoch[n]
           /\ CertEpoch(log[n]) \in Nat
           /\ CertEpoch(log[n]) <= server.epoch
           /\ IsPrefix(log[n], log'[n])
<1>1. CertEpoch(log[n]) = repEpoch[n]  BY DEF IInv, Ownership, Reigned, Owns
<1>2. repEpoch[n] \in Nat /\ repEpoch[n] <= server.epoch
  BY EpochsGrow DEF IInv, EpochOrder
<1>3. QED  BY <1>1, <1>2, LogGrowth DEF Grows

\* A log is left alone, extended by its owner in the replica's epoch, or replaced
\* by a longer one of the replica's epoch that its signer holds.
LEMMA LogMoves ==
    ASSUME IInv, [Next]_vars, NEW n \in Nodes
    PROVE  \/ log'[n] = log[n]
           \/ Owns(log', n) /\ CertEpoch(log'[n]) = repEpoch'[n]
           \/ Sourced(log, log'[n]) /\ CertEpoch(log'[n]) = repEpoch'[n]
<1>t. TypeOK  BY DEF IInv
<1>1. CASE UNCHANGED log  BY <1>1
<1>2. ASSUME NEW l \in Nodes, NEW fin \in BOOLEAN, NEW full \in BOOLEAN,
             AcceptInput(l, fin, full)
      PROVE  \/ log'[n] = log[n]
             \/ Owns(log', n) /\ CertEpoch(log'[n]) = repEpoch'[n]
  <2>1. PICK new \in Seq(Entry) : log' = [log EXCEPT ![l] = new] /\ Owns(log, l)
    BY <1>2, AcceptInputLog
  <2>2. CASE n # l  BY <1>t, <2>1, <2>2 DEF TypeOK
  <2>3. CASE n = l
    <3>1. Owns(log', n) /\ CertEpoch(log'[n]) = repEpoch[n]  BY <2>1, <2>3, OwnerStays
    <3>2. repEpoch' = repEpoch  BY <1>2 DEF AcceptInput
    <3>3. QED  BY <3>1, <3>2
  <2>4. QED  BY <2>2, <2>3
<1>3. ASSUME NEW m \in Nodes, ReceiveApply(m)
      PROVE  \/ log'[n] = log[n]
             \/ Sourced(log, log'[n]) /\ CertEpoch(log'[n]) = repEpoch'[n]
  <2>1. PICK new \in Seq(Entry) : /\ log' = [log EXCEPT ![m] = new]
                                  /\ Sourced(log, new)
                                  /\ CertEpoch(new) = repEpoch[m]
    BY <1>3, ReceiveApplyLog
  <2>2. repEpoch' = repEpoch  BY <1>3 DEF ReceiveApply
  <2>3. CASE n # m  BY <1>t, <2>1, <2>3 DEF TypeOK
  <2>4. CASE n = m
    <3>1. log'[n] = new  BY <1>t, <2>1, <2>4 DEF TypeOK
    <3>2. QED  BY <2>1, <2>2, <2>4, <3>1
  <2>5. QED  BY <2>3, <2>4
<1>4. ASSUME NEW m \in Nodes, Claim(m)
      PROVE  \/ log'[n] = log[n]
             \/ Owns(log', n) /\ CertEpoch(log'[n]) = repEpoch'[n]
  BY <1>4, ClaimFacts
<1>5. QED  BY <1>1, <1>2, <1>3, <1>4, LogFrame

\* Epochs of checkpoints, replicas and the control plane keep their order.
LEMMA EpochOrderStep == IInv /\ [Next]_vars => EpochOrder'
<1> SUFFICES ASSUME IInv, [Next]_vars PROVE EpochOrder'  OBVIOUS
<1>1. \A n \in Nodes : repEpoch'[n] <= server'.epoch  BY EpochsGrow
<1>2. ASSUME NEW n \in Nodes, Certified(log'[n])
      PROVE  CertEpoch(log'[n]) <= repEpoch'[n]
  <2>1. repEpoch[n] \in Nat /\ repEpoch'[n] \in Nat /\ repEpoch[n] <= repEpoch'[n]
    BY EpochsGrow
  <2>2. CASE log'[n] = log[n]
    <3>1. Last(log[n]) \in Entry
      BY <1>2, <2>2, LastInSet DEF IInv, TypeOK, Certified
    <3>2. CertEpoch(log[n]) \in Nat /\ CertEpoch(log[n]) <= repEpoch[n]
      BY <1>2, <2>2, <3>1, BoundsAssumption DEF IInv, EpochOrder, CertEpoch, Entry, Epochs
    <3>3. QED  BY <2>1, <2>2, <3>2
  <2>3. CASE CertEpoch(log'[n]) = repEpoch'[n]  BY <2>1, <2>3
  <2>4. QED  BY <2>2, <2>3, LogMoves
<1>3. ASSUME NEW n \in Nodes, Owns(log', n), CertEpoch(log'[n]) = server'.epoch
      PROVE  server'.leader = n
  <2>1. CASE Owns(log, n)
    <3>1. CertEpoch(log[n]) = server'.epoch /\ CertEpoch(log[n]) <= server.epoch
      BY <1>3, <2>1, OwnerStays
    <3>2. server'.epoch = server.epoch  BY <3>1, EpochsGrow
    <3>3. server'.leader = server.leader  BY <3>2, ServerMoves, EpochsGrow
    <3>4. server.leader = n
      BY <2>1, <3>1, <3>2 DEF IInv, EpochOrder, Reigned, Owns
    <3>5. QED  BY <3>3, <3>4
  <2>2. CASE Claim(n)  BY <2>2, ClaimFacts
  <2>3. QED  BY <1>3, <2>1, <2>2, NewOwner
<1>4. QED  BY <1>1, <1>2, <1>3 DEF EpochOrder, Reigned, Owns

\* A claim opens an epoch no node has signed for.
LEMMA OneLeaderStep == IInv /\ [Next]_vars => OneLeaderPerEpoch'
<1> SUFFICES ASSUME IInv, [Next]_vars, NEW n1 \in Nodes, NEW n2 \in Nodes,
                    Owns(log', n1), Owns(log', n2),
                    CertEpoch(log'[n1]) = CertEpoch(log'[n2])
             PROVE  n1 = n2
  BY DEF OneLeaderPerEpoch, Reigned, Owns
<1>1. CASE Owns(log, n1) /\ Owns(log, n2)
  BY <1>1, OwnerStays DEF IInv, OneLeaderPerEpoch, Reigned, Owns
<1>2. CASE Owns(log, n1) /\ Claim(n2)
  <2>1. CertEpoch(log'[n1]) <= server.epoch  BY <1>2, OwnerStays
  <2>2. CertEpoch(log'[n2]) = server.epoch + 1  BY <1>2, ClaimFacts
  <2>3. QED  BY <2>1, <2>2, EpochsGrow
<1>3. CASE Claim(n1) /\ Owns(log, n2)
  <2>1. CertEpoch(log'[n2]) <= server.epoch  BY <1>3, OwnerStays
  <2>2. CertEpoch(log'[n1]) = server.epoch + 1  BY <1>3, ClaimFacts
  <2>3. QED  BY <2>1, <2>2, EpochsGrow
<1>4. CASE Claim(n1) /\ Claim(n2)  BY <1>4, ClaimFacts
<1>5. QED  BY <1>1, <1>2, <1>3, <1>4, NewOwner

\* Every envelope of the queue q was cut, in the logs L, from its signer's log.
EnvelopesSourced(L, q) == \A i \in DOMAIN q : Sourced(L, q[i].log)

\* Sending an envelope cut from its signer's log.
LEMMA SendSourced ==
    ASSUME NEW L, NEW q \in Seq(Envelope), NEW env \in Envelope,
           EnvelopesSourced(L, q), Sourced(L, env.log)
    PROVE  EnvelopesSourced(L, Append(q, env))
<1>1. Len(q) \in Nat /\ DOMAIN q = 1..Len(q)  BY LenProperties
<1>2. /\ Append(q, env) \in Seq(Envelope)
      /\ Len(Append(q, env)) = Len(q) + 1
      /\ \A i \in 1..Len(q) : Append(q, env)[i] = q[i]
      /\ Append(q, env)[Len(q) + 1] = env
  BY AppendProperties
<1>3. DOMAIN Append(q, env) = 1..(Len(q) + 1)  BY <1>2, LenProperties
<1>4. SUFFICES ASSUME NEW i \in 1..(Len(q) + 1)
               PROVE  Sourced(L, Append(q, env)[i].log)
  BY <1>3 DEF EnvelopesSourced
<1>5. CASE i = Len(q) + 1  BY <1>2, <1>5
<1>6. CASE i \in 1..Len(q)  BY <1>1, <1>2, <1>6 DEF EnvelopesSourced
<1>7. QED  BY <1>1, <1>5, <1>6

\* Receiving the head of a channel.
LEMMA ReceiveSourced ==
    ASSUME NEW L, NEW q \in Seq(Envelope), q # <<>>, EnvelopesSourced(L, q)
    PROVE  EnvelopesSourced(L, Tail(q))
<1>1. Len(q) \in Nat /\ Len(q) # 0 /\ DOMAIN q = 1..Len(q)  BY EmptySeq, LenProperties
<1>2. /\ Tail(q) \in Seq(Envelope)
      /\ Len(Tail(q)) = Len(q) - 1
      /\ \A i \in 1..Len(Tail(q)) : Tail(q)[i] = q[i + 1]
  BY HeadTailProperties
<1>3. DOMAIN Tail(q) = 1..(Len(q) - 1)  BY <1>2, LenProperties
<1>4. SUFFICES ASSUME NEW i \in 1..(Len(q) - 1)
               PROVE  Sourced(L, Tail(q)[i].log)
  BY <1>3 DEF EnvelopesSourced
<1>5. i + 1 \in DOMAIN q /\ Tail(q)[i] = q[i + 1]  BY <1>1, <1>2
<1>6. QED  BY <1>5 DEF EnvelopesSourced

\* Whatever moves, every checkpoint and envelope stays a cut of its signer's log.
LEMMA ProvenanceStep == IInv /\ [Next]_vars => Provenance'
<1> SUFFICES ASSUME IInv, [Next]_vars PROVE Provenance'  OBVIOUS
<1>t. /\ log \in [Nodes -> Seq(Entry)] /\ chan \in [Nodes -> Seq(Envelope)]
      /\ log' \in [Nodes -> Seq(Entry)] /\ chan' \in [Nodes -> Seq(Envelope)]
  BY TypeStep DEF IInv, TypeOK
<1>g. Grows(log, log')  BY LogGrowth
<1>1. ASSUME NEW m \in Nodes, Certified(log'[m])
      PROVE  Sourced(log', log'[m])
  <2>1. CASE log'[m] = log[m]
    <3>1. Sourced(log, log[m])  BY <1>1, <2>1 DEF IInv, Provenance
    <3>2. QED  BY <1>t, <1>g, <2>1, <3>1, SourcedGrows
  <2>2. CASE Owns(log', m)  BY <1>t, <2>2, OwnIsSourced
  <2>3. CASE Sourced(log, log'[m])  BY <1>t, <1>g, <2>3, SourcedGrows
  <2>4. QED  BY <2>1, <2>2, <2>3, LogMoves
<1>2. ASSUME NEW m \in Nodes
      PROVE  EnvelopesSourced(log', chan[m])
  <2>1. SUFFICES ASSUME NEW i \in DOMAIN chan[m]
                 PROVE  Sourced(log', chan[m][i].log)
    BY DEF EnvelopesSourced
  <2>2. chan[m][i].log \in Seq(Entry)
    <3>1. DOMAIN chan[m] = 1..Len(chan[m])  BY <1>t, LenProperties
    <3>2. chan[m][i] \in Envelope  BY <1>t, <3>1, ElementOfSeq
    <3>3. QED  BY <3>2 DEF Envelope
  <2>3. Sourced(log, chan[m][i].log)  BY DEF IInv, Provenance
  <2>4. QED  BY <1>t, <1>g, <2>2, <2>3, SourcedGrows
<1>3. ASSUME NEW m \in Nodes
      PROVE  EnvelopesSourced(log', chan'[m])
  <2>1. CASE UNCHANGED chan  BY <1>2, <2>1
  <2>2. ASSUME NEW l \in Nodes, NEW fin \in BOOLEAN, NEW full \in BOOLEAN,
               AcceptInput(l, fin, full)
        PROVE  EnvelopesSourced(log', chan'[m])
    <3>1. PICK new \in Seq(Entry) :
            /\ log' = [log EXCEPT ![l] = new]
            /\ chan' = Broadcast(l, [log |-> new, full |-> full])
            /\ Owns(log, l)
      BY <2>2, AcceptInputLog
    <3>2. log'[l] = new /\ Owns(log', l)  BY <1>t, <1>g, <3>1 DEF Grows
    <3>3. Sourced(log', new)  BY <1>t, <3>2, OwnIsSourced
    <3> DEFINE env == [log |-> new, full |-> full]
    <3>4. env \in Envelope /\ env.log = new  BY DEF Envelope
    <3> HIDE DEF env
    <3>5. EnvelopesSourced(log', Append(chan[m], env))
      BY <1>t, <1>2, <3>3, <3>4, SendSourced
    <3>6. chan'[m] = IF link[m] = l /\ ~greet[m] THEN Append(chan[m], env) ELSE chan[m]
      BY <3>1 DEF env, Broadcast
    <3>7. QED  BY <1>2, <3>5, <3>6
  <2>3. ASSUME NEW l \in Nodes, NEW k \in Nodes, Bootstrap(l, k)
        PROVE  EnvelopesSourced(log', chan'[m])
    <3> DEFINE env == [log |-> log[l], full |-> TRUE]
    <3>1. Owns(log', l) /\ log' = log
      BY <1>g, <2>3 DEF Bootstrap, IInv, Ownership, Reigned, Owns, Grows
    <3>2. env \in Envelope /\ env.log = log[l]  BY <1>t DEF Envelope
    <3>3. chan' = [chan EXCEPT ![k] = Append(chan[k], env)]
      BY <1>t, <2>3 DEF Bootstrap
    <3> HIDE DEF env
    <3>4. Sourced(log', env.log)  BY <1>t, <3>1, <3>2, OwnIsSourced
    <3>5. EnvelopesSourced(log', Append(chan[k], env))
      BY <1>t, <1>2, <3>2, <3>4, SendSourced
    <3>6. CASE m = k  BY <1>t, <3>3, <3>5, <3>6
    <3>7. CASE m # k  BY <1>t, <1>2, <3>3, <3>7
    <3>8. QED  BY <3>6, <3>7
  <2>4. ASSUME NEW k \in Nodes, chan' = [chan EXCEPT ![k] = <<>>]
        PROVE  EnvelopesSourced(log', chan'[m])
    <3>1. CASE m = k
      <4>1. chan'[m] = <<>>  BY <1>t, <2>4, <3>1
      <4>2. DOMAIN <<>> = {}  OBVIOUS
      <4>3. QED  BY <4>1, <4>2 DEF EnvelopesSourced
    <3>2. CASE m # k  BY <1>t, <1>2, <2>4, <3>2
    <3>3. QED  BY <3>1, <3>2
  <2>5. ASSUME NEW k \in Nodes, chan[k] # <<>>, chan' = [chan EXCEPT ![k] = Tail(@)]
        PROVE  EnvelopesSourced(log', chan'[m])
    <3>1. CASE m = k
      <4>1. chan'[m] = Tail(chan[m]) /\ chan[m] # <<>>  BY <1>t, <2>5, <3>1
      <4>2. QED  BY <1>t, <1>2, <4>1, ReceiveSourced
    <3>2. CASE m # k  BY <1>t, <1>2, <2>5, <3>2
    <3>3. QED  BY <3>1, <3>2
  <2>6. QED  BY <2>1, <2>2, <2>3, <2>4, <2>5, ChannelFrame
<1>4. QED  BY <1>1, <1>3 DEF Provenance, EnvelopesSourced

\* Facts about the Leader of the current epoch that the floor proofs share: the
\* control plane names it, and a heartbeat it accepts comes from it.
LEMMA CurrentOwner ==
    ASSUME IInv, NEW l \in Nodes, ServerAccepts(l), renewal[l] # {}
    PROVE  /\ Owns(log, l)
           /\ CertEpoch(log[l]) = server.epoch
           /\ \A n \in Nodes :
                Owns(log, n) /\ CertEpoch(log[n]) = server.epoch => n = l
<1>1. Owns(log, l)  BY DEF IInv, Ownership, Reigned, Owns
<1>2. CertEpoch(log[l]) = server.epoch
  BY <1>1 DEF IInv, Ownership, Reigned, Owns, ServerAccepts
<1>3. QED  BY <1>1, <1>2 DEF IInv, OneLeaderPerEpoch, Reigned, Owns

\* The truncated log that an accepted heartbeat installs as the floor.
LEMMA AdvertisedFloor ==
    ASSUME IInv, NEW l \in Nodes, NEW r \in renewal[l]
    PROVE  /\ SubSeq(log[l], 1, r) \in Seq(Entry)
           /\ Len(SubSeq(log[l], 1, r)) = r
           /\ IsPrefix(SubSeq(log[l], 1, r), log[l])
           /\ r \in Nat /\ repl[l] \in Nat /\ r <= repl[l]
<1>1. log[l] \in Seq(Entry) /\ r \in Nat /\ repl[l] \in Nat  BY DEF IInv, TypeOK
<1>2. r <= repl[l] /\ repl[l] <= Len(log[l])  BY DEF IInv, Advertising
<1>3. r <= Len(log[l])  BY <1>1, <1>2, LenProperties
<1>4. QED  BY <1>1, <1>2, <1>3, TruncationIsPrefix

\* What the Leader of an epoch advertises moves up only.
LEMMA AdvertisedGrows ==
    ASSUME IInv, [Next]_vars, NEW n \in Nodes, ~Claim(n)
    PROVE  /\ repl[n] \in Nat /\ repl'[n] \in Nat
           /\ repl[n] <= repl'[n]
           /\ repl'[n] <= Len(log'[n])
           /\ \A r \in renewal'[n] : r \in renewal[n] \/ r = repl[n]
<1>t. TypeOK  BY DEF IInv
<1>l. Len(log[n]) \in Nat /\ Len(log'[n]) \in Nat /\ Len(log[n]) <= Len(log'[n])
  BY <1>t, TypeStep, LenProperties, LogGrowth DEF TypeOK
<1>r. repl[n] \in Nat /\ repl[n] <= Len(log[n])  BY <1>t DEF IInv, Advertising, TypeOK
<1>1. CASE UNCHANGED <<repl, renewal>>  BY <1>l, <1>r, <1>1
<1>2. ASSUME NEW l \in Nodes, NEW m \in Nodes, HandleAck(l, m)
      PROVE  /\ repl'[n] \in Nat
             /\ repl[n] <= repl'[n]
             /\ repl'[n] <= Len(log'[n])
             /\ renewal' = renewal
  <2>1. PICK a \in acks[m] : /\ IsPrefix(a, log[l])
                             /\ repl' = [repl EXCEPT ![l] = IF Len(a) > @ THEN Len(a) ELSE @]
    BY <1>2 DEF HandleAck
  <2>2. a \in Seq(Entry) /\ log[l] \in Seq(Entry)  BY <1>t DEF TypeOK
  <2>3. Len(a) \in Nat /\ Len(a) <= Len(log[l])  BY <2>1, <2>2, PrefixByEntries, LenProperties
  <2>4. CASE n = l
    <3>1. repl'[n] = IF Len(a) > repl[n] THEN Len(a) ELSE repl[n]
      BY <1>t, <2>1, <2>4 DEF TypeOK
    <3>2. repl'[n] \in Nat /\ repl[n] <= repl'[n] /\ repl'[n] <= Len(log[n])
      BY <1>r, <2>3, <2>4, <3>1
    <3>3. QED  BY <1>2, <1>l, <3>2 DEF HandleAck
  <2>5. CASE n # l
    <3>1. repl'[n] = repl[n]  BY <1>t, <2>1, <2>5 DEF TypeOK
    <3>2. QED  BY <1>2, <1>l, <1>r, <3>1 DEF HandleAck
  <2>6. QED  BY <2>4, <2>5
<1>3. ASSUME NEW l \in Nodes, RenewSend(l)
      PROVE  repl' = repl /\ \A r \in renewal'[n] : r \in renewal[n] \/ r = repl[n]
  BY <1>t, <1>3 DEF RenewSend, Advertised, TypeOK
<1>4. ASSUME NEW l \in Nodes, RenewArrive(l)
      PROVE  repl' = repl /\ \A r \in renewal'[n] : r \in renewal[n]
  BY <1>t, <1>4 DEF RenewArrive, TypeOK
<1>5. ASSUME NEW m \in Nodes, Claim(m), m # n
      PROVE  repl'[n] = repl[n] /\ renewal' = renewal
  BY <1>5, ClaimFacts
<1>6. QED  BY <1>l, <1>r, <1>1, <1>2, <1>3, <1>4, <1>5, AdvertisingFrame

\* The checkpoint a Leader advertises stays within its log and above the floor.
LEMMA AdvertisingStep == IInv /\ [Next]_vars => Advertising'
<1> SUFFICES ASSUME IInv, [Next]_vars PROVE Advertising'  OBVIOUS
<1>t. TypeOK  BY DEF IInv
<1>1. ASSUME NEW n \in Nodes
      PROVE  repl'[n] <= Len(log'[n]) /\ \A r \in renewal'[n] : r <= repl'[n]
  <2>1. CASE ~Claim(n)
    <3>1. \A r \in renewal[n] : r \in Nat /\ r <= repl[n]
      BY <1>t DEF IInv, Advertising, TypeOK
    <3>2. QED  BY <2>1, <3>1, AdvertisedGrows
  <2>2. CASE Claim(n)
    <3>1. repl'[n] <= Len(log'[n])  BY <2>2, ClaimFacts
    <3>2. renewal'[n] = {}
      BY <2>2, ClaimFacts DEF IInv, Ownership, Reigned, Owns
    <3>3. QED  BY <3>1, <3>2
  <2>3. QED  BY <2>1, <2>2
<1>2. ASSUME NEW n \in Nodes, Owns(log', n), CertEpoch(log'[n]) = server'.epoch
      PROVE  /\ Len(server'.floor) <= repl'[n]
             /\ \A r \in renewal'[n] : Len(server'.floor) <= r
  <2>1. CASE Owns(log, n) /\ ~Claim(n)
    <3>1. CertEpoch(log[n]) = server'.epoch /\ CertEpoch(log[n]) <= server.epoch
      BY <1>2, <2>1, OwnerStays
    <3>2. server'.epoch = server.epoch /\ server.epoch \in Nat  BY <3>1, EpochsGrow
    <3>3. /\ Len(server.floor) <= repl[n]
          /\ \A r \in renewal[n] : Len(server.floor) <= r
      BY <2>1, <3>1, <3>2 DEF IInv, Advertising, Reigned, Owns
    <3>4. Len(server.floor) \in Nat  BY <1>t, LenProperties DEF TypeOK
    <3>5. CASE server'.floor = server.floor
      <4>1. /\ repl[n] \in Nat /\ repl'[n] \in Nat /\ repl[n] <= repl'[n]
            /\ \A r \in renewal'[n] : r \in renewal[n] \/ r = repl[n]
        BY <2>1, AdvertisedGrows
      <4>2. QED  BY <3>3, <3>4, <3>5, <4>1
    <3>6. ASSUME NEW l \in Nodes, NEW r \in renewal[l], ServerAccepts(l),
                 server'.floor = SubSeq(log[l], 1, r), repl' = repl, renewal'[l] = {}
          PROVE  /\ Len(server'.floor) <= repl'[n]
                 /\ \A q \in renewal'[n] : Len(server'.floor) <= q
      <4>1. n = l  BY <2>1, <3>1, <3>2, <3>6, CurrentOwner
      <4>2. QED  BY <3>6, <4>1, AdvertisedFloor
    <3>7. QED  BY <3>2, <3>5, <3>6, ServerMoves
  <2>2. CASE Claim(n)
    <3>1. renewal'[n] = {}  BY <2>2, ClaimFacts DEF IInv, Ownership, Reigned, Owns
    <3>2. Len(server'.floor) = repl'[n] /\ repl'[n] \in Nat
      BY <1>t, <2>2, ClaimFacts, LenProperties DEF TypeOK
    <3>3. QED  BY <3>1, <3>2
  <2>3. QED  BY <1>2, <2>1, <2>2, NewOwner
<1>3. QED  BY <1>1, <1>2 DEF Advertising, Reigned, Owns

\* The Leader of the current epoch continues the floor after every step.
LEMMA FloorInLeaderStep == IInv /\ [Next]_vars => FloorInLeader'
<1> SUFFICES ASSUME IInv, [Next]_vars, NEW n \in Nodes,
                    Owns(log', n), CertEpoch(log'[n]) = server'.epoch
             PROVE  IsPrefix(server'.floor, log'[n])
  BY DEF FloorInLeader, Reigned, Owns
<1>t. TypeOK /\ TypeOK'  BY TypeStep DEF IInv
<1>1. CASE Owns(log, n)
  <2>1. CertEpoch(log[n]) = server'.epoch /\ CertEpoch(log[n]) <= server.epoch
    BY <1>1, OwnerStays
  <2>2. server'.epoch = server.epoch /\ server.epoch \in Nat  BY <2>1, EpochsGrow
  <2>3. IsPrefix(log[n], log'[n])  BY <1>1, OwnerStays
  <2>4. CASE server'.floor = server.floor
    <3>1. IsPrefix(server.floor, log[n])
      BY <1>1, <2>1, <2>2 DEF IInv, FloorInLeader, Reigned, Owns
    <3>2. server.floor \in Seq(Entry) /\ log[n] \in Seq(Entry) /\ log'[n] \in Seq(Entry)
      BY <1>t DEF TypeOK
    <3>3. IsPrefix(server.floor, log'[n])  BY <2>3, <3>1, <3>2, PrefixTransitive
    <3>4. QED  BY <2>4, <3>3
  <2>5. ASSUME NEW l \in Nodes, NEW r \in renewal[l], ServerAccepts(l),
               server'.floor = SubSeq(log[l], 1, r), log' = log
        PROVE  IsPrefix(server'.floor, log'[n])
    <3>1. n = l  BY <1>1, <2>1, <2>2, <2>5, CurrentOwner
    <3>2. QED  BY <2>5, <3>1, AdvertisedFloor
  <2>6. QED  BY <2>2, <2>4, <2>5, ServerMoves
<1>2. CASE Claim(n)  BY <1>2, ClaimFacts
<1>3. QED  BY <1>1, <1>2, NewOwner

\* The floor after a step continues the floor before it.
LEMMA FloorStep == IInv /\ [Next]_vars => IsPrefix(server.floor, server'.floor)
<1> SUFFICES ASSUME IInv, [Next]_vars PROVE IsPrefix(server.floor, server'.floor)  OBVIOUS
<1>t. /\ server.floor \in Seq(Entry)
      /\ log \in [Nodes -> Seq(Entry)]
      /\ Len(server.floor) \in Nat
  BY LenProperties DEF IInv, TypeOK
<1>1. CASE server'.floor = server.floor  BY <1>t, <1>1, PrefixReflexive
<1>2. ASSUME NEW l \in Nodes, NEW r \in renewal[l], ServerAccepts(l),
             server'.floor = SubSeq(log[l], 1, r)
      PROVE  IsPrefix(server.floor, server'.floor)
  <2>1. Owns(log, l) /\ CertEpoch(log[l]) = server.epoch  BY <1>2, CurrentOwner
  <2>2. IsPrefix(server.floor, log[l]) /\ Len(server.floor) <= r
    BY <2>1 DEF IInv, FloorInLeader, Advertising, Reigned, Owns
  <2>3. QED  BY <1>t, <1>2, <2>2, AdvertisedFloor, PrefixesOrderedByLength, ZenonT(60)
<1>3. ASSUME NEW m \in Nodes, ClaimWins(m), Certified(log[m]), server'.floor = log[m]
      PROVE  IsPrefix(server.floor, server'.floor)
  <2> DEFINE n == Last(log[m]).leader
  <2>1. n \in Nodes
    <3>1. Last(log[m]) \in Entry  BY <1>t, <1>3, LastInSet DEF Certified
    <3>2. QED  BY <3>1 DEF Entry
  <2>2. Owns(log, n) /\ CertEpoch(log[n]) = CertEpoch(log[m]) /\ IsPrefix(log[m], log[n])
    BY <1>3 DEF IInv, Provenance, Sourced
  <2> HIDE DEF n
  <2>3. CertEpoch(log[m]) = server.epoch /\ Len(server.floor) <= Len(log[m])
    BY <1>t, <1>3, LenProperties DEF ClaimWins
  <2>4. IsPrefix(server.floor, log[n])
    BY <2>1, <2>2, <2>3 DEF IInv, FloorInLeader, Reigned, Owns
  <2>5. QED  BY <1>t, <1>3, <2>1, <2>2, <2>3, <2>4, PrefixesOrderedByLength
<1>4. QED  BY <1>1, <1>2, <1>3, ServerMoves

\* A checkpoint is only exchanged for one of its epoch or of a later one.
LEMMA FencingStep ==
    IInv /\ [Next]_vars =>
        \A n \in Nodes : Certified(log[n]) =>
            Certified(log'[n]) /\ CertEpoch(log[n]) <= CertEpoch(log'[n])
<1> SUFFICES ASSUME IInv, [Next]_vars, NEW n \in Nodes, Certified(log[n])
             PROVE  Certified(log'[n]) /\ CertEpoch(log[n]) <= CertEpoch(log'[n])
  OBVIOUS
<1>1. Last(log[n]) \in Entry  BY LastInSet DEF IInv, TypeOK, Certified
<1>2. CertEpoch(log[n]) \in Nat /\ CertEpoch(log[n]) <= repEpoch[n]
  BY <1>1, BoundsAssumption DEF IInv, EpochOrder, CertEpoch, Entry, Epochs
<1>3. repEpoch[n] \in Nat /\ repEpoch'[n] \in Nat /\ repEpoch[n] <= repEpoch'[n]
  BY EpochsGrow
<1>4. log'[n] = log[n] \/ CertEpoch(log'[n]) = repEpoch'[n]  BY LogMoves
<1>5. Certified(log'[n])  BY LogGrowth
<1>6. QED  BY <1>2, <1>3, <1>4, <1>5

-----------------------------------------------------------------------------
(* The invariant and the theorems                                            *)

\* The started room: the Host owns the snapshot, the Members hold nothing yet.
LEMMA InitIInv == Init => IInv
<1> SUFFICES ASSUME Init PROVE IInv  OBVIOUS
<1> USE HostAssumption
<1>t. TypeOK  BY InitType
<1>s. /\ Snapshot \in Seq(Entry)
      /\ Certified(Snapshot)
      /\ Last(Snapshot).leader = Host
      /\ CertEpoch(Snapshot) = 0
  <2>1. log[Host] = Snapshot  BY DEF Init
  <2>2. Snapshot \in Seq(Entry)  BY <1>t, <2>1 DEF TypeOK
  <2>3. Snapshot # <<>> /\ Last(Snapshot) = [epoch |-> 0, leader |-> Host, fin |-> FALSE]
    BY DEF Snapshot, Last
  <2>4. QED  BY <2>2, <2>3 DEF Certified, CertEpoch
<1>l. log[Host] = Snapshot /\ \A n \in Nodes \ {Host} : log[n] = <<>>  BY DEF Init
<1>o. \A n \in Nodes : Owns(log, n) <=> n = Host  BY <1>s, <1>l DEF Owns, Certified
<1>r. \A n \in Nodes : Reigned(n) <=> n = Host  BY <1>o DEF Owns, Reigned
<1>1. Ownership
  <2>1. /\ \A n \in Nodes : pc[n] = IF n = Host THEN "leader" ELSE "member"
        /\ \A n \in Nodes : renewal[n] = {} /\ repEpoch[n] = 0
    BY DEF Init
  <2>2. QED  BY <1>s, <1>l, <1>r, <2>1 DEF Ownership, Leading
<1>2. EpochOrder
  <2>1. /\ server.epoch = 0 /\ server.leader = Host
        /\ \A n \in Nodes : repEpoch[n] = 0
    BY DEF Init
  <2>2. QED  BY <1>s, <1>l, <1>r, <2>1 DEF EpochOrder, Certified
<1>3. OneLeaderPerEpoch  BY <1>r DEF OneLeaderPerEpoch
<1>4. Provenance
  <2>1. Sourced(log, Snapshot)
    <3>1. IsPrefix(Snapshot, Snapshot)  BY <1>s, PrefixReflexive
    <3>2. QED  BY <1>s, <1>l, <1>o, <3>1 DEF Sourced
  <2>2. ASSUME NEW m \in Nodes, NEW i \in DOMAIN chan[m]
        PROVE  chan[m][i].log = Snapshot
    <3>1. chan[m] = IF m = Host THEN <<>> ELSE <<[log |-> Snapshot, full |-> TRUE]>>
      BY DEF Init
    <3>2. QED  BY <2>2, <3>1
  <2>3. QED  BY <1>l, <2>1, <2>2 DEF Provenance, Certified
<1>5. Advertising
  <2>1. /\ \A n \in Nodes : repl[n] = 0 /\ renewal[n] = {}
        /\ server.floor = <<>>
    BY DEF Init
  <2>2. Len(server.floor) = 0 /\ \A n \in Nodes : 0 <= Len(log[n])
    BY <1>t, <2>1, EmptySeq, LenProperties DEF TypeOK
  <2>3. QED  BY <2>1, <2>2 DEF Advertising
<1>6. FloorInLeader
  <2>1. server.floor = <<>>  BY DEF Init
  <2>2. QED  BY <1>t, <2>1, PrefixOfEmpty DEF FloorInLeader, TypeOK
<1>7. QED  BY <1>t, <1>1, <1>2, <1>3, <1>4, <1>5, <1>6 DEF IInv

\* Every reachable state satisfies the inductive invariant.
THEOREM Invariance == Spec => []IInv
<1>1. Init => IInv  BY InitIInv
<1>2. IInv /\ [Next]_vars => IInv'
  BY TypeStep, OwnershipStep, EpochOrderStep, OneLeaderStep, ProvenanceStep,
     AdvertisingStep, FloorInLeaderStep
  DEF IInv
<1>3. QED  BY <1>1, <1>2, PTL DEF Spec

\* Every variable of the room keeps its type, for any number of Members, any
\* bound on records, epochs and faults.
THEOREM TypeCorrect == Spec => []TypeOK
<1>1. IInv => TypeOK  BY DEF IInv
<1>2. QED  BY <1>1, Invariance, PTL

\* Split brain is excluded: two authorities never sign for one epoch.
THEOREM NoSplitBrain == Spec => []OneLeaderPerEpoch
<1>1. IInv => OneLeaderPerEpoch  BY DEF IInv
<1>2. QED  BY <1>1, Invariance, PTL

\* The Leader of the current epoch holds every record below the recovery floor.
THEOREM LeaderHoldsFloor == Spec => []FloorInLeader
<1>1. IInv => FloorInLeader  BY DEF IInv
<1>2. QED  BY <1>1, Invariance, PTL

\* No heartbeat and no claim moves the recovery floor back or onto another branch.
THEOREM FloorIsMonotone == Spec => FloorNeverRollsBack
<1>1. IInv /\ [Next]_vars => [IsPrefix(server.floor, server.floor')]_vars
  <2>1. server'.floor = server.floor'  OBVIOUS
  <2>2. QED  BY <2>1, FloorStep
<1>2. QED  BY <1>1, Invariance, PTL DEF Spec, FloorNeverRollsBack

\* The epoch fences: no replica returns to the checkpoints of an older Leader.
THEOREM EpochFences == Spec => EpochFencing
<1>1. IInv /\ [Next]_vars =>
        [\A n \in Nodes : Certified(log[n]) =>
            Certified(log'[n]) /\ CertEpoch(log[n]) <= CertEpoch(log'[n])]_vars
  BY FencingStep
<1>2. QED  BY <1>1, Invariance, PTL DEF Spec, EpochFencing
=============================================================================
