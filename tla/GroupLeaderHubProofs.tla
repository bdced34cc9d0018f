------------------------- MODULE GroupLeaderHubProofs -------------------------
(***************************************************************************)
(* Theorems about GroupLeaderHub for any number of channels, records and   *)
(* inputs: no channel misses a record, a registered channel is served, a   *)
(* Member that answers is not detached for a late acknowledgement, and one *)
(* that leaves a record unread is watched.                                 *)
(***************************************************************************)
EXTENDS MCGroupLeaderHub, Sequences, SequencesExt, SequenceTheorems, TLAPS

\* Appending a message adds it to the messages on the way.
LEMMA ToSetAppend ==
    ASSUME NEW S, NEW s \in Seq(S), NEW e \in S
    PROVE  Append(s, e) \in Seq(S) /\ ToSet(Append(s, e)) = ToSet(s) \union {e}
<1>1. /\ Append(s, e) \in Seq(S)
      /\ Len(Append(s, e)) = Len(s) + 1
      /\ \A i \in 1..Len(s) : Append(s, e)[i] = s[i]
      /\ Append(s, e)[Len(s) + 1] = e
  BY AppendProperties
<1>2. /\ Len(s) \in Nat /\ DOMAIN s = 1..Len(s)
      /\ DOMAIN Append(s, e) = 1..(Len(s) + 1)
  BY <1>1, LenProperties
<1>3. \A i \in 1..(Len(s) + 1) : i \in 1..Len(s) \/ i = Len(s) + 1  BY <1>2
<1>4. 1..Len(s) \subseteq 1..(Len(s) + 1) /\ Len(s) + 1 \in 1..(Len(s) + 1)  BY <1>2
<1>5. ToSet(Append(s, e)) \subseteq ToSet(s) \union {e}
  BY <1>1, <1>2, <1>3 DEF ToSet
<1>6. ToSet(s) \union {e} \subseteq ToSet(Append(s, e))
  BY <1>1, <1>2, <1>4 DEF ToSet
<1>7. QED  BY <1>1, <1>5, <1>6

\* An element of a sequence.
LEMMA ToSetElement ==
    ASSUME NEW S, NEW s \in Seq(S), NEW i \in DOMAIN s
    PROVE  s[i] \in ToSet(s) /\ s[i] \in S
BY DEF ToSet

\* What is not the first message stays when that one is taken.
LEMMA HeadOrTail ==
    ASSUME NEW S, NEW s \in Seq(S), s # <<>>
    PROVE  ToSet(s) \subseteq {Head(s)} \union ToSet(Tail(s))
<1>1. /\ Tail(s) \in Seq(S) /\ Len(Tail(s)) = Len(s) - 1
      /\ \A i \in 1..Len(Tail(s)) : Tail(s)[i] = s[i + 1]
  BY HeadTailProperties
<1>2. Len(s) \in Nat /\ DOMAIN s = 1..Len(s) /\ DOMAIN Tail(s) = 1..Len(Tail(s))
  BY <1>1, LenProperties
<1>3. SUFFICES ASSUME NEW i \in 1..Len(s) PROVE s[i] \in {Head(s)} \union ToSet(Tail(s))
  BY <1>2 DEF ToSet
<1>4. CASE i = 1  BY <1>4
<1>5. CASE i # 1
  <2>1. i - 1 \in 1..Len(Tail(s)) /\ Tail(s)[i - 1] = s[i]  BY <1>1, <1>2, <1>5
  <2>2. QED  BY <1>2, <2>1 DEF ToSet
<1>6. QED  BY <1>4, <1>5

Message == Frame \union Notice

Framed(w) == \E i \in DOMAIN w : IsFrame(w[i])
HasFrame(c) == Framed(wire[c])
Unread(c) == \E i \in DOMAIN wire[c] : i > read[c] /\ IsFrame(wire[c][i])

\* An acknowledgement of s or more is on its way from channel c.
AckComing(c, s) ==
    \E e \in ToSet(up[c]) \union ToSet(queue) : e.kind = "ack" /\ e.seq >= s

\* The Member leaves a channel before it opens the next, and its replica covers
\* every frame it has read on the channel it is on.
MemberInv ==
    /\ ch = conns
    /\ gone = IF mode = "off" THEN 1..conns ELSE 1..(conns - 1)
    /\ mode # "off" => conns > 0
    /\ \A c \in Chans : read[c] <= Len(wire[c])
    /\ mode = "await" => read[ch] = 0
    /\ mode = "run" =>
         /\ read[ch] > 0
         /\ \A i \in DOMAIN wire[ch] :
               i <= read[ch] /\ IsFrame(wire[ch][i]) => wire[ch][i].seq <= held

\* The accept loop works on the newest channel it has taken, nothing is on a
\* channel that was never registered, and a send under way has a frame there.
AcceptInv ==
    /\ accept.ch <= conns
    /\ reg <= accept.ch
    /\ accept.pc # "idle" => accept.ch > 0 /\ reg \in {0, accept.ch}
    /\ accept.pc = "closing" => reg = 0
    /\ \A c \in Chans :
         c > accept.ch \/ (accept.pc = "closing" /\ c = accept.ch) => wire[c] = <<>>
    /\ accept.pc = "sending" => HasFrame(accept.ch)
    /\ run.pc = "sending" /\ run.ch # 0 => HasFrame(run.ch)

\* A channel of an authority whose last record is s: only the first message may be
\* no frame, and each frame continues the one before it.
Contiguous(w, s) ==
    \A i \in DOMAIN w :
        /\ IsFrame(w[i]) => w[i].seq <= s
        /\ i > 1 => IsFrame(w[i])
        /\ i > 1 /\ IsFrame(w[i - 1]) =>
              w[i].seq = w[i - 1].seq + (IF w[i].kind = "boot" THEN 0 ELSE 1)

\* The last frame of a channel is the authority's last record.
Current(w, s) == \A i \in DOMAIN w : i = Len(w) /\ IsFrame(w[i]) => w[i].seq = s

WireInv ==
    /\ \A c \in Chans : Contiguous(wire[c], seq)
    /\ ~known => seq < MaxSeq /\ \A c \in Chans : ~HasFrame(c)
    /\ reg # 0 => Current(wire[reg], seq)

\* What is registered is watched: every frame on it is acknowledged, tracked, or
\* its send is under way.
Watched ==
    reg # 0 => \A i \in DOMAIN wire[reg] : IsFrame(wire[reg][i]) =>
        wire[reg][i].seq <= acked \/ wire[reg][i].seq <= pend \/ Sending(reg)

\* The seq of the Member's replica is acknowledged, or that is on its way.
HeldAnswered == mode = "run" /\ reg = ch => held <= acked \/ AckComing(reg, held)

\* What is tracked was sent on the registered channel and is not acknowledged.
Tracking ==
    /\ pend # 0 => reg # 0 /\ HasFrame(reg) /\ pend > acked
    /\ pend <= seq

\* The receiver of a registered channel is not cancelled.
ReceiverKept == reg # 0 => task[reg] # "cancelled"

BookInv ==
    /\ RegisteredIsServed
    /\ ReceiverKept
    /\ Tracking
    /\ HeldAnswered
    /\ Watched

IInv == TypeOK /\ MemberInv /\ AcceptInv /\ WireInv /\ BookInv

-----------------------------------------------------------------------------
(* The channels                                                              *)

Appended(c, m) == c \in Chans /\ m \in Message /\ wire' = [wire EXCEPT ![c] = Append(@, m)]

\* Nothing is sent; what is registered stays, goes, or is a fresh channel.
Silent ==
    /\ UNCHANGED <<wire, seq, known>>
    /\ reg' \in {reg, 0} \/ (reg' \in Chans /\ wire[reg'] = <<>>)

\* A notice is sent to a registered channel that is still empty.
Noticed ==
    /\ UNCHANGED <<seq, known, reg>>
    /\ reg \in Chans /\ wire[reg] = <<>>
    /\ \E n \in Notice : Appended(reg, n)

\* A bootstrap is sent to the channel that is then registered.
Booted ==
    /\ reg' \in Chans /\ (reg' = reg \/ wire[reg'] = <<>>)
    /\ known' = TRUE
    /\ seq' = IF known THEN seq ELSE seq + 1
    /\ Appended(reg', [kind |-> "boot", seq |-> seq'])

\* The Member is made one, but its channel is gone.
JoinedOnly ==
    /\ ~known /\ known' = TRUE
    /\ seq' = seq + 1
    /\ UNCHANGED <<wire, reg>>

\* A record goes to the registered channel of a Member.
Recorded ==
    /\ Room
    /\ seq' = seq + 1
    /\ UNCHANGED <<known, reg>>
    /\ IF known /\ reg # 0 THEN Appended(reg, [kind |-> "record", seq |-> seq + 1])
       ELSE wire' = wire

WireStep == Silent \/ Noticed \/ Booted \/ JoinedOnly \/ Recorded

\* A frame is a message with a seq, and a notice is none.
LEMMA MessageKinds ==
    /\ \A m \in Message : IsFrame(m) => m \in Frame /\ m.seq \in 1..MaxSeq
    /\ \A m \in Frame : IsFrame(m)
    /\ \A m \in Notice : ~IsFrame(m)
    /\ Message = Frame \union Notice
BY DEF Message, Frame, Notice, IsFrame

\* What an append does to one channel, entry by entry.
LEMMA AppendedEffect ==
    ASSUME wire \in [Chans -> Seq(Message)], NEW c, NEW m, Appended(c, m)
    PROVE  /\ c \in Chans /\ m \in Message
           /\ wire' \in [Chans -> Seq(Message)]
           /\ \A d \in Chans \ {c} : wire'[d] = wire[d]
           /\ wire'[c] = Append(wire[c], m)
           /\ Len(wire'[c]) = Len(wire[c]) + 1
           /\ DOMAIN wire[c] = 1..Len(wire[c]) /\ DOMAIN wire'[c] = 1..Len(wire'[c])
           /\ Len(wire[c]) \in Nat
           /\ \A i \in DOMAIN wire[c] : wire'[c][i] = wire[c][i]
           /\ wire'[c][Len(wire'[c])] = m
<1>1. c \in Chans /\ m \in Message /\ wire[c] \in Seq(Message)  BY DEF Appended
<1>2. wire' = [wire EXCEPT ![c] = Append(wire[c], m)]  BY DEF Appended
<1>3. /\ Append(wire[c], m) \in Seq(Message)
      /\ Len(Append(wire[c], m)) = Len(wire[c]) + 1
      /\ \A i \in 1..Len(wire[c]) : Append(wire[c], m)[i] = wire[c][i]
      /\ Append(wire[c], m)[Len(wire[c]) + 1] = m
  BY <1>1, AppendProperties
<1>4. wire'[c] = Append(wire[c], m) /\ \A d \in Chans \ {c} : wire'[d] = wire[d]
  BY <1>1, <1>2
<1>5. wire' \in [Chans -> Seq(Message)]  BY <1>1, <1>2, <1>3
<1>6. /\ Len(wire[c]) \in Nat /\ DOMAIN wire[c] = 1..Len(wire[c])
      /\ DOMAIN wire'[c] = 1..Len(wire'[c])
  BY <1>1, <1>3, <1>4, LenProperties
<1>7. QED  BY <1>1, <1>3, <1>4, <1>5, <1>6

\* A channel stays contiguous while the authority goes on, and current if it has no
\* frame.
LEMMA ContiguousLater ==
    ASSUME NEW w \in Seq(Message), NEW s \in Nat, NEW s2 \in Nat, Contiguous(w, s), s <= s2
    PROVE  /\ Contiguous(w, s2)
           /\ (\A i \in DOMAIN w : ~IsFrame(w[i])) => Current(w, s2)
<1>1. \A i \in DOMAIN w : IsFrame(w[i]) => w[i].seq \in Nat
  BY LenProperties, ElementOfSeq, MessageKinds
<1>2. \A i \in DOMAIN w : IsFrame(w[i]) => w[i].seq <= s2  BY <1>1 DEF Contiguous
<1>3. QED  BY <1>2 DEF Contiguous, Current

\* m may follow on channel w: a first message, the bootstrap that repeats the last
\* record, or the record after it.
Continues(w, m, s, s2) ==
    \/ w = <<>> /\ ~IsFrame(m)
    \/ /\ IsFrame(m) /\ m.seq = s2
       /\ \/ \A i \in DOMAIN w : ~IsFrame(w[i])
          \/ s2 = s /\ m.kind = "boot"
          \/ s2 = s + 1 /\ m.kind = "record"

\* A channel stays contiguous and current when it gets such a message.
LEMMA ContiguousAppend ==
    ASSUME NEW w \in Seq(Message), NEW v \in Seq(Message), NEW m \in Message,
           NEW s \in Nat, NEW s2 \in Nat,
           Contiguous(w, s), Current(w, s), s <= s2,
           Len(v) = Len(w) + 1, \A i \in DOMAIN w : v[i] = w[i], v[Len(v)] = m,
           Continues(w, m, s, s2)
    PROVE  Contiguous(v, s2) /\ Current(v, s2)
<1>1. /\ Len(w) \in Nat /\ DOMAIN w = 1..Len(w)
      /\ Len(v) \in Nat /\ DOMAIN v = 1..Len(v)
  BY LenProperties
<1>2. \A i \in DOMAIN w : w[i] \in Message  BY <1>1, ElementOfSeq
<1>3. Current(v, s2)  BY <1>1 DEF Current, Continues
<1>4. SUFFICES ASSUME NEW i \in DOMAIN v
               PROVE  /\ IsFrame(v[i]) => v[i].seq <= s2
                      /\ i > 1 => IsFrame(v[i])
                      /\ i > 1 /\ IsFrame(v[i - 1]) =>
                           v[i].seq = v[i - 1].seq + (IF v[i].kind = "boot" THEN 0 ELSE 1)
  BY <1>3 DEF Contiguous
<1>5. CASE i \in DOMAIN w
  <2>1. v[i] = w[i] /\ (i > 1 => i - 1 \in DOMAIN w /\ v[i - 1] = w[i - 1])  BY <1>1, <1>5
  <2>2. IsFrame(w[i]) => w[i].seq \in Nat  BY <1>2, <1>5, MessageKinds
  <2>3. /\ IsFrame(w[i]) => w[i].seq <= s
        /\ i > 1 => IsFrame(w[i])
        /\ i > 1 /\ IsFrame(w[i - 1]) =>
              w[i].seq = w[i - 1].seq + (IF w[i].kind = "boot" THEN 0 ELSE 1)
    BY <1>5 DEF Contiguous
  <2>4. IsFrame(w[i]) => w[i].seq <= s2  BY <2>2, <2>3
  <2>5. QED  BY <2>1, <2>3, <2>4
<1>6. CASE i \notin DOMAIN w
  <2>1. i = Len(v) /\ v[i] = m  BY <1>1, <1>6
  <2>c. \/ w = <<>> /\ ~IsFrame(m)
        \/ /\ IsFrame(m) /\ m.seq = s2
           /\ \/ \A j \in DOMAIN w : ~IsFrame(w[j])
              \/ s2 = s /\ m.kind = "boot"
              \/ s2 = s + 1 /\ m.kind = "record"
    BY DEF Continues
  <2>2. CASE w = <<>> /\ ~IsFrame(m)
    <3>1. i = 1  BY <1>1, <2>1, <2>2
    <3>2. QED  BY <2>1, <2>2, <3>1
  <2>3. CASE IsFrame(m) /\ m.seq = s2
    <3>1. IsFrame(v[i]) /\ v[i].seq = s2  BY <2>1, <2>3
    <3>2. ASSUME i > 1, IsFrame(v[i - 1])
          PROVE  v[i].seq = v[i - 1].seq + (IF v[i].kind = "boot" THEN 0 ELSE 1)
      <4>1. i - 1 = Len(w) /\ Len(w) \in DOMAIN w /\ v[i - 1] = w[Len(w)]
        BY <1>1, <2>1, <3>2
      <4>2. w[Len(w)].seq = s  BY <3>2, <4>1 DEF Current
      <4>3. w # <<>> /\ ~(\A j \in DOMAIN w : ~IsFrame(w[j]))  BY <3>2, <4>1
      <4>4. (s2 = s /\ m.kind = "boot") \/ (s2 = s + 1 /\ m.kind = "record")  BY <2>c, <4>3
      <4>5. QED  BY <2>1, <2>3, <4>1, <4>2, <4>4
    <3>3. QED  BY <3>1, <3>2
  <2>4. QED  BY <2>c, <2>2, <2>3
<1>7. QED  BY <1>5, <1>6

\* The facts about the bounds and types that most steps use.
LEMMA Typed ==
    ASSUME TypeOK
    PROVE  /\ wire \in [Chans -> Seq(Message)]
           /\ \A c \in Chans : /\ Len(wire[c]) \in Nat /\ DOMAIN wire[c] = 1..Len(wire[c])
                               /\ \A i \in DOMAIN wire[c] : wire[c][i] \in Message
           /\ \A c \in Chans : read[c] \in Nat
           /\ Chans = 1..MaxConns /\ MaxConns \in Nat /\ MaxSeq \in Nat
           /\ seq \in Nat /\ acked \in Nat /\ pend \in Nat /\ held \in Nat
           /\ reg \in Nat /\ ch \in Nat /\ conns \in Nat /\ accept.ch \in Nat /\ run.ch \in Nat
           /\ (reg # 0 => reg \in Chans) /\ (ch # 0 => ch \in Chans)
<1>1. wire \in [Chans -> Seq(Message)]  BY DEF TypeOK, Message
<1>2. \A c \in Chans : /\ Len(wire[c]) \in Nat /\ DOMAIN wire[c] = 1..Len(wire[c])
                       /\ \A i \in DOMAIN wire[c] : wire[c][i] \in Message
  BY <1>1, LenProperties, ElementOfSeq
<1>3. accept.ch \in 0..MaxConns /\ run.ch \in 0..MaxConns  BY DEF TypeOK
<1>4. \A c \in Chans : read[c] \in Nat  BY DEF TypeOK
<1>5. QED  BY <1>1, <1>2, <1>3, <1>4, HubBounds DEF TypeOK, Chans

\* An empty channel is current.
LEMMA CurrentEmpty == \A s : Current(<<>>, s)
<1>1. DOMAIN <<>> = {}  OBVIOUS
<1>2. QED  BY <1>1 DEF Current

\* A step that sends m on the registered channel.
LEMMA SentKeeps ==
    ASSUME TypeOK, WireInv, NEW c \in Chans, NEW m, Appended(c, m), Current(wire[c], seq),
           reg' = c, seq' \in Nat, seq <= seq', ~known' => ~known /\ seq' < MaxSeq,
           Continues(wire[c], m, seq, seq'), IsFrame(m) => known'
    PROVE  WireInv' /\ wire' \in [Chans -> Seq(Message)]
<1>t. wire \in [Chans -> Seq(Message)] /\ seq \in Nat  BY Typed
<1>1. /\ c \in Chans /\ m \in Message
      /\ wire' \in [Chans -> Seq(Message)]
      /\ \A d \in Chans \ {c} : wire'[d] = wire[d]
      /\ Len(wire'[c]) = Len(wire[c]) + 1 /\ Len(wire[c]) \in Nat
      /\ DOMAIN wire'[c] = 1..Len(wire'[c]) /\ DOMAIN wire[c] = 1..Len(wire[c])
      /\ \A i \in DOMAIN wire[c] : wire'[c][i] = wire[c][i]
      /\ wire'[c][Len(wire'[c])] = m
  BY <1>t, AppendedEffect
<1>2. Contiguous(wire'[c], seq') /\ Current(wire'[c], seq')
  <2>1. wire[c] \in Seq(Message) /\ wire'[c] \in Seq(Message)  BY <1>t, <1>1
  <2>2. Contiguous(wire[c], seq)  BY DEF WireInv
  <2>3. QED  BY <1>t, <1>1, <2>1, <2>2, ContiguousAppend
<1>3. \A d \in Chans \ {c} : Contiguous(wire'[d], seq')
  BY <1>t, <1>1, ContiguousLater DEF WireInv
<1>4. ASSUME ~known' PROVE \A d \in Chans : ~HasFrame(d)'
  <2>1. \A d \in Chans : \A i \in DOMAIN wire[d] : ~IsFrame(wire[d][i])
    BY <1>4 DEF WireInv, HasFrame, Framed
  <2>2. ~IsFrame(m) /\ wire[c] = <<>>  BY <1>4 DEF Continues
  <2>3. \A i \in DOMAIN wire'[c] : wire'[c][i] = m  BY <1>1, <2>2
  <2>4. QED  BY <1>1, <2>1, <2>2, <2>3 DEF HasFrame, Framed
<1>5. QED  BY <1>1, <1>2, <1>3, <1>4 DEF WireInv

\* A step that sends nothing.
LEMMA SilentKeeps ==
    ASSUME TypeOK, WireInv, wire' = wire, seq' \in Nat, seq <= seq',
           ~known' => ~known /\ seq' < MaxSeq,
           reg' # 0 => reg' \in Chans,
           \/ seq' = seq /\ (reg' \in {reg, 0} \/ wire[reg'] = <<>>)
           \/ \A c \in Chans : ~HasFrame(c)
           \/ reg' = 0
    PROVE  WireInv' /\ wire' \in [Chans -> Seq(Message)]
<1>t. wire \in [Chans -> Seq(Message)] /\ seq \in Nat  BY Typed
<1>1. \A c \in Chans : Contiguous(wire[c], seq')
  BY <1>t, ContiguousLater DEF WireInv
<1>2. ASSUME reg' # 0 PROVE Current(wire[reg'], seq')
  <2>1. CASE seq' = seq /\ reg' \in {reg, 0}  BY <1>2, <2>1 DEF WireInv
  <2>2. CASE wire[reg'] = <<>>
    <3>1. \A r, s : wire[r] = <<>> => Current(wire[r], s)  BY CurrentEmpty
    <3>2. QED  BY <2>2, <3>1
  <2>3. CASE \A c \in Chans : ~HasFrame(c)  BY <1>2, <2>3 DEF HasFrame, Framed, Current
  <2>4. QED  BY <1>2, <2>1, <2>2, <2>3
<1>3. ~known' => \A c \in Chans : ~HasFrame(c)'  BY DEF WireInv, HasFrame, Framed
<1>4. QED  BY <1>t, <1>1, <1>2, <1>3 DEF WireInv

\* A step on the channels keeps them contiguous and their last frame current.
LEMMA WirePreserved ==
    ASSUME TypeOK, WireInv, WireStep
    PROVE  /\ WireInv'
           /\ wire' \in [Chans -> Seq(Message)] /\ seq' \in 1..MaxSeq /\ known' \in BOOLEAN
           /\ seq <= seq'
<1>t. /\ wire \in [Chans -> Seq(Message)] /\ seq \in 1..MaxSeq /\ known \in BOOLEAN
      /\ seq \in Nat /\ MaxSeq \in Nat
      /\ reg # 0 => reg \in Chans
      /\ 0 \notin Chans
  BY SMTT(30), Typed DEF TypeOK
<1>w. /\ ~known => seq < MaxSeq /\ \A c \in Chans : ~HasFrame(c)
      /\ reg # 0 => Current(wire[reg], seq)
  BY DEF WireInv
<1>e. \A c \in Chans : wire[c] = <<>> => Current(wire[c], seq)
  BY CurrentEmpty
<1>1. CASE Silent
  <2>1. UNCHANGED <<wire, seq, known>> /\ (reg' # 0 => reg' \in Chans)
        /\ (reg' \in {reg, 0} \/ wire[reg'] = <<>>)
    BY <1>1, <1>t DEF Silent
  <2>2. WireInv' /\ wire' \in [Chans -> Seq(Message)]  BY <1>t, <1>w, <2>1, SilentKeeps
  <2>3. QED  BY <1>t, <2>1, <2>2
<1>2. CASE Noticed
  <2>1. UNCHANGED <<seq, known, reg>> /\ reg \in Chans /\ wire[reg] = <<>>
    BY <1>2 DEF Noticed
  <2>2. PICK n \in Notice : Appended(reg, n)  BY <1>2 DEF Noticed
  <2>3. ~IsFrame(n)  BY MessageKinds
  <2>4. Continues(wire[reg], n, seq, seq')  BY <2>1, <2>3 DEF Continues
  <2>6. WireInv' /\ wire' \in [Chans -> Seq(Message)]
    BY <1>t, <1>w, <1>e, <2>1, <2>2, <2>3, <2>4, SentKeeps
  <2>5. QED  BY <1>t, <2>1, <2>6
<1>3. CASE Booted
  <2> DEFINE c == reg'  m == [kind |-> "boot", seq |-> seq']
  <2>1. /\ c \in Chans /\ known' = TRUE /\ Appended(c, m) /\ seq <= seq' /\ seq' \in 1..MaxSeq
        /\ known => seq' = seq
        /\ c = reg \/ wire[c] = <<>>
    BY <1>3, <1>t, <1>w DEF Booted
  <2>2. Current(wire[c], seq)  BY <1>w, <1>e, <1>t, <2>1
  <2>3. IsFrame(m) /\ m.seq = seq' /\ m.kind = "boot"  BY DEF IsFrame
  <2>4. seq' = seq \/ \A i \in DOMAIN wire[c] : ~IsFrame(wire[c][i])
    BY <1>w, <2>1 DEF HasFrame, Framed
  <2>5. reg' = c /\ seq' \in Nat /\ Continues(wire[c], m, seq, seq')
    BY <1>t, <2>1, <2>3, <2>4 DEF Continues
  <2>6. WireInv' /\ wire' \in [Chans -> Seq(Message)]
    <3> HIDE DEF c, m
    <3> QED  BY <2>1, <2>2, <2>3, <2>4, <2>5, SentKeeps
  <2>7. QED  BY <2>1, <2>6
<1>4. CASE JoinedOnly
  <2>1. ~known /\ known' = TRUE /\ seq' = seq + 1 /\ UNCHANGED <<wire, reg>>
    BY <1>4 DEF JoinedOnly
  <2>2. WireInv' /\ wire' \in [Chans -> Seq(Message)]  BY <1>t, <1>w, <2>1, SilentKeeps
  <2>3. QED  BY <1>t, <1>w, <2>1, <2>2
<1>5. CASE Recorded
  <2> DEFINE m == [kind |-> "record", seq |-> seq + 1]
  <2>1. /\ seq' = seq + 1 /\ UNCHANGED <<known, reg>> /\ seq' \in 1..MaxSeq
        /\ ~known => seq' < MaxSeq
    BY <1>5, <1>t DEF Recorded, Room
  <2>2. CASE known /\ reg # 0
    <3>1. Appended(reg, m) /\ reg \in Chans  BY <1>5, <1>t, <2>2 DEF Recorded
    <3>2. IsFrame(m) /\ m.seq = seq' /\ m.kind = "record"  BY <2>1 DEF IsFrame
    <3>5. Continues(wire[reg], m, seq, seq')  BY <2>1, <3>2 DEF Continues
    <3>3. WireInv' /\ wire' \in [Chans -> Seq(Message)]
      <4> HIDE DEF m
      <4> QED  BY <1>t, <1>w, <2>1, <2>2, <3>1, <3>2, <3>5, SentKeeps
    <3>4. QED  BY <1>t, <2>1, <3>3
  <2>3. CASE ~(known /\ reg # 0)
    <3>1. wire' = wire  BY <1>5, <2>3 DEF Recorded
    <3>2. WireInv' /\ wire' \in [Chans -> Seq(Message)]
      BY <1>t, <1>w, <2>1, <2>3, <3>1, SilentKeeps
    <3>3. QED  BY <1>t, <2>1, <3>2
  <2>4. QED  BY <2>2, <2>3
<1>6. QED  BY <1>1, <1>2, <1>3, <1>4, <1>5 DEF WireStep

\* No channel loses a message, and only the registered one gains one.
LEMMA WireGrows ==
    ASSUME TypeOK, WireStep, NEW c \in Chans
    PROVE  /\ Len(wire[c]) <= Len(wire'[c])
           /\ DOMAIN wire[c] \subseteq DOMAIN wire'[c]
           /\ \A i \in DOMAIN wire[c] : wire'[c][i] = wire[c][i]
           /\ c # reg' => wire'[c] = wire[c]
<1>t. wire \in [Chans -> Seq(Message)] /\ Len(wire[c]) \in Nat  BY Typed
<1>1. wire' = wire \/ \E m : Appended(reg', m)
  BY DEF WireStep, Silent, Noticed, Booted, JoinedOnly, Recorded
<1>2. CASE wire' = wire  BY <1>t, <1>2
<1>3. ASSUME NEW m, Appended(reg', m)
      PROVE  /\ Len(wire[c]) <= Len(wire'[c])
             /\ DOMAIN wire[c] \subseteq DOMAIN wire'[c]
             /\ \A i \in DOMAIN wire[c] : wire'[c][i] = wire[c][i]
             /\ c # reg' => wire'[c] = wire[c]
  <2> DEFINE r == reg'
  <2>1. Appended(r, m)  BY <1>3
  <2> HIDE DEF r
  <2>2. /\ \A d \in Chans \ {r} : wire'[d] = wire[d]
        /\ Len(wire'[r]) = Len(wire[r]) + 1
        /\ Len(wire[r]) \in Nat
        /\ DOMAIN wire[r] = 1..Len(wire[r]) /\ DOMAIN wire'[r] = 1..Len(wire'[r])
        /\ \A i \in DOMAIN wire[r] : wire'[r][i] = wire[r][i]
    BY <1>t, <2>1, AppendedEffect
  <2>3. CASE c = r
    <3>1. DOMAIN wire[r] \subseteq DOMAIN wire'[r]  BY <2>2
    <3>2. QED  BY <2>2, <2>3, <3>1 DEF r
  <2>4. CASE c # r
    <3>1. wire'[c] = wire[c]  BY <2>2, <2>4
    <3>2. QED  BY <1>t, <2>4, <3>1 DEF r
  <2>5. QED  BY <2>3, <2>4
<1>4. CASE \E m : Appended(reg', m)  BY <1>3, <1>4
<1>5. QED  BY <1>1, <1>2, <1>4

-----------------------------------------------------------------------------
(* The steps of the hub on the channels                                      *)

\* A directory or a receipt.
LEMMA NotifyStep ==
    ASSUME TypeOK, NEW kind \in {"directory", "receipt"}, Notify(kind), UNCHANGED <<seq, known, reg>>
    PROVE  Silent \/ Noticed
<1>1. CASE reg # 0 /\ wire[reg] = <<>>
  <2>1. [kind |-> kind] \in Notice /\ [kind |-> kind] \in Message  BY DEF Notice, Message
  <2>2. reg \in Chans  BY <1>1, Typed
  <2>3. wire' = [wire EXCEPT ![reg] = Append(@, [kind |-> kind])]
    BY <1>1 DEF Notify, Send
  <2>4. QED  BY <1>1, <2>1, <2>2, <2>3 DEF Noticed, Appended
<1>2. CASE ~(reg # 0 /\ wire[reg] = <<>>)  BY <1>2 DEF Notify, Silent
<1>3. QED  BY <1>1, <1>2

\* The directories, for a Member.
LEMMA DirectoryStep ==
    ASSUME TypeOK, PublishDirectory, UNCHANGED <<seq, known, reg>>
    PROVE  Silent \/ Noticed
<1>1. CASE known  BY <1>1, NotifyStep DEF PublishDirectory
<1>2. CASE ~known  BY <1>2 DEF PublishDirectory, Silent
<1>3. QED  BY <1>1, <1>2

\* The bootstrap, on a channel that is registered or not.
LEMMA BootstrapStep ==
    ASSUME TypeOK, WireInv, NEW c \in Chans, NEW here \in BOOLEAN, Bootstrap(c, here),
           here => reg' = c /\ (reg' = reg \/ wire[reg'] = <<>>), ~here => reg' = reg
    PROVE  /\ WireStep
           /\ known' = TRUE /\ (known => seq' = seq)
           /\ here => Booted /\ accept' = [pc |-> "sending", ch |-> c, join |-> ~known]
           /\ ~here => wire' = wire /\ accept' = [accept EXCEPT !.pc = "idle"]
<1>1. /\ known' = TRUE /\ seq' = (IF known THEN seq ELSE seq + 1)
      /\ here => /\ wire' = [wire EXCEPT ![c] = Append(@, [kind |-> "boot", seq |-> seq'])]
                 /\ accept' = [pc |-> "sending", ch |-> c, join |-> ~known]
      /\ ~here => wire' = wire /\ accept' = [accept EXCEPT !.pc = "idle"]
  BY DEF Bootstrap, Send
<1>2. seq' \in 1..MaxSeq
  <2>1. seq \in 1..MaxSeq /\ MaxSeq \in Nat  BY Typed DEF TypeOK
  <2>2. ~known => seq < MaxSeq  BY DEF WireInv
  <2>3. QED  BY <1>1, <2>1, <2>2
<1>3. [kind |-> "boot", seq |-> seq'] \in Message  BY <1>2 DEF Message, Frame
<1>4. here => Booted  BY <1>1, <1>3 DEF Booted, Appended
<1>5. ~here /\ ~known => JoinedOnly  BY <1>1 DEF JoinedOnly
<1>6. ~here /\ known => Silent  BY <1>1, known \in BOOLEAN DEF Silent, TypeOK
<1>7. QED  BY <1>1, <1>4, <1>5, <1>6 DEF WireStep

\* What run() does with an input.
LEMMA HandleStep ==
    ASSUME TypeOK, WireInv, NEW own \in BOOLEAN, NEW result \in Results(own),
           Handle(own, result), UNCHANGED <<known, reg>>
    PROVE  /\ WireStep
           /\ run'.ch \in 0..MaxConns
           /\ run' = [pc |-> run'.pc, ch |-> run'.ch, own |-> own]
           /\ run'.pc \in {"idle", "sending", "receipt"}
           /\ \/ UNCHANGED <<wire, seq>>
              \/ Recorded /\ run'.pc = "sending" /\ run'.ch = (IF known THEN reg ELSE 0)
           /\ run'.ch # 0 => Recorded /\ known /\ reg = run'.ch
<1>1. CASE result = "record"
  <2>1. Room  BY <1>1 DEF Results
  <2>2. seq' = seq + 1 /\ run' = [pc |-> "sending", ch |-> Recipient, own |-> own]
    BY <1>1 DEF Handle
  <2>a. /\ reg \in 0..MaxConns /\ MaxConns \in Nat
        /\ seq \in 1..MaxSeq /\ MaxSeq \in Nat
    BY Typed DEF TypeOK
  <2>3. Recipient \in 0..MaxConns /\ Recipient = (IF known THEN reg ELSE 0)
    BY <2>a DEF Recipient
  <2>4. seq + 1 \in 1..MaxSeq  BY <2>1, <2>a DEF Room
  <2>5. [kind |-> "record", seq |-> seq + 1] \in Message  BY <2>4 DEF Message, Frame
  <2>6. Recorded
    <3>1. CASE known /\ reg # 0
      <4>1. Recipient = reg /\ reg \in Chans  BY <2>3, <3>1, Typed
      <4>2. wire' = [wire EXCEPT ![reg] = Append(@, [kind |-> "record", seq |-> seq + 1])]
        BY <1>1, <3>1, <4>1 DEF Handle, Send
      <4>3. QED  BY <2>1, <2>2, <2>5, <3>1, <4>1, <4>2 DEF Recorded, Appended
    <3>2. CASE ~(known /\ reg # 0)
      <4>1. Recipient = 0  BY <2>3, <3>2
      <4>2. wire' = wire  BY <1>1, <4>1 DEF Handle
      <4>3. QED  BY <2>1, <2>2, <3>2, <4>2 DEF Recorded
    <3>3. QED  BY <3>1, <3>2
  <2>7. QED  BY <2>2, <2>3, <2>6 DEF WireStep
<1>2. CASE result # "record"
  <2>1. UNCHANGED <<wire, seq>>  BY <1>2 DEF Handle
  <2>2. /\ run' = [pc |-> IF result # "refused" THEN "sending" ELSE IF own THEN "receipt" ELSE "idle",
                   ch |-> 0, own |-> own]
    BY <1>2 DEF Handle
  <2>3. Silent  BY <2>1 DEF Silent
  <2>4. QED  BY <2>1, <2>2, <2>3, Typed DEF WireStep
<1>3. QED  BY <1>1, <1>2

\* A detachment takes the channel out of the books.
LEMMA DetachStep ==
    ASSUME TypeOK, Detach
    PROVE  /\ reg' = 0 /\ receiver' = 0 /\ acked' = 0 /\ pend' = 0
           /\ task' \in [Chans -> {"none", "running", "cancelled", "ended"}]
           /\ shut' \in SUBSET Chans
<1>1. task' = Cancelled(task) /\ shut' = (IF reg # 0 THEN shut \union {reg} ELSE shut)
  BY DEF Detach
<1>2. task' \in [Chans -> {"none", "running", "cancelled", "ended"}]
  BY <1>1 DEF TypeOK, Cancelled
<1>3. shut' \in SUBSET Chans  BY <1>1, Typed DEF TypeOK
<1>4. QED  BY <1>2, <1>3 DEF Detach

\* The channel the accept loop takes next, or closes the previous one for, is a
\* channel of the Member with nothing on it.
LEMMA NewcomerFresh ==
    ASSUME TypeOK, AcceptInv
    PROVE  /\ accept.pc # "idle" => accept.ch \in Chans
           /\ Waiting => Newcomer \in Chans
           /\ \A c : (accept.pc = "closing" \/ Waiting)
                     /\ c = (IF accept.pc = "closing" THEN accept.ch ELSE Newcomer) =>
                    c \in Chans /\ wire[c] = <<>>
<1>b. /\ conns \in 0..MaxConns /\ accept.ch \in Nat /\ Chans = 1..MaxConns /\ MaxConns \in Nat
      /\ accept.ch <= conns
  BY Typed DEF TypeOK, AcceptInv
<1>1. accept.pc # "idle" => accept.ch \in Chans
  <2>1. accept.pc # "idle" => accept.ch > 0  BY DEF AcceptInv
  <2>2. QED  BY <2>1, <1>b
<1>2. Waiting => Newcomer \in Chans /\ Newcomer > accept.ch
  <2>1. Waiting => Newcomer <= conns /\ Newcomer = accept.ch + 1  BY DEF Waiting, Newcomer
  <2>2. QED  BY <2>1, <1>b
<1>3. accept.pc = "closing" => wire[accept.ch] = <<>>  BY <1>1 DEF AcceptInv
<1>4. Waiting => wire[Newcomer] = <<>> /\ accept.pc # "closing"  BY <1>2 DEF AcceptInv, Waiting
<1>5. QED  BY <1>1, <1>2, <1>3, <1>4

\* What each step does to the channels.
LEMMA NextWireStep ==
    ASSUME TypeOK, MemberInv, AcceptInv, WireInv, Next
    PROVE  WireStep
<1> DEFINE Same == UNCHANGED <<wire, seq, known>> /\ reg' \in {reg, 0}
<1>s. Same => WireStep  BY DEF WireStep, Silent
<1>q. Silent \/ Noticed => WireStep  BY DEF WireStep
<1> HIDE DEF Same
<1>1. CASE Open \/ Read \/ SendInput \/ SeeClosed \/ Drop \/ Stall
  BY <1>1, <1>s DEF Same, Open, Read, SendInput, SeeClosed, Drop, Stall, hub, auth
<1>2. CASE \E c \in Chans : Receive(c) \/ ReceiverEnds(c)
  BY <1>2, <1>s DEF Same, Receive, ReceiverEnds, book, auth
<1>3. CASE AdmissionFails \/ Unregister \/ Bootstrapped \/ HandleDisconnect \/ HandleAck \/ Watchdog
  BY <1>3, <1>s DEF Same, AdmissionFails, Unregister, Bootstrapped, HandleDisconnect, HandleAck,
                    Watchdog, Detach, hub, auth
<1>4. CASE BootstrapFails
  BY <1>4, <1>s DEF Same, BootstrapFails, Detach, book, auth
<1>5. CASE Register
  <2> DEFINE c == IF accept.pc = "closing" THEN accept.ch ELSE Newcomer
  <2>1. c \in Chans /\ wire[c] = <<>>  BY <1>5, NewcomerFresh DEF Register
  <2>2. reg' = c  BY <1>5 DEF Register
  <2>3. CASE lock = "free"
    <3>1. Bootstrap(c, TRUE)  BY <1>5, <2>3 DEF Register
    <3> HIDE DEF c
    <3>2. QED  BY <2>1, <2>2, <3>1, BootstrapStep
  <2>4. CASE lock # "free"
    <3>1. UNCHANGED <<wire, seq, known>>  BY <1>5, <2>4 DEF Register, auth
    <3>2. QED  BY <2>1, <2>2, <3>1 DEF WireStep, Silent
  <2>5. QED  BY <2>3, <2>4
<1>6. CASE GetLock
  <2>2. accept.ch \in Chans  BY <1>6, NewcomerFresh DEF GetLock
  <2>3. Bootstrap(accept.ch, reg = accept.ch) /\ reg' = reg  BY <1>6 DEF GetLock, book
  <2>4. QED  BY <2>2, <2>3, BootstrapStep
<1>7. CASE AttachDone
  BY <1>7, <1>q, DirectoryStep DEF AttachDone, book, auth
<1>8. CASE HandleInput \/ OtherInput
  <2>1. PICK own \in BOOLEAN : TakeInput(own)  BY <1>8 DEF HandleInput, OtherInput
  <2>2. UNCHANGED <<known, reg>>  BY <2>1 DEF TakeInput, book
  <2>3. CASE lock = "free"
    <3>1. PICK result \in Results(own) : Handle(own, result)  BY <2>1, <2>3 DEF TakeInput
    <3>2. QED  BY <2>2, <3>1, HandleStep
  <2>4. CASE lock # "free"
    <3>1. UNCHANGED <<wire, seq>>  BY <2>1, <2>4 DEF TakeInput
    <3>2. QED  BY <1>s, <2>2, <3>1 DEF Same
  <2>5. QED  BY <2>3, <2>4
<1>9. CASE RunGetsLock
  <2>1. PICK result \in Results(run.own) : Handle(run.own, result)  BY <1>9 DEF RunGetsLock
  <2>2. UNCHANGED <<known, reg>> /\ run.own \in BOOLEAN  BY <1>9 DEF RunGetsLock, book, TypeOK
  <2>3. QED  BY <2>1, <2>2, HandleStep
<1>10. CASE Broadcast
  BY <1>10, <1>q, DirectoryStep DEF Broadcast, AfterBroadcast, auth
<1>11. CASE BroadcastFails
  <2>1. CASE reg = run.ch
    BY <1>11, <1>s, <2>1 DEF Same, BroadcastFails, Detach, AfterBroadcast, auth
  <2>2. CASE reg # run.ch
    BY <1>11, <1>q, <2>2, DirectoryStep DEF BroadcastFails, AfterBroadcast, book, auth
  <2>3. QED  BY <2>1, <2>2
<1>12. CASE SendReceipt
  BY <1>12, <1>q, NotifyStep DEF SendReceipt, book, auth
<1>13. QED
  BY <1>1, <1>2, <1>3, <1>4, <1>5, <1>6, <1>7, <1>8, <1>9, <1>10, <1>11, <1>12 DEF Next, Accept, Run

-----------------------------------------------------------------------------
(* Types                                                                     *)

TaskStates == {"none", "running", "cancelled", "ended"}
AcceptStates == [pc : {"idle", "closing", "wait", "sending", "dir"}, ch : 0..MaxConns, join : BOOLEAN]
RunStates == [pc : {"idle", "wait", "sending", "receipt"}, ch : 0..MaxConns, own : BOOLEAN]

MemberTypes ==
    /\ conns \in 0..MaxConns /\ ch \in 0..MaxConns
    /\ mode \in {"off", "await", "run", "stall"}
    /\ held \in 0..MaxSeq
    /\ read \in [Chans -> Nat]
    /\ up \in [Chans -> Seq(Event)]
    /\ gone \in SUBSET Chans

BookTypes ==
    /\ shut \in SUBSET Chans
    /\ queue \in Seq(Event)
    /\ reg \in 0..MaxConns /\ receiver \in 0..MaxConns
    /\ task \in [Chans -> TaskStates]
    /\ acked \in 0..MaxSeq /\ pend \in 0..MaxSeq

LoopTypes ==
    /\ lock \in {"free", "accept", "run"}
    /\ accept \in AcceptStates
    /\ run \in RunStates

\* The parts of the type invariant.
LEMMA TypeParts ==
    TypeOK <=> /\ MemberTypes /\ BookTypes /\ LoopTypes
               /\ wire \in [Chans -> Seq(Message)] /\ seq \in 1..MaxSeq /\ known \in BOOLEAN
BY DEF TypeOK, MemberTypes, BookTypes, LoopTypes, TaskStates, AcceptStates, RunStates, Message

\* The Member's own steps keep the types.
LEMMA MemberTypesKept ==
    ASSUME TypeOK, MemberInv, AcceptInv,
           Open \/ Read \/ SendInput \/ SeeClosed \/ Drop \/ Stall
    PROVE  MemberTypes' /\ BookTypes' /\ LoopTypes'
<1>t. /\ conns \in 0..MaxConns /\ ch \in 0..MaxConns /\ mode \in {"off", "await", "run", "stall"}
      /\ held \in 0..MaxSeq /\ read \in [Chans -> Nat] /\ up \in [Chans -> Seq(Event)]
      /\ gone \in SUBSET Chans
      /\ MaxConns \in Nat /\ MaxSeq \in Nat /\ Chans = 1..MaxConns
  BY Typed DEF TypeOK
<1>b. BookTypes /\ LoopTypes  BY TypeParts
<1>1. UNCHANGED <<shut, queue, reg, receiver, task, acked, pend, lock, accept, run>>
  BY DEF Open, Read, SendInput, SeeClosed, Drop, Stall, hub
<1>2. BookTypes' /\ LoopTypes'  BY <1>b, <1>1 DEF BookTypes, LoopTypes
<1>c. mode # "off" => ch \in Chans  BY <1>t DEF MemberInv
<1>e. /\ [kind |-> "input"] \in Event
      /\ \A s \in 1..MaxSeq : [kind |-> "ack", seq |-> s] \in Event
  BY DEF Event
<1>3. CASE Open
  <2>1. conns' \in 0..MaxConns /\ ch' \in 0..MaxConns  BY <1>3, <1>t DEF Open
  <2>2. QED  BY <1>3, <1>t, <1>2, <2>1 DEF Open, MemberTypes
<1>4. CASE Read
  <2> DEFINE msg == wire[ch][read[ch] + 1]
  <2>1. mode # "off" /\ read[ch] < Len(wire[ch]) /\ read' = [read EXCEPT ![ch] = @ + 1]
        /\ UNCHANGED <<conns, ch>>
    BY <1>4 DEF Read
  <2>2. msg \in Message
    <3>1. read[ch] + 1 \in DOMAIN wire[ch]  BY SMTT(30), <1>c, <2>1, Typed
    <3>2. QED  BY <1>c, <2>1, <3>1, Typed
  <2>3. read' \in [Chans -> Nat]  BY <1>t, <1>c, <2>1
  <2>4. \/ /\ IsFrame(msg) /\ held' = msg.seq /\ mode' = "run" /\ gone' = gone
           /\ up' = [up EXCEPT ![ch] = Append(@, [kind |-> "ack", seq |-> msg.seq])]
        \/ mode' = "off" /\ gone' = gone \union {ch} /\ UNCHANGED <<held, up>>
        \/ UNCHANGED <<mode, gone, held, up>>
    BY <1>4 DEF Read, Leave
  <2> HIDE DEF msg
  <2>5. CASE /\ IsFrame(msg) /\ held' = msg.seq /\ mode' = "run" /\ gone' = gone
             /\ up' = [up EXCEPT ![ch] = Append(@, [kind |-> "ack", seq |-> msg.seq])]
    <3>1. msg.seq \in 1..MaxSeq  BY <2>2, <2>5, MessageKinds
    <3>2. up[ch] \in Seq(Event) /\ [kind |-> "ack", seq |-> msg.seq] \in Event
      BY <1>t, <1>c, <1>e, <2>1, <3>1
    <3>3. Append(up[ch], [kind |-> "ack", seq |-> msg.seq]) \in Seq(Event)
      BY <3>2, AppendProperties
    <3>4. up' \in [Chans -> Seq(Event)]  BY <1>t, <2>5, <3>3
    <3>5. held' \in 0..MaxSeq  BY <1>t, <2>5, <3>1
    <3>6. QED  BY <1>t, <1>2, <2>1, <2>3, <2>5, <3>4, <3>5 DEF MemberTypes
  <2>6. CASE mode' = "off" /\ gone' = gone \union {ch} /\ UNCHANGED <<held, up>>
    BY <1>t, <1>c, <1>2, <2>1, <2>3, <2>6 DEF MemberTypes
  <2>7. CASE UNCHANGED <<mode, gone, held, up>>
    BY <1>t, <1>2, <2>1, <2>3, <2>7 DEF MemberTypes
  <2>8. QED  BY <2>4, <2>5, <2>6, <2>7
<1>5. CASE SendInput
  <2>1. /\ up' = [up EXCEPT ![ch] = Append(@, [kind |-> "input"])] /\ mode = "run"
        /\ UNCHANGED <<conns, ch, mode, held, read, gone>>
    BY <1>5 DEF SendInput
  <2>2. up[ch] \in Seq(Event)  BY <1>t, <1>c, <2>1
  <2>3. Append(up[ch], [kind |-> "input"]) \in Seq(Event)  BY <1>e, <2>2, AppendProperties
  <2>4. up' \in [Chans -> Seq(Event)]  BY <1>t, <2>1, <2>3
  <2>5. QED  BY <1>t, <1>2, <2>1, <2>4 DEF MemberTypes
<1>6. CASE SeeClosed \/ Drop
  <2>1. /\ mode # "off" /\ mode' = "off" /\ gone' = gone \union {ch} /\ held' \in {held, 0}
        /\ UNCHANGED <<conns, ch, read, up>>
    BY <1>6 DEF SeeClosed, Drop, Leave
  <2>2. QED  BY <1>t, <1>c, <1>2, <2>1 DEF MemberTypes
<1>7. CASE Stall
  BY <1>7, <1>t, <1>2 DEF Stall, MemberTypes
<1>8. QED  BY <1>3, <1>4, <1>5, <1>6, <1>7

\* The receivers keep the types.
LEMMA ReceiverTypesKept ==
    ASSUME TypeOK, NEW c \in Chans, Receive(c) \/ ReceiverEnds(c)
    PROVE  MemberTypes' /\ BookTypes' /\ LoopTypes'
<1>1. /\ UNCHANGED <<conns, ch, mode, held, read, gone, shut, reg, receiver, acked, pend, lock,
                      accept, run>>
      /\ MemberTypes /\ BookTypes /\ LoopTypes
  BY TypeParts DEF Receive, ReceiverEnds, book
<1>2. up[c] \in Seq(Event) /\ queue \in Seq(Event) /\ up \in [Chans -> Seq(Event)]
      /\ task \in [Chans -> TaskStates]
  BY <1>1 DEF MemberTypes, BookTypes
<1>3. CASE Receive(c)
  <2>1. /\ up[c] # <<>> /\ queue' = Append(queue, Head(up[c])) /\ task' = task
        /\ up' = [up EXCEPT ![c] = Tail(@)]
    BY <1>3 DEF Receive
  <2>2. Head(up[c]) \in Event /\ Tail(up[c]) \in Seq(Event)  BY <1>2, <2>1, HeadTailProperties
  <2>3. queue' \in Seq(Event)  BY <1>2, <2>1, <2>2, AppendProperties
  <2>4. up' \in [Chans -> Seq(Event)]  BY <1>2, <2>1, <2>2
  <2>5. QED  BY <1>1, <2>1, <2>3, <2>4 DEF MemberTypes, BookTypes, LoopTypes
<1>4. CASE ReceiverEnds(c)
  <2>1. /\ queue' = queue \o <<[kind |-> "disconnect"]>> /\ task' = [task EXCEPT ![c] = "ended"]
        /\ up' = [up EXCEPT ![c] = <<>>]
    BY <1>4 DEF ReceiverEnds, Reported
  <2>2. [kind |-> "disconnect"] \in Event  BY DEF Event
  <2>3. <<[kind |-> "disconnect"]>> \in Seq(Event) /\ <<>> \in Seq(Event)  BY <2>2
  <2>4. queue' \in Seq(Event)  BY <1>2, <2>1, <2>3, ConcatProperties
  <2>5. up' \in [Chans -> Seq(Event)] /\ task' \in [Chans -> TaskStates]
    BY <1>2, <2>1, <2>3 DEF TaskStates
  <2>6. QED  BY <1>1, <2>4, <2>5 DEF MemberTypes, BookTypes, LoopTypes
<1>5. QED  BY <1>3, <1>4

\* Releasing the lock, whoever waits.
LEMMA ReleaseType ==
    ASSUME ReleaseAccept \/ ReleaseRun
    PROVE  lock' \in {"free", "accept", "run"}
BY DEF ReleaseAccept, ReleaseRun, Release

\* Tracking what was sent.
LEMMA TrackedType ==
    ASSUME TypeOK
    PROVE  Tracked(seq) \in 0..MaxSeq
BY Typed DEF TypeOK, Tracked, AtLeast

\* The accept loop keeps the types.
LEMMA AcceptTypesKept ==
    ASSUME TypeOK, AcceptInv, WireInv, Accept
    PROVE  BookTypes' /\ LoopTypes' /\ UNCHANGED member
<1>p. BookTypes /\ LoopTypes  BY TypeParts
<1>t. /\ shut \in SUBSET Chans /\ queue \in Seq(Event)
      /\ reg \in 0..MaxConns /\ receiver \in 0..MaxConns
      /\ task \in [Chans -> TaskStates]
      /\ acked \in 0..MaxSeq /\ pend \in 0..MaxSeq
      /\ lock \in {"free", "accept", "run"}
      /\ accept \in AcceptStates /\ run \in RunStates
  BY <1>p DEF BookTypes, LoopTypes
<1>b. /\ MaxConns \in Nat /\ MaxSeq \in Nat /\ Chans = 1..MaxConns
      /\ conns \in 0..MaxConns /\ accept.ch \in 0..MaxConns /\ accept.ch <= conns
      /\ reg # 0 => reg \in Chans
      /\ accept.pc # "idle" => accept.ch \in Chans
      /\ Waiting => Newcomer \in Chans
  <2>1. /\ MaxConns \in Nat /\ MaxSeq \in Nat /\ Chans = 1..MaxConns
        /\ conns \in 0..MaxConns /\ accept.ch \in Nat /\ accept.ch <= conns
        /\ reg # 0 => reg \in Chans
        /\ accept.pc # "idle" => accept.ch > 0
    BY Typed DEF TypeOK, AcceptInv
  <2>2. Waiting => accept.ch + 1 <= conns /\ Newcomer = accept.ch + 1
    BY DEF Waiting, Newcomer
  <2>3. QED  BY <2>1, <2>2
<1>a. /\ \A pc \in {"idle", "dir"} : [accept EXCEPT !.pc = pc] \in AcceptStates
      /\ Waiting => [accept EXCEPT !.ch = Newcomer] \in AcceptStates
      /\ \A c \in Chans, pc \in {"closing", "wait", "sending"}, j \in BOOLEAN :
            [pc |-> pc, ch |-> c, join |-> j] \in AcceptStates
  BY <1>t, <1>b DEF AcceptStates
<1>1. CASE AdmissionFails
  BY <1>1, <1>t, <1>a DEF AdmissionFails, hub, BookTypes, LoopTypes
<1>2. CASE Unregister
  <2>1. accept' \in AcceptStates  BY <1>2, <1>a, <1>b DEF Unregister
  <2>2. shut' \in SUBSET Chans  BY <1>2, <1>t, <1>b DEF Unregister
  <2>3. QED  BY <1>2, <1>t, <1>b, <2>1, <2>2 DEF Unregister, BookTypes, LoopTypes
<1>3. CASE Register
  <2> DEFINE c == IF accept.pc = "closing" THEN accept.ch ELSE Newcomer
  <2>1. /\ c \in Chans /\ reg' = c /\ receiver' = c
        /\ task' = [Cancelled(task) EXCEPT ![c] = "running"]
        /\ IF lock = "free" THEN Bootstrap(c, TRUE)
           ELSE accept' = [pc |-> "wait", ch |-> c, join |-> FALSE] /\ lock' = lock
        /\ acked' \in {acked, 0} /\ pend' \in {pend, 0}
        /\ UNCHANGED <<shut, queue, run>> /\ UNCHANGED member
    BY <1>3, <1>b DEF Register
  <2> HIDE DEF c
  <2>2. task' \in [Chans -> TaskStates]
    <3>1. Cancelled(task) \in [Chans -> TaskStates]  BY <1>t DEF Cancelled, TaskStates
    <3>2. QED  BY <2>1, <3>1 DEF TaskStates
  <2>3. accept' \in AcceptStates /\ lock' \in {"free", "accept", "run"}
    <3>1. CASE lock = "free"
      <4>1. accept' = [pc |-> "sending", ch |-> c, join |-> ~known] /\ lock' = "accept"
        BY <2>1, <3>1 DEF Bootstrap
      <4>2. QED  BY <1>a, <2>1, <4>1
    <3>2. CASE lock # "free"  BY <2>1, <3>2, <1>a, <1>t
    <3>3. QED  BY <3>1, <3>2
  <2>4. QED  BY <1>t, <1>b, <2>1, <2>2, <2>3 DEF BookTypes, LoopTypes
<1>4. CASE GetLock
  <2>1. accept.ch \in Chans  BY <1>4, <1>b DEF GetLock
  <2>2. /\ accept' \in {[accept EXCEPT !.pc = "idle"],
                        [pc |-> "sending", ch |-> accept.ch, join |-> ~known]}
        /\ lock' = "accept" \/ ReleaseAccept
        /\ UNCHANGED <<shut, queue, run, reg, receiver, task, acked, pend>> /\ UNCHANGED member
    BY <1>4 DEF GetLock, Bootstrap, book
  <2>3. accept' \in AcceptStates  BY <1>a, <2>1, <2>2
  <2>4. lock' \in {"free", "accept", "run"}  BY <2>2, ReleaseType
  <2>5. QED  BY <1>t, <2>2, <2>3, <2>4 DEF BookTypes, LoopTypes
<1>5. CASE Bootstrapped
  <2>1. /\ pend' \in {pend, Tracked(seq)}
        /\ accept' \in {[accept EXCEPT !.pc = "idle"], [accept EXCEPT !.pc = "dir"]}
        /\ lock' \in {lock, "run"} \/ ReleaseAccept
        /\ UNCHANGED <<shut, queue, reg, receiver, task, acked, run>> /\ UNCHANGED member
    BY <1>5 DEF Bootstrapped
  <2>2. lock' \in {"free", "accept", "run"}  BY <1>t, <2>1, ReleaseType
  <2>3. QED  BY <1>t, <1>a, <2>1, <2>2, TrackedType DEF BookTypes, LoopTypes
<1>6. CASE BootstrapFails
  <2>1. /\ accept' \in {[accept EXCEPT !.pc = "idle"], [accept EXCEPT !.pc = "dir"]}
        /\ lock' = lock \/ ReleaseAccept
        /\ Detach \/ UNCHANGED <<book, task, shut>>
        /\ UNCHANGED <<queue, run>> /\ UNCHANGED member
    BY <1>6 DEF BootstrapFails
  <2>2. lock' \in {"free", "accept", "run"}  BY <1>t, <2>1, ReleaseType
  <2>3. LoopTypes'  BY <1>t, <1>a, <2>1, <2>2 DEF LoopTypes
  <2>4. BookTypes'
    BY <1>t, <1>b, <2>1, DetachStep DEF BookTypes, book, TaskStates
  <2>5. QED  BY <2>1, <2>3, <2>4
<1>7. CASE AttachDone
  <2>1. /\ accept' = [accept EXCEPT !.pc = "idle"] /\ ReleaseAccept
        /\ UNCHANGED <<shut, queue, run, reg, receiver, task, acked, pend>> /\ UNCHANGED member
    BY <1>7 DEF AttachDone, book
  <2>2. QED  BY <1>t, <1>a, <2>1, ReleaseType DEF BookTypes, LoopTypes
<1>8. QED  BY <1>1, <1>2, <1>3, <1>4, <1>5, <1>6, <1>7 DEF Accept

\* run() and the watchdog keep the types.
LEMMA RunTypesKept ==
    ASSUME TypeOK, WireInv, Run \/ OtherInput \/ Watchdog
    PROVE  BookTypes' /\ LoopTypes' /\ UNCHANGED member
<1>p. BookTypes /\ LoopTypes  BY TypeParts
<1>t. /\ shut \in SUBSET Chans /\ queue \in Seq(Event)
      /\ reg \in 0..MaxConns /\ receiver \in 0..MaxConns
      /\ task \in [Chans -> TaskStates]
      /\ acked \in 0..MaxSeq /\ pend \in 0..MaxSeq
      /\ lock \in {"free", "accept", "run"}
      /\ accept \in AcceptStates /\ run \in RunStates
      /\ MaxConns \in Nat /\ MaxSeq \in Nat
  BY <1>p, Typed DEF BookTypes, LoopTypes
<1>r. /\ \A pc \in {"idle", "receipt"} : [run EXCEPT !.pc = pc] \in RunStates
      /\ \A pc \in {"idle", "receipt"} : [run EXCEPT !.pc = pc, !.ch = 0] \in RunStates
      /\ \A pc \in {"idle", "wait", "sending", "receipt"}, c \in 0..MaxConns, own \in BOOLEAN :
            [pc |-> pc, ch |-> c, own |-> own] \in RunStates
      /\ 0 \in 0..MaxConns /\ 0 \in 0..MaxSeq
  <2>1. 0 \in 0..MaxConns /\ 0 \in 0..MaxSeq  BY <1>t
  <2>2. QED  BY <1>t, <2>1 DEF RunStates
<1>q. queue # <<>> => Tail(queue) \in Seq(Event) /\ Head(queue) \in Event
  BY <1>t, HeadTailProperties
<1>h. ASSUME NEW own \in BOOLEAN, NEW result \in Results(own), Handle(own, result),
             UNCHANGED <<known, reg>>
      PROVE  run' \in RunStates /\ lock' \in {"free", "accept", "run"}
  <2>1. lock' = "run" \/ ReleaseRun  BY <1>h DEF Handle
  <2>2. /\ run'.ch \in 0..MaxConns
        /\ run' = [pc |-> run'.pc, ch |-> run'.ch, own |-> own]
        /\ run'.pc \in {"idle", "sending", "receipt"}
    BY <1>h, HandleStep
  <2>3. QED  BY <1>r, <2>1, <2>2, ReleaseType
<1>1. CASE HandleDisconnect \/ Watchdog
  <2>1. /\ Detach /\ ((queue' = Tail(queue) /\ queue # <<>>) \/ queue' = queue)
        /\ UNCHANGED <<lock, accept, run>> /\ UNCHANGED member
    BY <1>1 DEF HandleDisconnect, Watchdog, NextEvent
  <2>2. queue' \in Seq(Event)  BY <1>t, <1>q, <2>1
  <2>3. QED  BY <1>t, <1>1, <1>r, <2>1, <2>2, DetachStep
         DEF BookTypes, LoopTypes, TaskStates, HandleDisconnect, Watchdog
<1>2. CASE HandleAck
  <2> DEFINE s == Head(queue).seq
  <2>1. /\ queue # <<>> /\ Head(queue).kind = "ack" /\ queue' = Tail(queue)
        /\ acked' = AtLeast(acked, s) /\ pend' \in {0, pend}
        /\ UNCHANGED <<shut, reg, receiver, task, lock, accept, run>> /\ UNCHANGED member
    BY <1>2 DEF HandleAck, NextEvent, Lifted
  <2>2. s \in 1..MaxSeq  BY <1>q, <2>1 DEF Event
  <2>3. acked' \in 0..MaxSeq  BY <1>t, <2>1, <2>2 DEF AtLeast
  <2>4. QED  BY <1>t, <1>q, <2>1, <2>3 DEF BookTypes, LoopTypes
<1>3. CASE HandleInput \/ OtherInput
  <2>1. PICK own \in BOOLEAN : TakeInput(own)  BY <1>3 DEF HandleInput, OtherInput
  <2>2. /\ UNCHANGED <<known, reg, shut, receiver, task, acked, pend, accept>> /\ UNCHANGED member
    BY <2>1 DEF TakeInput, book
  <2>3. queue' \in Seq(Event)  BY <1>3, <1>t, <1>q DEF HandleInput, OtherInput, NextEvent
  <2>4. run' \in RunStates /\ lock' \in {"free", "accept", "run"}
    <3>1. CASE lock = "free"
      <4>1. PICK result \in Results(own) : Handle(own, result)  BY <2>1, <3>1 DEF TakeInput
      <4>2. QED  BY <1>h, <2>2, <4>1
    <3>2. CASE lock # "free"  BY <1>t, <1>r, <2>1, <3>2 DEF TakeInput
    <3>3. QED  BY <3>1, <3>2
  <2>5. QED  BY <1>t, <2>2, <2>3, <2>4 DEF BookTypes, LoopTypes
<1>4. CASE RunGetsLock
  <2>1. PICK result \in Results(run.own) : Handle(run.own, result)  BY <1>4 DEF RunGetsLock
  <2>2. /\ UNCHANGED <<known, reg, shut, queue, receiver, task, acked, pend, accept>>
        /\ UNCHANGED member
    BY <1>4 DEF RunGetsLock, book
  <2>3. run.own \in BOOLEAN  BY <1>t DEF RunStates
  <2>4. run' \in RunStates /\ lock' \in {"free", "accept", "run"}  BY <1>h, <2>1, <2>2, <2>3
  <2>5. QED  BY <1>t, <2>2, <2>4 DEF BookTypes, LoopTypes
<1>5. CASE Broadcast \/ BroadcastFails
  <2>1. AfterBroadcast  BY <1>5 DEF Broadcast, BroadcastFails
  <2>2. run' \in RunStates /\ lock' \in {"free", "accept", "run"}
    BY <1>r, <2>1, ReleaseType DEF AfterBroadcast
  <2>3. UNCHANGED <<queue, accept>> /\ UNCHANGED member  BY <2>1 DEF AfterBroadcast
  <2>4. CASE Broadcast
    <3>1. pend' \in {Tracked(seq), pend} /\ UNCHANGED <<shut, reg, receiver, task, acked>>
      BY <2>4 DEF Broadcast
    <3>2. QED  BY <1>t, <2>2, <2>3, <3>1, TrackedType DEF BookTypes, LoopTypes
  <2>5. CASE BroadcastFails
    <3>1. Detach \/ UNCHANGED <<book, task, shut>>  BY <2>5 DEF BroadcastFails
    <3>2. BookTypes'  BY <1>t, <1>r, <2>3, <3>1, DetachStep DEF BookTypes, book, TaskStates
    <3>3. QED  BY <1>t, <2>2, <2>3, <3>2 DEF LoopTypes
  <2>6. QED  BY <1>5, <2>4, <2>5
<1>6. CASE SendReceipt
  BY <1>6, <1>t, <1>r DEF SendReceipt, book, BookTypes, LoopTypes
<1>7. QED  BY <1>1, <1>2, <1>3, <1>4, <1>5, <1>6 DEF Run

\* Every step keeps the types.
LEMMA TypeKept ==
    ASSUME TypeOK, MemberInv, AcceptInv, WireInv, Next
    PROVE  TypeOK' /\ WireInv' /\ WireStep /\ seq <= seq'
<1>1. /\ WireStep /\ WireInv' /\ wire' \in [Chans -> Seq(Message)] /\ seq' \in 1..MaxSeq
      /\ known' \in BOOLEAN /\ seq <= seq'
  BY NextWireStep, WirePreserved
<1>2. MemberTypes' /\ BookTypes' /\ LoopTypes'
  <2>1. MemberTypes  BY TypeParts
  <2>2. UNCHANGED member => MemberTypes'  BY <2>1 DEF member, MemberTypes
  <2>3. QED
    BY <2>2, MemberTypesKept, ReceiverTypesKept, AcceptTypesKept, RunTypesKept DEF Next
<1>3. TypeOK'
  BY <1>1, <1>2 DEF TypeOK, MemberTypes, BookTypes, LoopTypes, TaskStates, AcceptStates, RunStates,
                    Message
<1>4. QED  BY <1>1, <1>3

-----------------------------------------------------------------------------
(* The Member and the accept loop                                            *)

\* What the Member has read stays below the channel, and below its replica.
LEMMA MemberKept ==
    ASSUME TypeOK, MemberInv, WireStep, wire' \in [Chans -> Seq(Message)], AcceptInv, Next
    PROVE  MemberInv'
<1>t. /\ \A c \in Chans : Len(wire[c]) \in Nat /\ DOMAIN wire[c] = 1..Len(wire[c])
      /\ read \in [Chans -> Nat] /\ conns \in Nat /\ MaxConns \in Nat /\ Chans = 1..MaxConns
      /\ conns <= MaxConns /\ held \in Nat
      /\ \A c \in Chans : \A i \in DOMAIN wire[c] :
            IsFrame(wire[c][i]) => wire[c][i].seq \in Nat
  <2>1. \A c \in Chans : \A i \in DOMAIN wire[c] : wire[c][i] \in Message  BY Typed
  <2>2. \A c \in Chans : \A i \in DOMAIN wire[c] :
           IsFrame(wire[c][i]) => wire[c][i].seq \in Nat
    BY <2>1, MessageKinds
  <2>3. read \in [Chans -> Nat] /\ conns <= MaxConns  BY Typed DEF TypeOK
  <2>4. QED  BY <2>2, <2>3, Typed
<1>m. /\ ch = conns
      /\ gone = IF mode = "off" THEN 1..conns ELSE 1..(conns - 1)
      /\ mode # "off" => conns > 0 /\ ch \in Chans
      /\ \A c \in Chans : read[c] <= Len(wire[c])
      /\ mode = "await" => read[ch] = 0
      /\ mode = "run" =>
           /\ read[ch] > 0
           /\ \A i \in DOMAIN wire[ch] :
                 i <= read[ch] /\ IsFrame(wire[ch][i]) => wire[ch][i].seq <= held
  <2>1. mode # "off" => conns > 0 /\ ch = conns  BY DEF MemberInv
  <2>2. mode # "off" => ch \in Chans  BY <1>t, <2>1
  <2>3. QED  BY <2>2 DEF MemberInv
<1>1. CASE Open
  <2>1. /\ mode = "off" /\ conns < MaxConns /\ conns' = conns + 1 /\ ch' = conns + 1
        /\ mode' = "await" /\ UNCHANGED <<held, read, gone, wire>>
    BY <1>1 DEF Open, hub
  <2>2. gone' = 1..(conns' - 1)  BY <1>t, <1>m, <2>1
  <2>3. wire[conns + 1] = <<>>
    <3>1. conns + 1 \in Chans /\ accept.ch \in Nat  BY <1>t, <2>1, Typed
    <3>2. accept.ch <= conns /\ \A c \in Chans : c > accept.ch => wire[c] = <<>>  BY DEF AcceptInv
    <3>3. QED  BY <1>t, <3>1, <3>2
  <2>4. read[conns + 1] = 0
    <3>1. conns + 1 \in Chans  BY <1>t, <2>1
    <3>2. Len(wire[conns + 1]) = 0  BY <2>3
    <3>3. QED  BY <1>t, <1>m, <3>1, <3>2
  <2>5. QED  BY <1>t, <1>m, <2>1, <2>2, <2>4 DEF MemberInv
<1>2. CASE Read
  <2> DEFINE n == read[ch] + 1  msg == wire[ch][n]
  <2>1. /\ mode \in {"await", "run"} /\ read[ch] < Len(wire[ch]) /\ read' = [read EXCEPT ![ch] = n]
        /\ UNCHANGED <<conns, ch, wire>>
    BY <1>2 DEF Read, hub
  <2>2. \/ /\ IsFrame(msg) /\ held' = msg.seq /\ mode' = "run" /\ gone' = gone
           /\ mode = "await" \/ msg.seq = held + 1
        \/ mode' = "off" /\ gone' = gone \union {ch}
        \/ /\ UNCHANGED <<mode, gone, held>> /\ mode = "run"
           /\ IsFrame(msg) => msg.seq = held
    BY <1>2 DEF Read, Leave
  <2>3. /\ n \in DOMAIN wire[ch] /\ read' \in [Chans -> Nat] /\ read'[ch] = n /\ n > 0
        /\ \A c \in Chans : read'[c] <= Len(wire'[c])
    BY <1>t, <1>m, <2>1
  <2>4. \A i \in DOMAIN wire[ch] : i <= n => i <= read[ch] \/ i = n  BY <1>t, <1>m, <2>1
  <2> HIDE DEF n
  <2>5. CASE /\ IsFrame(msg) /\ held' = msg.seq /\ mode' = "run" /\ gone' = gone
             /\ mode = "await" \/ msg.seq = held + 1
    <3>1. ASSUME NEW i \in DOMAIN wire[ch], i <= n, IsFrame(wire[ch][i])
          PROVE  wire[ch][i].seq <= held'
      <4>0. msg.seq \in Nat /\ wire[ch][i].seq \in Nat  BY <1>t, <1>m, <2>1, <2>3, <2>5, <3>1
      <4>1. CASE i = n  BY <2>5, <4>0, <4>1
      <4>2. CASE i <= read[ch] /\ mode = "await"  BY <1>t, <1>m, <2>1, <3>1, <4>2
      <4>3. CASE i <= read[ch] /\ mode = "run"
        <5>1. wire[ch][i].seq <= held /\ msg.seq = held + 1  BY <1>m, <2>5, <3>1, <4>3
        <5>2. QED  BY <1>t, <2>5, <4>0, <5>1
      <4>4. QED  BY <2>1, <2>4, <3>1, <4>1, <4>2, <4>3
    <3>2. gone' = 1..(conns - 1) /\ mode # "off"  BY <1>m, <2>1, <2>5
    <3>3. QED  BY <1>m, <2>1, <2>3, <2>5, <3>1, <3>2 DEF MemberInv
  <2>6. CASE mode' = "off" /\ gone' = gone \union {ch}
    <3>1. gone' = 1..conns  BY <1>t, <1>m, <2>1, <2>6
    <3>2. QED  BY <1>m, <2>1, <2>3, <2>6, <3>1 DEF MemberInv
  <2>7. CASE /\ UNCHANGED <<mode, gone, held>> /\ mode = "run"
             /\ IsFrame(msg) => msg.seq = held
    <3>1. ASSUME NEW i \in DOMAIN wire[ch], i <= n, IsFrame(wire[ch][i])
          PROVE  wire[ch][i].seq <= held
      BY <1>t, <1>m, <2>4, <2>7, <3>1
    <3>2. QED  BY <1>m, <2>1, <2>3, <2>7, <3>1 DEF MemberInv
  <2>8. QED  BY <2>2, <2>5, <2>6, <2>7
<1>3. CASE SeeClosed \/ Drop
  <2>1. /\ mode # "off" /\ mode' = "off" /\ gone' = gone \union {ch}
        /\ UNCHANGED <<conns, ch, read, wire>>
    BY <1>3 DEF SeeClosed, Drop, Leave, hub
  <2>2. gone' = 1..conns  BY <1>t, <1>m, <2>1
  <2>3. QED  BY <1>m, <2>1, <2>2 DEF MemberInv
<1>4. CASE Stall
  <2>1. mode # "off" /\ mode' = "stall" /\ UNCHANGED <<conns, ch, held, read, gone, wire>>
    BY <1>4 DEF Stall, hub
  <2>2. QED  BY <1>m, <2>1 DEF MemberInv
<1>5. CASE ~(Open \/ Read \/ SeeClosed \/ Drop \/ Stall)
  <2>1. UNCHANGED <<conns, ch, mode, held, read, gone>>
    <3>1. CASE SendInput  BY <3>1 DEF SendInput
    <3>2. CASE Accept
      BY <3>2 DEF Accept, AdmissionFails, Unregister, Register, GetLock, Bootstrapped,
                  BootstrapFails, AttachDone, member
    <3>3. CASE Run
      BY <3>3 DEF Run, HandleDisconnect, HandleAck, HandleInput, TakeInput, RunGetsLock, Broadcast,
                  BroadcastFails, AfterBroadcast, SendReceipt, member
    <3>4. CASE OtherInput \/ Watchdog
      BY <3>4 DEF OtherInput, TakeInput, Watchdog, member
    <3>5. CASE \E c \in Chans : Receive(c) \/ ReceiverEnds(c)
      BY <3>5 DEF Receive, ReceiverEnds
    <3>6. QED  BY <1>5, <3>1, <3>2, <3>3, <3>4, <3>5 DEF Next
  <2>2. \A c \in Chans : /\ Len(wire[c]) <= Len(wire'[c])
                         /\ \A i \in DOMAIN wire[c] : wire'[c][i] = wire[c][i]
                         /\ Len(wire'[c]) \in Nat /\ DOMAIN wire'[c] = 1..Len(wire'[c])
    BY WireGrows, LenProperties
  <2>3. \A c \in Chans : read[c] <= Len(wire'[c])  BY SMTT(30), <1>t, <1>m, <2>2
  <2>4. ASSUME mode = "run", NEW i \in DOMAIN wire'[ch], i <= read[ch], IsFrame(wire'[ch][i])
        PROVE  wire'[ch][i].seq <= held
    <3>1. i \in DOMAIN wire[ch]  BY <1>t, <1>m, <2>2, <2>4
    <3>2. QED  BY <1>m, <2>2, <2>4, <3>1
  <2>5. QED  BY <1>m, <2>1, <2>3, <2>4 DEF MemberInv
<1>6. QED  BY <1>1, <1>2, <1>3, <1>4, <1>5

\* A channel keeps its frames.
LEMMA FramesStay ==
    ASSUME TypeOK, WireStep, NEW c \in Chans, HasFrame(c)
    PROVE  Framed(wire'[c])
<1>1. PICK i \in DOMAIN wire[c] : IsFrame(wire[c][i])  BY DEF HasFrame, Framed
<1>2. i \in DOMAIN wire'[c] /\ wire'[c][i] = wire[c][i]  BY WireGrows
<1>3. QED  BY <1>1, <1>2 DEF Framed

\* A frame that was sent is on its channel.
LEMMA FrameSent ==
    ASSUME TypeOK, NEW c, NEW m, Appended(c, m), IsFrame(m)
    PROVE  Framed(wire'[c])
<1>1. /\ Len(wire'[c]) = Len(wire[c]) + 1 /\ Len(wire[c]) \in Nat
      /\ DOMAIN wire'[c] = 1..Len(wire'[c]) /\ wire'[c][Len(wire'[c])] = m
  BY Typed, AppendedEffect
<1>2. Len(wire'[c]) \in DOMAIN wire'[c]  BY <1>1
<1>3. QED  BY <1>1, <1>2 DEF Framed

\* What is on the channels that were never registered: nothing.
Fresh(c) == c > accept.ch \/ (accept.pc = "closing" /\ c = accept.ch)

\* Where the accept loop and the registered channel are.
Places ==
    /\ accept.ch <= conns
    /\ reg <= accept.ch
    /\ accept.pc # "idle" => accept.ch > 0 /\ reg \in {0, accept.ch}
    /\ accept.pc = "closing" => reg = 0

\* Every step keeps them.
LEMMA PlacesKept ==
    ASSUME TypeOK, MemberInv, AcceptInv, Next
    PROVE  /\ Places'
           /\ \A c \in Chans : Fresh(c)' => Fresh(c) /\ c # reg'
<1>t. /\ conns \in Nat /\ accept.ch \in Nat /\ reg \in Nat /\ Chans = 1..MaxConns
      /\ accept = [pc |-> accept.pc, ch |-> accept.ch, join |-> accept.join]
  BY Typed DEF TypeOK
<1>p. /\ accept.ch <= conns
      /\ reg <= accept.ch
      /\ accept.pc # "idle" => accept.ch > 0 /\ reg \in {0, accept.ch}
      /\ accept.pc = "closing" => reg = 0
  BY DEF AcceptInv
<1>1. CASE conns' \in {conns, conns + 1} /\ accept' = accept /\ reg' \in {reg, 0}
  BY <1>t, <1>p, <1>1 DEF Places, Fresh
<1>2. CASE /\ conns' = conns /\ reg' \in {reg, 0} /\ accept'.ch = accept.ch /\ accept.pc # "idle"
           /\ accept'.pc \in {"idle", "dir", "sending"}
  BY <1>t, <1>p, <1>2 DEF Places, Fresh
<1>3. CASE AdmissionFails
  <2>1. /\ accept' = [accept EXCEPT !.ch = accept.ch + 1] /\ accept.ch + 1 <= conns
        /\ accept.pc = "idle" /\ conns' = conns /\ reg' = reg
    BY <1>3 DEF AdmissionFails, Waiting, Newcomer, member, hub
  <2>2. accept'.ch = accept.ch + 1 /\ accept'.pc = "idle"  BY <1>t, <2>1
  <2>3. QED  BY <1>t, <1>p, <2>1, <2>2 DEF Places, Fresh
<1>4. CASE Unregister
  <2>1. /\ accept' = [pc |-> "closing", ch |-> accept.ch + 1, join |-> FALSE]
        /\ accept.ch + 1 <= conns /\ accept.pc = "idle" /\ conns' = conns /\ reg' = 0
    BY <1>4 DEF Unregister, Waiting, Newcomer, member
  <2>2. QED  BY <1>t, <1>p, <2>1 DEF Places, Fresh
<1>5. CASE Register
  <2> DEFINE c == IF accept.pc = "closing" THEN accept.ch ELSE accept.ch + 1
  <2>1. /\ accept.pc = "closing" \/ accept.ch + 1 <= conns
        /\ accept.pc \in {"closing", "idle"}
        /\ conns' = conns /\ reg' = c
        /\ \/ accept' = [pc |-> "sending", ch |-> c, join |-> ~known]
           \/ accept' = [pc |-> "wait", ch |-> c, join |-> FALSE]
    BY <1>5 DEF Register, Waiting, Newcomer, Bootstrap, member
  <2>2. accept'.ch = c /\ accept'.pc \in {"sending", "wait"}  BY <2>1
  <2>3. QED  BY <1>t, <1>p, <2>1, <2>2 DEF Places, Fresh
<1>6. CASE GetLock
  <2>1. /\ accept.pc = "wait" /\ conns' = conns /\ reg' = reg
        /\ accept' \in {[accept EXCEPT !.pc = "idle"],
                        [pc |-> "sending", ch |-> accept.ch, join |-> ~known]}
    BY <1>6 DEF GetLock, Bootstrap, member, book
  <2>2. accept'.ch = accept.ch /\ accept'.pc \in {"idle", "sending"}  BY <1>t, <2>1
  <2>3. QED  BY <1>2, <2>1, <2>2
<1>7. CASE Bootstrapped \/ BootstrapFails \/ AttachDone
  <2>1. /\ accept.pc \in {"sending", "dir"} /\ conns' = conns /\ reg' \in {reg, 0}
        /\ accept' \in {[accept EXCEPT !.pc = "idle"], [accept EXCEPT !.pc = "dir"]}
    BY <1>7 DEF Bootstrapped, BootstrapFails, AttachDone, Detach, member, book
  <2>2. accept'.ch = accept.ch /\ accept'.pc \in {"idle", "dir"}  BY <1>t, <2>1
  <2>3. QED  BY <1>2, <2>1, <2>2
<1>8. CASE Open \/ Read \/ SendInput \/ SeeClosed \/ Drop \/ Stall
  BY <1>1, <1>8 DEF Open, Read, SendInput, SeeClosed, Drop, Stall, hub
<1>9. CASE Run \/ OtherInput \/ Watchdog
  <2>1. CASE HandleDisconnect \/ HandleAck \/ SendReceipt \/ Watchdog
    BY <1>1, <2>1 DEF HandleDisconnect, HandleAck, SendReceipt, Watchdog, Detach, member, book
  <2>2. CASE HandleInput \/ OtherInput \/ RunGetsLock
    BY <1>1, <2>2 DEF HandleInput, OtherInput, TakeInput, RunGetsLock, member, book
  <2>3. CASE Broadcast \/ BroadcastFails
    BY <1>1, <2>3 DEF Broadcast, BroadcastFails, AfterBroadcast, Detach, member, book
  <2>4. QED  BY <1>9, <2>1, <2>2, <2>3 DEF Run
<1>10. CASE \E c \in Chans : Receive(c) \/ ReceiverEnds(c)
  BY <1>1, <1>10 DEF Receive, ReceiverEnds, book
<1>11. QED
  BY <1>3, <1>4, <1>5, <1>6, <1>7, <1>8, <1>9, <1>10 DEF Next, Accept

\* A send that is under way after a step was so before, or begins with it.
LEMMA SendingSteps ==
    ASSUME TypeOK, AcceptInv, WireInv, Next
    PROVE  /\ accept'.pc = "sending" => accept' = accept \/ (Booted /\ accept'.ch = reg')
           /\ run'.pc = "sending" /\ run'.ch # 0 =>
                run' = run \/ (Recorded /\ known /\ reg = run'.ch)
<1>t. /\ accept = [pc |-> accept.pc, ch |-> accept.ch, join |-> accept.join]
      /\ run = [pc |-> run.pc, ch |-> run.ch, own |-> run.own] /\ run.own \in BOOLEAN
  BY DEF TypeOK
<1>h. ASSUME NEW own \in BOOLEAN, NEW result \in Results(own), Handle(own, result),
             UNCHANGED <<known, reg>>
      PROVE  run'.ch # 0 => Recorded /\ known /\ reg = run'.ch
  BY <1>h, HandleStep
<1>1. CASE UNCHANGED <<accept, run>>  BY <1>1
<1>2. CASE AdmissionFails \/ Unregister \/ Bootstrapped \/ BootstrapFails \/ AttachDone
  <2>1. /\ run' = run
        /\ \/ accept.pc = "idle" /\ accept' = [accept EXCEPT !.ch = Newcomer]
           \/ accept' = [pc |-> "closing", ch |-> Newcomer, join |-> FALSE]
           \/ accept' = [accept EXCEPT !.pc = "idle"]
           \/ accept' = [accept EXCEPT !.pc = "dir"]
    BY <1>2 DEF AdmissionFails, Unregister, Bootstrapped, BootstrapFails, AttachDone, Waiting
  <2>2. accept'.pc # "sending"  BY <1>t, <2>1
  <2>3. QED  BY <2>1, <2>2
<1>3. CASE Register
  <2> DEFINE c == IF accept.pc = "closing" THEN accept.ch ELSE Newcomer
  <2>1. run' = run /\ reg' = c  BY <1>3 DEF Register
  <2>2. CASE lock = "free"
    <3>1. Bootstrap(c, TRUE)  BY <1>3, <2>2 DEF Register
    <3>2. c \in Chans /\ wire[c] = <<>>  BY <1>3, <2>1, NewcomerFresh DEF Register
    <3> HIDE DEF c
    <3>3. Booted /\ accept' = [pc |-> "sending", ch |-> c, join |-> ~known]
      BY <2>1, <3>1, <3>2, BootstrapStep
    <3>4. QED  BY <2>1, <3>3
  <2>3. CASE lock # "free"
    <3>1. accept' = [pc |-> "wait", ch |-> c, join |-> FALSE]  BY <1>3, <2>3 DEF Register
    <3>2. QED  BY <2>1, <3>1
  <2>4. QED  BY <2>2, <2>3
<1>4. CASE GetLock
  <2>1. accept.ch \in Chans  BY <1>4, NewcomerFresh DEF GetLock
  <2>2. Bootstrap(accept.ch, reg = accept.ch) /\ reg' = reg /\ run' = run
    BY <1>4 DEF GetLock, book
  <2>3. CASE reg = accept.ch
    <3>1. Booted /\ accept' = [pc |-> "sending", ch |-> accept.ch, join |-> ~known]
      BY <2>1, <2>2, <2>3, BootstrapStep
    <3>2. QED  BY <2>2, <2>3, <3>1
  <2>4. CASE reg # accept.ch
    <3>1. accept' = [accept EXCEPT !.pc = "idle"]  BY <2>2, <2>4 DEF Bootstrap
    <3>2. QED  BY <1>t, <2>2, <3>1
  <2>5. QED  BY <2>3, <2>4
<1>5. CASE HandleInput \/ OtherInput
  <2>1. PICK own \in BOOLEAN : TakeInput(own)  BY <1>5 DEF HandleInput, OtherInput
  <2>2. UNCHANGED <<known, reg, accept>>  BY <2>1 DEF TakeInput, book
  <2>3. CASE lock = "free"
    <3>1. PICK result \in Results(own) : Handle(own, result)  BY <2>1, <2>3 DEF TakeInput
    <3>2. QED  BY <1>h, <2>2, <3>1
  <2>4. CASE lock # "free"
    <3>1. run' = [pc |-> "wait", ch |-> 0, own |-> own]  BY <2>1, <2>4 DEF TakeInput
    <3>2. QED  BY <2>2, <3>1
  <2>5. QED  BY <2>3, <2>4
<1>6. CASE RunGetsLock
  <2>1. PICK result \in Results(run.own) : Handle(run.own, result)  BY <1>6 DEF RunGetsLock
  <2>2. UNCHANGED <<known, reg, accept>>  BY <1>6 DEF RunGetsLock, book
  <2>3. QED  BY <1>h, <1>t, <2>1, <2>2
<1>7. CASE Broadcast \/ BroadcastFails \/ SendReceipt
  <2>1. /\ accept' = accept
        /\ \/ run' = [run EXCEPT !.pc = "idle"]
           \/ run' = [run EXCEPT !.pc = "idle", !.ch = 0]
           \/ run' = [run EXCEPT !.pc = "receipt", !.ch = 0]
    BY <1>7 DEF Broadcast, BroadcastFails, SendReceipt, AfterBroadcast
  <2>2. run'.pc # "sending"  BY <1>t, <2>1
  <2>3. QED  BY <2>1, <2>2
<1>8. CASE Open \/ Read \/ SendInput \/ SeeClosed \/ Drop \/ Stall \/ Watchdog
  BY <1>1, <1>8 DEF Open, Read, SendInput, SeeClosed, Drop, Stall, Watchdog
<1>9. CASE HandleDisconnect \/ HandleAck \/ \E c \in Chans : Receive(c) \/ ReceiverEnds(c)
  BY <1>1, <1>9 DEF HandleDisconnect, HandleAck, Receive, ReceiverEnds
<1>10. QED
  BY <1>2, <1>3, <1>4, <1>5, <1>6, <1>7, <1>8, <1>9 DEF Next, Accept, Run

\* The accept loop stays where it can be.
LEMMA AcceptKept ==
    ASSUME TypeOK, MemberInv, AcceptInv, WireInv, WireStep, Next
    PROVE  AcceptInv'
<1>1. Places' /\ \A c \in Chans : Fresh(c)' => Fresh(c) /\ c # reg'  BY PlacesKept
<1>2. \A c \in Chans : Fresh(c)' => wire'[c] = <<>>
  BY <1>1, WireGrows DEF AcceptInv, Fresh
<1>t. /\ accept.pc # "idle" => accept.ch \in Chans
      /\ run.ch # 0 => run.ch \in Chans
  <2>1. run.ch \in 0..MaxConns /\ MaxConns \in Nat /\ Chans = 1..MaxConns  BY Typed DEF TypeOK
  <2>2. QED  BY <2>1, NewcomerFresh
<1>3. ASSUME accept'.pc = "sending" PROVE Framed(wire'[accept'.ch])
  <2>1. CASE accept' = accept  BY <1>3, <1>t, <2>1, FramesStay DEF AcceptInv
  <2>2. CASE Booted /\ accept'.ch = reg'
    <3> DEFINE c == reg'  m == [kind |-> "boot", seq |-> seq']
    <3>1. Appended(c, m) /\ IsFrame(m) /\ accept'.ch = c  BY <2>2 DEF Booted, IsFrame
    <3> HIDE DEF c, m
    <3>2. QED  BY <3>1, FrameSent
  <2>3. QED  BY <1>3, <2>1, <2>2, SendingSteps
<1>4. ASSUME run'.pc = "sending", run'.ch # 0 PROVE Framed(wire'[run'.ch])
  <2>1. CASE run' = run  BY <1>4, <1>t, <2>1, FramesStay DEF AcceptInv
  <2>2. CASE Recorded /\ known /\ reg = run'.ch
    <3> DEFINE m == [kind |-> "record", seq |-> seq + 1]
    <3>1. Appended(reg, m) /\ IsFrame(m)  BY <1>4, <2>2 DEF Recorded, IsFrame
    <3> HIDE DEF m
    <3>2. QED  BY <2>2, <3>1, FrameSent
  <2>3. QED  BY <1>4, <2>1, <2>2, SendingSteps
<1>5. QED  BY <1>1, <1>2, <1>3, <1>4 DEF AcceptInv, Places, Fresh, HasFrame

-----------------------------------------------------------------------------
(* The books                                                                 *)

\* The last message of a contiguous channel with a frame is a frame.
LEMMA LastIsFrame ==
    ASSUME NEW w \in Seq(Message), NEW s, Contiguous(w, s), Current(w, s), Framed(w)
    PROVE  Len(w) \in DOMAIN w /\ IsFrame(w[Len(w)]) /\ w[Len(w)].seq = s
<1>1. Len(w) \in Nat /\ DOMAIN w = 1..Len(w)  BY LenProperties
<1>2. PICK i \in DOMAIN w : IsFrame(w[i])  BY DEF Framed
<1>3. Len(w) \in DOMAIN w /\ (i = Len(w) \/ Len(w) > 1)  BY <1>1, <1>2
<1>4. IsFrame(w[Len(w)])  BY <1>2, <1>3 DEF Contiguous
<1>5. QED  BY <1>3, <1>4 DEF Current

\* Only a Member that is gone, stalls, has a frame to read or an acknowledgement
\* on its way can be tracked.
LEMMA AlarmJustified ==
    TypeOK /\ MemberInv /\ AcceptInv /\ WireInv /\ Tracking /\ HeldAnswered => NoFalseAlarm
<1> SUFFICES ASSUME TypeOK, MemberInv, AcceptInv, WireInv, Tracking, HeldAnswered,
                    reg # 0, pend # 0, reg \notin gone, mode # "stall"
             PROVE  \/ \E i \in DOMAIN wire[reg] : i > read[reg] /\ IsFrame(wire[reg][i])
                    \/ AckComing(reg, pend)
  BY DEF NoFalseAlarm, AckComing
<1>t. /\ reg \in Chans /\ wire[reg] \in Seq(Message) /\ reg \in Nat /\ conns \in Nat
      /\ mode \in {"off", "await", "run", "stall"} /\ read[reg] \in Nat
      /\ seq \in Nat /\ pend \in Nat /\ acked \in Nat /\ held \in Nat
  BY Typed DEF TypeOK
<1>1. reg = ch /\ mode \in {"await", "run"}
  <2>1. reg <= conns /\ reg > 0
    <3>1. accept.ch \in Nat /\ reg <= accept.ch /\ accept.ch <= conns  BY Typed DEF AcceptInv
    <3>2. QED  BY <1>t, <3>1
  <2>2. gone = IF mode = "off" THEN 1..conns ELSE 1..(conns - 1)  BY DEF MemberInv
  <2>3. mode # "off"  BY <1>t, <2>1, <2>2
  <2>4. reg = conns  BY <1>t, <2>1, <2>2, <2>3
  <2>5. QED  BY <1>t, <2>3, <2>4 DEF MemberInv
<1> DEFINE n == Len(wire[reg])
<1>2. n \in DOMAIN wire[reg] /\ IsFrame(wire[reg][n]) /\ wire[reg][n].seq = seq
  <2>1. /\ Contiguous(wire[reg], seq) /\ Current(wire[reg], seq) /\ Framed(wire[reg])
    BY <1>t DEF WireInv, Tracking, HasFrame
  <2>2. QED  BY <1>t, <2>1, LastIsFrame
<1>3. n \in Nat /\ DOMAIN wire[reg] = 1..n /\ read[reg] <= n
  BY <1>t, LenProperties DEF MemberInv
<1> HIDE DEF n
<1>4. CASE n > read[reg]  BY <1>2, <1>4
<1>5. CASE ~(n > read[reg])
  <2>1. n <= read[reg] /\ n > 0  BY <1>t, <1>2, <1>3, <1>5
  <2>2. mode = "run"  BY <1>t, <1>1, <2>1, <1>3 DEF MemberInv
  <2>3. seq <= held  BY <1>1, <1>2, <2>1, <2>2 DEF MemberInv
  <2>4. pend > acked /\ pend <= seq  BY DEF Tracking
  <2>5. ~(held <= acked) /\ pend <= held  BY <1>t, <2>3, <2>4
  <2>6. PICK e \in ToSet(up[reg]) \union ToSet(queue) : e.kind = "ack" /\ e.seq >= held
    BY <1>1, <2>2, <2>5 DEF HeldAnswered, AckComing
  <2>7. e \in Event
    <3>1. up[reg] \in Seq(Event) /\ queue \in Seq(Event)  BY <1>t DEF TypeOK
    <3>2. QED  BY <2>6, <3>1, ToSetElement DEF ToSet
  <2>8. e.seq >= pend  BY <1>t, <2>5, <2>6, <2>7 DEF Event
  <2>9. QED  BY <2>6, <2>8 DEF AckComing
<1>6. QED  BY <1>4, <1>5

\* A channel that is detached leaves nothing in the books.
LEMMA DetachedBooks ==
    ASSUME TypeOK', MemberInv', reg' = 0, pend' = 0
    PROVE  BookInv'
<1>1. seq' \in 1..MaxSeq /\ conns' \in 0..MaxConns /\ MaxSeq \in Nat  BY HubBounds DEF TypeOK
<1>2. mode' = "run" => ch' # reg'  BY <1>1 DEF MemberInv
<1>3. HeldAnswered'  BY <1>2 DEF HeldAnswered
<1>4. pend' <= seq'  BY <1>1
<1>5. Tracking'  BY <1>4 DEF Tracking
<1>6. QED  BY <1>3, <1>5 DEF BookInv, RegisteredIsServed, ReceiverKept, Watched

\* A new channel is registered with its receiver, and nothing is tracked on it.
LEMMA RegisteredBooks ==
    ASSUME TypeOK, TypeOK', MemberInv, MemberInv', AcceptInv, BookInv, Register
    PROVE  BookInv'
<1> DEFINE c == IF accept.pc = "closing" THEN accept.ch ELSE Newcomer
<1>1. /\ reg' = c /\ receiver' = c /\ task' = [Cancelled(task) EXCEPT ![c] = "running"]
      /\ accept.pc = "closing" \/ Waiting
      /\ UNCHANGED member
  BY DEF Register
<1>2. c \in Chans /\ wire[c] = <<>>  BY <1>1, NewcomerFresh
<1>t. /\ seq' \in 1..MaxSeq /\ MaxSeq \in Nat /\ task \in [Chans -> TaskStates]
      /\ \A d \in Chans : read[d] \in Nat
  BY Typed, HubBounds DEF TypeOK, TaskStates
<1>3. pend' = 0
  <2>1. CASE accept.pc = "closing"
    <3>1. reg = 0  BY <2>1 DEF AcceptInv
    <3>2. pend = 0 /\ pend' = pend  BY <2>1, <3>1 DEF Register, BookInv, Tracking
    <3>3. QED  BY <3>2
  <2>2. CASE accept.pc # "closing"  BY <2>2 DEF Register
  <2>3. QED  BY <2>1, <2>2
<1>4. task'[c] = "running"
  <2>1. Cancelled(task) \in [Chans -> TaskStates]  BY <1>t DEF Cancelled, TaskStates
  <2>2. QED  BY <1>1, <1>2, <2>1
<1>5. wire' = wire \/ (accept'.pc = "sending" /\ accept'.ch = c)
  <2>1. CASE lock = "free"
    <3>1. Bootstrap(c, TRUE)  BY <2>1 DEF Register
    <3> HIDE DEF c
    <3>2. QED  BY <3>1 DEF Bootstrap
  <2>2. CASE lock # "free"  BY <2>2 DEF Register
  <2>3. QED  BY <2>1, <2>2
<1>6. ~(mode' = "run" /\ ch' = c)
  <2>1. SUFFICES ASSUME mode = "run", ch = c PROVE FALSE  BY <1>1 DEF member
  <2>2. read[c] > 0 /\ read[c] <= Len(wire[c]) /\ read[c] \in Nat  BY <1>t, <1>2, <2>1 DEF MemberInv
  <2>3. Len(wire[c]) = 0  BY <1>2
  <2>4. QED  BY <2>2, <2>3
<1> HIDE DEF c
<1>7. RegisteredIsServed' /\ ReceiverKept'  BY <1>1, <1>4 DEF RegisteredIsServed, ReceiverKept
<1>8. Tracking' /\ HeldAnswered'  BY <1>1, <1>t, <1>3, <1>6 DEF Tracking, HeldAnswered
<1>9. Watched'
  <2>1. CASE wire' = wire
    <3>1. DOMAIN wire'[c] = {}  BY <1>2, <2>1
    <3>2. QED  BY <1>1, <3>1 DEF Watched
  <2>2. CASE accept'.pc = "sending" /\ accept'.ch = c  BY <1>1, <2>2 DEF Watched, Sending
  <2>3. QED  BY <1>5, <2>1, <2>2
<1>10. QED  BY <1>7, <1>8, <1>9 DEF BookInv

\* Tracking covers what was sent.
LEMMA TrackedCovers ==
    ASSUME TypeOK
    PROVE  /\ Tracked(seq) \in Nat /\ pend <= Tracked(seq)
           /\ seq <= acked \/ (Tracked(seq) > acked /\ seq <= Tracked(seq))
           /\ Tracked(seq) = pend \/ (Tracked(seq) = seq /\ seq > acked)
BY SMTT(30), Typed DEF Tracked, AtLeast

\* A step that keeps a channel registered, and tracks what it has sent there.
LEMMA SteadyBooks ==
    ASSUME TypeOK, TypeOK', BookInv, WireInv', WireStep, seq <= seq',
           UNCHANGED member, UNCHANGED <<reg, receiver, task, acked>>,
           queue' = queue \/ (queue # <<>> /\ queue' = Tail(queue) /\ Head(queue).kind = "input"),
           pend' = pend \/ (reg # 0 /\ HasFrame(reg) /\ pend' = Tracked(seq)),
           Sending(reg) => Sending(reg)' \/ (pend' = Tracked(seq) /\ seq' = seq),
           wire' = wire \/ Noticed \/ Sending(reg)'
    PROVE  BookInv'
<1>t. /\ seq \in Nat /\ seq' \in Nat /\ pend \in Nat /\ pend' \in Nat /\ acked \in Nat
      /\ queue \in Seq(Event) /\ wire \in [Chans -> Seq(Message)]
      /\ wire' \in [Chans -> Seq(Message)]
      /\ reg # 0 => reg \in Chans
  <2>1. seq' \in 1..MaxSeq /\ pend' \in 0..MaxSeq /\ MaxSeq \in Nat
        /\ wire' \in [Chans -> Seq(Message)]
    BY HubBounds DEF TypeOK, Message
  <2>2. queue \in Seq(Event)  BY DEF TypeOK
  <2>3. seq' \in Nat /\ pend' \in Nat  BY <2>1
  <2>4. QED  BY <2>1, <2>2, <2>3, Typed
<1>q. \A e \in ToSet(queue) : e.kind # "input" => e \in ToSet(queue')
  BY <1>t, HeadOrTail
<1>1. RegisteredIsServed'
  <2>1. (\E i \in DOMAIN queue : queue[i].kind = "disconnect") =>
           \E i \in DOMAIN queue' : queue'[i].kind = "disconnect"
    BY <1>q DEF ToSet
  <2>2. QED  BY <2>1 DEF BookInv, RegisteredIsServed
<1>2. ReceiverKept'  BY DEF BookInv, ReceiverKept
<1>3. Tracking'
  <2>1. pend <= seq /\ (pend # 0 => reg # 0 /\ HasFrame(reg) /\ pend > acked)
    BY DEF BookInv, Tracking
  <2>2. CASE pend' = pend
    <3>1. pend # 0 => Framed(wire'[reg])  BY <1>t, <2>1, FramesStay
    <3>2. QED  BY <1>t, <2>1, <2>2, <3>1 DEF Tracking, HasFrame
  <2>3. CASE pend' # pend
    <3>1. reg # 0 /\ HasFrame(reg) /\ pend' = seq /\ seq > acked  BY <2>3, TrackedCovers
    <3>2. Framed(wire'[reg])  BY <1>t, <3>1, FramesStay
    <3>3. QED  BY <1>t, <3>1, <3>2 DEF Tracking, HasFrame
  <2>4. QED  BY <2>2, <2>3
<1>4. HeldAnswered'
  <2>1. \A s : AckComing(reg, s) =>
           \E e \in ToSet(up[reg]) \union ToSet(queue') : e.kind = "ack" /\ e.seq >= s
    BY <1>q DEF AckComing
  <2>2. QED  BY <2>1 DEF BookInv, HeldAnswered, AckComing, member
<1>5. Watched'
  <2>1. SUFFICES ASSUME reg # 0, ~Sending(reg)',
                        NEW i \in DOMAIN wire'[reg], IsFrame(wire'[reg][i])
                 PROVE  wire'[reg][i].seq <= acked \/ wire'[reg][i].seq <= pend'
    BY DEF Watched
  <2>2. wire'[reg][i].seq \in Nat /\ wire'[reg][i].seq <= seq'
    <3>1. wire'[reg][i] \in Message  BY <1>t, <2>1, LenProperties, ElementOfSeq
    <3>2. wire'[reg][i].seq \in Nat  BY <2>1, <3>1, MessageKinds
    <3>3. wire'[reg][i].seq <= seq'  BY <1>t, <2>1 DEF WireInv, Contiguous
    <3>4. QED  BY <3>2, <3>3
  <2>3. CASE Sending(reg)
    <3>1. pend' = Tracked(seq) /\ seq' = seq  BY <2>1, <2>3
    <3>2. seq <= acked \/ seq <= pend'  BY <3>1, TrackedCovers
    <3>3. QED  BY <1>t, <2>2, <3>1, <3>2
  <2>4. CASE ~Sending(reg)
    <3>1. i \in DOMAIN wire[reg] /\ wire'[reg][i] = wire[reg][i]
      <4>1. CASE wire' = wire  BY <2>1, <4>1
      <4>2. CASE Noticed
        <5>1. wire[reg] = <<>>  BY <4>2 DEF Noticed
        <5>2. PICK n \in Notice : Appended(reg, n)  BY <4>2 DEF Noticed
        <5>3. /\ Len(wire'[reg]) = Len(wire[reg]) + 1 /\ DOMAIN wire'[reg] = 1..Len(wire'[reg])
              /\ wire'[reg][Len(wire'[reg])] = n
          BY <1>t, <5>2, AppendedEffect
        <5>4. i = 1 /\ wire'[reg][i] = n
          <6>1. Len(wire[reg]) = 0  BY <5>1
          <6>2. Len(wire'[reg]) = 1  BY <5>3, <6>1
          <6>3. QED  BY <2>1, <5>3, <6>2
        <5>5. QED  BY <2>1, <5>4, MessageKinds
      <4>3. QED  BY <2>1, <4>1, <4>2
    <3>2. wire[reg][i].seq <= acked \/ wire[reg][i].seq <= pend
      BY <2>1, <2>4, <3>1 DEF BookInv, Watched
    <3>3. pend <= pend'  BY <1>t, TrackedCovers
    <3>4. QED  BY <1>t, <2>2, <3>1, <3>2, <3>3
  <2>5. QED  BY <2>3, <2>4
<1>6. QED  BY <1>1, <1>2, <1>3, <1>4, <1>5 DEF BookInv

\* The Member's own steps: what its replica takes, it acknowledges.
LEMMA MemberBooks ==
    ASSUME TypeOK, MemberInv, BookInv,
           Open \/ Read \/ SendInput \/ SeeClosed \/ Drop \/ Stall
    PROVE  BookInv'
<1>1. UNCHANGED <<wire, queue, reg, receiver, task, acked, pend, accept, run, seq>>
  BY DEF Open, Read, SendInput, SeeClosed, Drop, Stall, hub, auth
<1>2. RegisteredIsServed' /\ ReceiverKept'
  BY <1>1 DEF BookInv, RegisteredIsServed, ReceiverKept
<1>3. Tracking' /\ Watched'
  BY <1>1 DEF BookInv, Tracking, HasFrame, Watched, Sending
<1>t. /\ up \in [Chans -> Seq(Event)] /\ held \in Nat /\ acked \in Nat
      /\ mode # "off" => ch \in Chans
  <2>1. mode # "off" => ch # 0  BY Typed DEF MemberInv
  <2>2. QED  BY <2>1, Typed DEF TypeOK
<1>a. ASSUME mode # "off", NEW e \in Event, up' = [up EXCEPT ![ch] = Append(@, e)]
      PROVE  ToSet(up'[ch]) = ToSet(up[ch]) \union {e}
  <2>1. up'[ch] = Append(up[ch], e) /\ up[ch] \in Seq(Event)  BY <1>t, <1>a
  <2>2. QED  BY <2>1, ToSetAppend
<1>4. CASE Read
  <2> DEFINE msg == wire[ch][read[ch] + 1]
  <2>1. /\ ch' = ch /\ mode \in {"await", "run"} /\ read[ch] < Len(wire[ch])
        /\ \/ /\ IsFrame(msg) /\ held' = msg.seq
              /\ up' = [up EXCEPT ![ch] = Append(@, [kind |-> "ack", seq |-> msg.seq])]
           \/ mode' = "off"
           \/ UNCHANGED <<mode, held, up>>
    BY <1>4 DEF Read, Leave
  <2>2. msg \in Message
    <3>1. /\ Len(wire[ch]) \in Nat /\ DOMAIN wire[ch] = 1..Len(wire[ch]) /\ read[ch] \in Nat
          /\ \A i \in DOMAIN wire[ch] : wire[ch][i] \in Message
      BY <1>t, <2>1, Typed
    <3>2. read[ch] + 1 \in DOMAIN wire[ch]  BY <2>1, <3>1
    <3>3. QED  BY <3>1, <3>2
  <2> HIDE DEF msg
  <2>3. CASE /\ IsFrame(msg) /\ held' = msg.seq
             /\ up' = [up EXCEPT ![ch] = Append(@, [kind |-> "ack", seq |-> msg.seq])]
    <3> DEFINE e == [kind |-> "ack", seq |-> msg.seq]
    <3>1. msg.seq \in 1..MaxSeq /\ MaxSeq \in Nat  BY <2>2, <2>3, MessageKinds, Typed
    <3>2. e \in Event /\ e.kind = "ack" /\ e.seq = held' /\ e.seq >= held'
      BY <2>3, <3>1 DEF Event
    <3>5. up' = [up EXCEPT ![ch] = Append(@, e)]  BY <2>3
    <3> HIDE DEF e
    <3>3. e \in ToSet(up'[ch])  BY <1>a, <2>1, <3>2, <3>5
    <3>4. HeldAnswered'  BY <1>1, <2>1, <3>2, <3>3 DEF HeldAnswered, AckComing
    <3>6. QED  BY <1>2, <1>3, <3>4 DEF BookInv
  <2>4. CASE mode' = "off"  BY <1>2, <1>3, <2>4 DEF BookInv, HeldAnswered
  <2>5. CASE UNCHANGED <<mode, held, up>>
    BY <1>1, <1>2, <1>3, <2>1, <2>5 DEF BookInv, HeldAnswered, AckComing
  <2>6. QED  BY <2>1, <2>3, <2>4, <2>5
<1>5. CASE SendInput
  <2>1. /\ mode = "run" /\ UNCHANGED <<ch, mode, held>>
        /\ up' = [up EXCEPT ![ch] = Append(@, [kind |-> "input"])]
    BY <1>5 DEF SendInput
  <2>2. [kind |-> "input"] \in Event  BY DEF Event
  <2>3. ToSet(up[ch]) \subseteq ToSet(up'[ch])  BY <1>a, <2>1, <2>2
  <2>4. QED  BY <1>1, <1>2, <1>3, <2>1, <2>3 DEF BookInv, HeldAnswered, AckComing
<1>6. CASE Open \/ SeeClosed \/ Drop \/ Stall
  <2>1. mode' # "run"  BY <1>6 DEF Open, SeeClosed, Drop, Stall, Leave
  <2>2. QED  BY <1>2, <1>3, <2>1 DEF BookInv, HeldAnswered
<1>7. QED  BY <1>4, <1>5, <1>6

\* A receiver: what it takes from the channel it puts in the queue, and it ends
\* with a report.
LEMMA ReceiverBooks ==
    ASSUME TypeOK, MemberInv, AcceptInv, BookInv, NEW c \in Chans, Receive(c) \/ ReceiverEnds(c)
    PROVE  BookInv'
<1>1. UNCHANGED <<conns, ch, mode, held, gone, wire, reg, receiver, acked, pend, accept, run, seq>>
  BY DEF Receive, ReceiverEnds, book, auth
<1>2. Tracking' /\ Watched'
  BY <1>1 DEF BookInv, Tracking, HasFrame, Watched, Sending
<1>t. /\ up \in [Chans -> Seq(Event)] /\ queue \in Seq(Event) /\ task \in [Chans -> TaskStates]
      /\ reg # 0 => reg \in Chans
  BY Typed DEF TypeOK, TaskStates
<1>3. CASE Receive(c)
  <2>1. /\ up[c] # <<>> /\ queue' = Append(queue, Head(up[c])) /\ task' = task
        /\ up' = [up EXCEPT ![c] = Tail(@)]
    BY <1>3 DEF Receive
  <2>2. Head(up[c]) \in Event /\ up[c] \in Seq(Event)  BY <1>t, <2>1, HeadTailProperties
  <2>3. ToSet(queue') = ToSet(queue) \union {Head(up[c])}  BY <1>t, <2>1, <2>2, ToSetAppend
  <2>4. ToSet(up[c]) \subseteq {Head(up[c])} \union ToSet(up'[c])
    <3>1. up'[c] = Tail(up[c])  BY <1>t, <2>1
    <3>2. QED  BY <2>1, <2>2, <3>1, HeadOrTail
  <2>5. \A d \in Chans \ {c} : up'[d] = up[d]  BY <1>t, <2>1
  <2>6. RegisteredIsServed' /\ ReceiverKept'
    <3>0. ToSet(queue) \subseteq ToSet(queue')  BY <2>3
    <3>1. (\E i \in DOMAIN queue : queue[i].kind = "disconnect") =>
             \E i \in DOMAIN queue' : queue'[i].kind = "disconnect"
      BY <3>0 DEF ToSet
    <3>2. QED  BY <1>1, <2>1, <3>1 DEF BookInv, RegisteredIsServed, ReceiverKept
  <2>7. HeldAnswered'
    <3>1. reg # 0 => ToSet(up[reg]) \union ToSet(queue) \subseteq ToSet(up'[reg]) \union ToSet(queue')
      BY SMTT(30), <1>t, <2>3, <2>4, <2>5
    <3>2. mode = "run" => ch # 0  BY Typed DEF MemberInv
    <3>3. QED  BY <1>1, <3>1, <3>2 DEF BookInv, HeldAnswered, AckComing
  <2>8. QED  BY <1>2, <2>6, <2>7 DEF BookInv
<1>4. CASE ReceiverEnds(c)
  <2> DEFINE e == [kind |-> "disconnect"]
  <2>1. /\ task[c] = "cancelled" \/ c \in gone
        /\ task' = [task EXCEPT ![c] = "ended"]
        /\ queue' = queue \o <<e>> /\ up' = [up EXCEPT ![c] = <<>>]
    BY <1>4 DEF ReceiverEnds, Ends, Reported
  <2>2. e \in Event  BY DEF Event
  <2>3. queue' = Append(queue, e)  BY <1>t, <2>1, <2>2, AppendIsConcat
  <2>4. ToSet(queue') = ToSet(queue) \union {e}  BY <1>t, <2>2, <2>3, ToSetAppend
  <2>5. \E i \in DOMAIN queue' : queue'[i].kind = "disconnect"
    <3>1. \E i \in DOMAIN queue' : queue'[i] = e  BY <2>4 DEF ToSet
    <3>2. QED  BY <3>1
  <2>6. RegisteredIsServed'  BY <1>1, <2>5 DEF BookInv, RegisteredIsServed
  <2>7. ReceiverKept'
    <3>1. \A d \in Chans : task'[d] = (IF d = c THEN "ended" ELSE task[d])  BY <1>t, <2>1
    <3>2. QED  BY <1>1, <1>t, <3>1 DEF BookInv, ReceiverKept
  <2>8. HeldAnswered'
    <3>1. SUFFICES ASSUME mode = "run", reg = ch
                   PROVE  held <= acked \/ AckComing(reg, held)'
      BY <1>1 DEF HeldAnswered
    <3>2. reg # 0 /\ reg \notin gone
      <4>1. conns \in Nat /\ conns > 0 /\ gone = 1..(conns - 1) /\ ch = conns
        BY <3>1, Typed DEF MemberInv
      <4>2. QED  BY <3>1, <4>1
    <3>3. reg # c  BY <1>t, <2>1, <3>2 DEF BookInv, ReceiverKept
    <3>4. up'[reg] = up[reg]  BY <1>t, <2>1, <3>2, <3>3
    <3>5. QED  BY <1>1, <2>4, <3>1, <3>4 DEF BookInv, HeldAnswered, AckComing
  <2>9. QED  BY <1>2, <2>6, <2>7, <2>8 DEF BookInv
<1>5. QED  BY <1>3, <1>4

\* An acknowledgement is taken: it lifts the watch only when it covers it.
LEMMA AckBooks ==
    ASSUME TypeOK, MemberInv, BookInv, HandleAck
    PROVE  BookInv'
<1> DEFINE s == Head(queue).seq
<1>1. /\ queue # <<>> /\ Head(queue).kind = "ack" /\ queue' = Tail(queue)
      /\ acked' = (IF acked > s THEN acked ELSE s) /\ pend' = (IF s >= pend THEN 0 ELSE pend)
      /\ UNCHANGED <<conns, ch, mode, held, up, wire, reg, receiver, task, accept, run, seq>>
  BY DEF HandleAck, NextEvent, AtLeast, Lifted, member, auth
<1>t. /\ queue \in Seq(Event) /\ acked \in Nat /\ pend \in Nat /\ held \in Nat /\ seq \in Nat
      /\ wire \in [Chans -> Seq(Message)] /\ (reg # 0 => reg \in Chans)
  BY Typed DEF TypeOK
<1>2. Head(queue) \in Event  BY <1>1, <1>t, HeadTailProperties
<1>3. s \in Nat  BY SMTT(30), <1>1, <1>2, Typed DEF Event
<1>q. ToSet(queue) \subseteq {Head(queue)} \union ToSet(queue')  BY <1>1, <1>t, HeadOrTail
<1>4. RegisteredIsServed' /\ ReceiverKept'
  <2>0. \A e \in ToSet(queue) : e.kind = "disconnect" => e \in ToSet(queue')  BY <1>1, <1>q
  <2>1. (\E i \in DOMAIN queue : queue[i].kind = "disconnect") =>
           \E i \in DOMAIN queue' : queue'[i].kind = "disconnect"
    BY <2>0 DEF ToSet
  <2>2. QED  BY <1>1, <2>1 DEF BookInv, RegisteredIsServed, ReceiverKept
<1> HIDE DEF s
<1>5. acked' \in Nat /\ acked <= acked' /\ s <= acked' /\ (pend' = 0 \/ pend' = pend)
      /\ (pend' # 0 => pend' > acked' \/ ~(pend > acked)) /\ (pend' # pend => pend <= acked')
  BY <1>1, <1>t, <1>3
<1>6. Tracking'  BY <1>1, <1>t, <1>5 DEF BookInv, Tracking, HasFrame
<1>7. HeldAnswered'
  <2>1. SUFFICES ASSUME mode = "run", reg = ch PROVE held <= acked' \/ AckComing(reg, held)'
    BY <1>1 DEF HeldAnswered
  <2>2. CASE held <= acked  BY <1>t, <1>5, <2>2
  <2>3. CASE AckComing(reg, held)
    <3>1. PICK e \in ToSet(up[reg]) \union ToSet(queue) : e.kind = "ack" /\ e.seq >= held
      BY <2>3 DEF AckComing
    <3>2. CASE e = Head(queue)
      <4>1. s >= held  BY <3>1, <3>2 DEF s
      <4>2. QED  BY <1>t, <1>3, <1>5, <4>1
    <3>3. CASE e # Head(queue)
      <4>1. e \in ToSet(up'[reg]) \union ToSet(queue')  BY <1>1, <1>q, <3>1, <3>3
      <4>2. QED  BY <1>1, <3>1, <4>1 DEF AckComing
    <3>4. QED  BY <3>2, <3>3
  <2>4. QED  BY <2>1, <2>2, <2>3 DEF BookInv, HeldAnswered
<1>8. Watched'
  <2>1. SUFFICES ASSUME reg # 0, NEW i \in DOMAIN wire[reg], IsFrame(wire[reg][i]), ~Sending(reg)
                 PROVE  wire[reg][i].seq <= acked' \/ wire[reg][i].seq <= pend'
    BY <1>1 DEF Watched, Sending
  <2>2. wire[reg][i].seq \in Nat
    BY <1>t, <2>1, LenProperties, ElementOfSeq, MessageKinds
  <2>3. wire[reg][i].seq <= acked \/ wire[reg][i].seq <= pend  BY <2>1 DEF BookInv, Watched
  <2>4. QED  BY <1>t, <1>5, <2>2, <2>3
<1>9. QED  BY <1>4, <1>6, <1>7, <1>8 DEF BookInv

\* The accept loop.
LEMMA AcceptBooks ==
    ASSUME TypeOK, TypeOK', MemberInv, MemberInv', AcceptInv, WireInv, WireInv', BookInv,
           Accept, Next, WireStep, seq <= seq'
    PROVE  BookInv'
<1>t. accept = [pc |-> accept.pc, ch |-> accept.ch, join |-> accept.join]  BY DEF TypeOK
<1>m. UNCHANGED member
  BY DEF Accept, AdmissionFails, Unregister, Register, GetLock, Bootstrapped, BootstrapFails,
         AttachDone
<1>1. CASE Unregister
  BY <1>1, DetachedBooks DEF Unregister
<1>2. CASE Register
  BY <1>2, RegisteredBooks
<1>3. CASE BootstrapFails /\ reg = accept.ch
  BY <1>3, DetachedBooks DEF BootstrapFails, Detach
<1>4. CASE AdmissionFails
  <2>1. /\ accept.pc = "idle" /\ accept' = [accept EXCEPT !.ch = Newcomer]
        /\ UNCHANGED <<wire, queue, reg, receiver, task, acked, pend, run, seq>>
    BY <1>4 DEF AdmissionFails, Waiting, hub, auth
  <2>2. Sending(reg) => Sending(reg)'  BY <2>1 DEF Sending
  <2>3. QED  BY <1>m, <2>1, <2>2, SteadyBooks
<1>5. CASE GetLock
  <2>1. /\ accept.pc = "wait" /\ accept.ch \in Chans
        /\ Bootstrap(accept.ch, reg = accept.ch)
        /\ UNCHANGED <<queue, reg, receiver, task, acked, pend, run>>
    BY <1>5, NewcomerFresh DEF GetLock, book
  <2>2. Sending(reg) => Sending(reg)'  BY <2>1 DEF Sending
  <2>3. CASE reg = accept.ch
    <3>1. accept' = [pc |-> "sending", ch |-> accept.ch, join |-> ~known]
      BY <2>1, <2>3 DEF Bootstrap
    <3>2. Sending(reg)'  BY <2>1, <2>3, <3>1 DEF Sending
    <3>3. QED  BY <1>m, <2>1, <3>2, SteadyBooks
  <2>4. CASE reg # accept.ch
    <3>1. wire' = wire  BY <2>1, <2>4 DEF Bootstrap
    <3>2. QED  BY <1>m, <2>1, <2>2, <3>1, SteadyBooks
  <2>5. QED  BY <2>3, <2>4
<1>6. CASE Bootstrapped
  <2>1. /\ accept.pc = "sending"
        /\ UNCHANGED <<wire, queue, reg, receiver, task, acked, run, seq>>
        /\ IF reg = accept.ch THEN pend' = Tracked(seq) ELSE pend' = pend
        /\ accept' \in {[accept EXCEPT !.pc = "dir"], [accept EXCEPT !.pc = "idle"]}
    BY <1>6 DEF Bootstrapped, auth
  <2>2. HasFrame(accept.ch) /\ accept.ch > 0  BY <2>1 DEF AcceptInv
  <2>3. reg = accept.ch => reg # 0 /\ HasFrame(reg)
    <3>1. accept.ch # 0  BY <2>2, Typed
    <3>2. QED  BY <2>2, <3>1
  <2>4. Sending(reg) => Sending(reg)' \/ (pend' = Tracked(seq) /\ seq' = seq)
    BY <2>1 DEF Sending
  <2>5. QED  BY <1>m, <2>1, <2>3, <2>4, SteadyBooks
<1>7. CASE BootstrapFails /\ reg # accept.ch
  <2>1. /\ UNCHANGED <<wire, queue, reg, receiver, task, acked, pend, run, seq>>
    BY <1>7 DEF BootstrapFails, book, auth
  <2>2. Sending(reg) => Sending(reg)'  BY <1>7, <2>1 DEF Sending
  <2>3. QED  BY <1>m, <2>1, <2>2, SteadyBooks
<1>8. CASE AttachDone
  <2>1. /\ accept.pc = "dir" /\ PublishDirectory
        /\ UNCHANGED <<queue, reg, receiver, task, acked, pend, run, seq, known>>
    BY <1>8 DEF AttachDone, book, auth
  <2>2. wire' = wire \/ Noticed  BY <2>1, DirectoryStep DEF Silent
  <2>3. Sending(reg) => Sending(reg)'  BY <2>1 DEF Sending
  <2>4. QED  BY <1>m, <2>1, <2>2, <2>3, SteadyBooks
<1>9. QED  BY <1>1, <1>2, <1>3, <1>4, <1>5, <1>6, <1>7, <1>8 DEF Accept

\* run(), inputs of others and the watchdog.
LEMMA RunBooks ==
    ASSUME TypeOK, TypeOK', MemberInv, MemberInv', AcceptInv, WireInv, WireInv', BookInv,
           Run \/ OtherInput \/ Watchdog, Next, WireStep, seq <= seq'
    PROVE  BookInv'
<1>m. UNCHANGED member
  BY DEF Run, HandleDisconnect, HandleAck, HandleInput, TakeInput, RunGetsLock, Broadcast,
         BroadcastFails, AfterBroadcast, SendReceipt, OtherInput, Watchdog
<1>t. run = [pc |-> run.pc, ch |-> run.ch, own |-> run.own]  BY DEF TypeOK
<1>h. ASSUME NEW own \in BOOLEAN, NEW result \in Results(own), Handle(own, result),
             UNCHANGED <<known, reg>>
      PROVE  wire' = wire \/ Sending(reg)'
  <2>1. /\ run' = [pc |-> run'.pc, ch |-> run'.ch, own |-> own]
        /\ \/ UNCHANGED <<wire, seq>>
           \/ Recorded /\ run'.pc = "sending" /\ run'.ch = (IF known THEN reg ELSE 0)
    BY <1>h, HandleStep
  <2>2. CASE Recorded /\ run'.pc = "sending" /\ known /\ run'.ch = reg
    BY <1>h, <2>2 DEF Sending
  <2>3. CASE Recorded /\ ~known  BY <2>3 DEF Recorded
  <2>4. QED  BY <2>1, <2>2, <2>3
<1>1. CASE HandleDisconnect \/ Watchdog
  BY <1>1, DetachedBooks DEF HandleDisconnect, Watchdog, Detach
<1>2. CASE HandleAck
  BY <1>2, AckBooks
<1>3. CASE HandleInput \/ OtherInput
  <2>1. PICK own \in BOOLEAN : TakeInput(own)  BY <1>3 DEF HandleInput, OtherInput
  <2>2. /\ UNCHANGED <<reg, receiver, task, acked, pend, accept, known>> /\ run.pc = "idle"
        /\ \/ queue' = queue
           \/ queue # <<>> /\ queue' = Tail(queue) /\ Head(queue).kind = "input"
    BY <1>3, <2>1 DEF HandleInput, OtherInput, NextEvent, TakeInput, book
  <2>3. Sending(reg) => Sending(reg)'  BY <2>2 DEF Sending
  <2>4. wire' = wire \/ Sending(reg)'
    <3>1. CASE lock = "free"
      <4>1. PICK result \in Results(own) : Handle(own, result)  BY <2>1, <3>1 DEF TakeInput
      <4>2. QED  BY <1>h, <2>2, <4>1
    <3>2. CASE lock # "free"  BY <2>1, <3>2 DEF TakeInput
    <3>3. QED  BY <3>1, <3>2
  <2>5. QED  BY <1>m, <2>2, <2>3, <2>4, SteadyBooks
<1>4. CASE RunGetsLock
  <2>1. PICK result \in Results(run.own) : Handle(run.own, result)  BY <1>4 DEF RunGetsLock
  <2>2. /\ UNCHANGED <<queue, reg, receiver, task, acked, pend, accept, known>> /\ run.pc = "wait"
        /\ run.own \in BOOLEAN
    BY <1>4 DEF RunGetsLock, book, TypeOK
  <2>3. Sending(reg) => Sending(reg)'  BY <2>2 DEF Sending
  <2>4. wire' = wire \/ Sending(reg)'  BY <1>h, <2>1, <2>2
  <2>5. QED  BY <1>m, <2>2, <2>3, <2>4, SteadyBooks
<1>5. CASE Broadcast
  <2>1. /\ run.pc = "sending" /\ PublishDirectory
        /\ UNCHANGED <<queue, reg, receiver, task, acked, accept, seq, known>>
        /\ IF run.ch # 0 /\ reg = run.ch THEN pend' = Tracked(seq) ELSE pend' = pend
    BY <1>5 DEF Broadcast, AfterBroadcast, auth
  <2>2. reg # 0 /\ reg = run.ch => HasFrame(reg)  BY <2>1 DEF AcceptInv
  <2>3. wire' = wire \/ Noticed  BY <2>1, DirectoryStep DEF Silent
  <2>4. CASE reg # 0
    <3>1. Sending(reg) => Sending(reg)' \/ (pend' = Tracked(seq) /\ seq' = seq)
      BY <2>1, <2>4 DEF Sending
    <3>2. QED  BY <1>m, <2>1, <2>2, <2>3, <3>1, SteadyBooks
  <2>5. CASE reg = 0
    <3>1. pend' = pend /\ pend = 0  BY <2>1, <2>5 DEF BookInv, Tracking
    <3>2. QED  BY <2>1, <2>5, <3>1, DetachedBooks
  <2>6. QED  BY <2>4, <2>5
<1>6. CASE BroadcastFails
  <2>1. CASE reg = run.ch  BY <1>6, <2>1, DetachedBooks DEF BroadcastFails, Detach
  <2>2. CASE reg # run.ch
    <3>1. /\ PublishDirectory
          /\ UNCHANGED <<queue, reg, receiver, task, acked, pend, accept, seq, known>>
      BY <1>6, <2>2 DEF BroadcastFails, AfterBroadcast, book, auth
    <3>2. wire' = wire \/ Noticed  BY <3>1, DirectoryStep DEF Silent
    <3>3. Sending(reg) => Sending(reg)'  BY <2>2, <3>1 DEF Sending
    <3>4. QED  BY <1>m, <3>1, <3>2, <3>3, SteadyBooks
  <2>3. QED  BY <2>1, <2>2
<1>7. CASE SendReceipt
  <2>1. /\ run.pc = "receipt" /\ Notify("receipt")
        /\ UNCHANGED <<queue, reg, receiver, task, acked, pend, accept, seq, known>>
    BY <1>7 DEF SendReceipt, book, auth
  <2>2. wire' = wire \/ Noticed  BY <2>1, NotifyStep DEF Silent
  <2>3. Sending(reg) => Sending(reg)'  BY <2>1 DEF Sending
  <2>4. QED  BY <1>m, <2>1, <2>2, <2>3, SteadyBooks
<1>8. QED  BY <1>1, <1>2, <1>3, <1>4, <1>5, <1>6, <1>7 DEF Run

-----------------------------------------------------------------------------
(* The invariant                                                             *)

\* A hub that starts.
LEMMA InitIInv == Init => IInv
<1> SUFFICES ASSUME Init PROVE IInv  OBVIOUS
<1>t. /\ MaxConns \in Nat \ {0} /\ MaxSeq \in Nat \ {0, 1} /\ Chans = 1..MaxConns
  BY HubBounds DEF Chans
<1>1. TypeOK
  <2>1. MemberTypes  BY <1>t DEF Init, MemberTypes
  <2>2. BookTypes  BY <1>t DEF Init, BookTypes, TaskStates
  <2>3. LoopTypes  BY <1>t DEF Init, LoopTypes, AcceptStates, RunStates
  <2>4. wire \in [Chans -> Seq(Message)] /\ seq \in 1..MaxSeq /\ known \in BOOLEAN
    BY <1>t DEF Init
  <2>5. QED  BY <2>1, <2>2, <2>3, <2>4, TypeParts
<1>2. \A c \in Chans : wire[c] = <<>> /\ Len(wire[c]) = 0 /\ DOMAIN wire[c] = {} /\ read[c] = 0
  BY DEF Init
<1>3. MemberInv  BY <1>t, <1>2 DEF Init, MemberInv
<1>4. AcceptInv  BY <1>t, <1>2 DEF Init, AcceptInv
<1>5. WireInv  BY <1>t, <1>2 DEF Init, WireInv, Contiguous, HasFrame, Framed
<1>6. BookInv
  BY DEF Init, BookInv, RegisteredIsServed, ReceiverKept, Tracking, HeldAnswered, Watched
<1>7. QED  BY <1>1, <1>3, <1>4, <1>5, <1>6 DEF IInv

\* Every step keeps the invariant.
LEMMA NextIInv == IInv /\ [Next]_vars => IInv'
<1> SUFFICES ASSUME IInv, [Next]_vars PROVE IInv'  OBVIOUS
<1>1. CASE Next
  <2>1. TypeOK /\ MemberInv /\ AcceptInv /\ WireInv /\ BookInv  BY DEF IInv
  <2>2. TypeOK' /\ WireInv' /\ WireStep /\ seq <= seq'  BY <1>1, <2>1, TypeKept
  <2>3. wire' \in [Chans -> Seq(Message)]  BY <2>2 DEF TypeOK, Message
  <2>4. MemberInv'  BY <1>1, <2>1, <2>2, <2>3, MemberKept
  <2>5. AcceptInv'  BY <1>1, <2>1, <2>2, AcceptKept
  <2>6. BookInv'
    BY <1>1, <2>1, <2>2, <2>4, MemberBooks, ReceiverBooks, AcceptBooks, RunBooks DEF Next
  <2>7. QED  BY <2>2, <2>4, <2>5, <2>6 DEF IInv
<1>2. CASE UNCHANGED vars
  <2>1. UNCHANGED <<conns, ch, mode, held, read, up, gone>>
    BY <1>2 DEF vars, member
  <2>2. UNCHANGED <<wire, shut, queue, reg, receiver, task, acked, pend>>
    BY <1>2 DEF vars, hub
  <2>3. UNCHANGED <<lock, accept, run, seq, known>>  BY <1>2 DEF vars, auth
  <2>4. TypeOK'  BY <2>1, <2>2, <2>3, SMTT(20) DEF IInv, TypeOK
  <2>5. MemberInv'  BY <2>1, <2>2 DEF IInv, MemberInv
  <2>6. AcceptInv'  BY <2>1, <2>2, <2>3 DEF IInv, AcceptInv, HasFrame
  <2>7. WireInv'  BY <2>2, <2>3 DEF IInv, WireInv, HasFrame
  <2>8. BookInv'
    <3>1. RegisteredIsServed' /\ ReceiverKept' /\ Tracking'
      BY <2>2, <2>3 DEF IInv, BookInv, RegisteredIsServed, ReceiverKept, Tracking, HasFrame
    <3>2. HeldAnswered'
      BY <2>1, <2>2 DEF IInv, BookInv, HeldAnswered, AckComing
    <3>3. Watched'  BY <2>2, <2>3 DEF IInv, BookInv, Watched, Sending
    <3>4. QED  BY <3>1, <3>2, <3>3 DEF BookInv
  <2>9. QED  BY <2>4, <2>5, <2>6, <2>7, <2>8 DEF IInv
<1>3. QED  BY <1>1, <1>2

\* In every reachable state the invariant holds: what the Member, the two sends
\* under way, the channels' messages and the hub's books promise one another.
THEOREM Invariance == Spec => []IInv
<1>1. QED  BY InitIInv, NextIInv, PTL DEF Spec

\* A registered channel has a receiver that runs or a disconnect in the queue; a
\* Member that answers everything is not detached for an overdue acknowledgement;
\* one that leaves a frame unread is watched.
THEOREM HubSound == Spec => []HubIsSound
<1>1. IInv => HubIsSound
  <2> SUFFICES ASSUME IInv PROVE HubIsSound  OBVIOUS
  <2>1. TypeOK /\ RegisteredIsServed  BY DEF IInv, BookInv
  <2>2. NoFalseAlarm  BY AlarmJustified DEF IInv, BookInv
  <2>3. StalledIsWatched
    <3>1. SUFFICES ASSUME reg # 0, pend = 0, ~Sending(reg), NEW i \in DOMAIN wire[reg],
                          IsFrame(wire[reg][i])
                   PROVE  wire[reg][i].seq <= acked
      BY DEF StalledIsWatched
    <3>2. wire[reg][i].seq \in 1..MaxSeq /\ MaxSeq \in Nat
      BY <2>1, <3>1, Typed, MessageKinds
    <3>3. wire[reg][i].seq <= acked \/ wire[reg][i].seq <= pend
      BY <3>1 DEF IInv, BookInv, Watched
    <3>4. QED  BY <3>1, <3>2, <3>3
  <2>4. QED  BY <2>1, <2>2, <2>3 DEF HubIsSound
<1>2. QED  BY <1>1, Invariance, PTL

\* No record is missing on a channel, and none comes twice but the one a bootstrap
\* repeats.
THEOREM ChannelsContiguous == Spec => []FramesContiguous
<1>1. IInv => FramesContiguous
  <2> SUFFICES ASSUME IInv, NEW c \in Chans, NEW i \in DOMAIN wire[c], NEW j \in DOMAIN wire[c],
                      NextFrame(c, i, j)
               PROVE  wire[c][j].seq = wire[c][i].seq + (IF wire[c][j].kind = "boot" THEN 0 ELSE 1)
    BY DEF FramesContiguous
  <2>1. Contiguous(wire[c], seq) /\ DOMAIN wire[c] = 1..Len(wire[c]) /\ Len(wire[c]) \in Nat
    BY Typed DEF IInv, WireInv
  <2>2. j - 1 \in DOMAIN wire[c] /\ j > 1 /\ i <= j - 1  BY <2>1 DEF NextFrame
  <2>3. IsFrame(wire[c][i]) /\ (i < j - 1 => ~IsFrame(wire[c][j - 1]))
    BY <2>1, <2>2 DEF NextFrame
  <2>4. j - 1 = i
    <3>1. CASE i < j - 1
      <4>1. j - 1 > 1  BY <2>1, <3>1
      <4>2. IsFrame(wire[c][j - 1])  BY <2>1, <2>2, <4>1 DEF Contiguous
      <4>3. QED  BY <2>3, <3>1, <4>2
    <3>2. QED  BY <2>1, <2>2, <3>1
  <2>5. QED  BY <2>1, <2>2, <2>3, <2>4 DEF Contiguous
<1>2. QED  BY <1>1, Invariance, PTL
====
