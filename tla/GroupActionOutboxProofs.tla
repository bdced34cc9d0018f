----------------------- MODULE GroupActionOutboxProofs -----------------------
(***************************************************************************)
(* Theorems about GroupActionOutbox for any number of actions, copies and  *)
(* faults: the actions of a history are in the order of the log, the       *)
(* authority never sees a gap, and the outbox passes over no action that   *)
(* was neither applied nor refused, unless its client_seq was reused.      *)
(***************************************************************************)
EXTENDS GroupActionOutbox, Sequences, SequencesExt, SequenceTheorems, TLAPS

\* Appending a message adds it to the messages on the way.
LEMMA ToSetAppend ==
    ASSUME NEW S, NEW s \in Seq(S), NEW e \in S
    PROVE  Append(s, e) \in Seq(S) /\ ToSet(Append(s, e)) = ToSet(s) \union {e}
<1>1. /\ Append(s, e) \in Seq(S)
      /\ Len(Append(s, e)) = Len(s) + 1
      /\ \A i \in 1..Len(s) : Append(s, e)[i] = s[i]
      /\ Append(s, e)[Len(s) + 1] = e
  BY AppendProperties
<1>2. /\ Len(s) \in Nat /\ DOMAIN s = 1..Len(s)
      /\ DOMAIN Append(s, e) = 1..(Len(s) + 1)
  BY <1>1, LenProperties
<1>3. \A i \in 1..(Len(s) + 1) : i \in 1..Len(s) \/ i = Len(s) + 1  BY <1>2
<1>4. 1..Len(s) \subseteq 1..(Len(s) + 1) /\ Len(s) + 1 \in 1..(Len(s) + 1)  BY <1>2
<1>5. ToSet(Append(s, e)) \subseteq ToSet(s) \union {e}
  BY <1>1, <1>2, <1>3 DEF ToSet
<1>6. ToSet(s) \union {e} \subseteq ToSet(Append(s, e))
  BY <1>1, <1>2, <1>4 DEF ToSet
<1>7. QED  BY <1>1, <1>5, <1>6

\* Taking the first message removes at most that one.
LEMMA ToSetTail ==
    ASSUME NEW S, NEW s \in Seq(S), s # <<>>
    PROVE  /\ Head(s) \in S /\ Head(s) \in ToSet(s)
           /\ Tail(s) \in Seq(S) /\ ToSet(Tail(s)) \subseteq ToSet(s)
BY DEF ToSet

\* Sending several messages adds only those.
LEMMA ToSetConcat ==
    ASSUME NEW S, NEW s \in Seq(S), NEW t \in Seq(S)
    PROVE  s \o t \in Seq(S) /\ ToSet(s \o t) \subseteq ToSet(s) \union ToSet(t)
<1>1. /\ s \o t \in Seq(S)
      /\ Len(s \o t) = Len(s) + Len(t)
      /\ \A i \in 1..(Len(s) + Len(t)) :
            (s \o t)[i] = IF i <= Len(s) THEN s[i] ELSE t[i - Len(s)]
  BY ConcatProperties
<1>2. /\ Len(s) \in Nat /\ DOMAIN s = 1..Len(s)
      /\ Len(t) \in Nat /\ DOMAIN t = 1..Len(t)
      /\ DOMAIN (s \o t) = 1..(Len(s) + Len(t))
  BY <1>1, LenProperties
<1>3. SUFFICES ASSUME NEW i \in 1..(Len(s) + Len(t))
               PROVE  (s \o t)[i] \in ToSet(s) \union ToSet(t)
  BY <1>2 DEF ToSet
<1>4. CASE i <= Len(s)
  <2>1. i \in DOMAIN s /\ (s \o t)[i] = s[i]  BY <1>1, <1>2, <1>4
  <2>2. QED  BY <2>1 DEF ToSet
<1>5. CASE ~(i <= Len(s))
  <2>1. i - Len(s) \in DOMAIN t /\ (s \o t)[i] = t[i - Len(s)]  BY <1>1, <1>2, <1>5
  <2>2. QED  BY <2>1 DEF ToSet
<1>6. QED  BY <1>4, <1>5

\* Inputs on their way to the authority, of this and of earlier channels.
Flight == ToSet(queue) \union ToSet(up)

Outboxes == [offset : 0..MaxActions, accepted : Nat, pending : Input]
Verdicts == [Actions -> Statuses \union {"none"}]

-----------------------------------------------------------------------------
(* The invariant relates an outbox o, the verdicts v the user has, a history  *)
(* h with its client_seq l, and the inputs F on the way.  Its parts take them *)
(* as parameters, so that a step of the Leader that settles its own outbox is *)
(* the composition of two smaller ones.                                       *)

\* Action a is the one in flight.
InFlight(o, a) == o.pending # None /\ a = o.offset + 1

\* The pending action is the next record of the log, with the next client_seq.
PendingIsNext(o) ==
    o.pending # None => o.pending = [seq |-> o.accepted + 1, act |-> o.offset + 1]

\* The outbox has passed whatever was applied, but perhaps the action in flight.
AppliedPassed(o, h) ==
    \A i \in DOMAIN h : h[i] <= o.offset \/ (InFlight(o, h[i]) /\ i > o.accepted)

\* An input on its way: the action is passed or pending, its client_seq is at
\* most the next one, and all that was applied under smaller ones came before.
OnTheWay(o, v, h, e) ==
    /\ e.act \in Actions
    /\ e.seq \in Nat /\ e.seq <= o.accepted + 1
    /\ e.act <= o.offset \/ InFlight(o, e.act)
    /\ \A i \in DOMAIN h : i < e.seq => h[i] < e.act
    /\ e.seq <= o.accepted \/ InFlight(o, e.act) \/ v[e.act] = "rejected"

\* What the authority has applied and the Member does not know of: the pending
\* action, or an action whose first copy was refused.
Ahead(o, v, h) ==
    \A i \in DOMAIN h : i > o.accepted => InFlight(o, h[i]) \/ v[h[i]] = "rejected"

\* The user was told of no action beyond the committed offset.
Told(o, v) == \A a \in Actions : v[a] # "none" => a <= o.offset

InOrder(h) == \A i, j \in DOMAIN h : i < j => h[i] < h[j]

Reused(v, E, b) == \E a \in 1..(b - 1) : v[a] = "rejected" /\ a \in E
NoneLost(o, v, E) == \A b \in 1..o.offset : b \in E \/ v[b] = "rejected" \/ Reused(v, E, b)

Core(o, v, h, l, E, F) ==
    /\ o \in Outboxes /\ v \in Verdicts /\ h \in Seq(0..MaxActions) /\ l \in Nat
    /\ l = Len(h) /\ l <= o.accepted + 1
    /\ \A i \in DOMAIN h : h[i] \in Actions /\ h[i] \in E
    /\ PendingIsNext(o)
    /\ AppliedPassed(o, h)
    /\ \A e \in F : OnTheWay(o, v, h, e)
    /\ Ahead(o, v, h)
    /\ Told(o, v)
    /\ InOrder(h)
    /\ NoneLost(o, v, E)

-----------------------------------------------------------------------------
\* While anything of the Member can still be applied, the authority is not
\* behind its outbox.
Synced == mode = "run" \/ queue # <<>> => outbox.accepted <= last

Modes ==
    /\ mode = "idle" => up = <<>>
    /\ waiting => outbox.pending # None
    /\ mode \in {"terminal", "done"} => completed
    /\ mode = "terminal" => outbox.offset \in Actions /\ verdict[outbox.offset] = "none"

\* What is on the way back is backed by the authority.
Backed(r) ==
    /\ r.kind = "final" => completed /\ r.last = last
    /\ r.kind = "receipt" /\ r.status # "rejected" => r.seq <= last

AnswersBacked == \A r \in ToSet(down) : Backed(r)

IInv ==
    /\ TypeOK
    /\ Core(outbox, verdict, applied, last, ever, Flight)
    /\ Synced
    /\ Modes
    /\ AnswersBacked

-----------------------------------------------------------------------------
(* What the operations of the outbox and of the authority do to the parts    *)

\* Fewer inputs on the way keep the invariant.
LEMMA CoreLoses ==
    ASSUME NEW o, NEW v, NEW h, NEW l, NEW E, NEW F, Core(o, v, h, l, E, F),
           NEW F2 \in SUBSET F
    PROVE  Core(o, v, h, l, E, F2)
BY DEF Core

\* Preparing an action and sending it keeps the invariant: what was applied
\* under smaller client_seqs came before it.
LEMMA CorePrepared ==
    ASSUME NEW o, NEW v, NEW h, NEW l, NEW E, NEW F, Core(o, v, h, l, E, F),
           o.pending # None \/ o.offset < MaxActions
    PROVE  /\ Core(Prepared(o), v, h, l, E, F \union {Prepared(o).pending})
           /\ Prepared(o).pending \in Input /\ Prepared(o).pending # None
           /\ Prepared(o).accepted = o.accepted
<1> DEFINE q == Prepared(o)
           e == q.pending
           f == [seq |-> o.accepted + 1, act |-> o.offset + 1]
<1>1. o \in Outboxes /\ v \in Verdicts /\ h \in Seq(0..MaxActions) /\ l \in Nat
  BY DEF Core
<1>2. /\ o.offset \in 0..MaxActions /\ o.accepted \in Nat /\ o.pending \in Input
      /\ o.offset \in Nat
  BY <1>1, OutboxBounds DEF Outboxes
<1>3. f \in Input
  <2>1. CASE o.pending # None  BY <1>2, <2>1 DEF Core, PendingIsNext
  <2>2. CASE o.offset < MaxActions  BY <1>2, <2>2, OutboxBounds DEF Input
  <2>3. QED  BY <2>1, <2>2
<1>4. q \in Outboxes /\ q.offset = o.offset /\ q.accepted = o.accepted /\ e = f
  <2>1. CASE o.pending # None  BY <1>1, <2>1 DEF Prepared, Core, PendingIsNext
  <2>2. CASE o.pending = None
    <3>1. q = [o EXCEPT !.pending = f]  BY <2>2 DEF Prepared
    <3>2. QED  BY <1>1, <1>3, <3>1 DEF Outboxes
  <2>3. QED  BY <2>1, <2>2
<1>5. f # None /\ q.pending # None /\ f.seq = o.accepted + 1 /\ f.act = o.offset + 1 /\ f.act \in Actions
  BY <1>2, <1>3, <1>4, OutboxBounds DEF None, Input, Actions
<1> HIDE DEF q, e, f
<1>6. \A a : InFlight(o, a) => InFlight(q, a)  BY <1>4, <1>5 DEF InFlight
<1>7. InFlight(q, f.act)  BY <1>4, <1>5 DEF InFlight
<1>8. \A d \in F : OnTheWay(q, v, h, d)
  BY <1>4, <1>6 DEF Core, OnTheWay
<1>9. ASSUME NEW i \in DOMAIN h, i < f.seq PROVE h[i] < f.act
  <2>1. i \in Nat  BY <1>1, LenProperties
  <2>2. h[i] \in Nat  BY DEF Core, Actions
  <2>3. ~(i > o.accepted)  BY <1>2, <1>5, <1>9, <2>1
  <2>4. h[i] <= o.offset  BY <2>3 DEF Core, AppliedPassed
  <2>5. QED  BY <1>2, <1>5, <2>2, <2>4
<1>10. OnTheWay(q, v, h, f)
  BY <1>2, <1>4, <1>5, <1>7, <1>9 DEF OnTheWay
<1>11. PendingIsNext(q)  BY <1>4 DEF PendingIsNext, f, e
<1>12. AppliedPassed(q, h) /\ Ahead(q, v, h)
  BY <1>4, <1>6 DEF Core, AppliedPassed, Ahead
<1>13. Told(q, v) /\ NoneLost(q, v, E)  BY <1>4 DEF Core, Told, NoneLost
<1>14. Core(q, v, h, l, E, F \union {e})
  BY <1>4, <1>8, <1>10, <1>11, <1>12, <1>13 DEF Core
<1>15. QED  BY <1>3, <1>4, <1>5, <1>14 DEF q, e

\* A receipt the authority can back settles the pending action: it was applied,
\* or refused, or its client_seq belongs to an earlier action that was refused
\* in one copy and applied in another.
LEMMA CoreSettled ==
    ASSUME NEW o, NEW v, NEW h, NEW l, NEW E, NEW F, Core(o, v, h, l, E, F),
           NEW r \in Receipt, Matches(o, r), r.status # "rejected" => r.seq <= l
    PROVE  /\ Core(Settled(o, r), [v EXCEPT ![r.act] = r.status], h, l, E, F)
           /\ o.accepted <= l => Settled(o, r).accepted <= l
<1> DEFINE q == Settled(o, r)
           w == [v EXCEPT ![r.act] = r.status]
           p == o.offset + 1
<1>1. /\ o \in Outboxes /\ v \in Verdicts /\ h \in Seq(0..MaxActions) /\ l \in Nat
      /\ l = Len(h) /\ l <= o.accepted + 1
  BY DEF Core
<1>2. o.offset \in 0..MaxActions /\ o.accepted \in Nat /\ o.offset \in Nat
  BY <1>1, OutboxBounds DEF Outboxes
<1>3. /\ o.pending # None /\ o.pending = [seq |-> o.accepted + 1, act |-> p]
      /\ r.seq = o.accepted + 1 /\ r.act = p /\ r.status \in Statuses
  BY DEF Core, PendingIsNext, Matches, Receipt
<1>4. p \in Actions /\ p \in Nat
  BY <1>2, <1>3, OutboxBounds DEF Receipt, Actions
<1>5. /\ q.offset = p /\ q.pending = None
      /\ q.accepted = IF r.status = "rejected" THEN o.accepted ELSE o.accepted + 1
  BY <1>2, <1>3 DEF Settled, AtLeast
<1>6. q \in Outboxes
  BY <1>2, <1>3, <1>4, OutboxBounds DEF Settled, AtLeast, Outboxes, Actions, None, Input
<1>7. w \in Verdicts /\ w[p] = r.status /\ \A a \in Actions : a # p => w[a] = v[a]
  BY <1>1, <1>3, <1>4 DEF Verdicts
<1>8. \A i \in DOMAIN h : /\ i \in Nat /\ i <= l /\ i >= 1
                          /\ h[i] \in Actions /\ h[i] \in E /\ h[i] \in Nat
  BY <1>1, LenProperties DEF Core, Actions
<1> HIDE DEF q, w, p
<1>9. \A a \in Nat : (a <= o.offset \/ InFlight(o, a)) => a <= q.offset
  BY <1>2, <1>5 DEF InFlight, p
<1>10. PendingIsNext(q)  BY <1>5 DEF PendingIsNext
<1>11. AppliedPassed(q, h)
  BY <1>8, <1>9 DEF AppliedPassed, Core
<1>12. ASSUME NEW a \in Actions, w[a] # "none" PROVE a <= q.offset
  <2>1. CASE a = p  BY <1>4, <1>5, <2>1
  <2>2. CASE a # p  BY <1>2, <1>5, <1>7, <1>12, <2>2 DEF Core, Told, Actions, p
  <2>3. QED  BY <2>1, <2>2
<1>13. Told(q, w)  BY <1>12 DEF Told
<1>14. l <= q.accepted + 1 /\ (o.accepted <= l => q.accepted <= l)
  BY <1>1, <1>2, <1>3, <1>5
<1>15. ASSUME NEW i \in DOMAIN h, i > q.accepted
       PROVE  w[h[i]] = "rejected"
  <2>1. i > o.accepted  BY <1>2, <1>5, <1>8, <1>15
  <2>2. CASE r.status = "rejected"
    <3>1. InFlight(o, h[i]) \/ v[h[i]] = "rejected"  BY <2>1 DEF Core, Ahead
    <3>2. h[i] = p \/ v[h[i]] = "rejected"  BY <3>1 DEF InFlight, p
    <3>3. QED  BY <1>7, <1>8, <2>2, <3>2
  <2>3. CASE r.status # "rejected"
    BY <1>1, <1>2, <1>5, <1>8, <1>15, <2>3
  <2>4. QED  BY <2>2, <2>3
<1>16. Ahead(q, w, h)  BY <1>15 DEF Ahead
<1>17. ASSUME NEW e \in F PROVE OnTheWay(q, w, h, e)
  <2>1. OnTheWay(o, v, h, e)  BY DEF Core
  <2>2. /\ e.act \in Actions /\ e.act \in Nat /\ e.act <= q.offset
        /\ e.seq \in Nat /\ e.seq <= q.accepted + 1
    BY <1>2, <1>5, <1>9, <2>1 DEF OnTheWay, Actions
  <2>3. e.seq <= q.accepted \/ w[e.act] = "rejected"
    <3>1. e.seq <= o.accepted \/ e.act = p \/ v[e.act] = "rejected"
      BY <2>1 DEF OnTheWay, InFlight, p
    <3>2. CASE r.status = "rejected"  BY <1>5, <1>7, <2>2, <3>1, <3>2
    <3>3. CASE r.status # "rejected"
      BY <1>2, <1>5, <2>1, <2>2, <3>3 DEF OnTheWay
    <3>4. QED  BY <3>2, <3>3
  <2>4. QED  BY <2>1, <2>2, <2>3 DEF OnTheWay
<1>18. ASSUME NEW b \in 1..q.offset
       PROVE  b \in E \/ w[b] = "rejected" \/ Reused(w, E, b)
  <2>1. \A a \in Actions : v[a] = "rejected" => w[a] = "rejected"
    <3>1. v[p] = "none"  BY <1>2, <1>4 DEF Core, Told, p
    <3>2. QED  BY <1>7, <3>1
  <2>2. \A a \in Nat : 1 <= a /\ a <= p => a \in Actions
    BY <1>4, OutboxBounds DEF Actions
  <2>3. CASE b \in 1..o.offset
    <3>1. b \in E \/ v[b] = "rejected" \/ Reused(v, E, b)
      BY <2>3 DEF Core, NoneLost
    <3>2. b \in Actions /\ \A a \in 1..(b - 1) : a \in Actions
      BY <1>2, <2>2, <2>3 DEF p
    <3>3. QED  BY <2>1, <3>1, <3>2 DEF Reused
  <2>4. CASE b = p /\ r.status = "rejected"  BY <1>7, <2>4
  <2>5. CASE b = p /\ r.status # "rejected"
    <3>1. l = o.accepted + 1 /\ l \in DOMAIN h
      BY <1>1, <1>2, <1>3, <2>5, LenProperties
    <3>2. InFlight(o, h[l]) \/ v[h[l]] = "rejected"
      BY <1>2, <3>1 DEF Core, Ahead
    <3>3. CASE InFlight(o, h[l])  BY <1>8, <2>5, <3>1, <3>3 DEF InFlight, p
    <3>4. CASE ~InFlight(o, h[l])
      <4>1. h[l] \in Actions /\ h[l] \in E /\ h[l] <= o.offset /\ w[h[l]] = "rejected"
        BY <1>8, <2>1, <3>1, <3>2, <3>4 DEF Core, AppliedPassed
      <4>2. h[l] \in 1..(b - 1)  BY <1>2, <2>5, <4>1 DEF Actions, p
      <4>3. QED  BY <4>1, <4>2 DEF Reused
    <3>5. QED  BY <3>3, <3>4
  <2>6. QED  BY <1>2, <1>5, <2>3, <2>4, <2>5 DEF p
<1>19. NoneLost(q, w, E)  BY <1>18 DEF NoneLost
<1>20. Core(q, w, h, l, E, F)
  BY <1>1, <1>6, <1>7, <1>8, <1>10, <1>11, <1>13, <1>14, <1>16, <1>17, <1>19 DEF Core
<1>21. QED  BY <1>14, <1>20 DEF q, w

\* Applying the input with the next client_seq keeps the invariant: it is the
\* pending action or one whose first copy was refused, and later in the log than
\* all that was applied before.
LEMMA CoreApplied ==
    ASSUME NEW o, NEW v, NEW h, NEW l, NEW E, NEW F, Core(o, v, h, l, E, F),
           NEW e \in F, e.seq = l + 1, o.accepted <= l
    PROVE  Core(o, v, Append(h, e.act), e.seq, E \union {e.act}, F)
<1> DEFINE g == Append(h, e.act)
           D == E \union {e.act}
<1>1. /\ o \in Outboxes /\ v \in Verdicts /\ h \in Seq(0..MaxActions) /\ l \in Nat
      /\ l = Len(h) /\ l <= o.accepted + 1
  BY DEF Core
<1>2. o.accepted \in Nat /\ o.offset \in 0..MaxActions /\ o.offset \in Nat
  BY <1>1, OutboxBounds DEF Outboxes
<1>3. OnTheWay(o, v, h, e)  BY DEF Core
<1>4. e.act \in Actions /\ e.act \in 0..MaxActions /\ e.seq <= o.accepted + 1
  BY <1>3, OutboxBounds DEF OnTheWay, Actions
<1>5. l = o.accepted  BY <1>1, <1>2, <1>4
<1>6. /\ g \in Seq(0..MaxActions) /\ Len(g) = l + 1
      /\ \A i \in 1..l : g[i] = h[i]
      /\ g[l + 1] = e.act
  BY <1>1, <1>4, AppendProperties
<1>7. DOMAIN h = 1..l /\ DOMAIN g = 1..(l + 1)  BY <1>1, <1>6, LenProperties
<1> HIDE DEF g, D
<1>8. \A i \in DOMAIN g : (i \in DOMAIN h /\ i <= l /\ g[i] = h[i]) \/ (i = l + 1 /\ g[i] = e.act)
  BY <1>1, <1>6, <1>7
<1>9. \A i \in DOMAIN g : g[i] \in Actions /\ g[i] \in D
  BY <1>4, <1>8 DEF Core, D
<1>10. e.act <= o.offset \/ InFlight(o, e.act)  BY <1>3 DEF OnTheWay
<1>11. AppliedPassed(o, g)
  <2> SUFFICES ASSUME NEW i \in DOMAIN g
               PROVE  g[i] <= o.offset \/ (InFlight(o, g[i]) /\ i > o.accepted)
    BY DEF AppliedPassed
  <2>1. CASE i = l + 1 /\ g[i] = e.act  BY <1>1, <1>5, <1>10, <2>1
  <2>2. CASE i \in DOMAIN h /\ g[i] = h[i]  BY <2>2 DEF Core, AppliedPassed
  <2>3. QED  BY <1>8, <2>1, <2>2
<1>12. Ahead(o, v, g)
  <2> SUFFICES ASSUME NEW i \in DOMAIN g, i > o.accepted
               PROVE  InFlight(o, g[i]) \/ v[g[i]] = "rejected"
    BY DEF Ahead
  <2>1. i = l + 1 /\ g[i] = e.act  BY <1>1, <1>5, <1>7, <1>8
  <2>2. ~(e.seq <= o.accepted)  BY <1>1, <1>5
  <2>3. QED  BY <1>3, <2>1, <2>2 DEF OnTheWay
<1>13. ASSUME NEW d \in F PROVE OnTheWay(o, v, g, d)
  <2>1. OnTheWay(o, v, h, d)  BY DEF Core
  <2>2. d.seq \in Nat /\ d.seq <= l + 1  BY <1>5, <2>1 DEF OnTheWay
  <2>3. ASSUME NEW i \in DOMAIN g, i < d.seq PROVE g[i] < d.act
    <3>1. i \in DOMAIN h /\ g[i] = h[i]  BY <1>1, <1>8, <2>2, <2>3
    <3>2. QED  BY <2>1, <2>3, <3>1 DEF OnTheWay
  <2>4. QED  BY <2>1, <2>3 DEF OnTheWay
<1>14. InOrder(g)
  <2> SUFFICES ASSUME NEW i \in DOMAIN g, NEW j \in DOMAIN g, i < j
               PROVE  g[i] < g[j]
    BY DEF InOrder
  <2>1. i \in DOMAIN h /\ g[i] = h[i]  BY <1>1, <1>7, <1>8
  <2>2. CASE j \in DOMAIN h /\ g[j] = h[j]  BY <2>1, <2>2 DEF Core, InOrder
  <2>3. CASE j = l + 1 /\ g[j] = e.act
    BY <1>3, <2>1, <2>3 DEF OnTheWay
  <2>4. QED  BY <1>8, <2>2, <2>3
<1>15. NoneLost(o, v, D)  BY DEF Core, NoneLost, Reused, D
<1>16. Core(o, v, g, l + 1, D, F)
  BY <1>1, <1>2, <1>5, <1>6, <1>9, <1>11, <1>12, <1>13, <1>14, <1>15 DEF Core
<1>17. QED  BY <1>16 DEF g, D

\* Reconciling with the authority's client_seq commits the pending action when it
\* is covered, and renumbers it when not.
LEMMA CoreReconciled ==
    ASSUME NEW o, NEW v, NEW h, NEW l, NEW E, NEW F, Core(o, v, h, l, E, F),
           F = {} \/ o.accepted <= l
    PROVE  /\ Core(Reconciled(o, l), v, h, l, E, F)
           /\ Reconciled(o, l).accepted = l
<1> DEFINE q == Reconciled(o, l)
           p == o.offset + 1
<1>1. /\ o \in Outboxes /\ v \in Verdicts /\ h \in Seq(0..MaxActions) /\ l \in Nat
      /\ l = Len(h) /\ l <= o.accepted + 1
  BY DEF Core
<1>2. /\ o.accepted \in Nat /\ o.offset \in 0..MaxActions /\ o.offset \in Nat
      /\ o.pending \in Input
  BY <1>1, OutboxBounds DEF Outboxes
<1>3. o.pending # None => /\ o.pending = [seq |-> o.accepted + 1, act |-> p]
                          /\ o.pending.seq = o.accepted + 1 /\ o.pending.act = p
                          /\ p \in Actions
  BY <1>2, OutboxBounds DEF Core, PendingIsNext, Input, Actions
<1>4. \A i \in DOMAIN h : i \in Nat /\ i <= l /\ h[i] \in Actions /\ h[i] \in Nat
  BY <1>1, LenProperties DEF Core, Actions
<1>5. CASE o.pending = None
  <2>1. /\ q = [o EXCEPT !.accepted = l]
        /\ q \in Outboxes /\ q.offset = o.offset /\ q.accepted = l /\ q.pending = None
    BY <1>1, <1>5 DEF Reconciled, Outboxes
  <2> HIDE DEF q
  <2>2. \A a : ~InFlight(o, a) /\ ~InFlight(q, a)  BY <1>5, <2>1 DEF InFlight
  <2>3. PendingIsNext(q) /\ Told(q, v) /\ NoneLost(q, v, E)
    BY <2>1 DEF Core, PendingIsNext, Told, NoneLost
  <2>4. AppliedPassed(q, h)  BY <2>1, <2>2 DEF Core, AppliedPassed
  <2>5. Ahead(q, v, h)  BY <1>1, <1>4, <2>1 DEF Ahead
  <2>6. ASSUME NEW e \in F PROVE OnTheWay(q, v, h, e)
    <3>1. OnTheWay(o, v, h, e) /\ o.accepted <= l  BY DEF Core
    <3>2. e.seq \in Nat /\ e.seq <= l + 1 /\ (e.seq <= o.accepted => e.seq <= l)
      BY <1>1, <1>2, <3>1 DEF OnTheWay
    <3>3. QED  BY <2>1, <2>2, <3>1, <3>2 DEF OnTheWay
  <2>7. Core(q, v, h, l, E, F)
    BY <1>1, <2>1, <2>3, <2>4, <2>5, <2>6 DEF Core
  <2>8. QED  BY <2>1, <2>7 DEF q
<1>6. CASE o.pending # None /\ o.pending.seq <= l
  <2>1. q = [offset |-> p, accepted |-> l, pending |-> None]
    BY <1>2, <1>3, <1>6 DEF Reconciled, AtLeast
  <2>2. /\ q \in Outboxes /\ q.offset = p /\ q.accepted = l /\ q.pending = None
        /\ p \in Nat /\ l = o.accepted + 1 /\ o.accepted <= l
    BY <1>1, <1>2, <1>3, <1>6, <2>1, OutboxBounds DEF Outboxes, Input, None, Actions
  <2> HIDE DEF q
  <2>3. PendingIsNext(q) /\ Ahead(q, v, h)
    BY <1>1, <1>4, <2>2 DEF PendingIsNext, Ahead
  <2>4. Told(q, v)  BY <1>2, <2>2 DEF Core, Told, Actions, p
  <2>5. \A a \in Nat : a <= o.offset \/ InFlight(o, a) => a <= q.offset
    BY <1>2, <2>2 DEF InFlight, p
  <2>6. AppliedPassed(q, h)  BY <1>4, <2>5 DEF Core, AppliedPassed
  <2>7. ASSUME NEW e \in F PROVE OnTheWay(q, v, h, e)
    <3>1. OnTheWay(o, v, h, e)  BY DEF Core
    <3>2. e.act \in Nat /\ e.seq \in Nat /\ e.seq <= l
      BY <2>2, <3>1 DEF OnTheWay, Actions
    <3>3. e.act <= q.offset  BY <2>5, <3>1, <3>2 DEF OnTheWay
    <3>4. QED  BY <1>1, <2>2, <3>1, <3>2, <3>3 DEF OnTheWay
  <2>8. ASSUME NEW b \in 1..p
        PROVE  b \in E \/ v[b] = "rejected" \/ Reused(v, E, b)
    <3>1. CASE b \in 1..o.offset  BY <3>1 DEF Core, NoneLost
    <3>2. CASE b = p
      <4>1. l \in DOMAIN h /\ l > o.accepted
        <5>1. DOMAIN h = 1..l  BY <1>1, LenProperties
        <5>2. QED  BY <1>1, <1>2, <2>2, <5>1
      <4>2. h[l] \in E /\ (InFlight(o, h[l]) \/ v[h[l]] = "rejected")
        BY <4>1 DEF Core, Ahead
      <4>3. CASE InFlight(o, h[l])  BY <3>2, <4>2, <4>3 DEF InFlight, p
      <4>4. CASE ~InFlight(o, h[l])
        <5>1. h[l] <= o.offset  BY <4>1, <4>4 DEF Core, AppliedPassed
        <5>2. h[l] \in 1..(b - 1)  BY <1>2, <1>4, <3>2, <4>1, <5>1 DEF Actions, p
        <5>3. QED  BY <4>2, <4>4, <5>2 DEF Reused
      <4>5. QED  BY <4>3, <4>4
    <3>3. QED  BY <1>2, <3>1, <3>2 DEF p
  <2>9. NoneLost(q, v, E)  BY <2>2, <2>8 DEF NoneLost
  <2>10. Core(q, v, h, l, E, F)
    BY <1>1, <2>2, <2>3, <2>4, <2>6, <2>7, <2>9 DEF Core
  <2>11. QED  BY <2>2, <2>10 DEF q
<1>7. CASE o.pending # None /\ ~(o.pending.seq <= l)
  <2>0. o.accepted >= l  BY <1>1, <1>2, <1>3, <1>7
  <2>1. q = [o EXCEPT !.accepted = l, !.pending.seq = l + 1]
    BY <1>7 DEF Reconciled
  <2>2. /\ q \in Outboxes /\ q.offset = o.offset /\ q.accepted = l
        /\ q.pending = [seq |-> l + 1, act |-> p] /\ q.pending # None
    <3>1. o.pending = [seq |-> o.accepted + 1, act |-> p]  BY <1>3, <1>7
    <3>2. o = [offset |-> o.offset, accepted |-> o.accepted,
               pending |-> [seq |-> o.accepted + 1, act |-> p]]
      BY <1>1, <3>1 DEF Outboxes
    <3>3. q = [offset |-> o.offset, accepted |-> l, pending |-> [seq |-> l + 1, act |-> p]]
      <4>1. q = [o EXCEPT !.accepted = l, !.pending = [o.pending EXCEPT !.seq = l + 1]]
        BY <2>1
      <4>2. [o.pending EXCEPT !.seq = l + 1] = [seq |-> l + 1, act |-> p]  BY <3>1
      <4>3. QED  BY <1>1, <4>1, <4>2 DEF Outboxes
    <3>4. [seq |-> l + 1, act |-> p] \in Input /\ [seq |-> l + 1, act |-> p] # None
      BY <1>1, <1>2, <1>3, <1>7, OutboxBounds DEF Input, None, Actions
    <3>5. QED  BY <1>1, <1>2, <3>3, <3>4 DEF Outboxes
  <2> HIDE DEF q
  <2>3. \A a : InFlight(q, a) <=> InFlight(o, a)  BY <1>7, <2>2 DEF InFlight
  <2>4. PendingIsNext(q) /\ Told(q, v) /\ NoneLost(q, v, E)
    BY <2>2 DEF Core, PendingIsNext, Told, NoneLost, p
  <2>5. AppliedPassed(q, h)
    BY <1>1, <1>2, <1>4, <2>0, <2>2 DEF Core, AppliedPassed
  <2>6. Ahead(q, v, h)  BY <1>1, <1>4, <2>2 DEF Ahead
  <2>7. ASSUME NEW e \in F PROVE OnTheWay(q, v, h, e)
    <3>1. OnTheWay(o, v, h, e) /\ o.accepted <= l  BY DEF Core
    <3>2. o.accepted = l  BY <1>1, <1>2, <2>0, <3>1
    <3>3. QED  BY <2>2, <2>3, <3>1, <3>2 DEF OnTheWay
  <2>8. Core(q, v, h, l, E, F)
    BY <1>1, <1>2, <2>2, <2>4, <2>5, <2>6, <2>7 DEF Core
  <2>9. QED  BY <2>2, <2>8 DEF q
<1>8. QED  BY <1>5, <1>6, <1>7

\* A successor that restores the first n actions, with nothing on the way, keeps
\* the invariant.
LEMMA CoreRolledBack ==
    ASSUME NEW o, NEW v, NEW h, NEW l, NEW E, NEW F, Core(o, v, h, l, E, F),
           NEW n \in 0..l
    PROVE  Core(o, v, SubSeq(h, 1, n), n, E, {})
<1> DEFINE g == SubSeq(h, 1, n)
<1>1. /\ h \in Seq(0..MaxActions) /\ l \in Nat /\ l = Len(h) /\ l <= o.accepted + 1
      /\ o.accepted \in Nat
  BY DEF Core, Outboxes
<1>2. DOMAIN h = 1..l  BY <1>1, LenProperties
<1>3. ASSUME NEW i \in 1..n PROVE h[i] \in 0..MaxActions
  <2>1. i \in 1..Len(h)  BY <1>1
  <2>2. QED  BY <1>1, <2>1, ElementOfSeq
<1>4. g \in Seq(0..MaxActions) /\ Len(g) = n /\ \A i \in 1..n : g[i] = h[i]
  BY <1>1, <1>3, SubSeqProperties
<1>5. DOMAIN g = 1..n /\ \A i \in 1..n : i \in DOMAIN h
  BY <1>1, <1>2, <1>4, LenProperties
<1> HIDE DEF g
<1>6. \A i \in DOMAIN g : i \in DOMAIN h /\ g[i] = h[i]  BY <1>4, <1>5
<1>7. AppliedPassed(o, g) /\ Ahead(o, v, g) /\ InOrder(g)
  BY <1>6 DEF Core, AppliedPassed, Ahead, InOrder
<1>8. n \in Nat /\ n <= o.accepted + 1  BY <1>1
<1>9. Core(o, v, g, n, E, {})  BY <1>4, <1>6, <1>7, <1>8 DEF Core
<1>10. QED  BY <1>9 DEF g

\* Telling the user about the last action passed, of which it knew nothing.
LEMMA CoreTold ==
    ASSUME NEW o, NEW v, NEW h, NEW l, NEW E, NEW F, Core(o, v, h, l, E, F),
           o.offset \in Actions, v[o.offset] = "none"
    PROVE  Core(o, [v EXCEPT ![o.offset] = "accepted"], h, l, E, F)
<1> DEFINE w == [v EXCEPT ![o.offset] = "accepted"]
<1>1. v \in Verdicts /\ o.offset \in 0..MaxActions /\ h \in Seq(0..MaxActions)
  BY DEF Core, Outboxes
<1>2. w \in Verdicts /\ \A a \in Actions : a # o.offset => w[a] = v[a]
  BY <1>1 DEF Verdicts, Statuses
<1> HIDE DEF w
<1>3. \A a \in Actions : v[a] = "rejected" => w[a] = "rejected"  BY <1>2
<1>4. Told(o, w)
  <2> SUFFICES ASSUME NEW a \in Actions, w[a] # "none" PROVE a <= o.offset
    BY DEF Told
  <2>1. CASE a = o.offset  BY <2>1 DEF Actions
  <2>2. CASE a # o.offset  BY <1>2, <2>2 DEF Core, Told
  <2>3. QED  BY <2>1, <2>2
<1>5. Ahead(o, w, h) /\ \A e \in F : OnTheWay(o, w, h, e)
  BY <1>3 DEF Core, Ahead, OnTheWay
<1>6. NoneLost(o, w, E)
  <2> SUFFICES ASSUME NEW b \in 1..o.offset
               PROVE  b \in E \/ w[b] = "rejected" \/ Reused(w, E, b)
    BY DEF NoneLost
  <2>1. b \in Actions /\ \A a \in 1..(b - 1) : a \in Actions
    BY <1>1, OutboxBounds DEF Actions
  <2>2. QED  BY <1>3, <2>1 DEF Core, NoneLost, Reused
<1>7. QED  BY <1>2, <1>4, <1>5, <1>6 DEF Core, w

-----------------------------------------------------------------------------
(* The initial state                                                         *)

\* Nothing is submitted, sent or applied yet.
LEMMA InitIInv == Init => IInv
<1> SUFFICES ASSUME Init PROVE IInv
  OBVIOUS
<1> USE DEF Init
<1>1. TypeOK
  <2>1. up \in Seq(Input) /\ queue \in Seq(Input) /\ down \in Seq(Receipt \union Final)
    BY EmptySeq
  <2>2. applied \in Seq(0..MaxActions)  BY EmptySeq
  <2>3. outbox \in [offset : 0..MaxActions, accepted : Nat, pending : Input]
    BY OutboxBounds DEF Input, None
  <2>4. verdict \in [Actions -> Statuses \union {"none"}]  OBVIOUS
  <2>5. submitted \in 0..MaxActions /\ faults \in 0..MaxFaults  BY OutboxBounds
  <2>6. QED  BY <2>1, <2>2, <2>3, <2>4, <2>5 DEF TypeOK
<1>2. Flight = {} /\ ToSet(down) = {} /\ DOMAIN applied = {} /\ Len(applied) = 0
  BY DEF Flight, ToSet
<1>3. /\ PendingIsNext(outbox) /\ AppliedPassed(outbox, applied)
      /\ Ahead(outbox, verdict, applied) /\ Told(outbox, verdict)
      /\ InOrder(applied) /\ NoneLost(outbox, verdict, ever)
  BY <1>2 DEF PendingIsNext, AppliedPassed, Ahead, Told, InOrder, NoneLost
<1>4. Core(outbox, verdict, applied, last, ever, Flight)
  BY <1>1, <1>2, <1>3 DEF Core, TypeOK, Outboxes, Verdicts
<1>5. Synced /\ Modes /\ AnswersBacked
  BY <1>2, LocalAssumption DEF Synced, Modes, AnswersBacked
<1>6. QED  BY <1>1, <1>4, <1>5 DEF IInv

-----------------------------------------------------------------------------
(* The Member's steps                                                        *)

\* Submitting only grows the log.
LEMMA SubmitStep == IInv /\ Submit => IInv'
<1> SUFFICES ASSUME IInv, Submit PROVE IInv'
  OBVIOUS
<1> USE DEF IInv
<1>1. TypeOK'  BY OutboxBounds DEF TypeOK, Submit, wire, authority
<1>2. UNCHANGED <<outbox, waiting, mode, up, down, queue, last, applied, completed, ever,
                  verdict>>
  BY DEF Submit, wire, authority
<1>3. Flight' = Flight  BY <1>2 DEF Flight
<1>4. Synced' /\ Modes' /\ AnswersBacked'
  BY <1>2 DEF Synced, Modes, AnswersBacked, Backed
<1>5. Core(outbox, verdict, applied, last, ever, Flight)'  BY <1>2, <1>3
<1>6. QED  BY <1>1, <1>4, <1>5

\* Sending keeps the invariant: the prepared action becomes an input on the way.
LEMMA SendStep == IInv /\ Send => IInv'
<1> SUFFICES ASSUME IInv, Send PROVE IInv'
  OBVIOUS
<1> USE DEF IInv
<1> DEFINE e == Prepared(outbox).pending
<1>1. /\ outbox' = Prepared(outbox) /\ waiting' = TRUE /\ mode = "run"
      /\ outbox.pending # None \/ outbox.offset < submitted
      /\ UNCHANGED <<submitted, verdict, mode, down, last, applied, completed, ever, faults>>
  BY DEF Send, user, authority
<1>2. outbox.pending # None \/ outbox.offset < MaxActions
  BY <1>1, OutboxBounds DEF TypeOK
<1>3. /\ Core(outbox', verdict, applied, last, ever, Flight \union {e})
      /\ e \in Input /\ e # None /\ outbox'.accepted = outbox.accepted
      /\ outbox'.pending = e
  BY <1>1, <1>2, CorePrepared
<1> HIDE DEF e
<1>4. queue \in Seq(Input) /\ up \in Seq(Input)  BY DEF TypeOK
<1>5. /\ queue' \in Seq(Input) /\ up' \in Seq(Input)
      /\ Flight' = Flight \union {e}
  <2>1. CASE Local
    <3>1. queue' = Append(queue, e) /\ up' = up  BY <1>1, <2>1 DEF Send, e
    <3>2. /\ Append(queue, e) \in Seq(Input)
          /\ ToSet(Append(queue, e)) = ToSet(queue) \union {e}
      BY <1>3, <1>4, ToSetAppend
    <3>3. QED  BY <1>4, <3>1, <3>2 DEF Flight
  <2>2. CASE ~Local
    <3>1. up' = Append(up, e) /\ queue' = queue  BY <1>1, <2>2 DEF Send, e
    <3>2. /\ Append(up, e) \in Seq(Input)
          /\ ToSet(Append(up, e)) = ToSet(up) \union {e}
      BY <1>3, <1>4, ToSetAppend
    <3>3. QED  BY <1>4, <3>1, <3>2 DEF Flight
  <2>3. QED  BY <2>1, <2>2
<1>6. TypeOK'  BY <1>1, <1>3, <1>5 DEF TypeOK, Core, Outboxes
<1>7. Core(outbox, verdict, applied, last, ever, Flight)'  BY <1>1, <1>3, <1>5
<1>8. Synced' /\ Modes' /\ AnswersBacked'
  BY <1>1, <1>3 DEF Synced, Modes, AnswersBacked, Backed
<1>9. QED  BY <1>6, <1>7, <1>8

\* A retry sends the pending action once more.
LEMMA RetryStep == IInv /\ Retry => IInv'
<1> SUFFICES ASSUME IInv, Retry PROVE IInv'
  OBVIOUS
<1> USE DEF IInv
<1> DEFINE e == outbox.pending
<1>1. /\ up' = Append(up, e) /\ mode = "run" /\ waiting
      /\ UNCHANGED <<submitted, verdict, outbox, waiting, mode, down, queue, last,
                     applied, completed, ever, faults>>
  BY DEF Retry, user, authority
<1>2. e \in Input /\ up \in Seq(Input)  BY DEF TypeOK
<1>3. up' \in Seq(Input) /\ ToSet(up') = ToSet(up) \union {e}
  BY <1>1, <1>2, ToSetAppend
<1>4. Flight' = Flight \union {e}  BY <1>1, <1>3 DEF Flight
<1>5. e # None  BY <1>1 DEF Modes
<1>6. Prepared(outbox) = outbox  BY <1>5 DEF Prepared
<1>7. Core(outbox, verdict, applied, last, ever, Flight \union {e})
  BY <1>5, <1>6, CorePrepared
<1>8. Core(outbox, verdict, applied, last, ever, Flight)'  BY <1>1, <1>4, <1>7
<1>9. TypeOK'  BY <1>1, <1>3 DEF TypeOK
<1>10. Synced' /\ Modes' /\ AnswersBacked'
  BY <1>1 DEF Synced, Modes, AnswersBacked, Backed
<1>11. QED  BY <1>8, <1>9, <1>10

\* A receipt settles the pending action, or is only reported.
LEMMA ReceiveReceiptStep == IInv /\ ReceiveReceipt => IInv'
<1> SUFFICES ASSUME IInv, ReceiveReceipt PROVE IInv'
  OBVIOUS
<1> USE DEF IInv
<1> DEFINE r == Head(down)
<1>1. /\ down # <<>> /\ r.kind = "receipt" /\ mode = "run" /\ down' = Tail(down)
      /\ UNCHANGED <<submitted, mode, up, queue, last, applied, completed, ever, faults>>
  BY DEF ReceiveReceipt, authority
<1>2. down \in Seq(Receipt \union Final)  BY DEF TypeOK
<1>3. /\ r \in Receipt \union Final /\ r \in ToSet(down)
      /\ down' \in Seq(Receipt \union Final) /\ ToSet(down') \subseteq ToSet(down)
  BY <1>1, <1>2, ToSetTail
<1>4. r \in Receipt  BY <1>1, <1>3 DEF Receipt, Final
<1>5. r.status # "rejected" => r.seq <= last  BY <1>1, <1>3 DEF AnswersBacked, Backed
<1> HIDE DEF r
<1>6. Flight' = Flight  BY <1>1 DEF Flight
<1>7. AnswersBacked'  BY <1>1, <1>3 DEF AnswersBacked, Backed
<1>8. CASE Matches(outbox, r)
  <2>1. /\ outbox' = Settled(outbox, r) /\ waiting' = FALSE
        /\ verdict' = [verdict EXCEPT ![r.act] = r.status]
    BY <1>8 DEF ReceiveReceipt, r
  <2>2. /\ Core(Settled(outbox, r), [verdict EXCEPT ![r.act] = r.status], applied, last,
                ever, Flight)
        /\ outbox.accepted <= last => Settled(outbox, r).accepted <= last
    BY <1>4, <1>5, <1>8, CoreSettled
  <2>3. Core(outbox, verdict, applied, last, ever, Flight)'
    BY <1>1, <1>6, <2>1, <2>2
  <2>4. Synced' /\ Modes'  BY <1>1, <2>1, <2>2 DEF Synced, Modes
  <2>5. TypeOK'
    BY <1>1, <1>3, <2>1, <2>3 DEF TypeOK, Core, Outboxes, Verdicts
  <2>6. QED  BY <1>7, <2>3, <2>4, <2>5
<1>9. CASE ~Matches(outbox, r)
  <2>1. UNCHANGED <<outbox, verdict, waiting>>  BY <1>9 DEF ReceiveReceipt, r
  <2>2. Core(outbox, verdict, applied, last, ever, Flight)'  BY <1>1, <1>6, <2>1
  <2>3. TypeOK' /\ Synced' /\ Modes'
    BY <1>1, <1>3, <2>1 DEF TypeOK, Synced, Modes
  <2>4. QED  BY <1>7, <2>2, <2>3
<1>10. QED  BY <1>8, <1>9

\* The completing frame ends the session, or commits the pending action from the
\* checkpoint it carries, which is the authority's last.
LEMMA ReceiveFinalStep == IInv /\ ReceiveFinal => IInv'
<1> SUFFICES ASSUME IInv, ReceiveFinal PROVE IInv'
  OBVIOUS
<1> USE DEF IInv
<1> DEFINE f == Head(down)
<1>1. /\ down # <<>> /\ f.kind = "final" /\ mode = "run" /\ down' = Tail(down)
      /\ waiting' = FALSE
      /\ UNCHANGED <<submitted, verdict, up, queue, last, applied, completed, ever, faults>>
  BY DEF ReceiveFinal, authority, user
<1>2. down \in Seq(Receipt \union Final)  BY DEF TypeOK
<1>3. /\ f \in ToSet(down)
      /\ down' \in Seq(Receipt \union Final) /\ ToSet(down') \subseteq ToSet(down)
  BY <1>1, <1>2, ToSetTail
<1>4. completed /\ f.last = last  BY <1>1, <1>3 DEF AnswersBacked, Backed
<1> HIDE DEF f
<1>5. Flight' = Flight  BY <1>1 DEF Flight
<1>6. AnswersBacked'  BY <1>1, <1>3 DEF AnswersBacked, Backed
<1>7. outbox.accepted <= last  BY <1>1 DEF Synced
<1>8. CASE outbox.pending # None /\ outbox.pending.seq <= f.last
  <2>1. outbox' = Reconciled(outbox, last) /\ mode' = "terminal"
    BY <1>4, <1>8 DEF ReceiveFinal, f
  <2>2. /\ Core(Reconciled(outbox, last), verdict, applied, last, ever, Flight)
        /\ Reconciled(outbox, last).accepted = last
    BY <1>7, CoreReconciled
  <2>3. Core(outbox, verdict, applied, last, ever, Flight)'
    BY <1>1, <1>5, <2>1, <2>2
  <2>4. /\ outbox.offset \in 0..MaxActions /\ outbox.pending \in Input
        /\ outbox.pending.act = outbox.offset + 1
    BY <1>8 DEF TypeOK, Core, PendingIsNext
  <2>5. outbox'.offset = outbox.offset + 1
    BY <1>4, <1>8, <2>1, <2>4, OutboxBounds DEF Reconciled, AtLeast
  <2>6. outbox'.offset \in Actions
    BY <2>4, <2>5, OutboxBounds DEF Actions, Input
  <2>7. verdict[outbox'.offset] = "none"
    BY <2>4, <2>5, <2>6, OutboxBounds DEF Core, Told, Actions
  <2>8. Modes'  BY <1>1, <1>4, <2>1, <2>6, <2>7 DEF Modes
  <2>9. last \in Nat  BY DEF TypeOK
  <2>10. Synced'  BY <1>1, <2>1, <2>2, <2>9 DEF Synced
  <2>11. TypeOK'
    BY <1>1, <1>3, <2>1, <2>3 DEF TypeOK, Core, Outboxes
  <2>12. QED  BY <1>6, <2>3, <2>8, <2>10, <2>11
<1>9. CASE ~(outbox.pending # None /\ outbox.pending.seq <= f.last)
  <2>1. mode' = "done" /\ outbox' = outbox  BY <1>9 DEF ReceiveFinal, f
  <2>2. Core(outbox, verdict, applied, last, ever, Flight)'  BY <1>1, <1>5, <2>1
  <2>3. TypeOK' /\ Synced' /\ Modes'
    BY <1>1, <1>3, <1>4, <2>1 DEF TypeOK, Synced, Modes
  <2>4. QED  BY <1>6, <2>2, <2>3
<1>10. QED  BY <1>8, <1>9

\* The Member reports the action that the checkpoint covered.
LEMMA FinishStep == IInv /\ Finish => IInv'
<1> SUFFICES ASSUME IInv, Finish PROVE IInv'
  OBVIOUS
<1> USE DEF IInv
<1>1. /\ mode = "terminal" /\ mode' = "done"
      /\ verdict' = [verdict EXCEPT ![outbox.offset] = "accepted"]
      /\ UNCHANGED <<submitted, outbox, waiting, up, down, queue, last, applied,
                     completed, ever, faults>>
  BY DEF Finish, wire, authority
<1>2. outbox.offset \in Actions /\ verdict[outbox.offset] = "none" /\ completed
  BY <1>1 DEF Modes
<1>3. Flight' = Flight  BY <1>1 DEF Flight
<1>4. Core(outbox, verdict', applied, last, ever, Flight)
  BY <1>1, <1>2, CoreTold
<1>5. Core(outbox, verdict, applied, last, ever, Flight)'  BY <1>1, <1>3, <1>4
<1>6. Synced' /\ Modes' /\ AnswersBacked'
  BY <1>1, <1>2 DEF Synced, Modes, AnswersBacked, Backed
<1>7. TypeOK'  BY <1>1, <1>4 DEF TypeOK, Core, Verdicts
<1>8. QED  BY <1>5, <1>6, <1>7

\* A reconnection reconciles the outbox with the bootstrap; nothing is on the
\* channel yet, and what the hub still holds was sent in step with the authority.
LEMMA ReconnectStep == IInv /\ Reconnect => IInv'
<1> SUFFICES ASSUME IInv, Reconnect PROVE IInv'
  OBVIOUS
<1> USE DEF IInv
<1>1. /\ mode = "idle" /\ mode' = "run" /\ waiting' = FALSE
      /\ outbox' = Reconciled(outbox, last)
      /\ UNCHANGED <<submitted, verdict, up, down, queue, last, applied, completed,
                     ever, faults>>
  BY DEF Reconnect, user, wire, authority
<1>2. Flight' = Flight  BY <1>1 DEF Flight
<1>3. Flight = {} \/ outbox.accepted <= last
  BY <1>1 DEF Flight, Modes, Synced, ToSet
<1>4. /\ Core(Reconciled(outbox, last), verdict, applied, last, ever, Flight)
      /\ Reconciled(outbox, last).accepted = last
  BY <1>3, CoreReconciled
<1>5. Core(outbox, verdict, applied, last, ever, Flight)'  BY <1>1, <1>2, <1>4
<1>6. last \in Nat  BY DEF TypeOK
<1>7. Synced' /\ Modes' /\ AnswersBacked'
  BY <1>1, <1>4, <1>6 DEF Synced, Modes, AnswersBacked, Backed
<1>8. TypeOK'  BY <1>1, <1>5 DEF TypeOK, Core, Outboxes
<1>9. QED  BY <1>5, <1>7, <1>8

\* Recovery that finds the room closed touches nothing.
LEMMA FindClosedStep == IInv /\ FindClosed => IInv'
<1> SUFFICES ASSUME IInv, FindClosed PROVE IInv'
  OBVIOUS
<1> USE DEF IInv
<1>1. /\ completed /\ mode = "idle" /\ mode' = "done"
      /\ UNCHANGED <<submitted, verdict, outbox, waiting, up, down, queue, last, applied,
                     completed, ever, faults>>
  BY DEF FindClosed, user, wire, authority
<1>2. Flight' = Flight  BY <1>1 DEF Flight
<1>3. Core(outbox, verdict, applied, last, ever, Flight)'  BY <1>1, <1>2
<1>4. TypeOK' /\ Synced' /\ Modes' /\ AnswersBacked'
  BY <1>1 DEF TypeOK, Synced, Modes, AnswersBacked, Backed
<1>5. QED  BY <1>3, <1>4

-----------------------------------------------------------------------------
(* The Leader's steps                                                        *)

\* Moving an input from the channel to the hub's queue keeps it on the way.
LEMMA EnqueueStep == IInv /\ Enqueue => IInv'
<1> SUFFICES ASSUME IInv, Enqueue PROVE IInv'
  OBVIOUS
<1> USE DEF IInv
<1> DEFINE e == Head(up)
<1>1. /\ up # <<>> /\ ~completed /\ queue' = Append(queue, e) /\ up' = Tail(up)
      /\ UNCHANGED <<submitted, verdict, outbox, waiting, mode, down, last, applied,
                     completed, ever, faults>>
  BY DEF Enqueue, user, authority
<1>2. up \in Seq(Input) /\ queue \in Seq(Input)  BY DEF TypeOK
<1>3. /\ e \in Input /\ e \in ToSet(up)
      /\ Tail(up) \in Seq(Input) /\ ToSet(Tail(up)) \subseteq ToSet(up)
  BY <1>1, <1>2, ToSetTail
<1> HIDE DEF e
<1>4. /\ Append(queue, e) \in Seq(Input)
      /\ ToSet(Append(queue, e)) = ToSet(queue) \union {e}
  BY <1>2, <1>3, ToSetAppend
<1>5. Flight' \in SUBSET Flight  BY <1>1, <1>3, <1>4 DEF Flight
<1>6. Core(outbox, verdict, applied, last, ever, Flight')  BY <1>5, CoreLoses
<1>7. Core(outbox, verdict, applied, last, ever, Flight)'  BY <1>1, <1>6
<1>8. mode = "run"
  BY <1>1 DEF Modes, TypeOK
<1>9. TypeOK' /\ Synced' /\ Modes' /\ AnswersBacked'
  BY <1>1, <1>3, <1>4, <1>8 DEF TypeOK, Synced, Modes, AnswersBacked, Backed
<1>10. QED  BY <1>7, <1>9

\* Answering an input: the answer, and the frames before it, are backed by what
\* the authority now is, and so may settle the Leader's own outbox at once.
LEMMA ReplyEffect ==
    ASSUME TypeOK, Modes, AnswersBacked, last' \in Nat, last <= last',
           ~completed, completed' \in BOOLEAN,
           NEW F, Core(outbox, verdict, applied', last', ever', F),
           NEW e \in Input, NEW status \in Statuses,
           status # "rejected" => e.seq <= last',
           NEW frames \in Seq(Final),
           \A f \in ToSet(frames) : completed' /\ f.last = last',
           frames # <<>> <=> completed',
           Reply(e, status, frames)
    PROVE  /\ Core(outbox', verdict', applied', last', ever', F)
           /\ outbox.accepted <= last' => outbox'.accepted <= last'
           /\ waiting' \in BOOLEAN /\ mode' \in {"idle", "run", "terminal", "done"}
           /\ mode' = "run" => mode = "run"
           /\ down' \in Seq(Receipt \union Final)
           /\ AnswersBacked'
           /\ waiting' => outbox'.pending # None
           /\ mode' = "idle" => mode = "idle"
           /\ mode' \in {"terminal", "done"} => completed'
           /\ mode' # "terminal"
<1> DEFINE r == Answer(e, status)
<1>1. r \in Receipt /\ r.kind = "receipt" /\ r.status = status /\ r.seq = e.seq /\ r.act = e.act
  BY DEF Answer, Receipt, Input
<1> HIDE DEF r
<1>2. ASSUME NEW x \in ToSet(down) PROVE Backed(x)'
  <2>1. down \in Seq(Receipt \union Final)  BY DEF TypeOK
  <2>2. x \in Receipt \union Final  BY <2>1 DEF ToSet
  <2>3. Backed(x) /\ last \in Nat  BY DEF AnswersBacked, TypeOK
  <2>4. CASE x \in Receipt  BY <2>3, <2>4 DEF Backed, Receipt
  <2>5. CASE x \in Final  BY <2>3, <2>5 DEF Backed, Final
  <2>6. QED  BY <2>2, <2>4, <2>5
<1>3. mode # "terminal" /\ mode # "done" /\ waiting \in BOOLEAN
      /\ mode \in {"idle", "run", "terminal", "done"}
  BY DEF Modes, TypeOK
<1>4. CASE Local
  <2>1. down' = down /\ mode' = IF frames = <<>> THEN mode ELSE "done"
    BY <1>4 DEF Reply
  <2>2. AnswersBacked'  BY <1>2, <2>1 DEF AnswersBacked
  <2>3. CASE Matches(outbox, r)
    <3>1. /\ outbox' = Settled(outbox, r) /\ waiting' = FALSE
          /\ verdict' = [verdict EXCEPT ![r.act] = r.status]
      BY <1>1, <1>4, <2>3 DEF Reply, r
    <3>2. /\ Core(Settled(outbox, r), [verdict EXCEPT ![r.act] = r.status], applied', last',
                  ever', F)
          /\ outbox.accepted <= last' => Settled(outbox, r).accepted <= last'
      BY <1>1, <2>3, CoreSettled
    <3>3. QED  BY <1>3, <2>1, <2>2, <3>1, <3>2 DEF TypeOK
  <2>4. CASE ~Matches(outbox, r)
    <3>1. UNCHANGED <<outbox, verdict, waiting>>  BY <1>4, <2>4 DEF Reply, r
    <3>2. QED  BY <1>3, <2>1, <2>2, <3>1 DEF TypeOK, Modes
  <2>5. QED  BY <2>3, <2>4
<1>5. CASE ~Local
  <2>1. /\ down' = IF mode = "run" THEN down \o frames \o <<r>> ELSE down
        /\ UNCHANGED <<outbox, verdict, waiting, mode>>
    BY <1>5 DEF Reply, r
  <2>2. down' \in Seq(Receipt \union Final) /\ AnswersBacked'
    <3>1. down \in Seq(Receipt \union Final) /\ frames \in Seq(Receipt \union Final)
      BY DEF TypeOK
    <3>2. <<r>> \in Seq(Receipt \union Final)  BY <1>1
    <3>3. /\ down \o frames \in Seq(Receipt \union Final)
          /\ ToSet(down \o frames) \subseteq ToSet(down) \union ToSet(frames)
      BY <3>1, ToSetConcat
    <3>4. /\ (down \o frames) \o <<r>> \in Seq(Receipt \union Final)
          /\ ToSet((down \o frames) \o <<r>>) \subseteq ToSet(down \o frames) \union ToSet(<<r>>)
      BY <3>2, <3>3, ToSetConcat
    <3>5. ToSet(<<r>>) = {r}  BY DEF ToSet
    <3>6. Backed(r)'  BY <1>1 DEF Backed
    <3>7. ASSUME NEW f \in ToSet(frames) PROVE Backed(f)'
      <4>1. f \in Final /\ completed' /\ f.last = last'  BY DEF ToSet
      <4>2. QED  BY <4>1 DEF Backed, Final
    <3>8. QED  BY <1>2, <2>1, <3>1, <3>3, <3>4, <3>5, <3>6, <3>7 DEF AnswersBacked
  <2>3. QED  BY <1>3, <2>1, <2>2 DEF Modes
<1>6. QED  BY <1>4, <1>5

\* The head of the hub's queue is on the way, its client_seq at most the next.
LEMMA QueueHead ==
    ASSUME IInv, queue # <<>>
    PROVE  /\ Head(queue) \in Input /\ Head(queue) \in Flight
           /\ Head(queue).seq <= last + 1 /\ outbox.accepted <= last
           /\ Tail(queue) \in Seq(Input)
           /\ ToSet(Tail(queue)) \union ToSet(up) \in SUBSET Flight
<1>1. queue \in Seq(Input) /\ outbox \in Outboxes /\ last \in Nat
  BY DEF IInv, TypeOK, Outboxes
<1>2. /\ Head(queue) \in Input /\ Head(queue) \in ToSet(queue)
      /\ Tail(queue) \in Seq(Input) /\ ToSet(Tail(queue)) \subseteq ToSet(queue)
  BY <1>1, ToSetTail
<1>3. Head(queue) \in Flight  BY <1>2 DEF Flight
<1>4. OnTheWay(outbox, verdict, applied, Head(queue))  BY <1>3 DEF IInv, Core
<1>5. outbox.accepted <= last  BY DEF IInv, Synced
<1>6. Head(queue).seq <= last + 1
  BY <1>1, <1>4, <1>5 DEF OnTheWay, Outboxes
<1>7. QED  BY <1>2, <1>3, <1>5, <1>6 DEF Flight

\* Applying an input that is neither a duplicate nor a gap.
LEMMA ApplyStep == ASSUME NEW fin \in BOOLEAN PROVE IInv /\ Apply(fin) => IInv'
<1> SUFFICES ASSUME IInv, Apply(fin) PROVE IInv'
  OBVIOUS
<1> USE DEF IInv
<1> DEFINE e == Head(queue)
           frames == IF fin THEN <<[kind |-> "final", last |-> e.seq]>> ELSE <<>>
<1>1. /\ ~completed /\ queue # <<>> /\ ~Duplicate(e) /\ ~Gap(e) /\ last' = e.seq
      /\ applied' = Append(applied, e.act) /\ ever' = ever \union {e.act}
      /\ completed' = fin /\ Reply(e, "accepted", frames)
      /\ queue' = Tail(queue) /\ UNCHANGED <<submitted, up, faults>>
  BY DEF Apply
<1>2. /\ e \in Input /\ e \in Flight /\ e.seq \in Nat /\ e.act \in 0..MaxActions
      /\ e.seq <= last + 1 /\ outbox.accepted <= last
      /\ Tail(queue) \in Seq(Input)
      /\ ToSet(Tail(queue)) \union ToSet(up) \in SUBSET Flight
  BY <1>1, QueueHead DEF Input
<1>3. last \in Nat /\ outbox.accepted \in Nat /\ e.seq = last + 1
  BY SMTT(30), <1>1, <1>2 DEF TypeOK, Duplicate
<1>4. frames \in Seq(Final)
  <2>1. [kind |-> "final", last |-> e.seq] \in Final  BY <1>2 DEF Final
  <2>2. QED  BY <2>1, EmptySeq
<1>5. \A f \in ToSet(frames) : fin /\ f.last = e.seq  BY DEF ToSet
<1>6. frames # <<>> <=> fin  OBVIOUS
<1> HIDE DEF e, frames
<1>7. Core(outbox, verdict, applied', last', ever', Flight)
  BY <1>1, <1>2, <1>3, CoreApplied
<1>8. "accepted" \in Statuses  BY DEF Statuses
<1>9. /\ Core(outbox', verdict', applied', last', ever', Flight)
      /\ outbox.accepted <= last' => outbox'.accepted <= last'
      /\ waiting' \in BOOLEAN /\ mode' \in {"idle", "run", "terminal", "done"}
      /\ mode' = "run" => mode = "run"
      /\ down' \in Seq(Receipt \union Final)
      /\ AnswersBacked'
      /\ waiting' => outbox'.pending # None
      /\ mode' = "idle" => mode = "idle"
      /\ mode' \in {"terminal", "done"} => completed'
      /\ mode' # "terminal"
  <2>1. TypeOK /\ Modes /\ AnswersBacked /\ ~completed  BY <1>1
  <2>2. last' \in Nat /\ last <= last' /\ e.seq <= last' /\ completed' \in BOOLEAN
    BY <1>1, <1>2, <1>3
  <2>3. (\A f \in ToSet(frames) : completed' /\ f.last = last') /\ (frames # <<>> <=> completed')
    BY <1>1, <1>5, <1>6
  <2>4. Reply(e, "accepted", frames)  BY <1>1
  <2> HIDE DEF IInv
  <2>5. QED  BY <1>2, <1>4, <1>7, <1>8, <2>1, <2>2, <2>3, <2>4, ReplyEffect
<1>10. Flight' \in SUBSET Flight  BY <1>1, <1>2 DEF Flight
<1>11. Core(outbox, verdict, applied, last, ever, Flight)'
  <2>1. Core(outbox', verdict', applied', last', ever', Flight')
    BY <1>9, <1>10, CoreLoses
  <2>2. QED  BY <2>1
<1>12. Synced'  BY <1>1, <1>2, <1>3, <1>9 DEF Synced
<1>13. Modes'  BY <1>1, <1>9 DEF Modes
<1>14. TypeOK'
  <2>1. /\ outbox' \in Outboxes /\ verdict' \in Verdicts /\ applied' \in Seq(0..MaxActions)
        /\ last' \in Nat
    BY <1>9 DEF Core
  <2>2. ever' \in SUBSET (0..MaxActions)  BY <1>1, <1>2 DEF TypeOK
  <2>3. queue' \in Seq(Input) /\ up' \in Seq(Input) /\ submitted' \in 0..MaxActions
        /\ faults' \in 0..MaxFaults /\ completed' \in BOOLEAN
    BY <1>1, <1>2 DEF TypeOK
  <2>4. QED  BY <1>9, <2>1, <2>2, <2>3 DEF TypeOK, Outboxes, Verdicts
<1>15. QED  BY <1>9, <1>11, <1>12, <1>13, <1>14

\* An answer that applies nothing: a duplicate or a refusal.
LEMMA AnswerOnly ==
    ASSUME IInv, ~completed, queue # <<>>, NEW status \in Statuses,
           status # "rejected" => Duplicate(Head(queue)),
           Reply(Head(queue), status, <<>>),
           queue' = Tail(queue), UNCHANGED <<submitted, up, authority, faults>>
    PROVE  IInv'
<1> USE DEF IInv
<1> DEFINE e == Head(queue)
<1>1. UNCHANGED <<submitted, up, last, applied, completed, ever, faults>>  BY DEF authority
<1>2. /\ e \in Input /\ e \in Flight /\ outbox.accepted <= last
      /\ Tail(queue) \in Seq(Input)
      /\ ToSet(Tail(queue)) \union ToSet(up) \in SUBSET Flight
  BY QueueHead
<1>3. status # "rejected" => e.seq <= last'  BY <1>1 DEF Duplicate
<1> HIDE DEF e
<1>4. Core(outbox, verdict, applied', last', ever', Flight)  BY <1>1
<1>5. <<>> \in Seq(Final) /\ ToSet(<<>>) = {}  BY EmptySeq DEF ToSet
<1>6. Reply(e, status, <<>>)  BY DEF e
<1>7. last \in Nat /\ last' \in Nat /\ last <= last' /\ completed' = FALSE
  BY <1>1 DEF TypeOK
<1>8. /\ Core(outbox', verdict', applied', last', ever', Flight)
      /\ outbox.accepted <= last' => outbox'.accepted <= last'
      /\ waiting' \in BOOLEAN /\ mode' \in {"idle", "run", "terminal", "done"}
      /\ mode' = "run" => mode = "run"
      /\ down' \in Seq(Receipt \union Final)
      /\ AnswersBacked'
      /\ waiting' => outbox'.pending # None
      /\ mode' = "idle" => mode = "idle"
      /\ mode' \in {"terminal", "done"} => completed'
      /\ mode' # "terminal"
  <2> DEFINE frames == <<>>
  <2>1. frames \in Seq(Final) /\ (\A f \in ToSet(frames) : completed' /\ f.last = last')
        /\ (frames # <<>> <=> completed') /\ Reply(e, status, frames)
    BY <1>5, <1>6, <1>7
  <2> HIDE DEF frames
  <2>2. QED  BY <1>2, <1>3, <1>4, <1>7, <2>1, ReplyEffect
<1>9. Flight' \in SUBSET Flight  BY <1>1, <1>2 DEF Flight
<1>10. Core(outbox, verdict, applied, last, ever, Flight)'
  <2>1. Core(outbox', verdict', applied', last', ever', Flight')
    BY <1>8, <1>9, CoreLoses
  <2>2. QED  BY <2>1
<1>11. Synced'  BY <1>1, <1>2, <1>8 DEF Synced
<1>12. Modes'  BY <1>1, <1>8 DEF Modes
<1>13. TypeOK'
  <2>1. outbox' \in Outboxes /\ verdict' \in Verdicts  BY <1>8 DEF Core
  <2>2. QED  BY <1>1, <1>2, <1>8, <2>1 DEF TypeOK, Outboxes, Verdicts
<1>14. QED  BY <1>8, <1>10, <1>11, <1>12, <1>13

\* A client_seq accepted before is answered without applying anything.
LEMMA AnswerDuplicateStep == IInv /\ AnswerDuplicate => IInv'
<1> SUFFICES ASSUME IInv, AnswerDuplicate PROVE IInv'
  OBVIOUS
<1>1. "duplicate" \in Statuses  BY DEF Statuses
<1>2. QED  BY <1>1, AnswerOnly DEF AnswerDuplicate

\* A refusal leaves the authority as it was.
LEMMA RefuseStep == IInv /\ Refuse => IInv'
<1> SUFFICES ASSUME IInv, Refuse PROVE IInv'
  OBVIOUS
<1>1. "rejected" \in Statuses  BY DEF Statuses
<1>2. QED  BY <1>1, AnswerOnly DEF Refuse

\* Another Member's input ends the room; the frame carries the client_seq of now.
LEMMA OtherCompletesStep == IInv /\ OtherCompletes => IInv'
<1> SUFFICES ASSUME IInv, OtherCompletes PROVE IInv'
  OBVIOUS
<1> USE DEF IInv
<1>0. PICK f : f = [kind |-> "final", last |-> last]  OBVIOUS
<1>1. /\ ~completed /\ completed' = TRUE
      /\ UNCHANGED <<submitted, verdict, outbox, waiting, up, queue, last, applied, ever, faults>>
  BY DEF OtherCompletes, user
<1>2. last \in Nat /\ down \in Seq(Receipt \union Final)  BY DEF TypeOK
<1>3. f \in Receipt \union Final /\ f.kind = "final" /\ f.last = last
  BY <1>0, <1>2 DEF Final
<1>4. /\ Append(down, f) \in Seq(Receipt \union Final)
      /\ ToSet(Append(down, f)) = ToSet(down) \union {f}
  BY <1>2, <1>3, ToSetAppend
<1>5. /\ mode' = mode \/ mode' = "done"
      /\ down' = down \/ down' = Append(down, f)
  BY <1>0 DEF OtherCompletes
<1>6. \A x \in ToSet(down) : Backed(x)'
  BY <1>1 DEF AnswersBacked, Backed
<1>7. Backed(f)'  BY <1>1, <1>3 DEF Backed
<1>8. AnswersBacked'  BY <1>4, <1>5, <1>6, <1>7 DEF AnswersBacked
<1>9. Flight' = Flight  BY <1>1 DEF Flight
<1>10. Core(outbox, verdict, applied, last, ever, Flight)'  BY <1>1, <1>9
<1>11. Synced' /\ Modes'  BY <1>1, <1>5 DEF Synced, Modes
<1>12. TypeOK'  BY <1>1, <1>2, <1>4, <1>5 DEF TypeOK
<1>13. QED  BY <1>8, <1>10, <1>11, <1>12

-----------------------------------------------------------------------------
(* Faults                                                                    *)

\* A cut channel loses what is on it.
LEMMA CutStep == IInv /\ Cut => IInv'
<1> SUFFICES ASSUME IInv, Cut PROVE IInv'
  OBVIOUS
<1> USE DEF IInv
<1>1. /\ mode' = "idle" /\ up' = <<>> /\ down' = <<>> /\ waiting' = FALSE
      /\ faults < MaxFaults /\ faults' = faults + 1
      /\ UNCHANGED <<submitted, verdict, outbox, queue, last, applied, completed, ever>>
  BY DEF Cut, Fault, user, authority
<1>2. ToSet(<<>>) = {} /\ <<>> \in Seq(Input) /\ <<>> \in Seq(Receipt \union Final)
  BY EmptySeq DEF ToSet
<1>3. Flight' \in SUBSET Flight  BY <1>1, <1>2 DEF Flight
<1>4. Core(outbox, verdict, applied, last, ever, Flight')  BY <1>3, CoreLoses
<1>5. Core(outbox, verdict, applied, last, ever, Flight)'  BY <1>1, <1>4
<1>6. Synced' /\ Modes' /\ AnswersBacked'
  BY <1>1, <1>2 DEF Synced, Modes, AnswersBacked
<1>7. TypeOK'
  <2>1. faults' \in 0..MaxFaults  BY <1>1, OutboxBounds DEF TypeOK
  <2>2. QED  BY <2>1, <1>1, <1>2 DEF TypeOK
<1>8. QED  BY <1>5, <1>6, <1>7

\* A successor restores a prefix of the history, and every channel and the hub's
\* queue of the old Leader are gone.
LEMMA SuccessionStep == IInv /\ Succession => IInv'
<1> SUFFICES ASSUME IInv, Succession PROVE IInv'
  OBVIOUS
<1> USE DEF IInv
<1>1. /\ mode' = "idle" /\ up' = <<>> /\ queue' = <<>> /\ down' = <<>> /\ waiting' = FALSE
      /\ faults < MaxFaults /\ faults' = faults + 1
      /\ UNCHANGED <<submitted, verdict, outbox, completed, ever>>
  BY DEF Succession, Fault, user
<1>2. PICK n \in 0..last : last' = n /\ applied' = SubSeq(applied, 1, n)
  BY DEF Succession
<1>3. ToSet(<<>>) = {} /\ <<>> \in Seq(Input) /\ <<>> \in Seq(Receipt \union Final)
  BY EmptySeq DEF ToSet
<1>4. Flight' = {}  BY <1>1, <1>3 DEF Flight
<1>5. Core(outbox, verdict, SubSeq(applied, 1, n), n, ever, {})  BY CoreRolledBack
<1>6. Core(outbox, verdict, applied, last, ever, Flight)'  BY <1>1, <1>2, <1>4, <1>5
<1>7. Synced' /\ Modes' /\ AnswersBacked'
  BY <1>1, <1>3 DEF Synced, Modes, AnswersBacked
<1>8. TypeOK'
  <2>1. faults' \in 0..MaxFaults  BY <1>1, OutboxBounds DEF TypeOK
  <2>2. QED  BY <2>1, <1>1, <1>3, <1>6 DEF TypeOK, Core
<1>9. QED  BY <1>6, <1>7, <1>8

-----------------------------------------------------------------------------
(* The theorems                                                              *)

\* Every step keeps the inductive invariant.
LEMMA NextIInv == IInv /\ [Next]_vars => IInv'
<1> SUFFICES ASSUME IInv, [Next]_vars PROVE IInv'
  OBVIOUS
<1>1. CASE UNCHANGED vars
  <2>1. Flight' = Flight  BY <1>1 DEF vars, Flight
  <2>2. QED
    BY <1>1, <2>1 DEF vars, IInv, TypeOK, Synced, Modes, AnswersBacked, Backed
<1>2. CASE Next
  BY <1>2, SubmitStep, SendStep, RetryStep, ReceiveReceiptStep, ReceiveFinalStep,
     FinishStep, ReconnectStep, FindClosedStep, EnqueueStep, ApplyStep,
     AnswerDuplicateStep, RefuseStep, OtherCompletesStep, CutStep, SuccessionStep
     DEF Next
<1>3. QED  BY <1>1, <1>2

\* The inductive invariant of _GroupActionOutbox and the hub holds always.
THEOREM Invariance == Spec => []IInv
BY InitIInv, NextIInv, PTL DEF Spec

\* Every variable of the outbox, the channel and the authority keeps its type.
THEOREM TypeCorrect == Spec => []TypeOK
<1>1. IInv => TypeOK  BY DEF IInv
<1>2. QED  BY <1>1, Invariance, PTL

\* apply_input applies the actions of one actor in the order of its log, and none
\* twice, over any number of retries, reconnections and successions.
THEOREM ActionsInOrder == Spec => []AppliedInOrder
<1>1. IInv => AppliedInOrder  BY DEF IInv, Core, InOrder, AppliedInOrder
<1>2. QED  BY <1>1, Invariance, PTL

\* The "client_seq gap" refusal of apply_input never meets an action of the outbox.
THEOREM GapNeverSeen == Spec => []NoGap
<1>1. ASSUME IInv PROVE NoGap
  <2> SUFFICES ASSUME NEW i \in DOMAIN queue PROVE queue[i].seq <= last + 1
    BY DEF NoGap
  <2>1. queue # <<>> /\ queue[i] \in Flight  BY DEF Flight, ToSet
  <2>2. OnTheWay(outbox, verdict, applied, queue[i]) /\ outbox.accepted <= last
    BY <1>1, <2>1 DEF IInv, Core, Synced
  <2>3. last \in Nat /\ outbox.accepted \in Nat  BY <1>1 DEF IInv, TypeOK
  <2>4. QED  BY <2>2, <2>3 DEF OnTheWay
<1>2. QED  BY <1>1, Invariance, PTL

\* The outbox passes over no action that was neither applied nor refused, unless
\* the client_seq of the action was taken by the second copy of a refused one.
THEOREM NoActionLost == Spec => []LostOnlyAfterReuse
<1>1. IInv => LostOnlyAfterReuse
  BY DEF IInv, Core, NoneLost, Reused, LostOnlyAfterReuse
<1>2. QED  BY <1>1, Invariance, PTL
=============================================================================
