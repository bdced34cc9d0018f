---------------------------- MODULE EnginesProofs ----------------------------
(***************************************************************************)
(* Theorems about the engines of a match: a duel, a conversation, the      *)
(* decisions of a round, a match in real time and hidden roles, for every  *)
(* value of their bounds.  A behaviour runs one of them, so each has an    *)
(* invariant of its own, which only its own steps have to keep.            *)
(***************************************************************************)
EXTENDS MCEngines, SequenceTheorems, FiniteSetTheorems, WellFoundedInduction, TLAPS
-----------------------------------------------------------------------------
(* The duel.                                                               *)

\* Taking the first message of one stream to the end of another moves nothing
\* past anything else.
LEMMA MoveHead ==
    ASSUME NEW S, NEW s \in Seq(S), NEW t \in Seq(S), t # <<>>
    PROVE  Append(s, Head(t)) \o Tail(t) = s \o t
<1> DEFINE h == <<Head(t)>>
<1>1. Head(t) \in S /\ Tail(t) \in Seq(S)  BY HeadTailProperties
<1>2. h \in Seq(S) /\ Len(h) = 1 /\ h[1] = Head(t)  BY <1>1
<1>3. Append(s, Head(t)) = s \o h  BY <1>1, AppendIsConcat
<1>4. h \o Tail(t) = t
  <2> DEFINE c == h \o Tail(t)
  <2>1. c \in Seq(S) /\ Len(c) = 1 + Len(Tail(t))  BY <1>1, <1>2, ConcatProperties
  <2>2. \A i \in 1..(1 + Len(Tail(t))) : c[i] = IF i <= 1 THEN h[i] ELSE Tail(t)[i - 1]
    BY <1>1, <1>2, ConcatProperties
  <2>3. Len(t) \in Nat /\ Len(Tail(t)) = Len(t) - 1 /\ t[1] = Head(t)
        /\ \A i \in 1..Len(Tail(t)) : Tail(t)[i] = t[i + 1]
    BY <1>1, LenProperties, HeadTailProperties
  <2> HIDE DEF h, c
  <2>4. ASSUME NEW i \in 1..Len(t) PROVE c[i] = t[i]
    <3>1. CASE i = 1
      <4>1. c[1] = h[1]  BY <2>2, <2>3
      <4>2. QED  BY <1>2, <2>3, <3>1, <4>1
    <3>2. CASE i # 1
      <4>1. i - 1 \in 1..Len(Tail(t)) /\ i \in 1..(1 + Len(Tail(t)))  BY <2>3, <3>2
      <4>2. c[i] = Tail(t)[i - 1]  BY <2>2, <3>2, <4>1
      <4>3. Tail(t)[i - 1] = t[i]  BY <2>3, <4>1
      <4>4. QED  BY <4>2, <4>3
    <3>3. QED  BY <3>1, <3>2
  <2>5. c = t  BY <2>1, <2>3, <2>4, SeqEqual
  <2>6. QED  BY <2>5 DEF c
<1> HIDE DEF h
<1>5. QED  BY SMTT(30), <1>1, <1>2, <1>3, <1>4, ConcatAssociative

(* A duel.  Of what is on its way to a side, queued or not, the heartbeats  *)
(* do not count.  The guest of a simultaneous round never has more before   *)
(* it than an early message (ready, a result or an error) and a later one.  *)
Kinds == {"ping", "join", "ready", "move", "final", "error", "response", "commit", "reveal", "result", "end"}
DuelMessage ==
    {m \in [kind : Kinds, round : Nat, value : Values \union Winners \union {None}] :
        /\ m.kind = "commit" => m.value \in Values
        /\ m.kind \in {"final", "result"} => m.value \in Winners \union {None}
        /\ m.kind = "error" => m.value = None}
Early == {"ready", "result", "error"}

Business(w) == {i \in DOMAIN w : w[i].kind # "ping"}
Messages(w) == {w[i] : i \in Business(w)}
Ordered(w) == \A i, j \in Business(w) : i < j => w[i].kind \in Early /\ w[j].kind \notin Early

\* Taking the first message: what is left comes after it.
LEMMA TakeFirst ==
    ASSUME NEW q \in Seq(DuelMessage), NEW w \in Seq(DuelMessage), q # <<>>, Head(q).kind # "ping"
    PROVE  /\ Messages(q \o w) = {Head(q)} \union Messages(Tail(q) \o w)
           /\ Ordered(q \o w) =>
                /\ Ordered(Tail(q) \o w)
                /\ \A m \in Messages(Tail(q) \o w) : Head(q).kind \in Early /\ m.kind \notin Early
<1> DEFINE c == q \o w  d == Tail(q) \o w
<1>1. /\ Tail(q) \in Seq(DuelMessage) /\ Len(q) \in Nat \ {0} /\ Len(w) \in Nat
      /\ Len(Tail(q)) = Len(q) - 1 /\ q[1] = Head(q)
      /\ \A i \in 1..Len(Tail(q)) : Tail(q)[i] = q[i + 1]
  BY HeadTailProperties, LenProperties, EmptySeq
<1>2. /\ c \in Seq(DuelMessage) /\ Len(c) = Len(q) + Len(w)
      /\ \A i \in 1..(Len(q) + Len(w)) : c[i] = IF i <= Len(q) THEN q[i] ELSE w[i - Len(q)]
  BY ConcatProperties
<1>3. /\ d \in Seq(DuelMessage) /\ Len(d) = Len(Tail(q)) + Len(w)
      /\ \A i \in 1..(Len(Tail(q)) + Len(w)) :
            d[i] = IF i <= Len(Tail(q)) THEN Tail(q)[i] ELSE w[i - Len(Tail(q))]
  BY <1>1, ConcatProperties
<1>4. DOMAIN c = 1..Len(c) /\ DOMAIN d = 1..Len(d)  BY <1>2, <1>3, LenProperties
<1> HIDE DEF c, d
<1>5. Len(c) \in Nat \ {0} /\ Len(d) = Len(c) - 1 /\ c[1] = Head(q)
  <2>1. 1 \in 1..(Len(q) + Len(w)) /\ 1 <= Len(q)  BY <1>1
  <2>2. c[1] = q[1]  BY <1>2, <2>1
  <2>3. QED  BY <1>1, <1>2, <1>3, <2>2
<1>6. ASSUME NEW i \in 1..Len(d) PROVE d[i] = c[i + 1]
  <2>1. CASE i <= Len(Tail(q))
    <3>1. d[i] = Tail(q)[i] /\ Tail(q)[i] = q[i + 1]  BY <1>1, <1>3, <2>1
    <3>2. i + 1 \in 1..(Len(q) + Len(w)) /\ i + 1 <= Len(q)  BY <1>1, <2>1
    <3>3. c[i + 1] = q[i + 1]  BY <1>2, <3>2
    <3>4. QED  BY <3>1, <3>3
  <2>2. CASE ~(i <= Len(Tail(q)))
    <3>1. d[i] = w[i - Len(Tail(q))]  BY <1>3, <2>2
    <3>2. /\ i + 1 \in 1..(Len(q) + Len(w)) /\ ~(i + 1 <= Len(q))
          /\ (i + 1) - Len(q) = i - Len(Tail(q))
      BY <1>1, <1>3, <2>2
    <3>3. c[i + 1] = w[(i + 1) - Len(q)]  BY <1>2, <3>2
    <3>4. QED  BY <3>1, <3>2, <3>3
  <2>3. QED  BY <2>1, <2>2
<1>7. /\ 1 \in Business(c)
      /\ \A i \in Business(d) : i + 1 \in Business(c) /\ i + 1 > 1 /\ d[i] = c[i + 1]
      /\ \A k \in Business(c) : k = 1 \/ (k - 1 \in Business(d) /\ c[k] = d[k - 1])
  <2>1. 1 \in Business(c)  BY <1>4, <1>5 DEF Business
  <2>2. ASSUME NEW i \in Business(d) PROVE i + 1 \in Business(c) /\ i + 1 > 1 /\ d[i] = c[i + 1]
    <3>1. i \in 1..Len(d) /\ d[i].kind # "ping"  BY <1>4 DEF Business
    <3>2. d[i] = c[i + 1] /\ i + 1 \in 1..Len(c)  BY <1>5, <1>6, <3>1
    <3>3. QED  BY <1>4, <3>1, <3>2 DEF Business
  <2>3. ASSUME NEW k \in Business(c), k # 1 PROVE k - 1 \in Business(d) /\ c[k] = d[k - 1]
    <3>1. k \in 1..Len(c) /\ c[k].kind # "ping"  BY <1>4 DEF Business
    <3>2. k - 1 \in 1..Len(d) /\ (k - 1) + 1 = k  BY <1>5, <2>3, <3>1
    <3>3. d[k - 1] = c[k]  BY <1>6, <3>2
    <3>4. QED  BY <1>4, <3>1, <3>2, <3>3 DEF Business
  <2>4. QED  BY <2>1, <2>2, <2>3
<1>8. Messages(c) = {Head(q)} \union Messages(d)
  <2>1. Messages(c) \subseteq {Head(q)} \union Messages(d)  BY <1>5, <1>7 DEF Messages
  <2>2. Messages(d) \subseteq Messages(c)  BY <1>7 DEF Messages
  <2>3. Head(q) \in Messages(c)  BY <1>5, <1>7 DEF Messages
  <2>4. QED  BY <2>1, <2>2, <2>3
<1>9. ASSUME Ordered(c)
      PROVE  /\ Ordered(d)
             /\ \A m \in Messages(d) : Head(q).kind \in Early /\ m.kind \notin Early
  <2>1. ASSUME NEW i \in Business(d), NEW j \in Business(d), i < j
        PROVE  d[i].kind \in Early /\ d[j].kind \notin Early
    <3>1. i \in Int /\ j \in Int  BY <1>4, <1>5 DEF Business
    <3>2. i + 1 < j + 1  BY <2>1, <3>1
    <3>3. QED  BY <1>7, <1>9, <3>2 DEF Ordered
  <2>2. ASSUME NEW i \in Business(d) PROVE Head(q).kind \in Early /\ d[i].kind \notin Early
    BY <1>5, <1>7, <1>9 DEF Ordered
  <2>3. QED  BY <2>1, <2>2 DEF Ordered, Messages
<1>10. QED  BY <1>8, <1>9 DEF c, d

\* The reader takes a heartbeat out.
LEMMA DropPing ==
    ASSUME NEW q \in Seq(DuelMessage), NEW w \in Seq(DuelMessage), w # <<>>, Head(w).kind = "ping"
    PROVE  /\ Messages(q \o Tail(w)) = Messages(q \o w)
           /\ Ordered(q \o w) => Ordered(q \o Tail(w))
<1> DEFINE c == q \o w  d == q \o Tail(w)  f(i) == IF i <= Len(q) THEN i ELSE i + 1
<1>1. /\ Tail(w) \in Seq(DuelMessage) /\ Len(q) \in Nat /\ Len(w) \in Nat \ {0}
      /\ Len(Tail(w)) = Len(w) - 1 /\ w[1] = Head(w)
      /\ \A i \in 1..Len(Tail(w)) : Tail(w)[i] = w[i + 1]
  BY HeadTailProperties, LenProperties, EmptySeq
<1>2. /\ c \in Seq(DuelMessage) /\ Len(c) = Len(q) + Len(w)
      /\ \A i \in 1..(Len(q) + Len(w)) : c[i] = IF i <= Len(q) THEN q[i] ELSE w[i - Len(q)]
  BY ConcatProperties
<1>3. /\ d \in Seq(DuelMessage) /\ Len(d) = Len(q) + Len(Tail(w))
      /\ \A i \in 1..(Len(q) + Len(Tail(w))) :
            d[i] = IF i <= Len(q) THEN q[i] ELSE Tail(w)[i - Len(q)]
  BY <1>1, ConcatProperties
<1>4. DOMAIN c = 1..Len(c) /\ DOMAIN d = 1..Len(d)  BY <1>2, <1>3, LenProperties
<1> HIDE DEF c, d
<1>5. ASSUME NEW i \in 1..Len(d) PROVE f(i) \in 1..Len(c) /\ f(i) # Len(q) + 1 /\ d[i] = c[f(i)]
  <2>1. CASE i <= Len(q)
    <3>1. d[i] = q[i]  BY <1>3, <2>1
    <3>2. i \in 1..(Len(q) + Len(w))  BY <1>1, <2>1
    <3>3. c[i] = q[i]  BY <1>2, <2>1, <3>2
    <3>4. QED  BY <1>1, <1>2, <2>1, <3>1, <3>2, <3>3
  <2>2. CASE ~(i <= Len(q))
    <3>1. d[i] = Tail(w)[i - Len(q)] /\ i - Len(q) \in 1..Len(Tail(w))  BY SMTT(30), <1>1, <1>3, <2>2
    <3>2. d[i] = w[(i - Len(q)) + 1]  BY <1>1, <3>1
    <3>3. /\ i + 1 \in 1..(Len(q) + Len(w)) /\ ~(i + 1 <= Len(q))
          /\ (i + 1) - Len(q) = (i - Len(q)) + 1
      BY <1>1, <1>3, <2>2
    <3>4. c[i + 1] = w[(i + 1) - Len(q)]  BY <1>2, <3>3
    <3>5. QED  BY <1>1, <1>2, <2>2, <3>2, <3>3, <3>4
  <2>3. QED  BY <2>1, <2>2
<1>6. c[Len(q) + 1].kind = "ping"
  <2>1. Len(q) + 1 \in 1..(Len(q) + Len(w)) /\ ~(Len(q) + 1 <= Len(q)) /\ (Len(q) + 1) - Len(q) = 1
    BY <1>1
  <2>2. c[Len(q) + 1] = w[(Len(q) + 1) - Len(q)]  BY <1>2, <2>1
  <2>3. QED  BY <1>1, <2>1, <2>2
<1>7. ASSUME NEW i \in Business(d) PROVE f(i) \in Business(c) /\ d[i] = c[f(i)] /\ i \in Int
  <2>1. i \in 1..Len(d)  BY <1>4 DEF Business
  <2>2. QED  BY <1>4, <1>5, <2>1 DEF Business
<1>8. ASSUME NEW k \in Business(c) PROVE \E i \in Business(d) : d[i] = c[k]
  <2>1. k \in 1..Len(c) /\ k # Len(q) + 1  BY <1>4, <1>6 DEF Business
  <2>2. CASE k <= Len(q)
    <3>1. k \in 1..Len(d) /\ f(k) = k  BY <1>1, <1>3, <2>1, <2>2
    <3>2. d[k] = c[k]  BY <1>5, <3>1
    <3>3. QED  BY <1>4, <3>1, <3>2 DEF Business
  <2>3. CASE k > Len(q)
    <3>1. k - 1 \in 1..Len(d) /\ f(k - 1) = k  BY <1>1, <1>2, <1>3, <2>1, <2>3
    <3>2. d[k - 1] = c[k]  BY <1>5, <3>1
    <3>3. QED  BY <1>4, <3>1, <3>2 DEF Business
  <2>4. QED  BY <1>1, <2>1, <2>2, <2>3
<1>9. Messages(d) = Messages(c)
  <2>1. Messages(d) \subseteq Messages(c)
    <3>1. SUFFICES ASSUME NEW i \in Business(d) PROVE d[i] \in Messages(c)  BY DEF Messages
    <3>2. f(i) \in Business(c) /\ d[i] = c[f(i)]  BY <1>7
    <3>3. QED  BY <3>2 DEF Messages
  <2>2. Messages(c) \subseteq Messages(d)  BY <1>8 DEF Messages
  <2>3. QED  BY <2>1, <2>2
<1>10. Ordered(c) => Ordered(d)
  <2>1. SUFFICES ASSUME Ordered(c), NEW i \in Business(d), NEW j \in Business(d), i < j
                 PROVE  d[i].kind \in Early /\ d[j].kind \notin Early
    BY DEF Ordered
  <2>2. f(i) \in Business(c) /\ f(j) \in Business(c) /\ i \in Int /\ j \in Int
        /\ d[i] = c[f(i)] /\ d[j] = c[f(j)]
    BY <1>7
  <2>3. f(i) < f(j)  BY <1>1, <2>1, <2>2
  <2>4. QED  BY <2>1, <2>2, <2>3 DEF Ordered
<1>11. QED  BY <1>9, <1>10 DEF c, d

\* What a side sends comes last.
LEMMA DuelJoin ==
    ASSUME NEW q \in Seq(DuelMessage), NEW w \in Seq(DuelMessage), NEW e \in Seq(DuelMessage)
    PROVE  q \o (w \o e) = (q \o w) \o e
  BY ConcatAssociative

\* A message on its own is a batch of one.
LEMMA OneMessage ==
    ASSUME NEW m \in DuelMessage
    PROVE  <<m>> \in Seq(DuelMessage) /\ Len(<<m>>) = 1 /\ <<m>>[1] = m
  OBVIOUS

\* Two messages sent one after the other are a batch of two.
LEMMA TwoMessages ==
    ASSUME NEW m \in DuelMessage, NEW n \in DuelMessage
    PROVE  <<m>> \o <<n>> = <<m, n>>
<1> DEFINE e == <<m>>  f == <<n>>  g == <<m, n>>
<1>1. /\ e \in Seq(DuelMessage) /\ Len(e) = 1 /\ e[1] = m
      /\ f \in Seq(DuelMessage) /\ Len(f) = 1 /\ f[1] = n
      /\ g \in Seq(DuelMessage) /\ Len(g) = 2 /\ g[1] = m /\ g[2] = n
  OBVIOUS
<1> DEFINE c == e \o f
<1> HIDE DEF e, f, g
<1>2. /\ c \in Seq(DuelMessage) /\ Len(c) = Len(e) + Len(f)
      /\ \A i \in 1..(Len(e) + Len(f)) : c[i] = IF i <= Len(e) THEN e[i] ELSE f[i - Len(e)]
  BY <1>1, ConcatProperties
<1> HIDE DEF c
<1>3. c[1] = m /\ c[2] = n /\ Len(c) = 2  BY <1>1, <1>2
<1>4. \A i \in 1..2 : c[i] = g[i]  BY <1>1, <1>3
<1>5. c = g  BY <1>1, <1>2, <1>3, <1>4, SeqEqual
<1>6. QED  BY <1>5 DEF c, e, f, g

\* A message put at the end of a channel is among those that come; a heartbeat is
\* not, and a message that is not early stays last when all before it are.
LEMMA SendOne ==
    ASSUME NEW q \in Seq(DuelMessage), NEW w \in Seq(DuelMessage), NEW m \in DuelMessage
    PROVE  /\ w \o <<m>> \in Seq(DuelMessage)
           /\ m.kind = "ping" => /\ Messages(q \o (w \o <<m>>)) = Messages(q \o w)
                                 /\ Ordered(q \o w) => Ordered(q \o (w \o <<m>>))
           /\ m.kind # "ping" =>
                /\ Messages(q \o (w \o <<m>>)) = Messages(q \o w) \union {m}
                /\ Ordered(q \o w) /\ (\A x \in Messages(q \o w) : x.kind \in Early /\ m.kind \notin Early)
                     => Ordered(q \o (w \o <<m>>))
<1> DEFINE c == q \o w  e == <<m>>  d == q \o (w \o e)
<1>1. e \in Seq(DuelMessage) /\ Len(e) = 1 /\ e[1] = m  BY OneMessage
<1> HIDE DEF e
<1>2. w \o e \in Seq(DuelMessage)  BY <1>1, ConcatProperties
<1>3. c \in Seq(DuelMessage)  BY ConcatProperties
<1>4. Len(c) \in Nat  BY <1>3, LenProperties
<1>12. d = c \o e  BY <1>1, DuelJoin
<1> HIDE DEF c, d
<1>5. /\ d \in Seq(DuelMessage) /\ Len(d) = Len(c) + 1
      /\ \A i \in 1..(Len(c) + 1) : d[i] = IF i <= Len(c) THEN c[i] ELSE e[i - Len(c)]
  <2>1. /\ c \o e \in Seq(DuelMessage) /\ Len(c \o e) = Len(c) + Len(e)
    BY <1>1, <1>3, ConcatProperties
  <2>2. \A i \in 1..(Len(c) + Len(e)) : d[i] = IF i <= Len(c) THEN c[i] ELSE e[i - Len(c)]
    BY <1>1, <1>3, <1>12, ConcatProperties
  <2>3. QED  BY <1>1, <1>12, <2>1, <2>2
<1>6. /\ DOMAIN c = 1..Len(c) /\ DOMAIN d = 1..(Len(c) + 1)
      /\ \A i \in 1..Len(c) : d[i] = c[i]
      /\ d[Len(c) + 1] = m
  <2>1. DOMAIN c = 1..Len(c) /\ DOMAIN d = 1..(Len(c) + 1)  BY <1>3, <1>5, LenProperties
  <2>2. Len(c) + 1 \in 1..(Len(c) + 1) /\ ~(Len(c) + 1 <= Len(c)) /\ (Len(c) + 1) - Len(c) = 1  BY <1>4
  <2>3. d[Len(c) + 1] = e[(Len(c) + 1) - Len(c)]  BY <1>5, <2>2
  <2>4. QED  BY <1>1, <1>4, <1>5, <2>1, <2>2, <2>3
<1>7. \A i \in DOMAIN d : i \in DOMAIN c \/ i = Len(c) + 1  BY <1>4, <1>6
<1>8. DOMAIN c \subseteq DOMAIN d /\ Len(c) + 1 \in DOMAIN d  BY <1>4, <1>6
<1>9. ASSUME m.kind = "ping"
      PROVE  Messages(d) = Messages(c) /\ (Ordered(c) => Ordered(d))
  <2>1. Business(d) = Business(c)  BY <1>6, <1>7, <1>8, <1>9 DEF Business
  <2>2. \A i \in Business(c) : d[i] = c[i]  BY <1>6 DEF Business
  <2>3. QED  BY <2>1, <2>2 DEF Messages, Ordered
<1>10. ASSUME m.kind # "ping"
       PROVE  /\ Messages(d) = Messages(c) \union {m}
              /\ Ordered(c) /\ (\A x \in Messages(c) : x.kind \in Early /\ m.kind \notin Early)
                   => Ordered(d)
  <2>1. Business(d) = Business(c) \union {Len(c) + 1}  BY <1>6, <1>7, <1>8, <1>10 DEF Business
  <2>2. \A i \in Business(c) : d[i] = c[i] /\ c[i] \in Messages(c) /\ i \in 1..Len(c)
    BY <1>6 DEF Business, Messages
  <2>3. Messages(d) = Messages(c) \union {m}  BY <1>6, <2>1, <2>2 DEF Messages
  <2>4. ASSUME Ordered(c), \A x \in Messages(c) : x.kind \in Early /\ m.kind \notin Early,
               NEW i \in Business(d), NEW j \in Business(d), i < j
        PROVE  d[i].kind \in Early /\ d[j].kind \notin Early
    <3>1. i \in Business(c)  BY <1>4, <2>1, <2>2, <2>4
    <3>2. CASE j \in Business(c)  BY <2>2, <2>4, <3>1, <3>2 DEF Ordered
    <3>3. CASE j = Len(c) + 1  BY <1>6, <2>2, <2>4, <3>1, <3>3
    <3>4. QED  BY <2>1, <3>2, <3>3
  <2>5. QED  BY <2>3, <2>4 DEF Ordered
<1>11. QED  BY <1>2, <1>9, <1>10 DEF c, d, e

\* Two messages sent together to a side with nothing before it.
LEMMA SendTwo ==
    ASSUME NEW q \in Seq(DuelMessage), NEW w \in Seq(DuelMessage),
           NEW m \in DuelMessage, NEW n \in DuelMessage, m.kind # "ping", n.kind # "ping"
    PROVE  /\ w \o <<m, n>> \in Seq(DuelMessage)
           /\ Messages(q \o (w \o <<m, n>>)) = Messages(q \o w) \union {m, n}
           /\ Ordered(q \o w) /\ Messages(q \o w) = {} /\ m.kind \in Early /\ n.kind \notin Early
                => Ordered(q \o (w \o <<m, n>>))
<1> DEFINE e == <<m>>  f == <<n>>  v == w \o e
<1>1. e \in Seq(DuelMessage) /\ f \in Seq(DuelMessage) /\ e \o f = <<m, n>>  BY OneMessage, TwoMessages
<1>2. v \in Seq(DuelMessage)  BY SendOne
<1>3. v \o f = w \o (e \o f)
  <2> HIDE DEF e, f
  <2>1. w \o (e \o f) = (w \o e) \o f  BY <1>1, DuelJoin
  <2>2. QED  BY <2>1
<1>4. v \o f = w \o <<m, n>>  BY <1>1, <1>3
<1>5. /\ Messages(q \o v) = Messages(q \o w) \union {m}
      /\ Ordered(q \o w) /\ Messages(q \o w) = {} => Ordered(q \o v)
  BY SendOne
<1> HIDE DEF v
<1>6. /\ v \o f \in Seq(DuelMessage) /\ Messages(q \o (v \o f)) = Messages(q \o v) \union {n}
      /\ Ordered(q \o v) /\ (\A x \in Messages(q \o v) : x.kind \in Early /\ n.kind \notin Early)
           => Ordered(q \o (v \o f))
  BY <1>2, SendOne
<1>7. QED  BY <1>4, <1>5, <1>6

-----------------------------------------------------------------------------
(* What is on its way to a side, read or not, heartbeats left aside.        *)
Stream(s) == queue[s] \o wire[s]
Coming(s) == Messages(Stream(s))
InOrder(s) == Ordered(Stream(s))

ChannelTypes ==
    /\ wire \in [Sides -> Seq(DuelMessage)] /\ queue \in [Sides -> Seq(DuelMessage)]
    /\ \A s \in Sides : \A i \in DOMAIN queue[s] : queue[s][i].kind # "ping"
DuelTypes ==
    /\ TypeOK /\ ChannelTypes
    /\ session \in [status : {"matched", "closed", "failed"}, reports : [Sides -> Winners \union {None}]]

(* Which flow an engine is in, and what it can be sent there.               *)
Ended == {"done", "crashed", "left"}
Places ==
    /\ at["host"] \in {"join", "message", "commit", "reveal"} \union Ended
    /\ at["guest"] \in {"start", "ready", "message", "commit", "reveal", "result"} \union Ended
    /\ \A s \in Sides : /\ at[s] \in {"commit", "reveal", "result"} => mode = "simultaneous_round"
                        /\ at[s] = "message" => mode # "simultaneous_round"
    /\ mode # "simultaneous_round" =>
          \A s \in Sides : \A m \in Coming(s) : m.kind \notin {"commit", "reveal", "end"}

(* Out of the session loop a message that comes is one the engine waits for *)
(* next, or the one after it.                                               *)
HostDue == IF at["host"] = "message" THEN {"move"} ELSE {at["host"]}
GuestDue ==
    CASE at["guest"] = "ready" -> {"ready"} \union (IF mode = "simultaneous_round" THEN {"commit"} ELSE {})
      [] at["guest"] = "message" -> {"response"}
      [] at["guest"] = "commit" -> {"commit", "end"}
      [] at["guest"] = "reveal" -> {"reveal"}
      [] at["guest"] = "result" -> {"result", "error", "commit", "end"}
      [] OTHER -> {}
Awaited == mode # "session_loop" =>
    /\ ~Over("host") => InOrder("host") /\ \A m \in Coming("host") : m.kind \in HostDue
    /\ ~Over("guest") => InOrder("guest") /\ \A m \in Coming("guest") : m.kind \in GuestDue

(* ... and they take turns.                                                 *)
HostsTurn ==
    \/ at["host"] = "join" /\ at["guest"] = "ready"
    \/ at["host"] = "message" /\ at["guest"] = "message"
    \/ at["host"] = "commit" /\ at["guest"] = "reveal"
    \/ at["host"] = "reveal" /\ at["guest"] = "result"
GuestsTurn ==
    \/ at["host"] \in {"message", "commit"} /\ at["guest"] = "ready"
    \/ at["host"] = "commit" /\ at["guest"] \in {"commit", "result"}
    \/ at["host"] = "reveal" /\ at["guest"] = "reveal"
Turns == mode # "session_loop" /\ ~Over("host") /\ ~Over("guest") =>
    \/ at["host"] = "join" /\ at["guest"] = "start" /\ Coming("host") = {} /\ Coming("guest") = {}
    \/ HostsTurn /\ Coming("guest") = {}
    \/ GuestsTurn /\ Coming("host") = {}

(* A commitment comes only for a round that is played.                      *)
RoundsFit ==
    /\ ~Over("host") => round["host"] < MaxRounds
    /\ ~Over("guest") /\ at["guest"] # "commit" => round["guest"] < MaxRounds
    /\ ~Over("guest") => \A m \in Coming("guest") : m.kind = "commit" =>
          (IF at["guest"] = "result" THEN round["guest"] + 1 ELSE round["guest"]) < MaxRounds
    /\ ~Over("host") /\ ~Over("guest") =>
          /\ round["guest"] <= round["host"]
          /\ at["host"] = "commit" /\ at["guest"] = "result" => round["guest"] < round["host"]

(* What a side has chosen, and what it holds of the other.                  *)
Chosen ==
    /\ at["host"] \in {"commit", "reveal"} => chosen["host"] \in Values
    /\ at["guest"] \in {"commit", "reveal", "result"} => chosen["guest"] \in Values
    /\ at["guest"] = "reveal" => held["guest"] \in Values

(* A reveal was sent in a round whose commitment the sender held.           *)
Peeks ==
    /\ \A m \in Coming("guest") : m.kind = "reveal" =>
          m.round <= round["host"] /\ (m.round = round["host"] => held["host"] # None)
    /\ \A m \in Coming("host") : m.kind = "reveal" =>
          m.round <= round["guest"] /\ (m.round = round["guest"] => held["guest"] # None)

(* The winner is found once, by the host, as it ends; what tells the guest  *)
(* so was sent then.                                                        *)
Judged ==
    /\ ~Over("host") => judged = None /\ ~result["host"].completed
    /\ result["host"].completed => result["host"].outcome = judged
    /\ mode = "request_response" => judged = None
Told ==
    /\ \A m \in Coming("guest") : m.kind \in {"final", "response", "end"} => result["host"].completed
    /\ \A m \in Coming("guest") : m.kind = "final" => m.value = judged
    /\ at["guest"] = "commit" => \A m \in Coming("guest") : m.kind = "end" => last = judged
    /\ at["guest"] = "result" =>
          /\ Coming("guest") # {} => \E m \in Coming("guest") : m.kind \in Early
          /\ \A n \in Coming("guest") : n.kind = "end" =>
                \E m \in Coming("guest") : m.kind = "result" /\ m.value = judged

DuelFacts == Places /\ Awaited /\ Turns /\ RoundsFit /\ Chosen /\ Peeks /\ Judged /\ Told /\ OneOutcome
DuelInv == DuelTypes /\ DuelFacts

\* The channel of a side that a step leaves alone.
LEMMA Untouched ==
    ASSUME NEW s \in Sides, queue'[s] = queue[s], wire'[s] = wire[s]
    PROVE  Coming(s)' = Coming(s) /\ InOrder(s)' = InOrder(s)
<1>1. Stream(s)' = Stream(s)  BY DEF Stream
<1>2. QED  BY <1>1 DEF Coming, InOrder

\* recv: the first business message is taken, whatever else happens.
LEMMA Reads ==
    ASSUME NEW s \in Sides, DuelTypes, queue[s] # <<>>, queue' = [queue EXCEPT ![s] = Tail(@)],
           wire'[s] = wire[s]
    PROVE  /\ Received(s) \in DuelMessage
           /\ Coming(s) = {Received(s)} \union Coming(s)'
           /\ InOrder(s) => /\ InOrder(s)'
                            /\ \A m \in Coming(s)' : Received(s).kind \in Early /\ m.kind \notin Early
           /\ queue' \in [Sides -> Seq(DuelMessage)]
           /\ \A t \in Sides : \A i \in DOMAIN queue'[t] : queue'[t][i].kind # "ping"
           /\ queue'[Peer(s)] = queue[Peer(s)]
<1> DEFINE q == queue[s]
<1>1. q \in Seq(DuelMessage) /\ wire[s] \in Seq(DuelMessage) /\ q # <<>>  BY DEF DuelTypes, ChannelTypes
<1>2. \A i \in DOMAIN q : q[i].kind # "ping"  BY DEF DuelTypes, ChannelTypes
<1>3. queue \in [Sides -> Seq(DuelMessage)]  BY DEF DuelTypes, ChannelTypes
<1>4. queue'[s] = Tail(q) /\ \A t \in Sides : t # s => queue'[t] = queue[t]  BY <1>3
<1>5. Received(s) = Head(q)  BY DEF Received
<1> HIDE DEF q
<1>6. /\ Head(q) \in DuelMessage /\ Tail(q) \in Seq(DuelMessage) /\ Len(q) \in Nat \ {0}
      /\ Len(Tail(q)) = Len(q) - 1 /\ q[1] = Head(q)
      /\ \A i \in 1..Len(Tail(q)) : Tail(q)[i] = q[i + 1]
  BY <1>1, HeadTailProperties, LenProperties, EmptySeq
<1>7. DOMAIN q = 1..Len(q) /\ DOMAIN Tail(q) = 1..Len(Tail(q))  BY <1>1, <1>6, LenProperties
<1>8. Head(q).kind # "ping"  BY <1>2, <1>6, <1>7
<1>9. \A i \in DOMAIN Tail(q) : Tail(q)[i].kind # "ping"
  <2>1. SUFFICES ASSUME NEW i \in 1..Len(Tail(q)) PROVE Tail(q)[i].kind # "ping"  BY <1>7
  <2>2. i + 1 \in DOMAIN q /\ Tail(q)[i] = q[i + 1]  BY <1>6, <1>7
  <2>3. QED  BY <1>2, <2>2
<1>10. queue' \in [Sides -> Seq(DuelMessage)]  BY <1>3, <1>4, <1>6
<1>11. ASSUME NEW t \in Sides PROVE \A i \in DOMAIN queue'[t] : queue'[t][i].kind # "ping"
  <2>1. CASE t = s  BY <1>4, <1>9, <2>1
  <2>2. CASE t # s
    <3>1. queue'[t] = queue[t]  BY <1>4, <2>2
    <3>2. QED  BY <3>1 DEF DuelTypes, ChannelTypes
  <2>3. QED  BY <2>1, <2>2
<1>12. Stream(s) = q \o wire[s] /\ Stream(s)' = Tail(q) \o wire[s]  BY <1>4 DEF Stream, q
<1>13. /\ Messages(q \o wire[s]) = {Head(q)} \union Messages(Tail(q) \o wire[s])
       /\ Ordered(q \o wire[s]) =>
            /\ Ordered(Tail(q) \o wire[s])
            /\ \A m \in Messages(Tail(q) \o wire[s]) : Head(q).kind \in Early /\ m.kind \notin Early
  BY <1>1, <1>8, TakeFirst
<1>14. Peer(s) \in Sides /\ Peer(s) # s  BY DEF Peer, Sides
<1>15. QED  BY <1>4, <1>5, <1>6, <1>10, <1>11, <1>12, <1>13, <1>14 DEF Coming, InOrder

\* What is sent to a side arrives last, or is lost.
LEMMA Gets ==
    ASSUME NEW s \in Sides, DuelTypes, queue'[Peer(s)] = queue[Peer(s)],
           NEW m \in DuelMessage, m.kind # "ping", Sends(s, <<m>>)
    PROVE  /\ wire' \in [Sides -> Seq(DuelMessage)] /\ wire'[s] = wire[s]
           /\ Coming(Peer(s))' = Coming(Peer(s)) \/ Coming(Peer(s))' = Coming(Peer(s)) \union {m}
           /\ Coming(Peer(s)) = {} /\ InOrder(Peer(s)) => InOrder(Peer(s))'
<1> DEFINE p == Peer(s)  w == wire[p]  q == queue[p]
<1>1. p \in Sides /\ p # s  BY DEF Peer, Sides
<1>2. wire \in [Sides -> Seq(DuelMessage)] /\ w \in Seq(DuelMessage) /\ q \in Seq(DuelMessage)
  BY <1>1 DEF DuelTypes, ChannelTypes
<1>3. w \o <<m>> \in Seq(DuelMessage)  BY <1>2, SendOne
<1>4. Stream(p) = q \o w  BY DEF Stream
<1> HIDE DEF w, q
<1>5. wire' = [wire EXCEPT ![p] = IF open THEN w \o <<m>> ELSE w]  BY DEF Sends, w
<1> HIDE DEF p
<1>6. wire' \in [Sides -> Seq(DuelMessage)] /\ wire'[s] = wire[s]
  BY <1>1, <1>2, <1>3, <1>5
<1>7. wire'[p] = w \/ wire'[p] = w \o <<m>>  BY <1>1, <1>2, <1>5
<1>8. queue'[p] = q  BY DEF p, q
<1>9. CASE wire'[p] = w
  <2>1. Coming(p)' = Coming(p) /\ InOrder(p)' = InOrder(p)
    BY <1>1, <1>8, <1>9, Untouched DEF q, w
  <2>2. QED  BY <1>6, <2>1 DEF p
<1>10. CASE wire'[p] = w \o <<m>>
  <2>1. Stream(p)' = q \o (w \o <<m>>)  BY <1>8, <1>10 DEF Stream
  <2>2. /\ Messages(q \o (w \o <<m>>)) = Messages(q \o w) \union {m}
        /\ Ordered(q \o w) /\ (\A x \in Messages(q \o w) : x.kind \in Early /\ m.kind \notin Early)
             => Ordered(q \o (w \o <<m>>))
    BY <1>2, SendOne
  <2>3. Coming(p)' = Coming(p) \union {m} /\ (Coming(p) = {} /\ InOrder(p) => InOrder(p)')
    BY <1>4, <2>1, <2>2 DEF Coming, InOrder
  <2>4. QED  BY <1>6, <2>3 DEF p
<1>11. QED  BY <1>7, <1>9, <1>10

\* The two messages of a handler reach the peer together or, on a closed connection,
\* not at all.
LEMMA GetsTwo ==
    ASSUME NEW s \in Sides, DuelTypes, queue'[Peer(s)] = queue[Peer(s)],
           NEW m \in DuelMessage, NEW n \in DuelMessage, m.kind # "ping", n.kind # "ping",
           Sends(s, <<m, n>>)
    PROVE  /\ wire' \in [Sides -> Seq(DuelMessage)] /\ wire'[s] = wire[s]
           /\ Coming(Peer(s))' = Coming(Peer(s)) \/ Coming(Peer(s))' = Coming(Peer(s)) \union {m, n}
           /\ Coming(Peer(s)) = {} /\ InOrder(Peer(s)) /\ m.kind \in Early /\ n.kind \notin Early
                => InOrder(Peer(s))'
<1> DEFINE p == Peer(s)  w == wire[p]  q == queue[p]
<1>1. p \in Sides /\ p # s  BY DEF Peer, Sides
<1>2. wire \in [Sides -> Seq(DuelMessage)] /\ w \in Seq(DuelMessage) /\ q \in Seq(DuelMessage)
  BY <1>1 DEF DuelTypes, ChannelTypes
<1>3. w \o <<m, n>> \in Seq(DuelMessage)  BY <1>2, SendTwo
<1>4. Stream(p) = q \o w  BY DEF Stream
<1> HIDE DEF w, q
<1>5. wire' = [wire EXCEPT ![p] = IF open THEN w \o <<m, n>> ELSE w]  BY DEF Sends, w
<1> HIDE DEF p
<1>6. wire' \in [Sides -> Seq(DuelMessage)] /\ wire'[s] = wire[s]
  BY <1>1, <1>2, <1>3, <1>5
<1>7. wire'[p] = w \/ wire'[p] = w \o <<m, n>>  BY <1>1, <1>2, <1>5
<1>8. queue'[p] = q  BY DEF p, q
<1>9. CASE wire'[p] = w
  <2>1. Coming(p)' = Coming(p) /\ InOrder(p)' = InOrder(p)
    BY <1>1, <1>8, <1>9, Untouched DEF q, w
  <2>2. QED  BY <1>6, <2>1 DEF p
<1>10. CASE wire'[p] = w \o <<m, n>>
  <2>1. Stream(p)' = q \o (w \o <<m, n>>)  BY <1>8, <1>10 DEF Stream
  <2>2. /\ Messages(q \o (w \o <<m, n>>)) = Messages(q \o w) \union {m, n}
        /\ Ordered(q \o w) /\ Messages(q \o w) = {} /\ m.kind \in Early /\ n.kind \notin Early
             => Ordered(q \o (w \o <<m, n>>))
    BY <1>2, SendTwo
  <2>3. /\ Coming(p)' = Coming(p) \union {m, n}
        /\ Coming(p) = {} /\ InOrder(p) /\ m.kind \in Early /\ n.kind \notin Early => InOrder(p)'
    BY <1>4, <2>1, <2>2 DEF Coming, InOrder
  <2>4. QED  BY <1>6, <2>3 DEF p
<1>11. QED  BY <1>7, <1>9, <1>10

-----------------------------------------------------------------------------
\* Steps of the channel leave the engines what was coming.
LEMMA QuietStep ==
    ASSUME DuelFacts, UNCHANGED <<mode, at, round, chosen, held, last, result, judged, session>>,
           Coming("host")' = Coming("host"), Coming("guest")' = Coming("guest"),
           InOrder("host") => InOrder("host")', InOrder("guest") => InOrder("guest")'
    PROVE  DuelFacts'
<1>1. ASSUME NEW s \in Sides PROVE Coming(s)' = Coming(s)  BY DEF Sides
<1>2. Places'  BY <1>1 DEF DuelFacts, Places
<1>3. Awaited'  BY DEF DuelFacts, Awaited, HostDue, GuestDue, Over
<1>4. Turns'  BY DEF DuelFacts, Turns, HostsTurn, GuestsTurn, Over
<1>5. RoundsFit'  BY DEF DuelFacts, RoundsFit, Over
<1>6. Chosen' /\ Judged' /\ OneOutcome'  BY DEF DuelFacts, Chosen, Judged, OneOutcome, Over
<1>7. Peeks'  BY DEF DuelFacts, Peeks
<1>8. Told'  BY DEF DuelFacts, Told
<1>9. QED  BY <1>2, <1>3, <1>4, <1>5, <1>6, <1>7, <1>8 DEF DuelFacts

\* The reader threads and the heartbeat move messages between the connection and the
\* queue: what comes to a side, in order and without heartbeats, stays as it is.
LEMMA ChannelKeeps ==
    ASSUME DuelInv, NEW s \in Sides, ReadMessage(s) \/ ReadPing(s) \/ ReadClosed(s) \/ SendPing(s)
    PROVE  DuelInv'
<1> USE DuelAssumption
<1>1. DuelTypes /\ DuelFacts  BY DEF DuelInv
<1>2. /\ queue \in [Sides -> Seq(DuelMessage)] /\ wire \in [Sides -> Seq(DuelMessage)]
      /\ \A t \in Sides : \A i \in DOMAIN queue[t] : queue[t][i].kind # "ping"
      /\ session \in [status : {"matched", "closed", "failed"}, reports : [Sides -> Winners \union {None}]]
  BY <1>1 DEF DuelTypes, ChannelTypes
<1>3. UNCHANGED <<mode, at, round, chosen, held, last, result, judged, session>>
  BY DEF ReadMessage, ReadPing, ReadClosed, SendPing
<1>4. /\ \A t \in Sides : Coming(t)' = Coming(t) /\ (InOrder(t) => InOrder(t)')
      /\ queue' \in [Sides -> Seq(DuelMessage)] /\ wire' \in [Sides -> Seq(DuelMessage)]
      /\ \A t \in Sides : \A i \in DOMAIN queue'[t] : queue'[t][i].kind # "ping"
  <2>1. CASE ReadMessage(s)
    <3> DEFINE q == queue[s]  w == wire[s]
    <3>1. q \in Seq(DuelMessage) /\ w \in Seq(DuelMessage) /\ w # <<>> /\ Head(w).kind # "ping"
      BY <1>2, <2>1 DEF ReadMessage
    <3>2. \A i \in DOMAIN q : q[i].kind # "ping"  BY <1>2
    <3>3. queue' = [queue EXCEPT ![s] = Append(q, Head(w))] /\ wire' = [wire EXCEPT ![s] = Tail(w)]
      BY <2>1 DEF ReadMessage
    <3>4. Stream(s) = q \o w  BY DEF Stream
    <3> HIDE DEF q, w
    <3>5. Append(q, Head(w)) \o Tail(w) = q \o w  BY <3>1, MoveHead
    <3>6. Head(w) \in DuelMessage /\ Tail(w) \in Seq(DuelMessage)  BY <3>1, HeadTailProperties
    <3>7. /\ Append(q, Head(w)) \in Seq(DuelMessage) /\ Len(q) \in Nat
          /\ Len(Append(q, Head(w))) = Len(q) + 1
          /\ \A i \in 1..Len(q) : Append(q, Head(w))[i] = q[i]
          /\ Append(q, Head(w))[Len(q) + 1] = Head(w)
      BY <3>1, <3>6, AppendProperties, LenProperties
    <3>8. DOMAIN q = 1..Len(q) /\ DOMAIN Append(q, Head(w)) = 1..(Len(q) + 1)
      BY <3>1, <3>7, LenProperties
    <3>9. \A i \in DOMAIN Append(q, Head(w)) : Append(q, Head(w))[i].kind # "ping"
      BY <3>1, <3>2, <3>7, <3>8
    <3>10. queue' \in [Sides -> Seq(DuelMessage)] /\ wire' \in [Sides -> Seq(DuelMessage)]
      BY <1>2, <3>3, <3>6, <3>7
    <3>11. /\ queue'[s] = Append(q, Head(w)) /\ wire'[s] = Tail(w)
           /\ \A t \in Sides : t # s => queue'[t] = queue[t] /\ wire'[t] = wire[t]
      BY <1>2, <3>3
    <3>12. Stream(s)' = Stream(s)  BY <3>4, <3>5, <3>11 DEF Stream
    <3>13. Coming(s)' = Coming(s) /\ InOrder(s)' = InOrder(s)  BY <3>12 DEF Coming, InOrder
    <3>14. ASSUME NEW t \in Sides PROVE Coming(t)' = Coming(t) /\ (InOrder(t) => InOrder(t)')
      <4>1. CASE t = s  BY <3>13, <4>1
      <4>2. CASE t # s
        <5>1. queue'[t] = queue[t] /\ wire'[t] = wire[t]  BY <3>11, <4>2
        <5>2. QED  BY <5>1, Untouched
      <4>3. QED  BY <4>1, <4>2
    <3>15. ASSUME NEW t \in Sides PROVE \A i \in DOMAIN queue'[t] : queue'[t][i].kind # "ping"
      <4>1. CASE t = s  BY <3>9, <3>11, <4>1
      <4>2. CASE t # s  BY <1>2, <3>11, <4>2
      <4>3. QED  BY <4>1, <4>2
    <3>16. QED  BY <3>10, <3>14, <3>15
  <2>2. CASE ReadPing(s)
    <3> DEFINE q == queue[s]  w == wire[s]
    <3>1. q \in Seq(DuelMessage) /\ w \in Seq(DuelMessage) /\ w # <<>> /\ Head(w).kind = "ping"
      BY <1>2, <2>2 DEF ReadPing
    <3>2. queue' = queue /\ wire' = [wire EXCEPT ![s] = Tail(w)]  BY <2>2 DEF ReadPing
    <3>3. Stream(s) = q \o w  BY DEF Stream
    <3>4. /\ wire'[s] = Tail(w)
          /\ \A t \in Sides : queue'[t] = queue[t] /\ (t # s => wire'[t] = wire[t])
      BY <1>2, <3>2
    <3>5. queue'[s] = q  BY <3>4
    <3> HIDE DEF q, w
    <3>6. Tail(w) \in Seq(DuelMessage)  BY <3>1, HeadTailProperties
    <3>7. wire' \in [Sides -> Seq(DuelMessage)]  BY <1>2, <3>2, <3>6
    <3>8. Stream(s)' = q \o Tail(w)  BY <3>4, <3>5 DEF Stream
    <3>9. Messages(q \o Tail(w)) = Messages(q \o w) /\ (Ordered(q \o w) => Ordered(q \o Tail(w)))
      BY <3>1, DropPing
    <3>10. Coming(s)' = Coming(s) /\ (InOrder(s) => InOrder(s)')
      BY <3>3, <3>8, <3>9 DEF Coming, InOrder
    <3>11. ASSUME NEW t \in Sides PROVE Coming(t)' = Coming(t) /\ (InOrder(t) => InOrder(t)')
      <4>1. CASE t = s  BY <3>10, <4>1
      <4>2. CASE t # s
        <5>1. queue'[t] = queue[t] /\ wire'[t] = wire[t]  BY <3>4, <4>2
        <5>2. QED  BY <5>1, Untouched
      <4>3. QED  BY <4>1, <4>2
    <3>12. QED  BY <1>2, <3>2, <3>7, <3>11
  <2>3. CASE ReadClosed(s)
    <3>1. queue' = queue /\ wire' = wire  BY <2>3 DEF ReadClosed
    <3>2. \A t \in Sides : Coming(t)' = Coming(t) /\ InOrder(t)' = InOrder(t)  BY <3>1, Untouched
    <3>3. QED  BY <1>2, <3>1, <3>2
  <2>4. CASE SendPing(s)
    <3> DEFINE p == Peer(s)  q == queue[p]  w == wire[p]  m == Msg("ping", 0, None)
    <3>1. p \in Sides /\ m \in DuelMessage /\ m.kind = "ping"
      BY DEF Peer, Sides, Msg, DuelMessage, Kinds
    <3>2. q \in Seq(DuelMessage) /\ w \in Seq(DuelMessage)  BY <1>2, <3>1
    <3>3. queue' = queue /\ wire' = [wire EXCEPT ![p] = Append(w, m)]  BY <2>4 DEF SendPing
    <3>4. Stream(p) = q \o w  BY DEF Stream
    <3> HIDE DEF p
    <3>5. /\ wire'[p] = Append(w, m)
          /\ \A t \in Sides : queue'[t] = queue[t] /\ (t # p => wire'[t] = wire[t])
      BY <1>2, <3>1, <3>3
    <3>6. queue'[p] = q  BY <3>1, <3>5
    <3> HIDE DEF q, w, m
    <3>7. Append(w, m) = w \o <<m>>  BY <3>1, <3>2, AppendIsConcat
    <3>8. /\ w \o <<m>> \in Seq(DuelMessage)
          /\ Messages(q \o (w \o <<m>>)) = Messages(q \o w)
          /\ Ordered(q \o w) => Ordered(q \o (w \o <<m>>))
      BY <3>1, <3>2, SendOne
    <3>9. Stream(p)' = q \o (w \o <<m>>)  BY <3>5, <3>6, <3>7 DEF Stream
    <3>10. Coming(p)' = Coming(p) /\ (InOrder(p) => InOrder(p)')
      BY <3>4, <3>8, <3>9 DEF Coming, InOrder
    <3>11. ASSUME NEW t \in Sides PROVE Coming(t)' = Coming(t) /\ (InOrder(t) => InOrder(t)')
      <4>1. CASE t = p  BY <3>10, <4>1
      <4>2. CASE t # p
        <5>1. queue'[t] = queue[t] /\ wire'[t] = wire[t]  BY <3>5, <4>2
        <5>2. QED  BY <5>1, Untouched
      <4>3. QED  BY <4>1, <4>2
    <3>12. wire' \in [Sides -> Seq(DuelMessage)]  BY <1>2, <3>1, <3>3, <3>7, <3>8
    <3>13. QED  BY <1>2, <3>3, <3>11, <3>12
  <2>5. QED  BY <2>1, <2>2, <2>3, <2>4
<1>5. TypeOK'
  <2>1. TypeOK  BY <1>1 DEF DuelTypes, ChannelTypes
  <2>2. open' = open  BY DEF ReadMessage, ReadPing, ReadClosed, SendPing
  <2>3. reader' \in [Sides -> {"on", "error", "dead"}]
    BY <2>1 DEF TypeOK, ReadMessage, ReadPing, ReadClosed, SendPing
  <2>4. pings' \in 0..MaxPings
    <3>1. CASE SendPing(s)  BY <2>1, <3>1 DEF TypeOK, SendPing
    <3>2. CASE ~SendPing(s)
      <4>1. pings' = pings  BY <3>2 DEF ReadMessage, ReadPing, ReadClosed
      <4>2. QED  BY <2>1, <4>1 DEF TypeOK
    <3>3. QED  BY <3>1, <3>2
  <2>5. QED  BY <1>3, <2>1, <2>2, <2>3, <2>4 DEF TypeOK
<1>6. DuelTypes'  BY <1>2, <1>3, <1>4, <1>5 DEF DuelTypes, ChannelTypes
<1>7. DuelFacts'
  <2>1. "host" \in Sides /\ "guest" \in Sides  BY DEF Sides
  <2>2. QED  BY <1>1, <1>3, <1>4, <2>1, QuietStep
<1>8. QED  BY <1>6, <1>7 DEF DuelInv

-----------------------------------------------------------------------------
\* A side comes to its end without a word to the other.
LEMMA EndStep ==
    ASSUME DuelInv, NEW s \in Sides, NEW e \in Ended, at' = [at EXCEPT ![s] = e],
           UNCHANGED <<mode, wire, queue, round, chosen, held, last, judged>>,
           \/ ~Over(s) /\ result' = [result EXCEPT ![s] = [completed |-> FALSE, outcome |-> None]]
           \/ result' = result
    PROVE  /\ Places' /\ Awaited' /\ Turns' /\ RoundsFit' /\ Chosen' /\ Peeks' /\ Judged' /\ Told'
           /\ \A t \in Sides : result'[t].completed => result'[t] = result[t]
           /\ result["host"].completed => result'["host"].completed
           /\ result' \in [Sides -> [completed : BOOLEAN, outcome : Winners \union {None}]]
           /\ wire' \in [Sides -> Seq(DuelMessage)] /\ queue' \in [Sides -> Seq(DuelMessage)]
           /\ \A t \in Sides : \A i \in DOMAIN queue'[t] : queue'[t][i].kind # "ping"
<1>1. DuelTypes /\ DuelFacts /\ TypeOK  BY DEF DuelInv, DuelTypes
<1>2. \A t \in Sides : Coming(t)' = Coming(t) /\ InOrder(t)' = InOrder(t)  BY Untouched
<1>3. /\ Coming("host")' = Coming("host") /\ InOrder("host")' = InOrder("host")
      /\ Coming("guest")' = Coming("guest") /\ InOrder("guest")' = InOrder("guest")
  BY <1>2 DEF Sides
<1>4. /\ at \in [Sides -> {"start", "join", "ready", "message", "commit", "reveal", "result",
                           "done", "crashed", "left"}]
      /\ result \in [Sides -> [completed : BOOLEAN, outcome : Winners \union {None}]]
  BY <1>1 DEF TypeOK
<1>5. at'[s] = e /\ \A t \in Sides : t # s => at'[t] = at[t]  BY <1>4
<1>6. /\ at'["host"] \in Ended \/ at'["host"] = at["host"]
      /\ at'["guest"] \in Ended \/ at'["guest"] = at["guest"]
  BY <1>5 DEF Sides
<1>7. result' \in [Sides -> [completed : BOOLEAN, outcome : Winners \union {None}]]
  <2> DEFINE R == [completed : BOOLEAN, outcome : Winners \union {None}]
  <2>1. [completed |-> FALSE, outcome |-> None] \in R  OBVIOUS
  <2>2. result \in [Sides -> R]  BY <1>4
  <2> HIDE DEF R
  <2>3. result' \in [Sides -> R]  BY <2>1, <2>2
  <2>4. QED  BY <2>3 DEF R
<1>8. \A t \in Sides : result'[t].completed => result'[t] = result[t]  BY <1>4
<1>9. ~Over("host") => ~result["host"].completed  BY <1>1 DEF DuelFacts, Judged
<1>10. result["host"].completed => result'["host"] = result["host"]
  <2>1. CASE result' = result  BY <2>1
  <2>2. CASE ~Over(s) /\ result' = [result EXCEPT ![s] = [completed |-> FALSE, outcome |-> None]]
    <3>1. CASE s = "host"  BY <1>9, <2>2, <3>1
    <3>2. CASE s = "guest"  BY <1>4, <2>2, <3>2 DEF Sides
    <3>3. QED  BY <3>1, <3>2 DEF Sides
  <2>3. QED  BY <2>1, <2>2
<1>11. "host" \in Sides /\ "guest" \in Sides  BY DEF Sides
<1>12. ~Over("host")' => ~Over("host") /\ at'["host"] = at["host"]  BY <1>6 DEF Over, Ended
<1>13. ~Over("guest")' => ~Over("guest") /\ at'["guest"] = at["guest"]  BY <1>6 DEF Over, Ended
<1>14. Places'
  <2>1. Places  BY <1>1 DEF DuelFacts
  <2>2. /\ at'["host"] \in {"join", "message", "commit", "reveal"} \union Ended
        /\ at'["guest"] \in {"start", "ready", "message", "commit", "reveal", "result"} \union Ended
    BY <1>6, <2>1 DEF Places
  <2>3. \A t \in Sides : /\ at'[t] \in {"commit", "reveal", "result"} => mode = "simultaneous_round"
                         /\ at'[t] = "message" => mode # "simultaneous_round"
    BY <1>5, <2>1 DEF Places, Ended
  <2>4. QED  BY <1>2, <2>1, <2>2, <2>3 DEF Places
<1>15. Awaited'
  BY <1>1, <1>3, <1>12, <1>13 DEF DuelFacts, Awaited, HostDue, GuestDue
<1>16. Turns'
  BY <1>1, <1>3, <1>12, <1>13 DEF DuelFacts, Turns, HostsTurn, GuestsTurn
<1>17. RoundsFit'
  BY <1>1, <1>3, <1>12, <1>13 DEF DuelFacts, RoundsFit
<1>18. Chosen'  BY <1>1, <1>6 DEF DuelFacts, Chosen, Ended
<1>19. Peeks'  BY <1>1, <1>3 DEF DuelFacts, Peeks
<1>20. Judged'
  BY <1>1, <1>8, <1>11, <1>12 DEF DuelFacts, Judged
<1>21. Told'
  BY <1>1, <1>3, <1>6, <1>10 DEF DuelFacts, Told, Ended
<1>22. QED
  BY <1>1, <1>7, <1>8, <1>10, <1>14, <1>15, <1>16, <1>17, <1>18, <1>19, <1>20, <1>21 DEF DuelTypes, ChannelTypes

\* A side that ends on its own (disconnected, an error, closed, crashed) sends nothing
\* and gets no outcome: it no longer counts for most of the invariant.
LEMMA EndingsKeep ==
    ASSUME DuelInv, NEW s \in Sides, Disconnected(s) \/ Raises(s) \/ Closes(s) \/ Crash(s)
    PROVE  DuelInv'
<1> USE DuelAssumption
<1>1. DuelTypes /\ DuelFacts /\ TypeOK /\ OneOutcome  BY DEF DuelInv, DuelTypes, DuelFacts
<1>2. PICK e \in Ended : at' = [at EXCEPT ![s] = e]
  BY DEF Ended, Disconnected, Raises, Closes, Crash
<1>3. /\ UNCHANGED <<mode, wire, queue, round, chosen, held, last, judged>>
      /\ \/ ~Over(s) /\ result' = [result EXCEPT ![s] = [completed |-> FALSE, outcome |-> None]]
         \/ result' = result
  BY DEF Disconnected, Raises, Closes, Crash
<1>4. /\ Places' /\ Awaited' /\ Turns' /\ RoundsFit' /\ Chosen' /\ Peeks' /\ Judged' /\ Told'
      /\ \A t \in Sides : result'[t].completed => result'[t] = result[t]
      /\ result["host"].completed => result'["host"].completed
      /\ result' \in [Sides -> [completed : BOOLEAN, outcome : Winners \union {None}]]
      /\ wire' \in [Sides -> Seq(DuelMessage)] /\ queue' \in [Sides -> Seq(DuelMessage)]
      /\ \A t \in Sides : \A i \in DOMAIN queue'[t] : queue'[t][i].kind # "ping"
  BY <1>2, <1>3, EndStep
<1>5. session \in [status : {"matched", "closed", "failed"}, reports : [Sides -> Winners \union {None}]]
  BY <1>1 DEF DuelTypes, ChannelTypes
<1>6. result \in [Sides -> [completed : BOOLEAN, outcome : Winners \union {None}]]  BY <1>1 DEF TypeOK
<1>7. /\ session' \in [status : {"matched", "closed", "failed"}, reports : [Sides -> Winners \union {None}]]
      /\ session'.reports = session.reports
         \/ /\ result[s].completed
            /\ session'.reports = [session.reports EXCEPT ![s] = result[s].outcome]
  <2>1. CASE Disconnected(s) \/ Crash(s)  BY <1>5, <2>1 DEF Disconnected, Crash
  <2>2. CASE Raises(s)  BY <1>5, <2>2 DEF Raises
  <2>3. CASE Closes(s)  BY <1>5, <1>6, <2>3 DEF Closes
  <2>4. QED  BY <2>1, <2>2, <2>3
<1>8. TypeOK'
  <2>1. at' \in [Sides -> {"start", "join", "ready", "message", "commit", "reveal", "result",
                           "done", "crashed", "left"}]
    BY <1>1, <1>2 DEF TypeOK, Ended
  <2>2. open' \in BOOLEAN /\ reader' = reader /\ pings' = pings
    BY <1>1 DEF TypeOK, Disconnected, Raises, Closes, Crash
  <2>3. QED  BY <1>1, <1>3, <1>4, <1>7, <2>1, <2>2 DEF TypeOK
<1>9. OneOutcome'
  <2>1. result["host"].completed => result["host"].outcome = judged  BY <1>1 DEF DuelFacts, Judged
  <2>2. result'["guest"].completed => result'["host"].completed /\ result'["guest"].outcome = judged
    BY <1>1, <1>4 DEF OneOutcome, Sides
  <2>3. result[s].completed => result[s].outcome = judged  BY <1>1, <2>1 DEF OneOutcome, Sides
  <2>4. \A t \in Sides : session'.reports[t] \in {None, judged}
    BY <1>1, <1>5, <1>7, <2>3 DEF OneOutcome
  <2>5. QED  BY <1>3, <2>2, <2>4 DEF OneOutcome
<1>10. DuelTypes'  BY <1>4, <1>7, <1>8 DEF DuelTypes, ChannelTypes
<1>11. QED  BY <1>4, <1>9, <1>10 DEF DuelInv, DuelFacts

-----------------------------------------------------------------------------
\* What a handler does to the channels, and to its own end.
LEMMA SidesFacts ==
    /\ "host" \in Sides /\ "guest" \in Sides
    /\ Peer("host") = "guest" /\ Peer("guest") = "host"
    /\ \A s \in Sides : s = "host" \/ s = "guest"
  BY DEF Sides, Peer

Took(s) ==
    /\ Received(s) \in DuelMessage
    /\ Coming(s) = {Received(s)} \union Coming(s)'
    /\ InOrder(s) => /\ InOrder(s)'
                     /\ \A m \in Coming(s)' : Received(s).kind \in Early /\ m.kind \notin Early

\* What a handler takes from its queue is a message of the protocol.
LEMMA ReceivedTyped ==
    ASSUME DuelTypes, NEW s \in Sides, NEW what, Receives(s, what)
    PROVE  Received(s) \in DuelMessage
<1>1. queue[s] \in Seq(DuelMessage) /\ queue[s] # <<>>  BY DEF DuelTypes, ChannelTypes, Receives
<1>2. QED  BY <1>1, HeadTailProperties DEF Received

\* What is on its way to a side consists of messages of the protocol.
LEMMA ComingTyped ==
    ASSUME DuelTypes, NEW s \in Sides
    PROVE  Coming(s) \subseteq DuelMessage
<1>1. queue[s] \in Seq(DuelMessage) /\ wire[s] \in Seq(DuelMessage)  BY DEF DuelTypes, ChannelTypes
<1>2. Stream(s) \in Seq(DuelMessage)  BY <1>1, ConcatProperties DEF Stream
<1>3. \A i \in DOMAIN Stream(s) : Stream(s)[i] \in DuelMessage  BY <1>2
<1>4. QED  BY <1>3 DEF Coming, Messages, Business

\* The Host takes a message and sends nothing.
LEMMA HostReads ==
    ASSUME DuelTypes, NEW what, Receives("host", what), UNCHANGED wire
    PROVE  /\ Took("host")
           /\ Coming("guest")' = Coming("guest") /\ InOrder("guest")' = InOrder("guest")
           /\ ChannelTypes'
<1>1. queue["host"] # <<>> /\ queue' = [queue EXCEPT !["host"] = Tail(@)] /\ wire'["host"] = wire["host"]
  BY DEF Receives
<1>2. queue'["guest"] = queue["guest"] /\ wire'["guest"] = wire["guest"]  BY <1>1 DEF DuelTypes, ChannelTypes, Sides
<1>3. Coming("guest")' = Coming("guest") /\ InOrder("guest")' = InOrder("guest")
  BY <1>2, SidesFacts, Untouched
<1>4. wire' \in [Sides -> Seq(DuelMessage)]  BY DEF DuelTypes, ChannelTypes
<1>5. QED  BY <1>1, <1>3, <1>4, SidesFacts, Reads DEF Took, ChannelTypes

\* The Host takes a message and answers with one.
LEMMA HostAnswers ==
    ASSUME DuelTypes, NEW what, Receives("host", what),
           NEW x \in DuelMessage, x.kind # "ping", Sends("host", <<x>>)
    PROVE  /\ Took("host")
           /\ Coming("guest")' = Coming("guest") \/ Coming("guest")' = Coming("guest") \union {x}
           /\ Coming("guest") = {} /\ InOrder("guest") => InOrder("guest")'
           /\ ChannelTypes'
<1>1. queue["host"] # <<>> /\ queue' = [queue EXCEPT !["host"] = Tail(@)]  BY DEF Receives
<1>2. queue'["guest"] = queue["guest"]  BY <1>1 DEF DuelTypes, ChannelTypes, Sides
<1>3. /\ wire' \in [Sides -> Seq(DuelMessage)] /\ wire'["host"] = wire["host"]
      /\ Coming("guest")' = Coming("guest") \/ Coming("guest")' = Coming("guest") \union {x}
      /\ Coming("guest") = {} /\ InOrder("guest") => InOrder("guest")'
  BY <1>2, SidesFacts, Gets
<1>4. QED  BY <1>1, <1>3, SidesFacts, Reads DEF Took, ChannelTypes

\* The Host takes a message and answers with two, an early one first.
LEMMA HostAnswersTwice ==
    ASSUME DuelTypes, NEW what, Receives("host", what),
           NEW x \in DuelMessage, NEW y \in DuelMessage, x.kind # "ping", y.kind # "ping",
           Sends("host", <<x, y>>)
    PROVE  /\ Took("host")
           /\ Coming("guest")' = Coming("guest") \/ Coming("guest")' = Coming("guest") \union {x, y}
           /\ Coming("guest") = {} /\ InOrder("guest") /\ x.kind \in Early /\ y.kind \notin Early
                => InOrder("guest")'
           /\ ChannelTypes'
<1>1. queue["host"] # <<>> /\ queue' = [queue EXCEPT !["host"] = Tail(@)]  BY DEF Receives
<1>2. queue'["guest"] = queue["guest"]  BY <1>1 DEF DuelTypes, ChannelTypes, Sides
<1>3. /\ wire' \in [Sides -> Seq(DuelMessage)] /\ wire'["host"] = wire["host"]
      /\ Coming("guest")' = Coming("guest") \/ Coming("guest")' = Coming("guest") \union {x, y}
      /\ Coming("guest") = {} /\ InOrder("guest") /\ x.kind \in Early /\ y.kind \notin Early
           => InOrder("guest")'
  BY <1>2, SidesFacts, GetsTwo
<1>4. QED  BY <1>1, <1>3, SidesFacts, Reads DEF Took, ChannelTypes

\* The Guest takes a message and sends nothing.
LEMMA GuestReads ==
    ASSUME DuelTypes, NEW what, Receives("guest", what), UNCHANGED wire
    PROVE  /\ Took("guest")
           /\ Coming("host")' = Coming("host") /\ InOrder("host")' = InOrder("host")
           /\ ChannelTypes'
<1>1. queue["guest"] # <<>> /\ queue' = [queue EXCEPT !["guest"] = Tail(@)] /\ wire'["guest"] = wire["guest"]
  BY DEF Receives
<1>2. queue'["host"] = queue["host"] /\ wire'["host"] = wire["host"]  BY <1>1 DEF DuelTypes, ChannelTypes, Sides
<1>3. Coming("host")' = Coming("host") /\ InOrder("host")' = InOrder("host")
  BY <1>2, SidesFacts, Untouched
<1>4. wire' \in [Sides -> Seq(DuelMessage)]  BY DEF DuelTypes, ChannelTypes
<1>5. QED  BY <1>1, <1>3, <1>4, SidesFacts, Reads DEF Took, ChannelTypes

\* The Guest takes a message and answers with one.
LEMMA GuestAnswers ==
    ASSUME DuelTypes, NEW what, Receives("guest", what),
           NEW x \in DuelMessage, x.kind # "ping", Sends("guest", <<x>>)
    PROVE  /\ Took("guest")
           /\ Coming("host")' = Coming("host") \/ Coming("host")' = Coming("host") \union {x}
           /\ Coming("host") = {} /\ InOrder("host") => InOrder("host")'
           /\ ChannelTypes'
<1>1. queue["guest"] # <<>> /\ queue' = [queue EXCEPT !["guest"] = Tail(@)]  BY DEF Receives
<1>2. queue'["host"] = queue["host"]  BY <1>1 DEF DuelTypes, ChannelTypes, Sides
<1>3. /\ wire' \in [Sides -> Seq(DuelMessage)] /\ wire'["guest"] = wire["guest"]
      /\ Coming("host")' = Coming("host") \/ Coming("host")' = Coming("host") \union {x}
      /\ Coming("host") = {} /\ InOrder("host") => InOrder("host")'
  BY <1>2, SidesFacts, Gets
<1>4. QED  BY <1>1, <1>3, SidesFacts, Reads DEF Took, ChannelTypes

Ats == {"start", "join", "ready", "message", "commit", "reveal", "result", "done", "crashed", "left"}
Results == [completed : BOOLEAN, outcome : Winners \union {None}]

\* A side that ends is done with the outcome it was given; its peer goes on.
LEMMA EndsHere ==
    ASSUME DuelTypes, NEW s \in Sides, NEW c \in BOOLEAN, NEW o \in Winners \union {None}, Ends(s, c, o)
    PROVE  /\ at' \in [Sides -> Ats] /\ at'[s] = "done" /\ at'[Peer(s)] = at[Peer(s)]
           /\ result' \in [Sides -> Results]
           /\ result'[s].completed = c /\ result'[s].outcome = o /\ result'[Peer(s)] = result[Peer(s)]
<1>1. at \in [Sides -> Ats] /\ result \in [Sides -> Results]  BY DEF DuelTypes, ChannelTypes, TypeOK, Ats, Results
<1>2. [completed |-> c, outcome |-> o] \in Results  BY DEF Results
<1>3. Peer(s) \in Sides /\ Peer(s) # s /\ "done" \in Ats  BY DEF Peer, Sides, Ats
<1>4. /\ at' \in [Sides -> Ats] /\ at'[s] = "done" /\ at'[Peer(s)] = at[Peer(s)]
      /\ result' \in [Sides -> Results]
      /\ result'[s] = [completed |-> c, outcome |-> o] /\ result'[Peer(s)] = result[Peer(s)]
  BY <1>1, <1>2, <1>3 DEF Ends
<1>5. QED  BY <1>4

\* A side that goes on waits for its next message; nobody ends.
LEMMA GoesOnHere ==
    ASSUME DuelTypes, NEW s \in Sides, NEW what \in Ats, GoesOn(s, what)
    PROVE  /\ at' \in [Sides -> Ats] /\ at'[s] = what /\ at'[Peer(s)] = at[Peer(s)]
           /\ result' \in [Sides -> Results] /\ result' = result
<1>1. at \in [Sides -> Ats] /\ result \in [Sides -> Results]  BY DEF DuelTypes, ChannelTypes, TypeOK, Ats, Results
<1>2. Peer(s) \in Sides /\ Peer(s) # s  BY DEF Peer, Sides
<1>3. QED  BY <1>1, <1>2 DEF GoesOn

\* A handler keeps the types: it leaves the connection and its threads alone.
LEMMA HandlerTypes ==
    ASSUME DuelTypes, UNCHANGED <<mode, open, reader, pings, session>>,
           at' \in [Sides -> Ats], round' \in [Sides -> 0..MaxRounds],
           chosen' \in [Sides -> Values \union {None}], held' \in [Sides -> Values \union {None}],
           last' \in Winners \union {None}, result' \in [Sides -> Results],
           judged' \in Winners \union {None},
           ChannelTypes'
    PROVE  DuelTypes'
<1>1. TypeOK'
  <2>1. TypeOK  BY DEF DuelTypes, ChannelTypes
  <2>2. QED  BY <2>1 DEF TypeOK, Ats, Results
<1>2. session' \in [status : {"matched", "closed", "failed"}, reports : [Sides -> Winners \union {None}]]
  BY DEF DuelTypes
<1>3. QED  BY <1>1, <1>2 DEF DuelTypes

-----------------------------------------------------------------------------
\* The handshake.
LEMMA GuestJoinsKeeps ==
    ASSUME DuelInv, GuestJoins
    PROVE  DuelInv'
<1> USE DuelAssumption
<1>1. /\ DuelTypes /\ TypeOK
      /\ Places /\ Awaited /\ Turns /\ RoundsFit /\ Chosen /\ Peeks /\ Judged /\ Told /\ OneOutcome
  BY DEF DuelInv, DuelFacts, DuelTypes
<1> DEFINE x == Msg("join", 0, None)
<1>2. x \in DuelMessage /\ x.kind = "join"  BY DEF Msg, DuelMessage, Kinds
<1> HIDE DEF x
<1>3. /\ at["guest"] = "start" /\ Sends("guest", <<x>>) /\ GoesOn("guest", "ready")
      /\ UNCHANGED <<mode, open, queue, reader, pings, round, chosen, held, last, judged, session>>
  BY DEF GuestJoins, x
<1>4. /\ wire' \in [Sides -> Seq(DuelMessage)] /\ wire'["guest"] = wire["guest"]
      /\ Coming("host")' = Coming("host") \/ Coming("host")' = Coming("host") \union {x}
      /\ Coming("host") = {} /\ InOrder("host") => InOrder("host")'
  BY <1>1, <1>2, <1>3, SidesFacts, Gets
<1>5. Coming("guest")' = Coming("guest") /\ InOrder("guest")' = InOrder("guest")
  BY <1>3, <1>4, SidesFacts, Untouched
<1>6. /\ at' \in [Sides -> Ats] /\ at'["guest"] = "ready" /\ at'["host"] = at["host"]
      /\ result' \in [Sides -> Results] /\ result' = result
  BY <1>1, <1>3, SidesFacts, GoesOnHere DEF Ats
<1>7. DuelTypes'
  <2>1. ChannelTypes'  BY <1>1, <1>3, <1>4 DEF DuelTypes, ChannelTypes
  <2>2. QED  BY <1>1, <1>3, <1>4, <1>6, <2>1, HandlerTypes DEF TypeOK
<1>8. Places'
  BY <1>1, <1>2, <1>3, <1>4, <1>5, <1>6, SidesFacts
  DEF Places
<1>9. Awaited'
  BY <1>1, <1>2, <1>3, <1>4, <1>5, <1>6
  DEF Awaited, HostDue, GuestDue, Turns, HostsTurn, GuestsTurn, Over
<1>10. Turns'
  BY <1>1, <1>3, <1>5, <1>6
  DEF Turns, HostsTurn, GuestsTurn, Over
<1>11. RoundsFit'
  BY <1>1, <1>3, <1>6
  DEF RoundsFit, Over
<1>12. Chosen'
  BY <1>1, <1>3, <1>6
  DEF Chosen
<1>13. Peeks'
  BY <1>1, <1>2, <1>3, <1>4, <1>5
  DEF Peeks
<1>14. Judged'
  BY <1>1, <1>3, <1>6
  DEF Judged, Over
<1>15. Told'
  BY <1>1, <1>3, <1>5, <1>6
  DEF Told
<1>16. OneOutcome'
  BY <1>1, <1>3, <1>6
  DEF OneOutcome
<1>20. QED  BY <1>7, <1>8, <1>9, <1>10, <1>11, <1>12, <1>13, <1>14, <1>15, <1>16 DEF DuelInv, DuelFacts

\* The Host answers the join with ready, and with its first commitment.
LEMMA HostJoinedKeeps ==
    ASSUME DuelInv, HostJoined
    PROVE  DuelInv'
<1> USE DuelAssumption
<1>1. /\ DuelTypes /\ TypeOK
      /\ Places /\ Awaited /\ Turns /\ RoundsFit /\ Chosen /\ Peeks /\ Judged /\ Told /\ OneOutcome
  BY DEF DuelInv, DuelFacts, DuelTypes
<1>2. /\ at["host"] = "join" /\ Receives("host", "join")
      /\ UNCHANGED <<mode, open, reader, pings, round, held, last, judged, session>>
  BY DEF HostJoined, Receives
<1> DEFINE x == Msg("ready", 0, None)
<1>3. x \in DuelMessage /\ x.kind = "ready"  BY DEF Msg, DuelMessage, Kinds
<1>4. CASE mode # "simultaneous_round"
  <2> HIDE DEF x
  <2>1. /\ Sends("host", <<x>>) /\ UNCHANGED chosen
        /\ GoesOn("host", "message") \/ (mode = "session_loop" /\ \E c \in BOOLEAN : Ends("host", c, None))
    BY <1>4 DEF HostJoined, x
  <2>2. /\ Took("host")
        /\ Coming("guest")' = Coming("guest") \/ Coming("guest")' = Coming("guest") \union {x}
        /\ Coming("guest") = {} /\ InOrder("guest") => InOrder("guest")'
        /\ ChannelTypes'
    BY <1>1, <1>2, <1>3, <2>1, HostAnswers
  <2>3. /\ at' \in [Sides -> Ats] /\ at'["guest"] = at["guest"]
        /\ result' \in [Sides -> Results] /\ result'["guest"] = result["guest"]
        /\ \/ at'["host"] = "message" /\ result' = result
           \/ mode = "session_loop" /\ at'["host"] = "done" /\ result'["host"].outcome = None
    <3>1. CASE GoesOn("host", "message")  BY <1>1, <3>1, SidesFacts, GoesOnHere DEF Ats
    <3>2. CASE mode = "session_loop" /\ \E c \in BOOLEAN : Ends("host", c, None)
      <4>1. PICK c \in BOOLEAN : Ends("host", c, None)  BY <3>2
      <4>2. QED  BY <1>1, <3>2, <4>1, SidesFacts, EndsHere
    <3>3. QED  BY <2>1, <3>1, <3>2
  <2>4. DuelTypes'
    BY <1>1, <1>2, <2>1, <2>2, <2>3, HandlerTypes DEF TypeOK
  <2>5. Places'
    BY <1>1, <1>2, <1>3, <1>4, <2>2, <2>3, SidesFacts
    DEF Places, Ended, Took
  <2>6. Awaited'
    BY <1>1, <1>2, <1>3, <2>2, <2>3
    DEF Awaited, HostDue, GuestDue, Turns, HostsTurn, GuestsTurn, Over, Took
  <2>7. Turns'
    BY <1>1, <1>2, <2>2, <2>3
    DEF Turns, HostsTurn, GuestsTurn, Awaited, HostDue, Over, Took
  <2>8. RoundsFit'
    BY <1>1, <1>2, <1>3, <2>2, <2>3
    DEF RoundsFit, Over
  <2>9. Chosen'
    BY <1>1, <1>2, <2>1, <2>3
    DEF Chosen
  <2>10. Peeks'
    BY <1>1, <1>2, <1>3, <2>2
    DEF Peeks, Took
  <2>11. Judged'
    BY <1>1, <1>2, <2>3
    DEF Judged, Over
  <2>12. Told'
    BY <1>1, <1>2, <1>3, <2>2, <2>3
    DEF Told, Early, Judged, Over
  <2>13. OneOutcome'
    BY <1>1, <1>2, <2>3
    DEF OneOutcome, Judged, Over
  <2>20. QED  BY <2>4, <2>5, <2>6, <2>7, <2>8, <2>9, <2>10, <2>11, <2>12, <2>13 DEF DuelInv, DuelFacts
<1>5. CASE mode = "simultaneous_round"
  <2>1. PICK v \in Values : /\ Sends("host", <<x, Msg("commit", 0, v)>>)
                            /\ chosen' = [chosen EXCEPT !["host"] = v]
    BY <1>5 DEF HostJoined
  <2> DEFINE y == Msg("commit", 0, v)
  <2>2. y \in DuelMessage /\ y.kind = "commit" /\ y.round = 0  BY DEF Msg, DuelMessage, Kinds
  <2> HIDE DEF x, y
  <2>3. Sends("host", <<x, y>>) /\ GoesOn("host", "commit")  BY <1>5, <2>1 DEF HostJoined, y
  <2>4. /\ Took("host")
        /\ Coming("guest")' = Coming("guest") \/ Coming("guest")' = Coming("guest") \union {x, y}
        /\ Coming("guest") = {} /\ InOrder("guest") /\ x.kind \in Early /\ y.kind \notin Early
             => InOrder("guest")'
        /\ ChannelTypes'
    BY <1>1, <1>2, <1>3, <2>2, <2>3, HostAnswersTwice
  <2>5. /\ at' \in [Sides -> Ats] /\ at'["host"] = "commit" /\ at'["guest"] = at["guest"]
        /\ result' \in [Sides -> Results] /\ result' = result
    BY <1>1, <2>3, SidesFacts, GoesOnHere DEF Ats
  <2>6. /\ chosen' \in [Sides -> Values \union {None}]
        /\ chosen'["host"] \in Values /\ chosen'["guest"] = chosen["guest"]
    BY <1>1, <2>1, SidesFacts DEF TypeOK
  <2>7. DuelTypes'
    BY <1>1, <1>2, <2>4, <2>5, <2>6, HandlerTypes DEF TypeOK
  <2>21. \A m \in Coming("guest")' : m \in Coming("guest") \/ m.kind \in {"ready", "commit"}
    BY <1>3, <2>2, <2>4
  <2>22. \A m \in Coming("host")' : m \in Coming("host")  BY <2>4 DEF Took
  <2>23. at["guest"] \notin {"commit", "result"}  BY <1>1, <1>2, <1>5 DEF Turns, HostsTurn, GuestsTurn, Over
  <2>8. Places'
    BY <1>1, <1>2, <1>5, <2>5, SidesFacts
    DEF Places
  <2>9. Awaited'
    BY <1>1, <1>2, <1>3, <1>5, <2>2, <2>4, <2>5
    DEF Awaited, HostDue, GuestDue, Turns, HostsTurn, GuestsTurn, Early, Over, Took
  <2>10. Turns'
    BY <1>1, <1>2, <2>4, <2>5
    DEF Turns, HostsTurn, GuestsTurn, Awaited, HostDue, Over, Took
  <2>11. RoundsFit'
    BY <1>1, <1>2, <1>5, <2>5
    DEF RoundsFit, Turns, HostsTurn, GuestsTurn, Over
  <2>12. Chosen'
    BY <1>1, <1>2, <2>5, <2>6
    DEF Chosen
  <2>14. Judged'
    BY <1>1, <1>2, <2>5
    DEF Judged, Over
  <2>16. OneOutcome'
    BY <1>1, <1>2, <2>5
    DEF OneOutcome
  <2>13. Peeks'  BY <1>1, <1>2, <2>21, <2>22 DEF Peeks
  <2>15. Told'  BY <1>1, <1>2, <2>5, <2>21, <2>23 DEF Told
  <2>20. QED  BY <2>7, <2>8, <2>9, <2>10, <2>11, <2>12, <2>13, <2>14, <2>15, <2>16 DEF DuelInv, DuelFacts
<1>6. QED  BY <1>4, <1>5

\* The Guest hears that the Host is ready, and moves or chooses its first value.
LEMMA GuestReadyKeeps ==
    ASSUME DuelInv, GuestReady
    PROVE  DuelInv'
<1> USE DuelAssumption
<1>1. /\ DuelTypes /\ TypeOK
      /\ Places /\ Awaited /\ Turns /\ RoundsFit /\ Chosen /\ Peeks /\ Judged /\ Told /\ OneOutcome
  BY DEF DuelInv, DuelFacts, DuelTypes
<1>2. /\ at["guest"] = "ready" /\ Receives("guest", "ready")
      /\ UNCHANGED <<mode, open, reader, pings, round, held, last, judged, session>>
  BY DEF GuestReady, Receives
<1>3. CASE /\ mode # "simultaneous_round" /\ UNCHANGED chosen
           /\ Sends("guest", <<Msg("move", 1, None)>>) /\ GoesOn("guest", "message")
  <2> DEFINE x == Msg("move", 1, None)
  <2>1. x \in DuelMessage /\ x.kind = "move"  BY DEF Msg, DuelMessage, Kinds
  <2> HIDE DEF x
  <2>2. Sends("guest", <<x>>) /\ GoesOn("guest", "message") /\ UNCHANGED chosen
    BY <1>3 DEF x
  <2>3. /\ Took("guest") /\ ChannelTypes'
        /\ Coming("host")' = Coming("host") \/ Coming("host")' = Coming("host") \union {x}
        /\ Coming("host") = {} /\ InOrder("host") => InOrder("host")'
    BY <1>1, <1>2, <2>1, <2>2, GuestAnswers
  <2>4. /\ at' \in [Sides -> Ats] /\ at'["guest"] = "message" /\ at'["host"] = at["host"]
        /\ result' \in [Sides -> Results] /\ result' = result
    BY <1>1, <2>2, SidesFacts, GoesOnHere DEF Ats
  <2>5. DuelTypes'  BY <1>1, <1>2, <2>2, <2>3, <2>4, HandlerTypes DEF TypeOK
  <2>6. Places'
    BY <1>1, <1>2, <1>3, <2>1, <2>3, <2>4, SidesFacts
    DEF Places, Took
  <2>7. Awaited'
    BY <1>1, <1>2, <1>3, <2>1, <2>3, <2>4, SidesFacts
    DEF Awaited, HostDue, GuestDue, Turns, HostsTurn, GuestsTurn, Places, Over, Took
  <2>8. Turns'
    BY <1>1, <1>2, <1>3, <2>3, <2>4, SidesFacts
    DEF Turns, HostsTurn, GuestsTurn, Awaited, GuestDue, Places, Over, Took
  <2>9. RoundsFit'
    BY <1>1, <1>2, <2>4
    DEF RoundsFit, Over
  <2>10. Chosen'
    BY <1>1, <1>3, <2>4
    DEF Chosen
  <2>11. Peeks'
    BY <1>1, <1>2, <2>1, <2>3
    DEF Peeks, Took
  <2>12. Judged'
    BY <1>1, <1>2, <2>4
    DEF Judged, Over
  <2>13. Told'
    BY <1>1, <1>2, <2>3, <2>4
    DEF Told, Took
  <2>14. OneOutcome'
    BY <1>1, <1>2, <2>4
    DEF OneOutcome
  <2>20. QED  BY <2>5, <2>6, <2>7, <2>8, <2>9, <2>10, <2>11, <2>12, <2>13, <2>14 DEF DuelInv, DuelFacts
<1>4. CASE /\ mode # "simultaneous_round" /\ UNCHANGED chosen
           /\ UNCHANGED wire /\ Ends("guest", FALSE, None)
  <2>1. UNCHANGED chosen  BY <1>4
  <2>2. /\ Took("guest") /\ ChannelTypes'
        /\ Coming("host")' = Coming("host") /\ InOrder("host")' = InOrder("host")
    BY <1>1, <1>2, <1>4, GuestReads
  <2>3. /\ at' \in [Sides -> Ats] /\ at'["guest"] = "done" /\ at'["host"] = at["host"]
        /\ result' \in [Sides -> Results] /\ ~result'["guest"].completed /\ result'["host"] = result["host"]
    BY <1>1, <1>4, SidesFacts, EndsHere
  <2>4. DuelTypes'  BY <1>1, <1>2, <2>1, <2>2, <2>3, HandlerTypes DEF TypeOK
  <2>6. Places'
    BY <1>1, <1>2, <2>2, <2>3, SidesFacts
    DEF Places, Ended, Took
  <2>7. Awaited'
    BY <1>1, <1>2, <2>2, <2>3
    DEF Awaited, HostDue, Over
  <2>8. Turns'
    BY <2>3
    DEF Turns, Over
  <2>9. RoundsFit'
    BY <1>1, <1>2, <2>3
    DEF RoundsFit, Over
  <2>10. Chosen'
    BY <1>1, <1>4, <2>3
    DEF Chosen
  <2>11. Peeks'
    BY <1>1, <1>2, <2>2
    DEF Peeks, Took
  <2>12. Judged'
    BY <1>1, <1>2, <2>3
    DEF Judged, Over
  <2>13. Told'
    BY <1>1, <1>2, <2>2, <2>3
    DEF Told, Took
  <2>14. OneOutcome'
    BY <1>1, <1>2, <2>3
    DEF OneOutcome
  <2>20. QED  BY <2>4, <2>6, <2>7, <2>8, <2>9, <2>10, <2>11, <2>12, <2>13, <2>14 DEF DuelInv, DuelFacts
<1>5. CASE mode = "simultaneous_round"
  <2>1. PICK v \in Values : chosen' = [chosen EXCEPT !["guest"] = v]  BY <1>5 DEF GuestReady
  <2>2. UNCHANGED wire /\ GoesOn("guest", "commit")  BY <1>5 DEF GuestReady
  <2>3. /\ Took("guest") /\ ChannelTypes'
        /\ Coming("host")' = Coming("host") /\ InOrder("host")' = InOrder("host")
    BY <1>1, <1>2, <2>2, GuestReads
  <2>4. /\ at' \in [Sides -> Ats] /\ at'["guest"] = "commit" /\ at'["host"] = at["host"]
        /\ result' \in [Sides -> Results] /\ result' = result
    BY <1>1, <2>2, SidesFacts, GoesOnHere DEF Ats
  <2>5. /\ chosen' \in [Sides -> Values \union {None}]
        /\ chosen'["guest"] \in Values /\ chosen'["host"] = chosen["host"]
    BY <1>1, <2>1, SidesFacts DEF TypeOK
  <2>6. DuelTypes'  BY <1>1, <1>2, <2>3, <2>4, <2>5, HandlerTypes DEF TypeOK
  <2>7. Places'
    BY <1>1, <1>2, <1>5, <2>4, SidesFacts
    DEF Places
  <2>8. Awaited'
    BY <1>1, <1>2, <2>3, <2>4
    DEF Awaited, HostDue, GuestDue, Early, Over, Took
  <2>9. Turns'
    BY <1>1, <1>2, <1>5, <2>3, <2>4, SidesFacts
    DEF Turns, HostsTurn, GuestsTurn, Places, Over, Took
  <2>10. RoundsFit'
    BY <1>1, <1>2, <2>4
    DEF RoundsFit, Over
  <2>11. Chosen'
    BY <1>1, <2>4, <2>5
    DEF Chosen
  <2>12. Peeks'
    BY <1>1, <1>2, <2>3
    DEF Peeks, Took
  <2>13. Judged'
    BY <1>1, <1>2, <2>4
    DEF Judged, Over
  <2>14. Told'
    BY <1>1, <1>2, <1>5, <2>3, <2>4
    DEF Told, Awaited, GuestDue, Over, Took
  <2>15. OneOutcome'
    BY <1>1, <1>2, <2>4
    DEF OneOutcome
  <2>20. QED  BY <2>6, <2>7, <2>8, <2>9, <2>10, <2>11, <2>12, <2>13, <2>14, <2>15 DEF DuelInv, DuelFacts
<1>6. QED  BY <1>3, <1>4, <1>5 DEF GuestReady

-----------------------------------------------------------------------------
\* The session loop: the hooks take turns as they like; only the host's
\* judgement counts.
LEMMA HostHandlesKeeps ==
    ASSUME DuelInv, HostHandles
    PROVE  DuelInv'
<1> USE DuelAssumption
<1>1. /\ DuelTypes /\ TypeOK
      /\ Places /\ Awaited /\ Turns /\ RoundsFit /\ Chosen /\ Peeks /\ Judged /\ Told /\ OneOutcome
  BY DEF DuelInv, DuelFacts, DuelTypes
<1> DEFINE m == Received("host")
<1>2. /\ at["host"] = "message" /\ mode = "session_loop" /\ Receives("host", "message")
      /\ UNCHANGED <<mode, open, reader, pings, round, chosen, held, last, session>>
  BY DEF HostHandles, Receives
<1>3. m \in DuelMessage  BY <1>1, <1>2, SidesFacts, ReceivedTyped
<1> HIDE DEF m
<1>4. m.round \in Nat  BY <1>3 DEF DuelMessage
<1>5. /\ Took("host") /\ ChannelTypes'
      /\ at' \in [Sides -> Ats] /\ at'["guest"] = at["guest"]
      /\ result' \in [Sides -> Results] /\ result'["guest"] = result["guest"]
      /\ \/ /\ at'["host"] = "message" /\ result' = result /\ judged' = judged
            /\ \A n \in Coming("guest")' : n \in Coming("guest") \/ n.kind \in {"move", "error"}
         \/ /\ at'["host"] = "done" /\ result'["host"].outcome = None /\ judged' = judged
            /\ \A n \in Coming("guest")' : n \in Coming("guest") \/ n.kind \in {"move", "error"}
         \/ /\ at'["host"] = "done" /\ judged' \in Winners \union {None}
            /\ result'["host"].completed /\ result'["host"].outcome = judged'
            /\ \A n \in Coming("guest")' : n \in Coming("guest") \/ (n.kind = "final" /\ n.value = judged')
  <2>1. CASE Sends("host", <<Msg("move", m.round + 1, None)>>) /\ GoesOn("host", "message") /\ UNCHANGED judged
    <3> DEFINE x == Msg("move", m.round + 1, None)
    <3>1. x \in DuelMessage /\ x.kind = "move"  BY <1>4 DEF Msg, DuelMessage, Kinds
    <3> HIDE DEF x
    <3>2. Sends("host", <<x>>)  BY <2>1 DEF x
    <3>3. /\ Took("host") /\ ChannelTypes'
          /\ Coming("guest")' = Coming("guest") \/ Coming("guest")' = Coming("guest") \union {x}
      BY <1>1, <1>2, <3>1, <3>2, HostAnswers
    <3>4. /\ at' \in [Sides -> Ats] /\ at'["host"] = "message" /\ at'["guest"] = at["guest"]
          /\ result' \in [Sides -> Results] /\ result' = result
      BY <1>1, <2>1, SidesFacts, GoesOnHere DEF Ats
    <3>5. QED  BY <2>1, <3>1, <3>3, <3>4
  <2>2. CASE \E w \in Winners \union {None} :
                Sends("host", <<Msg("final", m.round, w)>>) /\ Ends("host", TRUE, w) /\ judged' = w
    <3>1. PICK w \in Winners \union {None} :
                Sends("host", <<Msg("final", m.round, w)>>) /\ Ends("host", TRUE, w) /\ judged' = w
      BY <2>2
    <3> DEFINE x == Msg("final", m.round, w)
    <3>2. x \in DuelMessage /\ x.kind = "final" /\ x.value = w  BY <1>4 DEF Msg, DuelMessage, Kinds
    <3> HIDE DEF x
    <3>3. Sends("host", <<x>>)  BY <3>1 DEF x
    <3>4. /\ Took("host") /\ ChannelTypes'
          /\ Coming("guest")' = Coming("guest") \/ Coming("guest")' = Coming("guest") \union {x}
      BY <1>1, <1>2, <3>2, <3>3, HostAnswers
    <3>5. /\ at' \in [Sides -> Ats] /\ at'["host"] = "done" /\ at'["guest"] = at["guest"]
          /\ result' \in [Sides -> Results] /\ result'["guest"] = result["guest"]
          /\ result'["host"].completed /\ result'["host"].outcome = w
      BY <1>1, <3>1, SidesFacts, EndsHere
    <3>6. QED  BY <3>1, <3>2, <3>4, <3>5
  <2>3. CASE (\E c \in BOOLEAN : Ends("host", c, None)) /\ UNCHANGED <<wire, judged>>
    <3>1. PICK c \in BOOLEAN : Ends("host", c, None)  BY <2>3
    <3>2. /\ Took("host") /\ ChannelTypes' /\ Coming("guest")' = Coming("guest")
      BY <1>1, <1>2, <2>3, HostReads
    <3>3. /\ at' \in [Sides -> Ats] /\ at'["host"] = "done" /\ at'["guest"] = at["guest"]
          /\ result' \in [Sides -> Results] /\ result'["guest"] = result["guest"]
          /\ result'["host"].outcome = None
      BY <1>1, <3>1, SidesFacts, EndsHere
    <3>4. QED  BY <2>3, <3>2, <3>3
  <2>4. CASE Sends("host", <<Msg("error", m.round, None)>>) /\ Ends("host", FALSE, None) /\ UNCHANGED judged
    <3> DEFINE x == Msg("error", m.round, None)
    <3>1. x \in DuelMessage /\ x.kind = "error"  BY <1>4 DEF Msg, DuelMessage, Kinds
    <3> HIDE DEF x
    <3>2. Sends("host", <<x>>)  BY <2>4 DEF x
    <3>3. /\ Took("host") /\ ChannelTypes'
          /\ Coming("guest")' = Coming("guest") \/ Coming("guest")' = Coming("guest") \union {x}
      BY <1>1, <1>2, <3>1, <3>2, HostAnswers
    <3>4. /\ at' \in [Sides -> Ats] /\ at'["host"] = "done" /\ at'["guest"] = at["guest"]
          /\ result' \in [Sides -> Results] /\ result'["guest"] = result["guest"]
          /\ result'["host"].outcome = None
      BY <1>1, <2>4, SidesFacts, EndsHere
    <3>5. QED  BY <2>4, <3>1, <3>3, <3>4
  <2>5. QED  BY <2>1, <2>2, <2>3, <2>4 DEF HostHandles, m
<1>6. judged' \in Winners \union {None}  BY <1>1, <1>5 DEF TypeOK
<1>7. DuelTypes'  BY <1>1, <1>2, <1>5, <1>6, HandlerTypes DEF TypeOK
<1>21. judged = None /\ ~result["host"].completed  BY <1>1, <1>2 DEF Judged, Over
<1>8. Places'
  BY <1>1, <1>2, <1>5, SidesFacts
  DEF Places, Ended, Took
<1>9. Awaited'
  BY <1>2
  DEF Awaited
<1>10. Turns'
  BY <1>2
  DEF Turns
<1>11. RoundsFit'
  BY <1>1, <1>2, <1>5
  DEF RoundsFit, Over
<1>12. Chosen'
  BY <1>1, <1>2, <1>5
  DEF Chosen
<1>13. Peeks'
  BY <1>1, <1>2, <1>5
  DEF Peeks, Took
<1>14. Judged'
  BY <1>1, <1>2, <1>5
  DEF Judged, Over
<1>15. Told'
  BY <1>1, <1>2, <1>5, <1>21, SidesFacts
  DEF Told, Places
<1>16. OneOutcome'
  BY <1>1, <1>2, <1>5, <1>21
  DEF OneOutcome
<1>20. QED  BY <1>7, <1>8, <1>9, <1>10, <1>11, <1>12, <1>13, <1>14, <1>15, <1>16 DEF DuelInv, DuelFacts

\* The Guest answers a move of the session loop, or hears what the Host decided.
LEMMA GuestHandlesKeeps ==
    ASSUME DuelInv, GuestHandles
    PROVE  DuelInv'
<1> USE DuelAssumption
<1>1. /\ DuelTypes /\ TypeOK
      /\ Places /\ Awaited /\ Turns /\ RoundsFit /\ Chosen /\ Peeks /\ Judged /\ Told /\ OneOutcome
  BY DEF DuelInv, DuelFacts, DuelTypes
<1> DEFINE m == Received("guest")
<1>2. /\ at["guest"] = "message" /\ mode = "session_loop" /\ Receives("guest", "message")
      /\ UNCHANGED <<mode, open, reader, pings, round, chosen, held, last, judged, session>>
  BY DEF GuestHandles, Receives
<1>3. m \in DuelMessage  BY <1>1, <1>2, SidesFacts, ReceivedTyped
<1> HIDE DEF m
<1>4. m.round \in Nat  BY <1>3 DEF DuelMessage
<1>5. /\ Took("guest") /\ ChannelTypes'
      /\ at' \in [Sides -> Ats] /\ at'["host"] = at["host"]
      /\ result' \in [Sides -> Results] /\ result'["host"] = result["host"]
      /\ \A n \in Coming("host")' : n \in Coming("host") \/ n.kind \in {"move", "error"}
      /\ \/ at'["guest"] = "message" /\ result' = result
         \/ at'["guest"] = "done" /\ ~result'["guest"].completed
         \/ at'["guest"] = "done" /\ m.kind = "final" /\ result'["guest"].outcome = m.value
  <2>1. CASE Sends("guest", <<Msg("move", m.round + 1, None)>>) /\ GoesOn("guest", "message")
    <3> DEFINE x == Msg("move", m.round + 1, None)
    <3>1. x \in DuelMessage /\ x.kind = "move"  BY <1>4 DEF Msg, DuelMessage, Kinds
    <3> HIDE DEF x
    <3>2. Sends("guest", <<x>>)  BY <2>1 DEF x
    <3>3. /\ Took("guest") /\ ChannelTypes'
          /\ Coming("host")' = Coming("host") \/ Coming("host")' = Coming("host") \union {x}
      BY <1>1, <1>2, <3>1, <3>2, GuestAnswers
    <3>4. /\ at' \in [Sides -> Ats] /\ at'["guest"] = "message" /\ at'["host"] = at["host"]
          /\ result' \in [Sides -> Results] /\ result' = result
      BY <1>1, <2>1, SidesFacts, GoesOnHere DEF Ats
    <3>5. QED  BY <3>1, <3>3, <3>4
  <2>2. CASE Sends("guest", <<Msg("error", m.round, None)>>) /\ Ends("guest", FALSE, None)
    <3> DEFINE x == Msg("error", m.round, None)
    <3>1. x \in DuelMessage /\ x.kind = "error"  BY <1>4 DEF Msg, DuelMessage, Kinds
    <3> HIDE DEF x
    <3>2. Sends("guest", <<x>>)  BY <2>2 DEF x
    <3>3. /\ Took("guest") /\ ChannelTypes'
          /\ Coming("host")' = Coming("host") \/ Coming("host")' = Coming("host") \union {x}
      BY <1>1, <1>2, <3>1, <3>2, GuestAnswers
    <3>4. /\ at' \in [Sides -> Ats] /\ at'["guest"] = "done" /\ at'["host"] = at["host"]
          /\ result' \in [Sides -> Results] /\ result'["host"] = result["host"]
          /\ ~result'["guest"].completed
      BY <1>1, <2>2, SidesFacts, EndsHere
    <3>5. QED  BY <3>1, <3>3, <3>4
  <2>3. CASE m.kind = "final" /\ UNCHANGED wire /\ Ends("guest", TRUE, m.value)
    <3>1. m.value \in Winners \union {None}  BY <1>3, <2>3 DEF DuelMessage
    <3>2. /\ Took("guest") /\ ChannelTypes' /\ Coming("host")' = Coming("host")
      BY <1>1, <1>2, <2>3, GuestReads
    <3> DEFINE v == m.value
    <3>5. v \in Winners \union {None} /\ Ends("guest", TRUE, v)  BY <2>3, <3>1
    <3> HIDE DEF v
    <3>6. /\ at' \in [Sides -> Ats] /\ at'["guest"] = "done" /\ at'["host"] = at["host"]
          /\ result' \in [Sides -> Results] /\ result'["host"] = result["host"]
          /\ result'["guest"].outcome = v
      BY <1>1, <3>5, SidesFacts, EndsHere
    <3>3. /\ at' \in [Sides -> Ats] /\ at'["guest"] = "done" /\ at'["host"] = at["host"]
          /\ result' \in [Sides -> Results] /\ result'["host"] = result["host"]
          /\ result'["guest"].outcome = m.value
      BY <3>6 DEF v
    <3>4. QED  BY <2>3, <3>2, <3>3
  <2>4. QED  BY <2>1, <2>2, <2>3 DEF GuestHandles, m
<1>7. DuelTypes'  BY <1>1, <1>2, <1>5, HandlerTypes DEF TypeOK
<1>21. m \in Coming("guest")  BY <1>5 DEF Took, m
<1>8. Places'
  BY <1>1, <1>2, <1>5, SidesFacts
  DEF Places, Ended, Took
<1>9. Awaited'
  BY <1>2
  DEF Awaited
<1>10. Turns'
  BY <1>2
  DEF Turns
<1>11. RoundsFit'
  BY <1>1, <1>2, <1>5
  DEF RoundsFit, Over
<1>12. Chosen'
  BY <1>1, <1>2, <1>5
  DEF Chosen
<1>13. Peeks'
  BY <1>1, <1>2, <1>5
  DEF Peeks, Took
<1>14. Judged'
  BY <1>1, <1>2, <1>5
  DEF Judged, Over
<1>15. Told'
  BY <1>1, <1>2, <1>5
  DEF Told, Took
<1>16. OneOutcome'
  BY <1>1, <1>2, <1>5, <1>21
  DEF OneOutcome, Told
<1>20. QED  BY <1>7, <1>8, <1>9, <1>10, <1>11, <1>12, <1>13, <1>14, <1>15, <1>16 DEF DuelInv, DuelFacts

-----------------------------------------------------------------------------
\* One request, one response.
LEMMA HostRespondsKeeps ==
    ASSUME DuelInv, HostResponds
    PROVE  DuelInv'
<1> USE DuelAssumption
<1>1. /\ DuelTypes /\ TypeOK
      /\ Places /\ Awaited /\ Turns /\ RoundsFit /\ Chosen /\ Peeks /\ Judged /\ Told /\ OneOutcome
  BY DEF DuelInv, DuelFacts, DuelTypes
<1> DEFINE m == Received("host")
<1>2. /\ at["host"] = "message" /\ mode = "request_response" /\ Receives("host", "message")
      /\ UNCHANGED <<mode, open, reader, pings, round, chosen, held, last, judged, session>>
  BY DEF HostResponds, Receives
<1>3. m \in DuelMessage  BY <1>1, <1>2, SidesFacts, ReceivedTyped
<1> HIDE DEF m
<1>4. m.round \in Nat  BY <1>3 DEF DuelMessage
<1>5. CASE UNCHANGED wire /\ Ends("host", FALSE, None)
  <2>1. /\ Took("host") /\ ChannelTypes'
        /\ Coming("guest")' = Coming("guest") /\ InOrder("guest")' = InOrder("guest")
    BY <1>1, <1>2, <1>5, HostReads
  <2>2. /\ at' \in [Sides -> Ats] /\ at'["host"] = "done" /\ at'["guest"] = at["guest"]
        /\ result' \in [Sides -> Results] /\ result'["guest"] = result["guest"]
        /\ ~result'["host"].completed
    BY <1>1, <1>5, SidesFacts, EndsHere
  <2>3. DuelTypes'  BY <1>1, <1>2, <2>1, <2>2, HandlerTypes DEF TypeOK
  <2>4. Places'
    BY <1>1, <1>2, <2>1, <2>2, SidesFacts
    DEF Places, Ended, Took
  <2>5. Awaited'
    BY <1>1, <1>2, <2>1, <2>2
    DEF Awaited, GuestDue, Over
  <2>6. Turns'
    BY <2>2
    DEF Turns, Over
  <2>7. RoundsFit'
    BY <1>1, <1>2, <2>1, <2>2
    DEF RoundsFit, Over
  <2>8. Chosen'
    BY <1>1, <1>2, <2>2
    DEF Chosen
  <2>9. Peeks'
    BY <1>1, <1>2, <2>1
    DEF Peeks, Took
  <2>10. Judged'
    BY <1>1, <1>2, <2>2
    DEF Judged
  <2>11. Told'
    BY <1>1, <1>2, <2>1, <2>2
    DEF Told, Judged, Over
  <2>12. OneOutcome'
    BY <1>1, <1>2, <2>2
    DEF OneOutcome, Judged, Over
  <2>20. QED  BY <2>3, <2>4, <2>5, <2>6, <2>7, <2>8, <2>9, <2>10, <2>11, <2>12 DEF DuelInv, DuelFacts
<1>6. CASE Sends("host", <<Msg("response", m.round, None)>>) /\ Ends("host", TRUE, None)
  <2> DEFINE x == Msg("response", m.round, None)
  <2>1. x \in DuelMessage /\ x.kind = "response"  BY <1>4 DEF Msg, DuelMessage, Kinds
  <2> HIDE DEF x
  <2>2. Sends("host", <<x>>)  BY <1>6 DEF x
  <2>3. /\ Took("host") /\ ChannelTypes'
        /\ Coming("guest")' = Coming("guest") \/ Coming("guest")' = Coming("guest") \union {x}
        /\ Coming("guest") = {} /\ InOrder("guest") => InOrder("guest")'
    BY <1>1, <1>2, <2>1, <2>2, HostAnswers
  <2>4. /\ at' \in [Sides -> Ats] /\ at'["host"] = "done" /\ at'["guest"] = at["guest"]
        /\ result' \in [Sides -> Results] /\ result'["guest"] = result["guest"]
        /\ result'["host"].completed /\ result'["host"].outcome = None
    BY <1>1, <1>6, SidesFacts, EndsHere
  <2>5. DuelTypes'  BY <1>1, <1>2, <2>3, <2>4, HandlerTypes DEF TypeOK
  <2>6. Places'
    BY <1>1, <1>2, <2>1, <2>3, <2>4, SidesFacts
    DEF Places, Ended, Took
  <2>7. Awaited'
    BY <1>1, <1>2, <2>1, <2>3, <2>4
    DEF Awaited, GuestDue, Turns, HostsTurn, GuestsTurn, Over, Took
  <2>8. Turns'
    BY <2>4
    DEF Turns, Over
  <2>9. RoundsFit'
    BY <1>1, <1>2, <2>1, <2>3, <2>4
    DEF RoundsFit, Over
  <2>10. Chosen'
    BY <1>1, <1>2, <2>4
    DEF Chosen
  <2>11. Peeks'
    BY <1>1, <1>2, <2>1, <2>3
    DEF Peeks, Took
  <2>12. Judged'
    BY <1>1, <1>2, <2>4
    DEF Judged, Over
  <2>13. Told'
    BY <1>1, <1>2, <2>1, <2>3, <2>4, SidesFacts
    DEF Told, Places
  <2>14. OneOutcome'
    BY <1>1, <1>2, <2>4
    DEF OneOutcome
  <2>20. QED  BY <2>5, <2>6, <2>7, <2>8, <2>9, <2>10, <2>11, <2>12, <2>13, <2>14 DEF DuelInv, DuelFacts
<1>7. QED  BY <1>5, <1>6 DEF HostResponds, m

\* The Guest completes with the response to its request.
LEMMA GuestRespondedKeeps ==
    ASSUME DuelInv, GuestResponded
    PROVE  DuelInv'
<1> USE DuelAssumption
<1>1. /\ DuelTypes /\ TypeOK
      /\ Places /\ Awaited /\ Turns /\ RoundsFit /\ Chosen /\ Peeks /\ Judged /\ Told /\ OneOutcome
  BY DEF DuelInv, DuelFacts, DuelTypes
<1>2. /\ at["guest"] = "message" /\ mode = "request_response" /\ Receives("guest", "message")
      /\ UNCHANGED <<mode, open, reader, pings, round, chosen, held, last, judged, session>>
      /\ UNCHANGED wire /\ Ends("guest", TRUE, None)
  BY DEF GuestResponded, Receives
<1>3. /\ Took("guest") /\ ChannelTypes'
      /\ Coming("host")' = Coming("host") /\ InOrder("host")' = InOrder("host")
  BY <1>1, <1>2, GuestReads
<1>4. /\ at' \in [Sides -> Ats] /\ at'["guest"] = "done" /\ at'["host"] = at["host"]
      /\ result' \in [Sides -> Results] /\ result'["host"] = result["host"]
      /\ result'["guest"].outcome = None
  BY <1>1, <1>2, SidesFacts, EndsHere
<1>5. Received("guest").kind = "response"  BY <1>1, <1>2, <1>3 DEF Took, Awaited, GuestDue, Over
<1>6. result["host"].completed  BY <1>1, <1>3, <1>5 DEF Took, Told
<1>7. DuelTypes'  BY <1>1, <1>2, <1>3, <1>4, HandlerTypes DEF TypeOK
<1>8. Places'
  BY <1>1, <1>2, <1>3, <1>4, SidesFacts
  DEF Places, Ended, Took
<1>9. Awaited'
  BY <1>1, <1>2, <1>3, <1>4
  DEF Awaited, HostDue, Over
<1>10. Turns'
  BY <1>4
  DEF Turns, Over
<1>11. RoundsFit'
  BY <1>1, <1>2, <1>4
  DEF RoundsFit, Over
<1>12. Chosen'
  BY <1>1, <1>2, <1>4
  DEF Chosen
<1>13. Peeks'
  BY <1>1, <1>2, <1>3
  DEF Peeks, Took
<1>14. Judged'
  BY <1>1, <1>2, <1>4
  DEF Judged, Over
<1>15. Told'
  BY <1>1, <1>2, <1>3, <1>4
  DEF Told, Took
<1>16. OneOutcome'
  BY <1>1, <1>2, <1>4, <1>6
  DEF OneOutcome, Judged
<1>20. QED  BY <1>7, <1>8, <1>9, <1>10, <1>11, <1>12, <1>13, <1>14, <1>15, <1>16 DEF DuelInv, DuelFacts

-----------------------------------------------------------------------------
\* A simultaneous round.
LEMMA HostCommittedKeeps ==
    ASSUME DuelInv, HostCommitted
    PROVE  DuelInv'
<1> USE DuelAssumption
<1>1. /\ DuelTypes /\ TypeOK
      /\ Places /\ Awaited /\ Turns /\ RoundsFit /\ Chosen /\ Peeks /\ Judged /\ Told /\ OneOutcome
  BY DEF DuelInv, DuelFacts, DuelTypes
<1> DEFINE m == Received("host")  x == Msg("reveal", round["host"], chosen["host"])
<1>2. /\ at["host"] = "commit" /\ Receives("host", "commit") /\ held' = [held EXCEPT !["host"] = m.value]
      /\ UNCHANGED <<mode, open, reader, pings, round, chosen, last, judged, session>>
      /\ Sends("host", <<x>>) /\ GoesOn("host", "reveal")
  BY DEF HostCommitted, Receives
<1>3. mode = "simultaneous_round" /\ chosen["host"] \in Values  BY <1>1, <1>2, SidesFacts DEF Places, Chosen
<1>4. /\ x \in DuelMessage /\ x.kind = "reveal" /\ x.round = round["host"]
      /\ round["host"] \in Nat /\ round["guest"] \in Nat
  <2>1. round["host"] \in Nat /\ round["guest"] \in Nat  BY <1>1, SidesFacts DEF TypeOK
  <2>2. QED  BY <1>3, <2>1 DEF Msg, DuelMessage, Kinds
<1> HIDE DEF x
<1>5. /\ Took("host") /\ ChannelTypes'
      /\ Coming("guest")' = Coming("guest") \/ Coming("guest")' = Coming("guest") \union {x}
      /\ Coming("guest") = {} /\ InOrder("guest") => InOrder("guest")'
  BY <1>1, <1>2, <1>4, HostAnswers
<1> HIDE DEF m
<1>6. m \in DuelMessage /\ m.kind = "commit" /\ Coming("host")' = {}
  BY <1>1, <1>2, <1>3, <1>5 DEF Took, Awaited, HostDue, Over, Early, m
<1>7. /\ held' \in [Sides -> Values \union {None}]
      /\ held'["host"] # None /\ held'["guest"] = held["guest"]
  <2>1. m.value \in Values  BY <1>6 DEF DuelMessage
  <2>2. QED  BY <1>1, <1>2, <2>1, SidesFacts DEF TypeOK
<1>8. /\ at' \in [Sides -> Ats] /\ at'["host"] = "reveal" /\ at'["guest"] = at["guest"]
      /\ result' \in [Sides -> Results] /\ result' = result
  BY <1>1, <1>2, SidesFacts, GoesOnHere DEF Ats
<1>9. DuelTypes'  BY <1>1, <1>2, <1>5, <1>7, <1>8, HandlerTypes DEF TypeOK
<1>10. Places'
  BY <1>1, <1>2, <1>8, SidesFacts
  DEF Places
<1>11. Awaited'
  BY <1>1, <1>2, <1>4, <1>5, <1>6, <1>8
  DEF Awaited, GuestDue, Turns, HostsTurn, GuestsTurn, Over, Took
<1>12. Turns'
  BY <1>1, <1>2, <1>5, <1>6, <1>8
  DEF Turns, HostsTurn, GuestsTurn, Over, Took
<1>13. RoundsFit'
  BY <1>1, <1>2, <1>4, <1>8
  DEF RoundsFit, Over
<1>14. Chosen'
  BY <1>1, <1>2, <1>8
  DEF Chosen
<1>15. Peeks'
  BY <1>1, <1>2, <1>4, <1>5, <1>6, <1>7
  DEF Peeks
<1>16. Judged'
  BY <1>1, <1>2, <1>8
  DEF Judged, Over
<1>17. Told'
  BY <1>1, <1>2, <1>3, <1>4, <1>5, <1>8
  DEF Told, Turns, HostsTurn, GuestsTurn, Over, Took
<1>18. OneOutcome'
  BY <1>1, <1>2, <1>8
  DEF OneOutcome
<1>20. QED  BY <1>9, <1>10, <1>11, <1>12, <1>13, <1>14, <1>15, <1>16, <1>17, <1>18 DEF DuelInv, DuelFacts

\* The Guest answers the commitment of the Host with its own, or hears the end, and
\* its outcome is the result of the last round.
LEMMA GuestCommitsKeeps ==
    ASSUME DuelInv, GuestCommits
    PROVE  DuelInv'
<1> USE DuelAssumption
<1>1. /\ DuelTypes /\ TypeOK
      /\ Places /\ Awaited /\ Turns /\ RoundsFit /\ Chosen /\ Peeks /\ Judged /\ Told /\ OneOutcome
  BY DEF DuelInv, DuelFacts, DuelTypes
<1> DEFINE m == Received("guest")
<1>2. /\ at["guest"] = "commit" /\ Receives("guest", "commit")
      /\ UNCHANGED <<mode, open, reader, pings, round, chosen, last, judged, session>>
  BY DEF GuestCommits, Receives
<1>3. mode = "simultaneous_round" /\ chosen["guest"] \in Values  BY <1>1, <1>2, SidesFacts DEF Places, Chosen
<1>4. round["host"] \in Nat /\ round["guest"] \in Nat  BY <1>1, SidesFacts DEF TypeOK
<1> HIDE DEF m
<1>5. CASE m.kind = "end" /\ Ends("guest", TRUE, last) /\ UNCHANGED <<wire, held>>
  <2>1. /\ Took("guest") /\ ChannelTypes'
        /\ Coming("host")' = Coming("host") /\ InOrder("host")' = InOrder("host")
    BY <1>1, <1>2, <1>5, GuestReads
  <2>2. /\ at' \in [Sides -> Ats] /\ at'["guest"] = "done" /\ at'["host"] = at["host"]
        /\ result' \in [Sides -> Results] /\ result'["host"] = result["host"]
        /\ result'["guest"].outcome = last
    <3>1. last \in Winners \union {None}  BY <1>1 DEF TypeOK
    <3>2. Ends("guest", TRUE, last)  BY <1>5
    <3>3. QED  BY <1>1, <3>1, <3>2, SidesFacts, EndsHere
  <2>3. result["host"].completed /\ last = judged  BY <1>1, <1>2, <1>5, <2>1 DEF Took, Told, m
  <2>4. DuelTypes'  BY <1>1, <1>2, <1>5, <2>1, <2>2, HandlerTypes DEF TypeOK
  <2>5. Places'
    BY <1>1, <1>2, <2>2, SidesFacts
    DEF Places, Ended
  <2>6. Awaited'
    BY <1>1, <1>2, <2>1, <2>2
    DEF Awaited, HostDue, Over
  <2>7. Turns'
    BY <1>1, <2>2
    DEF Turns, Over
  <2>8. RoundsFit'
    BY <1>1, <1>2, <2>2
    DEF RoundsFit, Over
  <2>9. Chosen'
    BY <1>1, <1>2, <2>2
    DEF Chosen
  <2>10. Peeks'
    BY <1>1, <1>2, <1>5, <2>1
    DEF Peeks, Took
  <2>11. Judged'
    BY <1>1, <1>2, <2>2
    DEF Judged, Over
  <2>12. Told'
    BY <1>1, <1>2, <2>1, <2>2
    DEF Told, Took
  <2>13. OneOutcome'
    BY <1>1, <1>2, <2>2, <2>3
    DEF OneOutcome
  <2>20. QED  BY <2>4, <2>5, <2>6, <2>7, <2>8, <2>9, <2>10, <2>11, <2>12, <2>13 DEF DuelInv, DuelFacts
<1>6. CASE /\ m.kind # "end" /\ held' = [held EXCEPT !["guest"] = m.value]
           /\ Sends("guest", <<Msg("commit", round["guest"], chosen["guest"])>>)
           /\ GoesOn("guest", "reveal")
  <2> DEFINE x == Msg("commit", round["guest"], chosen["guest"])
  <2>1. x \in DuelMessage /\ x.kind = "commit"  BY <1>3, <1>4 DEF Msg, DuelMessage, Kinds
  <2> HIDE DEF x
  <2>2. Sends("guest", <<x>>)  BY <1>6 DEF x
  <2>3. /\ Took("guest") /\ ChannelTypes'
        /\ Coming("host")' = Coming("host") \/ Coming("host")' = Coming("host") \union {x}
        /\ Coming("host") = {} /\ InOrder("host") => InOrder("host")'
    BY <1>1, <1>2, <2>1, <2>2, GuestAnswers
  <2>4. m \in DuelMessage /\ m.kind = "commit" /\ m \in Coming("guest") /\ Coming("guest")' = {}
    BY <1>1, <1>2, <1>3, <1>6, <2>3 DEF Took, Awaited, GuestDue, Over, Early, m
  <2>5. /\ held' \in [Sides -> Values \union {None}]
        /\ held'["guest"] \in Values /\ held'["host"] = held["host"]
    <3>1. m.value \in Values  BY <2>4 DEF DuelMessage
    <3>2. QED  BY <1>1, <1>6, <3>1, SidesFacts DEF TypeOK
  <2>6. /\ at' \in [Sides -> Ats] /\ at'["guest"] = "reveal" /\ at'["host"] = at["host"]
        /\ result' \in [Sides -> Results] /\ result' = result
    BY <1>1, <1>6, SidesFacts, GoesOnHere DEF Ats
  <2>7. DuelTypes'  BY <1>1, <1>2, <2>3, <2>5, <2>6, HandlerTypes DEF TypeOK
  <2>8. Places'
    BY <1>1, <1>2, <1>3, <2>6, SidesFacts
    DEF Places
  <2>9. Awaited'
    BY <1>1, <1>2, <1>3, <2>1, <2>3, <2>4, <2>6
    DEF Awaited, HostDue, Turns, HostsTurn, GuestsTurn, Over, Took
  <2>10. Turns'
    BY <1>1, <1>2, <1>3, <2>4, <2>6
    DEF Turns, HostsTurn, GuestsTurn, Over
  <2>11. RoundsFit'
    BY <1>1, <1>2, <1>3, <2>4, <2>6
    DEF RoundsFit, Over
  <2>12. Chosen'
    BY <1>1, <1>2, <1>3, <2>5, <2>6
    DEF Chosen
  <2>13. Peeks'
    BY <1>1, <1>2, <1>3, <2>1, <2>3, <2>4, <2>5
    DEF Peeks
  <2>14. Judged'
    BY <1>1, <1>2, <1>3, <2>6
    DEF Judged, Over
  <2>15. Told'
    BY <1>1, <1>2, <1>3, <2>4
    DEF Told
  <2>16. OneOutcome'
    BY <1>1, <1>2, <1>3, <2>6
    DEF OneOutcome
  <2>20. QED  BY <2>7, <2>8, <2>9, <2>10, <2>11, <2>12, <2>13, <2>14, <2>15, <2>16 DEF DuelInv, DuelFacts
<1>7. QED  BY <1>5, <1>6 DEF GuestCommits, m

\* The Guest sees the Host's choice once it holds the commitment to it, and reveals
\* its own: here no side may have looked early.
LEMMA GuestRevealedKeeps ==
    ASSUME DuelInv, GuestRevealed
    PROVE  DuelInv'
<1> USE DuelAssumption
<1>1. /\ DuelTypes /\ TypeOK
      /\ Places /\ Awaited /\ Turns /\ RoundsFit /\ Chosen /\ Peeks /\ Judged /\ Told /\ OneOutcome
  BY DEF DuelInv, DuelFacts, DuelTypes
<1>2. /\ at["guest"] = "reveal" /\ Receives("guest", "reveal")
      /\ UNCHANGED <<mode, open, reader, pings, round, chosen, held, last, judged, session>>
  BY DEF GuestRevealed, Receives
<1>3. /\ mode = "simultaneous_round" /\ chosen["guest"] \in Values
      /\ held["guest"] # None
  BY <1>1, <1>2, SidesFacts DEF Places, Chosen
<1>4. round["host"] \in Nat /\ round["guest"] \in Nat  BY <1>1, SidesFacts DEF TypeOK
<1>5. CASE UNCHANGED wire /\ Ends("guest", FALSE, None)
  <2>1. /\ Took("guest") /\ ChannelTypes'
        /\ Coming("host")' = Coming("host") /\ InOrder("host")' = InOrder("host")
    BY <1>1, <1>2, <1>5, GuestReads
  <2>2. /\ at' \in [Sides -> Ats] /\ at'["guest"] = "done" /\ at'["host"] = at["host"]
        /\ result' \in [Sides -> Results] /\ result'["host"] = result["host"]
        /\ ~result'["guest"].completed
    BY <1>1, <1>5, SidesFacts, EndsHere
  <2>4. DuelTypes'  BY <1>1, <1>2, <2>1, <2>2, HandlerTypes DEF TypeOK
  <2>5. Places'
    BY <1>1, <1>2, <2>2, SidesFacts
    DEF Places, Ended
  <2>6. Awaited'
    BY <1>1, <1>2, <2>1, <2>2
    DEF Awaited, HostDue, Over
  <2>7. Turns'
    BY <2>2
    DEF Turns, Over
  <2>8. RoundsFit'
    BY <1>1, <1>2, <2>2
    DEF RoundsFit, Over
  <2>9. Chosen'
    BY <1>1, <1>2, <2>2
    DEF Chosen
  <2>10. Peeks'
    BY <1>1, <1>2, <2>1
    DEF Peeks, Took
  <2>11. Judged'
    BY <1>1, <1>2, <2>2
    DEF Judged, Over
  <2>12. Told'
    BY <1>1, <1>2, <2>1, <2>2
    DEF Told, Took
  <2>13. OneOutcome'
    BY <1>1, <1>2, <2>2
    DEF OneOutcome
  <2>20. QED  BY <2>4, <2>5, <2>6, <2>7, <2>8, <2>9, <2>10, <2>11, <2>12, <2>13 DEF DuelInv, DuelFacts
<1>6. CASE /\ Sends("guest", <<Msg("reveal", round["guest"], chosen["guest"])>>)
           /\ GoesOn("guest", "result")
  <2> DEFINE x == Msg("reveal", round["guest"], chosen["guest"])
  <2>1. x \in DuelMessage /\ x.kind = "reveal" /\ x.round = round["guest"]
    BY <1>3, <1>4 DEF Msg, DuelMessage, Kinds
  <2> HIDE DEF x
  <2>2. Sends("guest", <<x>>)  BY <1>6 DEF x
  <2>3. /\ Took("guest") /\ ChannelTypes'
        /\ Coming("host")' = Coming("host") \/ Coming("host")' = Coming("host") \union {x}
        /\ Coming("host") = {} /\ InOrder("host") => InOrder("host")'
    BY <1>1, <1>2, <2>1, <2>2, GuestAnswers
  <2>4. Coming("guest")' = {}
    BY <1>1, <1>2, <1>3, <2>3 DEF Took, Awaited, GuestDue, Over, Early
  <2>6. /\ at' \in [Sides -> Ats] /\ at'["guest"] = "result" /\ at'["host"] = at["host"]
        /\ result' \in [Sides -> Results] /\ result' = result
    BY <1>1, <1>6, SidesFacts, GoesOnHere DEF Ats
  <2>7. DuelTypes'  BY <1>1, <1>2, <2>3, <2>6, HandlerTypes DEF TypeOK
  <2>8. Places'
    BY <1>1, <1>2, <2>6, SidesFacts
    DEF Places
  <2>9. Awaited'
    BY <1>1, <1>2, <2>1, <2>3, <2>4, <2>6
    DEF Awaited, HostDue, Turns, HostsTurn, GuestsTurn, Over, Took
  <2>10. Turns'
    BY <1>1, <1>2, <2>3, <2>4, <2>6
    DEF Turns, HostsTurn, GuestsTurn, Over, Took
  <2>11. RoundsFit'
    BY <1>1, <1>2, <1>3, <2>3, <2>4, <2>6
    DEF RoundsFit, Turns, HostsTurn, GuestsTurn, Over, Took
  <2>12. Chosen'
    BY <1>1, <1>2, <2>6
    DEF Chosen
  <2>13. Peeks'
    BY <1>1, <1>2, <1>3, <1>4, <2>1, <2>3, <2>4
    DEF Peeks
  <2>14. Judged'
    BY <1>1, <1>2, <2>6
    DEF Judged, Over
  <2>15. Told'
    BY <1>1, <1>2, <2>4
    DEF Told
  <2>16. OneOutcome'
    BY <1>1, <1>2, <2>6
    DEF OneOutcome
  <2>20. QED  BY <2>7, <2>8, <2>9, <2>10, <2>11, <2>12, <2>13, <2>14, <2>15, <2>16 DEF DuelInv, DuelFacts
<1>7. QED  BY <1>5, <1>6 DEF GuestRevealed

\* The Host judges the round from the two choices, which both sides know now, and
\* tells the Guest its result with the next commitment or the end of the game.
LEMMA HostRevealedKeeps ==
    ASSUME DuelInv, HostRevealed
    PROVE  DuelInv'
<1> USE DuelAssumption
<1>1. /\ DuelTypes /\ TypeOK
      /\ Places /\ Awaited /\ Turns /\ RoundsFit /\ Chosen /\ Peeks /\ Judged /\ Told /\ OneOutcome
  BY DEF DuelInv, DuelFacts, DuelTypes
<1> DEFINE m == Received("host")
<1>2. /\ at["host"] = "reveal" /\ Receives("host", "reveal")
      /\ UNCHANGED <<mode, open, reader, pings, last, session>>
  BY DEF HostRevealed, Receives
<1>3. mode = "simultaneous_round"  BY <1>1, <1>2, SidesFacts DEF Places
<1>4. round["host"] \in Nat /\ round["guest"] \in Nat  BY <1>1, SidesFacts DEF TypeOK
<1> HIDE DEF m
<1>5. CASE /\ Sends("host", <<Msg("error", round["host"], None)>>) /\ Ends("host", FALSE, None)
           /\ UNCHANGED <<round, chosen, held, last, judged>>
  <2> DEFINE x == Msg("error", round["host"], None)
  <2>1. x \in DuelMessage /\ x.kind = "error"  BY <1>4 DEF Msg, DuelMessage, Kinds
  <2> HIDE DEF x
  <2>2. Sends("host", <<x>>)  BY <1>5 DEF x
  <2>3. /\ Took("host") /\ ChannelTypes'
        /\ Coming("guest")' = Coming("guest") \/ Coming("guest")' = Coming("guest") \union {x}
        /\ Coming("guest") = {} /\ InOrder("guest") => InOrder("guest")'
    BY <1>1, <1>2, <2>1, <2>2, HostAnswers
  <2>4. /\ at' \in [Sides -> Ats] /\ at'["host"] = "done" /\ at'["guest"] = at["guest"]
        /\ result' \in [Sides -> Results] /\ result'["guest"] = result["guest"]
        /\ ~result'["host"].completed
    BY <1>1, <1>5, SidesFacts, EndsHere
  <2>5. DuelTypes'  BY <1>1, <1>2, <1>5, <2>3, <2>4, HandlerTypes DEF TypeOK
  <2>6. judged = None /\ ~result["host"].completed  BY <1>1, <1>2 DEF Judged, Over
  <2>7. Places'
    BY <1>1, <1>2, <2>4, SidesFacts
    DEF Places, Ended
  <2>8. Awaited'
    BY <1>1, <1>2, <2>1, <2>3, <2>4
    DEF Awaited, GuestDue, Turns, HostsTurn, GuestsTurn, Over, Took
  <2>9. Turns'
    BY <1>1, <1>2, <2>4
    DEF Turns, Over
  <2>10. RoundsFit'
    BY <1>1, <1>2, <1>5, <2>1, <2>3, <2>4
    DEF RoundsFit, Over
  <2>11. Chosen'
    BY <1>1, <1>2, <1>5, <2>4
    DEF Chosen
  <2>12. Peeks'
    BY <1>1, <1>2, <1>5, <2>1, <2>3
    DEF Peeks, Took
  <2>13. Judged'
    BY <1>1, <1>2, <1>5, <2>4, <2>6
    DEF Judged
  <2>14. Told'
    BY <1>1, <1>2, <2>1, <2>3, <2>4, <2>6
    DEF Told, Early
  <2>15. OneOutcome'
    BY <1>1, <1>2, <2>4, <2>6
    DEF OneOutcome
  <2>20. QED  BY <2>5, <2>7, <2>8, <2>9, <2>10, <2>11, <2>12, <2>13, <2>14, <2>15 DEF DuelInv, DuelFacts
<1>6. CASE /\ round' = [round EXCEPT !["host"] = @ + 1] /\ held' = [held EXCEPT !["host"] = None]
           /\ round["host"] + 1 < MaxRounds
           /\ \E v \in Values :
                /\ Sends("host", <<Msg("result", round["host"], None), Msg("commit", round["host"] + 1, v)>>)
                /\ chosen' = [chosen EXCEPT !["host"] = v]
           /\ GoesOn("host", "commit") /\ UNCHANGED judged
  <2>1. PICK v \in Values :
            /\ Sends("host", <<Msg("result", round["host"], None), Msg("commit", round["host"] + 1, v)>>)
            /\ chosen' = [chosen EXCEPT !["host"] = v]
    BY <1>6
  <2> DEFINE x == Msg("result", round["host"], None)  y == Msg("commit", round["host"] + 1, v)
  <2>2. /\ x \in DuelMessage /\ x.kind = "result"
        /\ y \in DuelMessage /\ y.kind = "commit"
    BY <1>4 DEF Msg, DuelMessage, Kinds
  <2> HIDE DEF x, y
  <2>3. Sends("host", <<x, y>>)  BY <2>1 DEF x, y
  <2>4. /\ Took("host") /\ ChannelTypes'
        /\ Coming("guest")' = Coming("guest") \/ Coming("guest")' = Coming("guest") \union {x, y}
        /\ Coming("guest") = {} /\ InOrder("guest") /\ x.kind \in Early /\ y.kind \notin Early
             => InOrder("guest")'
    BY <1>1, <1>2, <2>2, <2>3, HostAnswersTwice
  <2>5. /\ at' \in [Sides -> Ats] /\ at'["host"] = "commit" /\ at'["guest"] = at["guest"]
        /\ result' \in [Sides -> Results] /\ result' = result
    BY <1>1, <1>6, SidesFacts, GoesOnHere DEF Ats
  <2>6. /\ chosen' \in [Sides -> Values \union {None}]
        /\ chosen'["host"] \in Values /\ chosen'["guest"] = chosen["guest"]
    BY <1>1, <2>1, SidesFacts DEF TypeOK
  <2>7. /\ round' \in [Sides -> 0..MaxRounds] /\ round'["host"] = round["host"] + 1
        /\ round'["guest"] = round["guest"]
    BY <1>1, <1>4, <1>6, SidesFacts DEF TypeOK
  <2>8. /\ held' \in [Sides -> Values \union {None}] /\ held'["guest"] = held["guest"]
    BY <1>1, <1>6, SidesFacts DEF TypeOK
  <2>9. DuelTypes'  BY <1>1, <1>2, <1>6, <2>4, <2>5, <2>6, <2>7, <2>8, HandlerTypes DEF TypeOK
  <2>10. Coming("host")' = {}
    BY <1>1, <1>2, <1>3, <2>4 DEF Took, Awaited, HostDue, Over, Early
  <2>21. \A n \in Coming("guest")' : n \in Coming("guest") \/ n.kind \in {"result", "commit"}
    BY <2>2, <2>4
  <2>22. ~Over("guest") => \/ at["guest"] = "result" /\ Coming("guest") = {}
                           \/ at["guest"] = "reveal" /\ Coming("host") = {}
    BY <1>1, <1>2, <1>3 DEF Turns, HostsTurn, GuestsTurn, Over
  <2>23. Received("host") \in Coming("host")  BY <2>4 DEF Took
  <2>24. ~Over("guest") => /\ at["guest"] = "result" /\ Coming("guest") = {}
                           /\ Coming("guest")' = {} \/ Coming("guest")' = {x, y}
    BY <2>4, <2>22, <2>23
  <2>11. Places'
    BY <1>1, <1>2, <1>3, <1>4, <1>6, <2>2, <2>4, <2>5, SidesFacts
    DEF Places
  <2>12. Awaited'
    BY <1>1, <1>2, <1>3, <1>4, <1>6, <2>2, <2>4, <2>5, <2>10, <2>24
    DEF Awaited, GuestDue, Early, Over, Took
  <2>13. Turns'
    BY <1>1, <1>2, <1>3, <1>4, <1>6, <2>2, <2>4, <2>5, <2>10, <2>24
    DEF Turns, HostsTurn, GuestsTurn, Over
  <2>14. RoundsFit'
    BY <1>1, <1>2, <1>3, <1>4, <1>6, <2>2, <2>4, <2>5, <2>7
    DEF RoundsFit, Over
  <2>15. Chosen'
    BY <1>1, <1>2, <1>3, <1>4, <1>6, <2>2, <2>4, <2>5
    DEF Chosen
  <2>17. Judged'
    BY <1>1, <1>2, <1>3, <1>4, <1>6, <2>2, <2>4, <2>5
    DEF Judged, Over
  <2>18. Told'
    BY <1>1, <1>2, <1>3, <1>4, <1>6, <2>2, <2>4, <2>5
    DEF Told, Early
  <2>19. OneOutcome'
    BY <1>1, <1>2, <1>3, <1>4, <1>6, <2>2, <2>4, <2>5
    DEF OneOutcome
  <2>16. Peeks'
    <3>1. \A n \in Coming("guest") : n.round \in Nat  BY <1>1, SidesFacts, ComingTyped DEF DuelMessage
    <3>2. ASSUME NEW n \in Coming("guest")', n.kind = "reveal"
          PROVE  n.round <= round'["host"] /\ n.round # round'["host"]
      <4>1. n \in Coming("guest")  BY <2>21, <3>2
      <4>2. n.round \in Nat /\ n.round <= round["host"]  BY <1>1, <3>1, <3>2, <4>1 DEF Peeks
      <4>3. QED  BY <1>4, <2>7, <4>2
    <3>3. QED  BY <1>1, <2>7, <2>8, <2>10, <3>2 DEF Peeks
  <2>20. QED  BY <2>9, <2>11, <2>12, <2>13, <2>14, <2>15, <2>16, <2>17, <2>18, <2>19 DEF DuelInv, DuelFacts
<1>7. CASE /\ round' = [round EXCEPT !["host"] = @ + 1] /\ held' = [held EXCEPT !["host"] = None]
           /\ \E w \in Winners :
                /\ Sends("host", <<Msg("result", round["host"], w), Msg("end", 0, None)>>)
                /\ Ends("host", TRUE, w) /\ judged' = w
                /\ chosen' = [chosen EXCEPT !["host"] = None]
  <2>1. PICK w \in Winners :
            /\ Sends("host", <<Msg("result", round["host"], w), Msg("end", 0, None)>>)
            /\ Ends("host", TRUE, w) /\ judged' = w
            /\ chosen' = [chosen EXCEPT !["host"] = None]
    BY <1>7
  <2> DEFINE x == Msg("result", round["host"], w)  y == Msg("end", 0, None)
  <2>2. /\ x \in DuelMessage /\ x.kind = "result" /\ x.value = w
        /\ y \in DuelMessage /\ y.kind = "end"
    BY <1>4 DEF Msg, DuelMessage, Kinds
  <2> HIDE DEF x, y
  <2>3. Sends("host", <<x, y>>)  BY <2>1 DEF x, y
  <2>4. /\ Took("host") /\ ChannelTypes'
        /\ Coming("guest")' = Coming("guest") \/ Coming("guest")' = Coming("guest") \union {x, y}
        /\ Coming("guest") = {} /\ InOrder("guest") /\ x.kind \in Early /\ y.kind \notin Early
             => InOrder("guest")'
    BY <1>1, <1>2, <2>2, <2>3, HostAnswersTwice
  <2>5. /\ at' \in [Sides -> Ats] /\ at'["host"] = "done" /\ at'["guest"] = at["guest"]
        /\ result' \in [Sides -> Results] /\ result'["guest"] = result["guest"]
        /\ result'["host"].completed /\ result'["host"].outcome = w
    BY <1>1, <2>1, SidesFacts, EndsHere
  <2>6. /\ chosen' \in [Sides -> Values \union {None}] /\ chosen'["guest"] = chosen["guest"]
    BY <1>1, <2>1, SidesFacts DEF TypeOK
  <2>7. /\ round' \in [Sides -> 0..MaxRounds] /\ round'["host"] = round["host"] + 1
        /\ round'["guest"] = round["guest"]
    <3>1. round["host"] < MaxRounds  BY <1>1, <1>2 DEF RoundsFit, Over
    <3>2. QED  BY <1>1, <1>4, <1>7, <3>1, SidesFacts DEF TypeOK
  <2>8. /\ held' \in [Sides -> Values \union {None}] /\ held'["guest"] = held["guest"]
    BY <1>1, <1>7, SidesFacts DEF TypeOK
  <2>9. judged = None /\ ~result["host"].completed  BY <1>1, <1>2 DEF Judged, Over
  <2>10. judged' \in Winners \union {None}  BY <2>1
  <2>11. DuelTypes'  BY <1>1, <1>2, <2>4, <2>5, <2>6, <2>7, <2>8, <2>10, HandlerTypes DEF TypeOK
  <2>23. \A n \in Coming("guest")' : n \in Coming("guest") \/ n.kind = "end" \/ n.kind = "result"
    BY <2>2, <2>4
  <2>24. ~Over("guest") => \/ at["guest"] = "result" /\ Coming("guest") = {}
                           \/ at["guest"] = "reveal" /\ Coming("host") = {}
    BY <1>1, <1>2, <1>3 DEF Turns, HostsTurn, GuestsTurn, Over
  <2>25. Received("host") \in Coming("host")  BY <2>4 DEF Took
  <2>26. ~Over("guest") => /\ at["guest"] = "result" /\ Coming("guest") = {}
                           /\ Coming("guest")' = {} \/ Coming("guest")' = {x, y}
    BY <2>4, <2>24, <2>25
  <2>12. Places'
    BY <1>1, <1>2, <1>3, <1>4, <2>1, <2>2, <2>4, <2>5, SidesFacts
    DEF Places, Ended
  <2>13. Awaited'
    BY <1>1, <1>2, <1>3, <1>4, <2>1, <2>2, <2>4, <2>5, <2>26
    DEF Awaited, GuestDue, Early, Over
  <2>14. Turns'
    BY <1>1, <1>2, <1>3, <1>4, <2>1, <2>2, <2>4, <2>5
    DEF Turns, Over
  <2>15. RoundsFit'
    BY <1>1, <1>2, <1>3, <1>4, <2>1, <2>2, <2>4, <2>5, <2>7
    DEF RoundsFit, Over
  <2>16. Chosen'
    BY <1>1, <1>2, <1>3, <1>4, <2>1, <2>2, <2>4, <2>5, <2>8
    DEF Chosen
  <2>18. Judged'
    BY <1>1, <1>2, <1>3, <1>4, <2>1, <2>2, <2>4, <2>5
    DEF Judged, Over
  <2>19. Told'
    BY <1>1, <1>2, <1>3, <1>4, <2>1, <2>2, <2>4, <2>5, <2>9, <2>26
    DEF Told, Early, Over
  <2>20. OneOutcome'
    BY <1>1, <1>2, <1>3, <1>4, <2>1, <2>2, <2>4, <2>5, <2>9
    DEF OneOutcome
  <2>17. Peeks'
    <3>1. \A n \in Coming("guest") : n.round \in Nat  BY <1>1, SidesFacts, ComingTyped DEF DuelMessage
    <3>2. ASSUME NEW n \in Coming("guest")', n.kind = "reveal"
          PROVE  n.round <= round'["host"] /\ n.round # round'["host"]
      <4>1. n \in Coming("guest")  BY <2>23, <3>2
      <4>2. n.round \in Nat /\ n.round <= round["host"]  BY <1>1, <3>1, <3>2, <4>1 DEF Peeks
      <4>3. QED  BY <1>4, <2>7, <4>2
    <3>3. \A n \in Coming("host")' : n \in Coming("host")  BY <2>4 DEF Took
    <3>4. QED  BY <1>1, <2>7, <2>8, <3>2, <3>3 DEF Peeks
  <2>22. QED  BY <2>11, <2>12, <2>13, <2>14, <2>15, <2>16, <2>17, <2>18, <2>19, <2>20 DEF DuelInv, DuelFacts
<1>8. QED  BY <1>5, <1>6, <1>7 DEF HostRevealed, m

\* The Guest hears what the Host judged, not less and not more: here the two
\* outcomes must agree.
LEMMA GuestResultKeeps ==
    ASSUME DuelInv, GuestResult
    PROVE  DuelInv'
<1> USE DuelAssumption
<1>1. /\ DuelTypes /\ TypeOK
      /\ Places /\ Awaited /\ Turns /\ RoundsFit /\ Chosen /\ Peeks /\ Judged /\ Told /\ OneOutcome
  BY DEF DuelInv, DuelFacts, DuelTypes
<1> DEFINE m == Received("guest")
<1>2. /\ at["guest"] = "result" /\ Receives("guest", "result")
      /\ UNCHANGED <<mode, open, wire, reader, pings, judged, session>>
  BY DEF GuestResult, Receives
<1>3. mode = "simultaneous_round"  BY <1>1, <1>2, SidesFacts DEF Places
<1>4. round["host"] \in Nat /\ round["guest"] \in Nat /\ round["guest"] < MaxRounds
  <2>1. round["host"] \in Nat /\ round["guest"] \in Nat  BY <1>1, SidesFacts DEF TypeOK
  <2>2. QED  BY <1>1, <1>2, <2>1 DEF RoundsFit, Over
<1>5. /\ Took("guest") /\ ChannelTypes'
      /\ Coming("host")' = Coming("host") /\ InOrder("host")' = InOrder("host")
  BY <1>1, <1>2, GuestReads
<1> HIDE DEF m
<1>6. CASE /\ round' = [round EXCEPT !["guest"] = @ + 1] /\ held' = [held EXCEPT !["guest"] = None]
           /\ last' = m.value /\ GoesOn("guest", "commit")
           /\ \E v \in Values : chosen' = [chosen EXCEPT !["guest"] = v]
  <2>1. PICK v \in Values : chosen' = [chosen EXCEPT !["guest"] = v]  BY <1>6
  <2>2. /\ m \in DuelMessage /\ m \in Coming("guest") /\ m.kind \in {"result", "error"}
        /\ \A n \in Coming("guest")' : n \in Coming("guest") /\ n.kind \in {"commit", "end"}
    <3>1. /\ m \in DuelMessage /\ m \in Coming("guest") /\ Coming("guest")' \subseteq Coming("guest")
          /\ Coming("guest") = {m} \union Coming("guest")'
          /\ \A n \in Coming("guest")' : n.kind \notin Early
      BY <1>1, <1>2, <1>3, <1>5 DEF Took, Awaited, Over, m
    <3>2. \A n \in Coming("guest") : n.kind \in {"result", "error", "commit", "end"}
      BY <1>1, <1>2, <1>3 DEF Awaited, GuestDue, Over
    <3>3. \E n \in Coming("guest") : n.kind \in Early  BY <1>1, <1>2, <3>1 DEF Told
    <3>4. QED  BY <3>1, <3>2, <3>3 DEF Early
  <2>3. last' \in Winners \union {None}  BY <1>6, <2>2 DEF DuelMessage
  <2>4. (\E n \in Coming("guest")' : n.kind = "end") => last' = judged
    <3>1. SUFFICES ASSUME NEW n \in Coming("guest")', n.kind = "end" PROVE m.value = judged  BY <1>6
    <3>2. PICK k \in Coming("guest") : k.kind = "result" /\ k.value = judged
      BY <1>1, <1>2, <2>2, <3>1 DEF Told
    <3>3. k = m \/ k \in Coming("guest")'  BY <1>5, <3>2 DEF Took, m
    <3>4. QED  BY <2>2, <3>2, <3>3
  <2>5. /\ at' \in [Sides -> Ats] /\ at'["guest"] = "commit" /\ at'["host"] = at["host"]
        /\ result' \in [Sides -> Results] /\ result' = result
    BY <1>1, <1>6, SidesFacts, GoesOnHere DEF Ats
  <2>6. /\ chosen' \in [Sides -> Values \union {None}]
        /\ chosen'["guest"] \in Values /\ chosen'["host"] = chosen["host"]
    BY <1>1, <2>1, SidesFacts DEF TypeOK
  <2>7. /\ round' \in [Sides -> 0..MaxRounds] /\ round'["guest"] = round["guest"] + 1
        /\ round'["host"] = round["host"]
    BY <1>1, <1>4, <1>6, SidesFacts DEF TypeOK
  <2>8. /\ held' \in [Sides -> Values \union {None}] /\ held'["host"] = held["host"]
    BY <1>1, <1>6, SidesFacts DEF TypeOK
  <2>9. DuelTypes'  BY <1>1, <1>2, <1>5, <2>3, <2>5, <2>6, <2>7, <2>8, HandlerTypes DEF TypeOK
  <2>10. Places'
    BY <1>1, <1>2, <1>3, <1>4, <1>5, <2>5, SidesFacts
    DEF Places
  <2>11. Awaited'
    BY <1>1, <1>2, <1>3, <1>4, <1>5, <2>2, <2>5
    DEF Awaited, HostDue, GuestDue, Over, Took
  <2>12. Turns'
    BY <1>1, <1>2, <1>3, <1>4, <1>5, <2>2, <2>5
    DEF Turns, HostsTurn, GuestsTurn, Over
  <2>13. RoundsFit'
    BY <1>1, <1>2, <1>3, <1>4, <1>5, <2>2, <2>5, <2>7
    DEF RoundsFit, Turns, HostsTurn, GuestsTurn, Over
  <2>14. Chosen'
    BY <1>1, <1>2, <1>3, <1>4, <1>5, <2>5, <2>6
    DEF Chosen
  <2>16. Judged'
    BY <1>1, <1>2, <1>3, <1>4, <1>5, <2>5
    DEF Judged, Over
  <2>17. Told'
    BY <1>1, <1>2, <1>3, <1>4, <1>5, <2>2, <2>4, <2>5
    DEF Told
  <2>18. OneOutcome'
    BY <1>1, <1>2, <1>3, <1>4, <1>5, <2>5
    DEF OneOutcome
  <2>15. Peeks'
    <3>1. \A n \in Coming("host") : n.round \in Nat  BY <1>1, SidesFacts, ComingTyped DEF DuelMessage
    <3>2. ASSUME NEW n \in Coming("host")', n.kind = "reveal"
          PROVE  n.round <= round'["guest"] /\ n.round # round'["guest"]
      <4>1. n \in Coming("host")  BY <1>5, <3>2
      <4>2. n.round \in Nat /\ n.round <= round["guest"]  BY <1>1, <3>1, <3>2, <4>1 DEF Peeks
      <4>3. QED  BY <1>4, <2>7, <4>2
    <3>3. QED  BY <1>1, <2>2, <2>7, <2>8, <3>2 DEF Peeks
  <2>20. QED  BY <2>9, <2>10, <2>11, <2>12, <2>13, <2>14, <2>15, <2>16, <2>17, <2>18 DEF DuelInv, DuelFacts
<1>7. CASE Ends("guest", FALSE, None) /\ UNCHANGED <<round, held, last, chosen>>
  <2>1. /\ at' \in [Sides -> Ats] /\ at'["guest"] = "done" /\ at'["host"] = at["host"]
        /\ result' \in [Sides -> Results] /\ result'["host"] = result["host"]
        /\ ~result'["guest"].completed
    BY <1>1, <1>7, SidesFacts, EndsHere
  <2>2. DuelTypes'  BY <1>1, <1>2, <1>5, <1>7, <2>1, HandlerTypes DEF TypeOK
  <2>3. Places'
    BY <1>1, <1>2, <2>1, SidesFacts
    DEF Places, Ended
  <2>4. Awaited'
    BY <1>1, <1>2, <1>5, <2>1
    DEF Awaited, HostDue, Over
  <2>5. Turns'
    BY <2>1
    DEF Turns, Over
  <2>6. RoundsFit'
    BY <1>1, <1>7, <2>1
    DEF RoundsFit, Over
  <2>7. Chosen'
    BY <1>1, <1>7, <2>1
    DEF Chosen
  <2>8. Peeks'
    BY <1>1, <1>5, <1>7
    DEF Peeks, Took
  <2>9. Judged'
    BY <1>1, <1>2, <2>1
    DEF Judged, Over
  <2>10. Told'
    BY <1>1, <1>2, <1>5, <2>1
    DEF Told, Took
  <2>11. OneOutcome'
    BY <1>1, <1>2, <2>1
    DEF OneOutcome
  <2>20. QED  BY <2>2, <2>3, <2>4, <2>5, <2>6, <2>7, <2>8, <2>9, <2>10, <2>11 DEF DuelInv, DuelFacts
<1>8. QED  BY <1>6, <1>7 DEF GuestResult, m

-----------------------------------------------------------------------------
\* Two sides that have just been paired satisfy the invariant.
LEMMA DuelInit == Init => DuelInv
<1> SUFFICES ASSUME Init PROVE DuelInv  OBVIOUS
<1> USE DuelAssumption
<1>1. /\ mode \in Modes /\ open = TRUE /\ pings = 0 /\ last = None /\ judged = None
      /\ wire = [s \in Sides |-> <<>>] /\ queue = [s \in Sides |-> <<>>]
      /\ reader = [s \in Sides |-> "on"]
      /\ at = [s \in Sides |-> IF s = "host" THEN "join" ELSE "start"]
      /\ round = [s \in Sides |-> 0]
      /\ chosen = [s \in Sides |-> None] /\ held = [s \in Sides |-> None]
      /\ result = [s \in Sides |-> Undecided]
      /\ session = [status |-> "matched", reports |-> [s \in Sides |-> None]]
  BY DEF Init
<1>2. /\ at["host"] = "join" /\ at["guest"] = "start" /\ round["host"] = 0 /\ round["guest"] = 0
      /\ result["host"] = Undecided /\ result["guest"] = Undecided
  BY <1>1, SidesFacts
<1>3. TypeOK
  <2>1. Undecided \in [completed : BOOLEAN, outcome : Winners \union {None}]  BY DEF Undecided
  <2>2. result \in [Sides -> [completed : BOOLEAN, outcome : Winners \union {None}]]  BY <1>1, <2>1
  <2>3. open \in BOOLEAN  BY <1>1
  <2>4. QED  BY <1>1, <2>2, <2>3 DEF TypeOK
<1>4. ChannelTypes
  <2>1. /\ <<>> \in Seq(DuelMessage) /\ \A i \in DOMAIN <<>> : <<>>[i].kind # "ping"  OBVIOUS
  <2>2. \A s \in Sides : queue[s] = <<>>  BY <1>1
  <2>3. wire \in [Sides -> Seq(DuelMessage)] /\ queue \in [Sides -> Seq(DuelMessage)]  BY <1>1, <2>1
  <2>4. QED  BY <2>1, <2>2, <2>3 DEF ChannelTypes
<1>5. DuelTypes
  <2>1. session \in [status : {"matched", "closed", "failed"}, reports : [Sides -> Winners \union {None}]]
    BY <1>1
  <2>2. QED  BY <1>3, <1>4, <2>1 DEF DuelTypes
<1>6. \A s \in Sides : Coming(s) = {} /\ InOrder(s)
  <2>1. SUFFICES ASSUME NEW s \in Sides PROVE Coming(s) = {} /\ InOrder(s)  OBVIOUS
  <2>2. Stream(s) = <<>> \o <<>>  BY <1>1 DEF Stream
  <2>3. Stream(s) = <<>>  BY <2>2
  <2>4. Business(Stream(s)) = {}  BY <2>3 DEF Business
  <2>5. QED  BY <2>4 DEF Coming, InOrder, Messages, Ordered
<1>7. /\ Coming("host") = {} /\ Coming("guest") = {} /\ InOrder("host") /\ InOrder("guest")
  BY <1>6, SidesFacts
<1>8. Places  BY <1>1, <1>2, <1>6, SidesFacts DEF Places
<1>9. Awaited /\ Turns  BY <1>2, <1>7 DEF Awaited, Turns
<1>10. RoundsFit /\ Chosen /\ Peeks  BY <1>2, <1>7 DEF RoundsFit, Chosen, Peeks
<1>11. ~Undecided.completed  BY DEF Undecided
<1>12. Judged /\ Told  BY <1>1, <1>2, <1>7, <1>11 DEF Judged, Told
<1>13. OneOutcome  BY <1>1, <1>2, <1>11 DEF OneOutcome
<1>14. QED  BY <1>5, <1>8, <1>9, <1>10, <1>12, <1>13 DEF DuelInv, DuelFacts

\* Every step of the two sides keeps the invariant.
LEMMA DuelKept == DuelInv /\ Next => DuelInv'
<1> SUFFICES ASSUME DuelInv, Next PROVE DuelInv'  OBVIOUS
<1>1. CASE Channel \/ \E s \in Sides : SendPing(s)  BY <1>1, ChannelKeeps DEF Channel
<1>2. CASE \E s \in Sides : Disconnected(s) \/ Closes(s) \/ Raises(s) \/ Crash(s)  BY <1>2, EndingsKeep
<1>3. CASE GuestJoins \/ HostJoined \/ GuestReady
  BY <1>3, GuestJoinsKeeps, HostJoinedKeeps, GuestReadyKeeps
<1>4. CASE HostHandles \/ GuestHandles \/ HostResponds \/ GuestResponded
  BY <1>4, HostHandlesKeeps, GuestHandlesKeeps, HostRespondsKeeps, GuestRespondedKeeps
<1>5. CASE HostCommitted \/ HostRevealed \/ GuestCommits \/ GuestRevealed \/ GuestResult
  BY <1>5, HostCommittedKeeps, HostRevealedKeeps, GuestCommitsKeeps, GuestRevealedKeeps, GuestResultKeeps
<1>6. QED  BY <1>1, <1>2, <1>3, <1>4, <1>5 DEF Next, Engine

\* The invariant implies what is claimed: types, nobody sees a choice before it is
\* bound to its own, one outcome.
LEMMA DuelImplies == DuelInv => TypeOK /\ NoPeeking /\ OneOutcome
<1> SUFFICES ASSUME DuelInv PROVE TypeOK /\ NoPeeking /\ OneOutcome  OBVIOUS
<1>1. DuelTypes /\ TypeOK /\ OneOutcome /\ Peeks /\ ChannelTypes  BY DEF DuelInv, DuelFacts, DuelTypes
<1>2. ASSUME NEW s \in Sides, NEW m \in Range(queue[Peer(s)] \o wire[Peer(s)]),
             m.kind = "reveal", m.round = round[s]
      PROVE  held[s] # None
  <2>1. m \in Coming(Peer(s))
    <3>1. Stream(Peer(s)) = queue[Peer(s)] \o wire[Peer(s)]  BY DEF Stream
    <3>2. PICK i \in DOMAIN Stream(Peer(s)) : m = Stream(Peer(s))[i]  BY <1>2, <3>1 DEF Range
    <3>3. i \in Business(Stream(Peer(s)))  BY <1>2, <3>2 DEF Business
    <3>4. QED  BY <3>2, <3>3 DEF Coming, Messages
  <2>2. CASE s = "host"
    <3>1. m \in Coming("guest")  BY <2>1, <2>2, SidesFacts
    <3>2. QED  BY <1>1, <1>2, <2>2, <3>1 DEF Peeks
  <2>3. CASE s = "guest"
    <3>1. m \in Coming("host")  BY <2>1, <2>3, SidesFacts
    <3>2. QED  BY <1>1, <1>2, <2>3, <3>1 DEF Peeks
  <2>4. QED  BY <2>2, <2>3, SidesFacts
<1>3. NoPeeking  BY <1>2 DEF NoPeeking
<1>4. QED  BY <1>1, <1>3


\* A step of the environment leaves it alone.
LEMMA DuelStands == DuelInv /\ UNCHANGED vars => DuelInv'
<1> SUFFICES ASSUME DuelInv, UNCHANGED vars PROVE DuelInv'  OBVIOUS
<1>1. UNCHANGED <<mode, open, wire, queue, reader, pings, at, round, chosen, held, last, result, judged, session>>
  BY DEF vars
<1>2. TypeOK' /\ ChannelTypes'  BY <1>1 DEF DuelInv, DuelTypes, TypeOK, ChannelTypes
<1>3. DuelTypes'  BY <1>1, <1>2 DEF DuelInv, DuelTypes
<1>4. /\ Coming("host")' = Coming("host") /\ InOrder("host")' = InOrder("host")
      /\ Coming("guest")' = Coming("guest") /\ InOrder("guest")' = InOrder("guest")
  BY <1>1, Untouched DEF Sides
<1>5. DuelFacts'  BY <1>1, <1>4, QuietStep DEF DuelInv
<1>6. QED  BY <1>3, <1>5 DEF DuelInv

\* In every duel the variables keep their types, no side can read the other's
\* value of a round before it holds that side's commitment, and the two ends
\* agree about the winner (TypeOK, NoPeeking and OneOutcome of engine.py).
THEOREM DuelSafe == Spec => [](TypeOK /\ NoPeeking /\ OneOutcome)
<1>1. Init => DuelInv  BY DuelInit
<1>2. DuelInv /\ [Next]_vars => DuelInv'  BY DuelKept, DuelStands
<1>3. DuelInv => TypeOK /\ NoPeeking /\ OneOutcome  BY DuelImplies
<1>4. QED  BY <1>1, <1>2, <1>3, PTL DEF Spec
-----------------------------------------------------------------------------
(* The other engines: the conversation, the decisions, real time.          *)
IsPrefix(s, t) == Len(s) <= Len(t) /\ s = SubSeq(t, 1, Len(s))

\* A prefix is shorter and agrees entry by entry.
LEMMA PrefixByEntries ==
    ASSUME NEW S, NEW s \in Seq(S), NEW t \in Seq(S)
    PROVE  IsPrefix(s, t) <=> /\ Len(s) <= Len(t)
                              /\ \A i \in 1..Len(s) : s[i] = t[i]
<1>1. Len(s) \in Nat /\ Len(t) \in Nat  BY LenProperties
<1>2. SubSeq(s, 1, Len(s)) = s  BY SubSeqFull
<1>3. ASSUME Len(s) <= Len(t)
      PROVE  /\ SubSeq(t, 1, Len(s)) \in Seq(S)
             /\ Len(SubSeq(t, 1, Len(s))) = Len(s)
             /\ \A i \in 1..Len(s) : SubSeq(t, 1, Len(s))[i] = t[i]
  <2>1. \A i \in 1..Len(s) : t[i] \in S  BY <1>1, <1>3, ElementOfSeq
  <2>2. QED  BY <1>1, <2>1, SubSeqProperties
<1>4. ASSUME Len(s) <= Len(t), \A i \in 1..Len(s) : s[i] = t[i]
      PROVE  SubSeq(t, 1, Len(s)) = s
  BY <1>1, <1>3, <1>4, SeqEqual
<1>5. QED  BY <1>2, <1>3, <1>4 DEF IsPrefix

\* A log is a prefix of itself.
LEMMA PrefixReflexive ==
    ASSUME NEW S, NEW s \in Seq(S)
    PROVE  IsPrefix(s, s)
BY PrefixByEntries, LenProperties

\* A log only gains a record at its end.
LEMMA PrefixOfAppend ==
    ASSUME NEW S, NEW s \in Seq(S), NEW t \in Seq(S), NEW e \in S, IsPrefix(s, t)
    PROVE  IsPrefix(s, Append(t, e))
<1>1. Len(s) \in Nat /\ Len(t) \in Nat  BY LenProperties
<1>2. /\ Append(t, e) \in Seq(S)
      /\ Len(Append(t, e)) = Len(t) + 1
      /\ \A i \in 1..Len(t) : Append(t, e)[i] = t[i]
  BY AppendProperties
<1>3. Len(s) <= Len(t) /\ \A i \in 1..Len(s) : s[i] = t[i]  BY PrefixByEntries
<1>4. /\ Len(s) <= Len(Append(t, e))
      /\ \A i \in 1..Len(s) : s[i] = Append(t, e)[i]
  BY <1>1, <1>2, <1>3
<1>5. QED  BY <1>2, <1>4, PrefixByEntries

\* What joins the end of a queue comes after all that was before it.
LEMMA QueueGrows ==
    ASSUME NEW S, NEW s \in Seq(S), NEW t \in Seq(S), NEW u \in Seq(S)
    PROVE  t \o u \in Seq(S) /\ s \o (t \o u) = (s \o t) \o u
<1>1. t \o u \in Seq(S)  BY ConcatProperties
<1>2. (s \o t) \o u = s \o (t \o u)  BY ConcatAssociative
<1>3. QED  BY <1>1, <1>2

(* A conversation: where the lines of the inbox are in each phase.          *)
ChatPhases ==
    /\ phase \in {"handshake", "read"} => offset = 0 /\ sent = <<>> /\ backlog = <<>>
    /\ phase \in {"handshake", "read", "backlog"} => input = <<>>
    /\ phase = "chatting" => backlog = <<>>
    /\ outcome = None <=> phase # "over"
ChatLines ==
    /\ sent \in Seq(Nat) /\ backlog \in Seq(Nat) /\ input \in Seq(Nat)
    /\ chatOpen /\ outcome = None => sent \o backlog \o input = Chat!Lines(0, offset)
ChatInv == Chat!TypeOK /\ ChatPhases /\ ChatLines /\ Chat!BacklogFirst

\* The lines of the inbox between two offsets, in order.
LEMMA LinesJoin ==
    ASSUME NEW a \in Nat, NEW b \in Nat, a <= b
    PROVE  /\ Chat!Lines(0, a) \in Seq(Nat) /\ Chat!Lines(a, b) \in Seq(Nat)
           /\ Chat!Lines(0, a) \o Chat!Lines(a, b) = Chat!Lines(0, b)
<1> DEFINE r == Chat!Lines(0, a)  s == Chat!Lines(a, b)  t == Chat!Lines(0, b)
<1>1. /\ r \in Seq(Nat) /\ Len(r) = a /\ \A i \in 1..a : r[i] = i
      /\ s \in Seq(Nat) /\ Len(s) = b - a /\ \A i \in 1..(b - a) : s[i] = a + i
      /\ t \in Seq(Nat) /\ Len(t) = b /\ \A i \in 1..b : t[i] = i
  BY DEF Chat!Lines
<1> DEFINE u == r \o s
<1> HIDE DEF r, s, t
<1>2. /\ u \in Seq(Nat) /\ Len(u) = b
      /\ \A i \in 1..b : u[i] = IF i <= a THEN r[i] ELSE s[i - a]
  <2>0. r \in Seq(Nat) /\ s \in Seq(Nat)  BY <1>1
  <2>1. u \in Seq(Nat) /\ Len(u) = Len(r) + Len(s)  BY <2>0, ConcatProperties
  <2>2. \A i \in 1..(Len(r) + Len(s)) : u[i] = IF i <= Len(r) THEN r[i] ELSE s[i - Len(r)]
    BY <2>0, ConcatProperties
  <2>3. Len(r) + Len(s) = b  BY <1>1
  <2> HIDE DEF u
  <2>4. QED  BY <1>1, <2>1, <2>2, <2>3
<1> HIDE DEF u
<1>3. ASSUME NEW i \in 1..b PROVE u[i] = t[i]
  <2>1. CASE i <= a  BY <1>1, <1>2, <2>1
  <2>2. CASE ~(i <= a)
    <3>1. i - a \in 1..(b - a)  BY <2>2
    <3>2. s[i - a] = a + (i - a)  BY <1>1, <3>1
    <3>3. u[i] = s[i - a] /\ t[i] = i  BY <1>1, <1>2, <2>2
    <3>4. QED  BY <3>2, <3>3
  <2>3. QED  BY <2>1, <2>2
<1>4. u = t
  <2>1. u \in Seq(Nat) /\ t \in Seq(Nat) /\ Len(u) = b /\ Len(t) = b  BY <1>1, <1>2
  <2>2. QED  BY <1>3, <2>1, SeqEqual
<1>5. QED  BY <1>1, <1>4 DEF r, s, t, u

\* A conversation starts with the invariant.
LEMMA ChatInit == Chat!Init => ChatInv
<1> SUFFICES ASSUME Chat!Init PROVE ChatInv  OBVIOUS
<1>1. /\ lines = 0 /\ torn = FALSE /\ offset = 0 /\ phase = "handshake"
      /\ backlog = <<>> /\ input = <<>> /\ sent = <<>>
      /\ chatOpen = TRUE /\ heard = 0 /\ terminal = FALSE /\ outcome = None
  BY DEF Chat!Init
<1>2. Chat!TypeOK
  <2>1. chatOpen \in BOOLEAN /\ torn \in BOOLEAN /\ terminal \in BOOLEAN  BY <1>1
  <2>2. lines \in 0..MaxLines /\ offset \in 0..lines /\ heard \in 0..MaxHeard
    BY <1>1, EnginesAssumption
  <2>3. QED  BY <1>1, <2>1, <2>2 DEF Chat!TypeOK
<1>3. ChatPhases  BY <1>1 DEF ChatPhases
<1>4. ChatLines
  <2> DEFINE e == <<>>
  <2>1. e \in Seq(Nat) /\ Len(e) = 0  BY EmptySeq
  <2>2. e \o e = e  BY <2>1, ConcatEmptySeq
  <2>3. Chat!Lines(0, 0) \in Seq(Nat) /\ Len(Chat!Lines(0, 0)) = 0  BY DEF Chat!Lines
  <2>4. Chat!Lines(0, 0) = e  BY <2>3, EmptySeq
  <2>5. sent \o backlog \o input = Chat!Lines(0, offset)  BY <1>1, <2>2, <2>4
  <2>6. QED  BY <1>1, <2>1, <2>5 DEF ChatLines
<1>5. Chat!BacklogFirst  BY <1>1 DEF Chat!BacklogFirst
<1>6. QED  BY <1>2, <1>3, <1>4, <1>5 DEF ChatInv

\* A step of the conversation keeps it.
LEMMA ChatKept == ChatInv /\ Chat!Next => ChatInv'
<1> SUFFICES ASSUME ChatInv, Chat!Next PROVE ChatInv'  OBVIOUS
<1>i. Chat!TypeOK /\ ChatPhases /\ ChatLines /\ Chat!BacklogFirst  BY DEF ChatInv
<1>n. lines \in Nat /\ offset \in Nat /\ offset <= lines
  BY <1>i, EnginesAssumption DEF Chat!TypeOK
<1>t. sent \in Seq(Nat) /\ backlog \in Seq(Nat) /\ input \in Seq(Nat)  BY <1>i DEF ChatLines
<1>e. ASSUME UNCHANGED <<sent, backlog>>, outcome' = outcome PROVE Chat!BacklogFirst'
  BY <1>i, <1>e DEF Chat!BacklogFirst, Chat!Range
<1>1. CASE Chat!Appender
  <2>1. UNCHANGED <<offset, phase, backlog, input, sent, chatOpen, heard, tasks, terminal, outcome>>
    BY <1>1 DEF Chat!Appender
  <2>2. lines' \in 0..MaxLines /\ lines <= lines' /\ torn' \in BOOLEAN
    <3>1. torn' \in BOOLEAN  BY <1>1 DEF Chat!Appender
    <3>2. lines' = lines \/ (lines < MaxLines /\ lines' = lines + 1)  BY <1>1 DEF Chat!Appender
    <3>3. lines' \in 0..MaxLines /\ lines <= lines'
      BY <1>i, <3>2, EnginesAssumption DEF Chat!TypeOK
    <3>4. QED  BY <3>1, <3>3
  <2>3. Chat!TypeOK'  BY <1>i, <1>n, <2>1, <2>2, EnginesAssumption DEF Chat!TypeOK
  <2>4. ChatPhases' /\ ChatLines'  BY <1>i, <2>1 DEF ChatPhases, ChatLines, Chat!Lines
  <2>5. QED  BY <1>e, <2>1, <2>3, <2>4 DEF ChatInv
<1>2. CASE Chat!Handshake
  <2>1. UNCHANGED <<lines, torn, offset, backlog, input, sent, chatOpen, heard, tasks, terminal>>
    BY <1>2 DEF Chat!Handshake
  <2>2. /\ phase = "handshake"
        /\ \/ phase' = "read" /\ outcome' = outcome
           \/ phase' = "over" /\ outcome' = "raised"
    BY <1>2 DEF Chat!Handshake, Chat!Raise
  <2>3. Chat!TypeOK'  BY <1>i, <2>1, <2>2 DEF Chat!TypeOK
  <2>4. ChatPhases'  BY <1>i, <2>1, <2>2, EnginesAssumption DEF ChatPhases
  <2>5. outcome = None  BY <1>i, <2>2 DEF ChatPhases
  <2>6. ChatLines'  BY <1>i, <2>1, <2>5 DEF ChatLines, Chat!Lines
  <2>7. Chat!BacklogFirst'  BY <1>i, <2>1, <2>2, <2>5, EnginesAssumption DEF Chat!BacklogFirst, ChatPhases
  <2>8. QED  BY <2>3, <2>4, <2>6, <2>7 DEF ChatInv
<1>3. CASE Chat!ReadBacklog
  <2>1. UNCHANGED <<lines, torn, input, sent, chatOpen, heard, tasks, terminal, outcome>>
    BY <1>3 DEF Chat!ReadBacklog
  <2>2. /\ phase = "read" /\ phase' = "backlog"
        /\ backlog' = Chat!Lines(offset, lines) /\ offset' = lines
    BY <1>3 DEF Chat!ReadBacklog, Chat!Readable
  <2>3. offset = 0 /\ sent = <<>> /\ input = <<>> /\ outcome = None  BY <1>i, <2>2 DEF ChatPhases
  <2>4. Chat!TypeOK'  BY <1>i, <1>n, <2>1, <2>2, EnginesAssumption DEF Chat!TypeOK
  <2>5. ChatPhases'  BY <2>1, <2>2, <2>3 DEF ChatPhases
  <2>6. ChatLines'
    <3>1. backlog' \in Seq(Nat) /\ backlog' = Chat!Lines(0, lines)  BY <1>n, <2>2, <2>3, LinesJoin
    <3>2. sent \o backlog' \o input = backlog'
      <4> DEFINE e == <<>>
      <4>1. e \o backlog' = backlog' /\ backlog' \o e = backlog'  BY <3>1, ConcatEmptySeq
      <4>2. QED  BY <2>3, <4>1
    <3>3. QED  BY <1>t, <2>1, <2>2, <3>1, <3>2 DEF ChatLines, Chat!Lines
  <2>7. Chat!BacklogFirst'  BY <2>1, <2>3, EnginesAssumption DEF Chat!BacklogFirst
  <2>8. QED  BY <2>4, <2>5, <2>6, <2>7 DEF ChatInv
<1>4. CASE Chat!SendBacklog
  <2>1. UNCHANGED <<lines, torn, offset, input, chatOpen, heard, tasks, terminal>>
    BY <1>4 DEF Chat!SendBacklog
  <2>2. /\ phase = "backlog" /\ backlog # <<>> /\ backlog' = Tail(backlog)
        /\ \/ /\ sent' = Append(sent, Head(backlog))
              /\ IF Head(backlog) = Quit THEN phase' = "over" /\ outcome' = "completed"
                 ELSE phase' = phase /\ outcome' = outcome
           \/ ~chatOpen /\ phase' = "over" /\ outcome' = "raised" /\ sent' = sent
    BY <1>4 DEF Chat!SendBacklog, Chat!Raise
  <2>3. outcome = None /\ input = <<>>  BY <1>i, <2>2 DEF ChatPhases
  <2>4. Chat!TypeOK'  BY <1>i, <2>1, <2>2 DEF Chat!TypeOK
  <2>5. ChatPhases'  BY <2>1, <2>2, <2>3, EnginesAssumption DEF ChatPhases
  <2>6. /\ Head(backlog) \in Nat /\ Tail(backlog) \in Seq(Nat)
        /\ Append(sent, Head(backlog)) \in Seq(Nat)
        /\ Append(sent, Head(backlog)) \o Tail(backlog) = sent \o backlog
    BY <1>t, <2>2, HeadTailProperties, AppendProperties, MoveHead
  <2>7. ChatLines'
    <3>1. sent' \in Seq(Nat) /\ backlog' \in Seq(Nat) /\ input' \in Seq(Nat)
      BY <1>t, <2>1, <2>2, <2>6
    <3>2. chatOpen /\ outcome' = None => sent' \o backlog' = sent \o backlog
      BY <2>2, <2>6, EnginesAssumption
    <3>3. QED  BY <1>i, <2>1, <2>3, <3>1, <3>2 DEF ChatLines, Chat!Lines
  <2>8. Chat!BacklogFirst'
    <3>1. SUFFICES ASSUME outcome' = "completed" PROVE Quit \in Range(sent')
      BY DEF Chat!BacklogFirst, Chat!Range, Range
    <3>2. sent' = Append(sent, Head(backlog)) /\ Head(backlog) = Quit
      BY <2>2, <2>3, <3>1, EnginesAssumption
    <3>3. Len(sent') \in 1..Len(sent') /\ sent'[Len(sent')] = Quit
      BY <1>t, <2>6, <3>2, AppendProperties, LenProperties
    <3>4. QED  BY <3>3 DEF Range
  <2>9. QED  BY <2>4, <2>5, <2>7, <2>8 DEF ChatInv
<1>5. CASE Chat!StartTasks
  <2>1. UNCHANGED <<lines, torn, offset, backlog, input, sent, chatOpen, heard, terminal, outcome>>
    BY <1>5 DEF Chat!StartTasks
  <2>2. phase = "backlog" /\ backlog = <<>> /\ phase' = "chatting"  BY <1>5 DEF Chat!StartTasks
  <2>3. Chat!TypeOK'  BY <1>i, <2>1, <2>2 DEF Chat!TypeOK
  <2>4. ChatPhases' /\ ChatLines'  BY <1>i, <2>1, <2>2 DEF ChatPhases, ChatLines, Chat!Lines
  <2>5. QED  BY <1>e, <2>1, <2>3, <2>4 DEF ChatInv
<1>6. CASE Chat!Produce
  <2>1. UNCHANGED <<lines, torn, phase, backlog, sent, chatOpen, heard, tasks, terminal, outcome>>
    BY <1>6 DEF Chat!Produce
  <2>2. phase = "chatting" /\ input' = input \o Chat!Lines(offset, lines) /\ offset' = lines
    BY <1>6 DEF Chat!Produce, Chat!Chatting, Chat!Readable
  <2>3. Chat!TypeOK'  BY <1>i, <1>n, <2>1, <2>2, EnginesAssumption DEF Chat!TypeOK
  <2>4. ChatPhases'  BY <1>i, <2>1, <2>2 DEF ChatPhases
  <2>5. ChatLines'
    <3> DEFINE a == sent \o backlog  more == Chat!Lines(offset, lines)
    <3>1. /\ more \in Seq(Nat) /\ Chat!Lines(0, offset) \o more = Chat!Lines(0, lines)
          /\ a \in Seq(Nat)
      BY <1>t, <1>n, LinesJoin, ConcatProperties
    <3> HIDE DEF a, more
    <3>2. input \o more \in Seq(Nat) /\ a \o (input \o more) = (a \o input) \o more
      <4>1. a \in Seq(Nat) /\ more \in Seq(Nat) /\ input \in Seq(Nat)  BY <1>t, <3>1
      <4>2. QED  BY <4>1, QueueGrows, SMTT(20)
    <3>3. input' = input \o more  BY <2>2 DEF more
    <3>4. chatOpen /\ outcome = None => a \o input = Chat!Lines(0, offset)  BY <1>i DEF ChatLines, a
    <3>5. a' = a  BY <2>1 DEF a
    <3>6. chatOpen /\ outcome = None => a \o input' = Chat!Lines(0, lines)  BY <3>1, <3>2, <3>3, <3>4
    <3>7. sent' \o backlog' \o input' = a \o input'  BY <2>1 DEF a
    <3>8. Chat!Lines(0, offset)' = Chat!Lines(0, lines)  BY <2>2 DEF Chat!Lines
    <3>9. QED  BY <1>t, <2>1, <3>2, <3>3, <3>6, <3>7, <3>8 DEF ChatLines
  <2>6. QED  BY <1>e, <2>1, <2>3, <2>4, <2>5 DEF ChatInv
<1>7. CASE Chat!SendLine
  <2>1. UNCHANGED <<lines, torn, offset, phase, backlog, chatOpen, heard, terminal, outcome>>
    BY <1>7 DEF Chat!SendLine
  <2>2. /\ phase = "chatting" /\ input # <<>> /\ input' = Tail(input)
        /\ sent' = Append(sent, Head(input)) \/ (~chatOpen /\ sent' = sent)
    BY <1>7 DEF Chat!SendLine, Chat!Chatting
  <2>3. backlog = <<>>  BY <1>i, <2>2 DEF ChatPhases
  <2>4. Chat!TypeOK'  BY <1>i, <2>1, <2>2 DEF Chat!TypeOK
  <2>5. ChatPhases'  BY <1>i, <2>1, <2>2 DEF ChatPhases
  <2>6. /\ Head(input) \in Nat /\ Tail(input) \in Seq(Nat)
        /\ Append(sent, Head(input)) \in Seq(Nat)
        /\ Append(sent, Head(input)) \o Tail(input) = sent \o input
    BY <1>t, <2>2, HeadTailProperties, AppendProperties, MoveHead
  <2>7. ChatLines'
    <3>1. sent' \in Seq(Nat) /\ backlog' \in Seq(Nat) /\ input' \in Seq(Nat)
      BY <1>t, <2>1, <2>2, <2>6
    <3>2. sent \o backlog = sent /\ sent' \o backlog' = sent'
      <4> DEFINE e == <<>>
      <4>1. sent \o e = sent /\ sent' \o e = sent'  BY <1>t, <3>1, ConcatEmptySeq
      <4>2. QED  BY <2>1, <2>3, <4>1
    <3>3. chatOpen => sent' \o input' = sent \o input  BY <2>2, <2>6
    <3>4. QED  BY <1>i, <2>1, <3>1, <3>2, <3>3 DEF ChatLines, Chat!Lines
  <2>8. Chat!BacklogFirst'  BY <2>1, <2>3 DEF Chat!BacklogFirst
  <2>9. QED  BY <2>4, <2>5, <2>7, <2>8 DEF ChatInv
<1>8. CASE Chat!Receive
  <2>1. UNCHANGED <<lines, torn, offset, phase, backlog, input, sent, chatOpen, outcome>>
    BY <1>8 DEF Chat!Receive
  <2>2. heard' \in 0..MaxHeard /\ terminal' \in BOOLEAN
    <3>1. terminal' \in BOOLEAN  BY <1>8, <1>i DEF Chat!Receive, Chat!TypeOK
    <3>2. heard' = heard \/ (heard < MaxHeard /\ heard' = heard + 1)  BY <1>8 DEF Chat!Receive
    <3>3. heard' \in 0..MaxHeard  BY <1>i, <3>2, EnginesAssumption DEF Chat!TypeOK
    <3>4. QED  BY <3>1, <3>3
  <2>3. Chat!TypeOK'  BY <1>i, <2>1, <2>2 DEF Chat!TypeOK
  <2>4. ChatPhases' /\ ChatLines'  BY <1>i, <2>1 DEF ChatPhases, ChatLines, Chat!Lines
  <2>5. QED  BY <1>e, <2>1, <2>3, <2>4 DEF ChatInv
<1>9. CASE Chat!Finish
  <2>1. UNCHANGED <<lines, torn, offset, backlog, input, sent, chatOpen, heard, tasks, terminal>>
    BY <1>9 DEF Chat!Finish
  <2>2. phase = "chatting" /\ phase' = "over" /\ outcome' \in {"disconnected", "completed"}
    BY <1>9 DEF Chat!Finish
  <2>3. Chat!TypeOK'  BY <1>i, <2>1, <2>2 DEF Chat!TypeOK
  <2>4. outcome' # None  BY <2>2, EnginesAssumption
  <2>5. ChatPhases' /\ ChatLines'  BY <1>t, <2>1, <2>2, <2>4 DEF ChatPhases, ChatLines, Chat!Lines
  <2>6. Chat!BacklogFirst'  BY <1>i, <2>1, <2>2 DEF Chat!BacklogFirst, ChatPhases
  <2>7. QED  BY <2>3, <2>5, <2>6 DEF ChatInv
<1>10. CASE Chat!Disconnect
  <2>1. UNCHANGED <<lines, torn, offset, phase, backlog, input, sent, heard, tasks, terminal, outcome>>
    BY <1>10 DEF Chat!Disconnect
  <2>2. chatOpen' = FALSE  BY <1>10 DEF Chat!Disconnect
  <2>3. Chat!TypeOK'  BY <1>i, <2>1, <2>2 DEF Chat!TypeOK
  <2>4. ChatPhases' /\ ChatLines'  BY <1>i, <1>t, <2>1, <2>2 DEF ChatPhases, ChatLines, Chat!Lines
  <2>5. QED  BY <1>e, <2>1, <2>3, <2>4 DEF ChatInv
<1>11. QED
  BY <1>1, <1>2, <1>3, <1>4, <1>5, <1>6, <1>7, <1>8, <1>9, <1>10 DEF Chat!Next

\* A step of another engine leaves the conversation alone.
LEMMA ChatStands == ChatInv /\ UNCHANGED chat => ChatInv'
<1> SUFFICES ASSUME ChatInv, UNCHANGED chat PROVE ChatInv'  OBVIOUS
<1>1. UNCHANGED <<lines, torn, offset, phase, backlog, input, sent, chatOpen, heard, tasks, terminal, outcome>>
  BY DEF chat
<1>2. Chat!TypeOK'  BY <1>1 DEF ChatInv, Chat!TypeOK
<1>3. ChatPhases' /\ ChatLines'  BY <1>1 DEF ChatInv, ChatPhases, ChatLines, Chat!Lines
<1>4. Chat!BacklogFirst'  BY <1>1 DEF ChatInv, Chat!BacklogFirst, Chat!Range
<1>5. QED  BY <1>2, <1>3, <1>4 DEF ChatInv

\* The invariant gives what the runs check.
LEMMA ChatImplies == ChatInv => Chat!TypeOK /\ Chat!EveryLineOnce /\ Chat!BacklogFirst
<1> SUFFICES ASSUME ChatInv PROVE Chat!TypeOK /\ Chat!EveryLineOnce /\ Chat!BacklogFirst  OBVIOUS
<1>1. Chat!TypeOK /\ ChatLines /\ Chat!BacklogFirst  BY DEF ChatInv
<1>2. offset <= lines  BY <1>1, EnginesAssumption DEF Chat!TypeOK
<1>3. Chat!EveryLineOnce  BY <1>1, <1>2 DEF ChatLines, Chat!EveryLineOnce
<1>4. QED  BY <1>1, <1>3
-----------------------------------------------------------------------------
(* A match in real time.  What travels, and what a frame is.                *)
Command == [seq : Nat, target : Nat, source : Nat]
FrameRecord ==
    [guest : Command, host : {None} \union (0..MaxTicks), outcome : {"host", "guest", "draw", None}]
AckMessage == [kind : {"ack"}, seq : Nat, accepted : BOOLEAN]
FrameMessage == [kind : {"frame"}, tick : Nat, frame : FrameRecord]
GuestMessage == {[kind |-> "ready"], [kind |-> "reject"]} \union AckMessage \union FrameMessage

MatchFlags == agreed \in BOOLEAN /\ linked \in BOOLEAN /\ lost \in BOOLEAN
MatchHistory ==
    /\ onDisconnect \in Policies
    /\ host \in {"join", "loop", "frame", "done", "aborted"}
    /\ guest \in {"start", "ready", "playing", "done", "aborted", "crashed"}
    /\ tick \in 0..MaxTicks /\ frames \in Seq(FrameRecord) /\ Len(frames) = tick
    /\ seen \in Seq(FrameRecord)
MatchChannels ==
    /\ toHost \in Seq(Command) /\ \A i \in DOMAIN toHost : toHost[i].seq <= seq
    /\ toGuest \in Seq(GuestMessage) /\ ack \in AckMessage \union {None}
MatchQueues ==
    /\ hostPending \in [Match!Ticks -> {None} \union (0..MaxTicks)]
    /\ pending \in [Match!Ticks -> Command] /\ \A t \in Match!Ticks : pending[t].target \in {0, t}
    /\ accepted \subseteq Command /\ seq \in Nat /\ lastSeq \in 0..seq

(* An accepted command waits for its tick, or is in its frame.              *)
CommandsKept ==
    /\ \A c \in accepted : /\ c.target \in Match!Ticks
                           /\ c.target <= tick => frames[c.target].guest = c
                           /\ c.target > tick => pending[c.target] = c
    /\ \A t \in Match!Ticks : t > tick /\ pending[t] # Match!Nothing =>
            pending[t] \in accepted /\ pending[t].target = t
    /\ \A t \in DOMAIN frames : frames[t].guest # Match!Nothing =>
            frames[t].guest \in accepted /\ frames[t].guest.target = t

(* The frames on their way to the guest are the host's, in its order and    *)
(* without a gap from the ones the guest has seen.                          *)
FrameAt == {i \in DOMAIN toGuest : toGuest[i].kind = "frame"}
FramesSent ==
    \A i \in FrameAt :
        /\ toGuest[i].tick \in 1..tick /\ toGuest[i].frame = frames[toGuest[i].tick]
        /\ host = "frame" => toGuest[i].tick < tick
        /\ toGuest[i].frame.outcome # None => host = "done" /\ toGuest[i].tick = tick
        /\ \/ toGuest[i].tick = Len(seen) + 1
           \/ \E j \in FrameAt : j < i /\ toGuest[j].tick + 1 = toGuest[i].tick
        /\ \A j \in FrameAt : j < i => toGuest[j].tick < toGuest[i].tick

(* While the connection holds, every frame made has been sent but the one   *)
(* that is about to be.                                                     *)
NoneSkipped ==
    /\ host = "join" => tick = 0
    /\ host = "frame" => tick > 0
    /\ lost => ~linked
    /\ linked /\ host \in {"loop", "done"} =>
          tick = Len(seen) \/ \E i \in FrameAt : toGuest[i].tick = tick
    /\ linked /\ host = "frame" =>
          tick = Len(seen) + 1 \/ \E i \in FrameAt : toGuest[i].tick + 1 = tick

(* Only the last frame has an outcome, and only a disagreement is refused.  *)
OutcomeLast ==
    \A t \in DOMAIN frames : frames[t].outcome # None =>
        t = tick /\ host \in {"frame", "done", "aborted"}
RefusedOnly == \A i \in DOMAIN toGuest : toGuest[i].kind = "reject" => ~agreed

MatchInv ==
    /\ MatchFlags /\ MatchHistory /\ MatchChannels /\ MatchQueues /\ CommandsKept /\ FramesSent
    /\ NoneSkipped /\ OutcomeLast /\ RefusedOnly /\ Match!FramesAgree

\* What the kind of a message to the guest says about its fields.
LEMMA MessageShapes ==
    /\ \A m \in GuestMessage : m.kind = "frame" => m \in FrameMessage /\ m.tick \in Nat /\ m.frame \in FrameRecord
    /\ \A m \in AckMessage : m \in GuestMessage /\ m.kind = "ack"
    /\ \A n \in Nat, f \in FrameRecord : [kind |-> "frame", tick |-> n, frame |-> f] \in GuestMessage
<1>1. \A m \in AckMessage : m \in GuestMessage /\ m.kind = "ack"  BY DEF AckMessage, GuestMessage
<1>2. \A m \in FrameMessage : m.tick \in Nat /\ m.frame \in FrameRecord  BY DEF FrameMessage
<1>3. \A m \in GuestMessage : m.kind = "frame" => m \in FrameMessage  BY <1>1 DEF GuestMessage
<1>4. \A n \in Nat, f \in FrameRecord : [kind |-> "frame", tick |-> n, frame |-> f] \in FrameMessage
  BY DEF FrameMessage
<1>5. QED  BY <1>1, <1>2, <1>3, <1>4 DEF GuestMessage

\* The invariant gives what the runs check.
LEMMA MatchImplies == MatchInv => Match!TypeOK /\ Match!AcceptedIsApplied /\ Match!FramesAgree
<1> SUFFICES ASSUME MatchInv PROVE Match!TypeOK /\ Match!AcceptedIsApplied /\ Match!FramesAgree
  OBVIOUS
<1>1. Match!TypeOK
  <2>1. agreed \in BOOLEAN /\ linked \in BOOLEAN /\ lost \in BOOLEAN  BY DEF MatchInv, MatchFlags
  <2>2. \A t \in Match!Ticks : hostPending[t] \in {None} \union (0..MaxTicks) /\ pending[t].target \in {0, t}
    BY DEF MatchInv, MatchQueues
  <2>3. QED  BY <2>1, <2>2 DEF MatchInv, MatchHistory, MatchQueues, Match!TypeOK
<1>2. Match!AcceptedIsApplied
  <2>1. DOMAIN frames = 1..tick /\ tick \in Nat  BY EnginesAssumption DEF MatchInv, MatchHistory
  <2>2. \A c \in accepted : c.target \in DOMAIN frames => c.target <= tick  BY <2>1
  <2>3. QED  BY <2>2 DEF MatchInv, CommandsKept, Match!AcceptedIsApplied
<1>3. QED  BY <1>1, <1>2 DEF MatchInv

\* A match starts with the invariant.
LEMMA MatchInit == Match!Init => MatchInv
<1> SUFFICES ASSUME Match!Init PROVE MatchInv  OBVIOUS
<1>1. /\ linked = TRUE /\ lost = FALSE /\ agreed \in BOOLEAN  BY DEF Match!Init
<1>2. /\ onDisconnect \in Policies /\ toHost = <<>> /\ toGuest = <<>> /\ host = "join" /\ tick = 0
      /\ frames = <<>> /\ lastSeq = 0 /\ ack = None /\ accepted = {} /\ guest = "start"
      /\ seen = <<>> /\ seq = 0
      /\ hostPending = [t \in Match!Ticks |-> None] /\ pending = [t \in Match!Ticks |-> Match!Nothing]
  BY DEF Match!Init
<1>3. MatchFlags  BY <1>1 DEF MatchFlags
<1>4. MatchHistory /\ MatchChannels  BY <1>2, EnginesAssumption DEF MatchHistory, MatchChannels
<1>5. MatchQueues
  <2>1. Match!Nothing \in Command /\ Match!Nothing.target = 0  BY DEF Command, Match!Nothing
  <2>2. QED  BY <1>2, <2>1 DEF MatchQueues
<1>6. CommandsKept  BY <1>2 DEF CommandsKept
<1>7. FrameAt = {}  BY <1>2 DEF FrameAt
<1>8. FramesSent /\ OutcomeLast /\ RefusedOnly  BY <1>2, <1>7 DEF FramesSent, OutcomeLast, RefusedOnly
<1>9. NoneSkipped  BY <1>1, <1>2 DEF NoneSkipped
<1>10. Match!FramesAgree
  <2>1. IsPrefix(seen, frames)
    <3>1. <<>> \in Seq(Nat)  BY EmptySeq
    <3>2. IsPrefix(<<>>, <<>>)  BY <3>1, PrefixReflexive
    <3>3. QED  BY <1>2, <3>2
  <2>2. QED  BY <1>2, <2>1 DEF Match!FramesAgree, IsPrefix
<1>11. QED  BY <1>3, <1>4, <1>5, <1>6, <1>8, <1>9, <1>10 DEF MatchInv

\* The frames on their way are where they were.
FramesStand ==
    /\ FrameAt' = FrameAt /\ \A i \in FrameAt : toGuest'[i] = toGuest[i]
    /\ tick' = tick /\ frames' = frames /\ seen' = seen

\* A message that is not a frame moves none of those on their way.
LEMMA StandsAfterOther ==
    ASSUME MatchInv, NEW e \in GuestMessage, e.kind # "frame",
           toGuest' = Append(toGuest, e) \/ toGuest' = toGuest
    PROVE  /\ FrameAt' = FrameAt /\ \A i \in FrameAt : toGuest'[i] = toGuest[i]
           /\ toGuest' \in Seq(GuestMessage)
           /\ (e.kind # "reject" => \A i \in DOMAIN toGuest' : toGuest'[i].kind = "reject" => ~agreed)
<1>1. toGuest \in Seq(GuestMessage) /\ RefusedOnly  BY DEF MatchInv, MatchChannels
<1>2. CASE toGuest' = toGuest  BY <1>1, <1>2 DEF FrameAt, RefusedOnly
<1>3. CASE toGuest' = Append(toGuest, e)
  <2>1. /\ toGuest' \in Seq(GuestMessage) /\ Len(toGuest') = Len(toGuest) + 1
        /\ \A i \in 1..Len(toGuest) : toGuest'[i] = toGuest[i]
        /\ toGuest'[Len(toGuest) + 1] = e
    BY <1>1, <1>3, AppendProperties
  <2>2. Len(toGuest) \in Nat /\ DOMAIN toGuest = 1..Len(toGuest) /\ DOMAIN toGuest' = 1..(Len(toGuest) + 1)
    BY <1>1, <2>1, LenProperties
  <2>3. \A i \in DOMAIN toGuest' : i \in DOMAIN toGuest \/ toGuest'[i] = e  BY <2>1, <2>2
  <2>4. DOMAIN toGuest \subseteq DOMAIN toGuest'  BY <2>2
  <2>5. FrameAt' = FrameAt  BY <2>1, <2>2, <2>3, <2>4 DEF FrameAt
  <2>6. QED  BY <1>1, <2>1, <2>2, <2>3, <2>5 DEF FrameAt, RefusedOnly
<1>4. QED  BY <1>2, <1>3

\* Frames that stand keep their order and their places.
LEMMA StandsOrdered ==
    ASSUME MatchInv, FramesStand, host' = host \/ (host \in {"join", "loop"} /\ host' \in {"loop", "aborted"})
    PROVE  FramesSent'
<1>1. \A i \in FrameAt : toGuest'[i] = toGuest[i]  BY DEF FramesStand
<1>2. FrameAt' = FrameAt  BY DEF FramesStand
<1>3. tick' = tick /\ frames' = frames /\ seen' = seen  BY DEF FramesStand
<1>4. FramesSent  BY DEF MatchInv
<1>5. QED  BY <1>1, <1>2, <1>3, <1>4 DEF FramesSent

\* While they stand, what the guest has comes to what was made.
LEMMA StandsUnskipped ==
    ASSUME MatchInv, FramesStand, host' = host, lost' => ~linked', linked' => linked
    PROVE  NoneSkipped'
<1>1. \A i \in FrameAt : toGuest'[i] = toGuest[i]  BY DEF FramesStand
<1>2. FrameAt' = FrameAt  BY DEF FramesStand
<1>3. tick' = tick /\ frames' = frames /\ seen' = seen  BY DEF FramesStand
<1>4. NoneSkipped  BY DEF MatchInv
<1>5. QED  BY <1>1, <1>2, <1>3, <1>4 DEF NoneSkipped

\* The frames of the guest are not more than the host's.
LEMMA SeenIsShorter ==
    ASSUME MatchInv
    PROVE  /\ tick \in Nat /\ Len(seen) \in Nat /\ Len(seen) <= tick /\ DOMAIN frames = 1..tick
           /\ \A t \in 1..Len(seen) : seen[t] = frames[t]
<1>1. frames \in Seq(FrameRecord) /\ seen \in Seq(FrameRecord) /\ Len(frames) = tick
  BY DEF MatchInv, MatchHistory
<1>2. IsPrefix(seen, frames)  BY DEF MatchInv, Match!FramesAgree, IsPrefix
<1>3. QED  BY <1>1, <1>2, PrefixByEntries, LenProperties

\* The agreement, the connection and its loss stay flags.
LEMMA FlagsKept == MatchInv /\ Match!Next => MatchFlags'
<1> SUFFICES ASSUME MatchInv, Match!Next PROVE MatchFlags'  OBVIOUS
<1>i. agreed \in BOOLEAN /\ linked \in BOOLEAN /\ lost \in BOOLEAN  BY DEF MatchInv, MatchFlags
<1>1. agreed' = agreed /\ (linked' = linked \/ linked' = FALSE) /\ (lost' = lost \/ lost' = TRUE)
  BY DEF Match!Next, Match!HostJoined, Match!ReceiveCommand, Match!SendAck, Match!ReceiverClosed, Match!Tick,
         Match!SendFrame, Match!HostDisconnected, Match!GuestJoins, Match!GuestReady, Match!ReceiveAck,
         Match!ReceiveFrame, Match!GuestDisconnected, Match!Disconnect
<1>2. QED  BY <1>i, <1>1 DEF MatchFlags

\* Taking the first message moves the others up by one.
LEMMA TakeGuestMessage ==
    ASSUME MatchInv, toGuest # <<>>, toGuest' = Tail(toGuest)
    PROVE  /\ 1 \in DOMAIN toGuest /\ Head(toGuest) = toGuest[1] /\ Head(toGuest) \in GuestMessage
           /\ toGuest' \in Seq(GuestMessage) /\ DOMAIN toGuest \subseteq Nat \ {0}
           /\ \A i \in FrameAt' : i \in Nat \ {0} /\ i + 1 \in FrameAt /\ toGuest'[i] = toGuest[i + 1]
           /\ \A i \in FrameAt : i # 1 => i - 1 \in FrameAt' /\ toGuest'[i - 1] = toGuest[i]
           /\ (agreed' = agreed => RefusedOnly')
<1>1. toGuest \in Seq(GuestMessage) /\ RefusedOnly  BY DEF MatchInv, MatchChannels
<1>2. /\ Head(toGuest) = toGuest[1] /\ Head(toGuest) \in GuestMessage
      /\ toGuest' \in Seq(GuestMessage) /\ Len(toGuest') = Len(toGuest) - 1
      /\ \A i \in 1..Len(toGuest') : toGuest'[i] = toGuest[i + 1]
  BY <1>1, HeadTailProperties
<1>3. /\ Len(toGuest) \in Nat \ {0} /\ DOMAIN toGuest = 1..Len(toGuest)
      /\ DOMAIN toGuest' = 1..(Len(toGuest) - 1)
  BY <1>1, <1>2, LenProperties, EmptySeq
<1>4. /\ \A i \in DOMAIN toGuest' : i \in Nat \ {0} /\ i + 1 \in DOMAIN toGuest /\ toGuest'[i] = toGuest[i + 1]
      /\ \A i \in DOMAIN toGuest : i # 1 => i - 1 \in DOMAIN toGuest'
  BY <1>2, <1>3
<1>5. \A i \in DOMAIN toGuest : i # 1 => toGuest'[i - 1] = toGuest[i]
  <2>1. \A i \in DOMAIN toGuest : (i - 1) + 1 = i  BY <1>3
  <2>2. QED  BY <1>4, <2>1
<1>6. \A i \in FrameAt' : i \in Nat \ {0} /\ i + 1 \in FrameAt /\ toGuest'[i] = toGuest[i + 1]
  BY <1>4 DEF FrameAt
<1>7. \A i \in FrameAt : i # 1 => i - 1 \in FrameAt' /\ toGuest'[i - 1] = toGuest[i]
  BY <1>4, <1>5 DEF FrameAt
<1>8. agreed' = agreed => RefusedOnly'  BY <1>1, <1>4 DEF RefusedOnly
<1>9. 1 \in DOMAIN toGuest /\ DOMAIN toGuest \subseteq Nat \ {0}  BY <1>3
<1>10. QED  BY <1>2, <1>6, <1>7, <1>8, <1>9

\* If it was not a frame, nothing is lost or reordered.
LEMMA OtherTaken ==
    ASSUME MatchInv, toGuest # <<>>, toGuest' = Tail(toGuest), Head(toGuest).kind # "frame",
           UNCHANGED <<agreed, linked, host, tick, frames, lost, seen>>
    PROVE  FramesSent' /\ NoneSkipped' /\ RefusedOnly'
<1>i. FramesSent /\ NoneSkipped  BY DEF MatchInv
<1>1. /\ \A i \in FrameAt' : i \in Nat \ {0} /\ i + 1 \in FrameAt /\ toGuest'[i] = toGuest[i + 1]
      /\ \A i \in FrameAt : i # 1 => i - 1 \in FrameAt' /\ toGuest'[i - 1] = toGuest[i]
      /\ RefusedOnly' /\ FrameAt \subseteq Nat \ {0}
  BY TakeGuestMessage DEF FrameAt
<1>2. 1 \notin FrameAt  BY TakeGuestMessage DEF FrameAt
<1>3. \A i \in FrameAt : i \in Nat \ {0} /\ i - 1 \in FrameAt' /\ toGuest'[i - 1] = toGuest[i]
  BY <1>1, <1>2
<1>4. ASSUME NEW i \in FrameAt'
      PROVE  /\ toGuest'[i].tick \in 1..tick' /\ toGuest'[i].frame = frames'[toGuest'[i].tick]
             /\ host' = "frame" => toGuest'[i].tick < tick'
             /\ toGuest'[i].frame.outcome # None => host' = "done" /\ toGuest'[i].tick = tick'
             /\ \/ toGuest'[i].tick = Len(seen') + 1
                \/ \E j \in FrameAt' : j < i /\ toGuest'[j].tick + 1 = toGuest'[i].tick
             /\ \A j \in FrameAt' : j < i => toGuest'[j].tick < toGuest'[i].tick
  <2>1. i + 1 \in FrameAt /\ toGuest'[i] = toGuest[i + 1] /\ i \in Nat \ {0}  BY <1>1
  <2>2. /\ toGuest[i + 1].tick \in 1..tick /\ toGuest[i + 1].frame = frames[toGuest[i + 1].tick]
        /\ host = "frame" => toGuest[i + 1].tick < tick
        /\ toGuest[i + 1].frame.outcome # None => host = "done" /\ toGuest[i + 1].tick = tick
        /\ \/ toGuest[i + 1].tick = Len(seen) + 1
           \/ \E j \in FrameAt : j < i + 1 /\ toGuest[j].tick + 1 = toGuest[i + 1].tick
        /\ \A j \in FrameAt : j < i + 1 => toGuest[j].tick < toGuest[i + 1].tick
    BY <1>i, <2>1 DEF FramesSent
  <2>3. ASSUME NEW j \in FrameAt, j < i + 1
        PROVE  j - 1 \in FrameAt' /\ j - 1 < i /\ toGuest'[j - 1] = toGuest[j]
    <3>1. j \in Nat \ {0} /\ i \in Nat  BY <1>3, <2>1
    <3>2. j - 1 < i  BY <2>3, <3>1
    <3>3. QED  BY <1>3, <3>2
  <2>4. ASSUME NEW j \in FrameAt', j < i
        PROVE  j + 1 \in FrameAt /\ j + 1 < i + 1 /\ toGuest'[j] = toGuest[j + 1]
    <3>1. j \in Nat \ {0} /\ i \in Nat  BY <1>1, <2>1
    <3>2. j + 1 < i + 1  BY <2>4, <3>1
    <3>3. QED  BY <1>1, <3>2
  <2>5. \/ toGuest'[i].tick = Len(seen') + 1
        \/ \E j \in FrameAt' : j < i /\ toGuest'[j].tick + 1 = toGuest'[i].tick
    BY <2>1, <2>2, <2>3
  <2>6. \A j \in FrameAt' : j < i => toGuest'[j].tick < toGuest'[i].tick  BY <2>1, <2>2, <2>4
  <2>7. QED  BY <2>1, <2>2, <2>5, <2>6
<1>5. FramesSent'  BY <1>4 DEF FramesSent
<1>6. NoneSkipped'
  <2>1. \A i \in FrameAt : i - 1 \in FrameAt' /\ toGuest'[i - 1] = toGuest[i]  BY <1>3
  <2>2. QED  BY <1>i, <2>1 DEF NoneSkipped
<1>7. QED  BY <1>1, <1>5, <1>6

\* What the guest sends for a frame.
Sent(t) ==
    /\ seq' = seq + 1
    /\ \E target \in Nat :
        toHost' = toHost \/ toHost' = Append(toHost, [seq |-> seq', target |-> target, source |-> t])

\* Sending the commands for a frame, or not getting to it.
LEMMA CommandsGoOut ==
    ASSUME NEW t \in Nat, Match!SendCommands(t)
    PROVE  guest' \in {"playing", "crashed"} /\ (Sent(t) \/ UNCHANGED <<toHost, seq>>)
<1>1. CASE ~linked /\ guest' = "crashed" /\ UNCHANGED <<toHost, seq>>  BY <1>1
<1>2. CASE \E target \in Match!Targets(t) :
              /\ seq' = seq + 1
              /\ toHost' = IF linked THEN Append(toHost, [seq |-> seq', target |-> target, source |-> t]) ELSE toHost
              /\ guest' = "playing"
  <2>1. PICK target \in Match!Targets(t) :
            /\ seq' = seq + 1 /\ guest' = "playing"
            /\ \/ toHost' = toHost
               \/ toHost' = Append(toHost, [seq |-> seq', target |-> target, source |-> t])
    BY <1>2
  <2>2. target \in Nat  BY EnginesAssumption DEF Match!Targets
  <2>3. QED  BY <2>1, <2>2 DEF Sent
<1>3. QED  BY <1>1, <1>2 DEF Match!SendCommands

\* The channels and the queues keep their types when the guest takes a message
\* and answers it.
LEMMA GuestTypes ==
    ASSUME MatchInv, toGuest # <<>>, toGuest' = Tail(toGuest),
           UNCHANGED <<hostPending, pending, lastSeq, ack, accepted>>,
           NEW t \in Nat, Sent(t) \/ UNCHANGED <<toHost, seq>>
    PROVE  MatchChannels' /\ MatchQueues'
<1>i. MatchChannels /\ MatchQueues  BY DEF MatchInv
<1>n. seq \in Nat /\ lastSeq \in 0..seq  BY <1>i DEF MatchQueues
<1>1. toGuest' \in Seq(GuestMessage)  BY TakeGuestMessage
<1>2. CASE UNCHANGED <<toHost, seq>>  BY <1>i, <1>1, <1>2 DEF MatchChannels, MatchQueues, Match!Ticks
<1>3. CASE Sent(t)
  <2>1. PICK target \in Nat :
            \/ toHost' = toHost
            \/ toHost' = Append(toHost, [seq |-> seq', target |-> target, source |-> t])
    BY <1>3 DEF Sent
  <2> DEFINE c == [seq |-> seq', target |-> target, source |-> t]
  <2>2. seq' = seq + 1  BY <1>3 DEF Sent
  <2>3. c \in Command /\ c.seq = seq'  BY <1>n, <2>2 DEF Command
  <2> HIDE DEF c
  <2>4. toHost \in Seq(Command) /\ \A i \in DOMAIN toHost : toHost[i].seq <= seq /\ toHost[i].seq \in Nat
    <3>1. toHost \in Seq(Command) /\ \A i \in DOMAIN toHost : toHost[i].seq <= seq
      BY <1>i DEF MatchChannels
    <3>2. \A i \in DOMAIN toHost : toHost[i] \in Command  BY <3>1
    <3>3. QED  BY <3>1, <3>2 DEF Command
  <2>5. toHost' \in Seq(Command) /\ \A i \in DOMAIN toHost' : toHost'[i].seq <= seq'
    <3>1. CASE toHost' = toHost  BY <1>n, <2>2, <2>4, <3>1
    <3>2. CASE toHost' = Append(toHost, c)
      <4>1. /\ toHost' \in Seq(Command) /\ Len(toHost') = Len(toHost) + 1
            /\ \A i \in 1..Len(toHost) : toHost'[i] = toHost[i]
            /\ toHost'[Len(toHost) + 1] = c
        BY <2>3, <2>4, <3>2, AppendProperties
      <4>2. /\ Len(toHost) \in Nat /\ DOMAIN toHost = 1..Len(toHost) /\ DOMAIN toHost' = 1..(Len(toHost) + 1)
        BY <2>4, <4>1, LenProperties
      <4>3. \A i \in DOMAIN toHost' : (i \in DOMAIN toHost /\ toHost'[i] = toHost[i]) \/ toHost'[i] = c
        BY <4>1, <4>2
      <4>4. QED  BY <1>n, <2>2, <2>3, <2>4, <4>1, <4>3
    <3>3. QED  BY <2>1, <3>1, <3>2 DEF c
  <2>6. MatchChannels'  BY <1>i, <1>1, <2>5 DEF MatchChannels
  <2>7. MatchQueues'  BY <1>i, <1>n, <2>2 DEF MatchQueues, Match!Ticks
  <2>8. QED  BY <2>6, <2>7
<1>4. QED  BY <1>2, <1>3

\* A step of the match keeps it.
LEMMA MatchKept == MatchInv /\ Match!Next => MatchInv'
<1> SUFFICES ASSUME MatchInv, Match!Next PROVE MatchInv'  OBVIOUS
<1>i. /\ MatchFlags /\ MatchHistory /\ MatchChannels /\ MatchQueues /\ CommandsKept /\ FramesSent
      /\ NoneSkipped /\ OutcomeLast /\ RefusedOnly /\ Match!FramesAgree
  BY DEF MatchInv
<1>f. MatchFlags'  BY FlagsKept
<1>0. UNCHANGED <<onDisconnect, agreed>>
  BY DEF Match!Next, Match!HostJoined, Match!ReceiveCommand, Match!SendAck, Match!ReceiverClosed, Match!Tick,
         Match!SendFrame, Match!HostDisconnected, Match!GuestJoins, Match!GuestReady, Match!ReceiveAck,
         Match!ReceiveFrame, Match!GuestDisconnected, Match!Disconnect
<1>s. /\ tick \in Nat /\ Len(seen) \in Nat /\ Len(seen) <= tick /\ DOMAIN frames = 1..tick
      /\ \A t \in 1..Len(seen) : seen[t] = frames[t]
  BY SeenIsShorter
\* the parts that a step leaves alone
<1>h. ASSUME UNCHANGED <<host, tick, frames, seen>>, guest' = guest PROVE MatchHistory' /\ OutcomeLast'
  BY <1>i, <1>0, <1>h DEF MatchHistory, OutcomeLast
<1>c. ASSUME UNCHANGED <<tick, frames, pending, accepted>> PROVE CommandsKept'
  BY <1>i, <1>c DEF CommandsKept, Match!Ticks, Match!Nothing
<1>q. ASSUME UNCHANGED <<hostPending, pending, accepted, seq, lastSeq>> PROVE MatchQueues'
  BY <1>i, <1>q DEF MatchQueues, Match!Ticks
<1>g. ASSUME UNCHANGED <<seen, frames, host>>, guest' = guest, linked' = linked \/ linked' = FALSE
      PROVE  Match!FramesAgree'
  BY <1>i, <1>0, <1>g DEF Match!FramesAgree
<1>t. ASSUME UNCHANGED <<toGuest, tick, frames, seen>> PROVE FramesStand /\ RefusedOnly'
  BY <1>i, <1>0, <1>t DEF FramesStand, FrameAt, RefusedOnly
<1>1. CASE Match!HostJoined
  <2>1. UNCHANGED <<linked, tick, frames, pending, lastSeq, ack, accepted, lost, guest, seen, seq>>
    BY <1>1 DEF Match!HostJoined
  <2>2. /\ host = "join" /\ toHost # <<>> /\ toHost' = Tail(toHost)
        /\ \/ /\ agreed /\ host' = "loop" /\ hostPending' = Match!QueuedAfter(0, hostPending)
              /\ toGuest' = Append(toGuest, [kind |-> "ready"]) \/ toGuest' = toGuest
           \/ /\ ~agreed /\ host' = "aborted" /\ hostPending' = hostPending
              /\ toGuest' = Append(toGuest, [kind |-> "reject"]) \/ toGuest' = toGuest
    BY <1>1 DEF Match!HostJoined, Match!ToGuest
  <2>3. PICK e \in {[kind |-> "ready"], [kind |-> "reject"]} :
            /\ toGuest' = Append(toGuest, e) \/ toGuest' = toGuest
            /\ e.kind = "reject" => ~agreed
    BY <2>2
  <2>4. e \in GuestMessage /\ e.kind \in {"ready", "reject"}  BY DEF GuestMessage
  <2>5. /\ FrameAt' = FrameAt /\ \A i \in FrameAt : toGuest'[i] = toGuest[i]
        /\ toGuest' \in Seq(GuestMessage)
        /\ (e.kind # "reject" => \A i \in DOMAIN toGuest' : toGuest'[i].kind = "reject" => ~agreed)
    BY <2>3, <2>4, StandsAfterOther
  <2>6. FramesStand  BY <2>1, <2>5 DEF FramesStand
  <2>7. FramesSent'  BY <2>2, <2>6, StandsOrdered
  <2>8. tick = 0 /\ Len(seen) = 0  BY <1>i, <1>s, <2>2 DEF NoneSkipped
  <2>9. NoneSkipped'  BY <1>i, <2>1, <2>2, <2>8 DEF NoneSkipped
  <2>10. MatchHistory' /\ OutcomeLast'  BY <1>i, <1>0, <1>s, <2>1, <2>2, <2>8 DEF MatchHistory, OutcomeLast
  <2>11. MatchChannels'
    <3>1. toHost' \in Seq(Command) /\ \A i \in DOMAIN toHost' : toHost'[i].seq <= seq
      BY <1>i, <2>2, HeadTailProperties DEF MatchChannels
    <3>2. QED  BY <1>i, <2>1, <2>5, <3>1 DEF MatchChannels
  <2>12. MatchQueues'
    <3>1. hostPending' \in [Match!Ticks -> {None} \union (0..MaxTicks)]
      BY <1>i, <2>2, EnginesAssumption DEF MatchQueues, Match!QueuedAfter
    <3>2. QED  BY <1>i, <2>1, <3>1 DEF MatchQueues, Match!Ticks
  <2>13. CommandsKept'  BY <1>c, <2>1
  <2>14. RefusedOnly'  BY <1>0, <2>2, <2>3, <2>5 DEF RefusedOnly
  <2>15. Match!FramesAgree'  BY <1>i, <1>0, <2>1, <2>2 DEF Match!FramesAgree
  <2>16. QED  BY <1>f, <2>7, <2>9, <2>10, <2>11, <2>12, <2>13, <2>14, <2>15 DEF MatchInv
<1>2. CASE Match!ReceiveCommand
  <2>1. UNCHANGED <<linked, toGuest, host, tick, frames, hostPending, lost, guest, seen, seq>>
    BY <1>2 DEF Match!ReceiveCommand
  <2> DEFINE c == Head(toHost)
  <2>2. /\ toHost # <<>> /\ toHost' = Tail(toHost)
        /\ ack' = [kind |-> "ack", seq |-> c.seq, accepted |-> Match!Accepts(c)]
        /\ \/ /\ Match!Accepts(c)
              /\ pending' = [pending EXCEPT ![c.target] = c] /\ lastSeq' = c.seq
              /\ accepted' = accepted \union {c}
           \/ UNCHANGED <<pending, lastSeq, accepted>>
    BY <1>2 DEF Match!ReceiveCommand
  <2>3. /\ c \in Command /\ c.seq <= seq
        /\ toHost' \in Seq(Command) /\ \A i \in DOMAIN toHost' : toHost'[i].seq <= seq'
    BY <1>i, <2>1, <2>2, HeadTailProperties DEF MatchChannels
  <2>4. c.seq \in Nat /\ c.target \in Nat  BY <2>3 DEF Command
  <2>5. Match!Accepts(c) \in BOOLEAN  BY DEF Match!Accepts
  <2>6. Match!Accepts(c) => /\ c.seq > lastSeq /\ c.target > tick /\ c.target <= tick + MaxLead
                            /\ pending[c.target] = Match!Nothing
    BY <1>s, <2>4 DEF Match!Accepts, Match!Late
  <2> DEFINE yes == Match!Accepts(c)
  <2> HIDE DEF c, yes
  <2>7. ack' \in AckMessage
    <3>1. ack' = [kind |-> "ack", seq |-> c.seq, accepted |-> yes] /\ yes \in BOOLEAN  BY <2>2, <2>5 DEF yes
    <3>2. QED  BY <2>4, <3>1 DEF AckMessage
  <2>8. FramesStand /\ RefusedOnly'  BY <1>t, <2>1
  <2>9. FramesSent' /\ NoneSkipped'
    BY <1>i, <2>1, <2>8, StandsOrdered, StandsUnskipped DEF NoneSkipped
  <2>10. MatchHistory' /\ OutcomeLast' /\ Match!FramesAgree'  BY <1>h, <1>g, <2>1
  <2>11. MatchChannels'  BY <1>i, <2>1, <2>3, <2>7 DEF MatchChannels
  <2>12. MatchQueues' /\ CommandsKept'
    <3>1. CASE UNCHANGED <<pending, lastSeq, accepted>>  BY <1>c, <1>q, <2>1, <3>1
    <3>2. CASE yes /\ pending' = [pending EXCEPT ![c.target] = c] /\ lastSeq' = c.seq
               /\ accepted' = accepted \union {c}
      <4>1. /\ c.seq > lastSeq /\ c.target > tick /\ c.target <= tick + MaxLead
            /\ pending[c.target] = Match!Nothing
        BY <2>6, <3>2 DEF yes
      <4>2. c.target \in Match!Ticks
        BY <1>i, <2>4, <4>1, EnginesAssumption DEF MatchHistory, Match!Ticks
      <4>3. MatchQueues'
        BY <1>i, <2>1, <2>3, <2>4, <3>2, <4>1, <4>2, EnginesAssumption DEF MatchQueues, Match!Ticks
      <4>4. /\ pending'[c.target] = c
            /\ \A t \in Match!Ticks : t # c.target => pending'[t] = pending[t]
        BY <1>i, <3>2, <4>2 DEF MatchQueues
      <4>5. \A d \in accepted : d.target > tick /\ d.target = c.target => d = Match!Nothing
        BY <1>i, <4>1 DEF CommandsKept
      <4>6. Match!Nothing.target = 0  BY DEF Match!Nothing
      <4>7. \A d \in accepted' : /\ d.target \in Match!Ticks
                                 /\ d.target <= tick => frames[d.target].guest = d
                                 /\ d.target > tick => pending'[d.target] = d
        BY <1>i, <1>s, <2>4, <3>2, <4>1, <4>2, <4>4, <4>5, <4>6 DEF CommandsKept
      <4>8. \A t \in Match!Ticks : t > tick /\ pending'[t] # Match!Nothing =>
                pending'[t] \in accepted' /\ pending'[t].target = t
        BY <1>i, <3>2, <4>4 DEF CommandsKept
      <4>9. \A t \in DOMAIN frames : frames[t].guest # Match!Nothing =>
                frames[t].guest \in accepted' /\ frames[t].guest.target = t
        BY <1>i, <3>2 DEF CommandsKept
      <4>10. CommandsKept'
        BY <2>1, <4>7, <4>8, <4>9 DEF CommandsKept, Match!Ticks, Match!Nothing
      <4>11. QED  BY <4>3, <4>10
    <3>3. QED  BY <2>2, <3>1, <3>2 DEF yes
  <2>13. QED  BY <1>f, <2>8, <2>9, <2>10, <2>11, <2>12 DEF MatchInv
<1>3. CASE Match!SendAck
  <2>1. UNCHANGED <<linked, toHost, host, tick, frames, hostPending, pending, lastSeq, accepted, guest, seen, seq>>
    BY <1>3 DEF Match!SendAck
  <2>2. /\ ack # None /\ ack' = None
        /\ toGuest' = Append(toGuest, ack) \/ toGuest' = toGuest
        /\ lost' = lost \/ ~linked
    BY <1>3 DEF Match!SendAck, Match!ToGuest
  <2>3. ack \in GuestMessage /\ ack.kind = "ack"  BY <1>i, <2>2, MessageShapes DEF MatchChannels
  <2>4. /\ FrameAt' = FrameAt /\ \A i \in FrameAt : toGuest'[i] = toGuest[i]
        /\ toGuest' \in Seq(GuestMessage)
        /\ \A i \in DOMAIN toGuest' : toGuest'[i].kind = "reject" => ~agreed
    BY <2>2, <2>3, StandsAfterOther
  <2>5. FramesStand  BY <2>1, <2>4 DEF FramesStand
  <2>6. FramesSent' /\ NoneSkipped'
    BY <1>i, <2>1, <2>2, <2>5, StandsOrdered, StandsUnskipped DEF NoneSkipped
  <2>7. RefusedOnly'  BY <1>0, <2>4 DEF RefusedOnly
  <2>8. MatchChannels'  BY <1>i, <2>1, <2>2, <2>4 DEF MatchChannels
  <2>9. MatchHistory' /\ OutcomeLast' /\ Match!FramesAgree' /\ MatchQueues' /\ CommandsKept'
    BY <1>h, <1>g, <1>q, <1>c, <2>1
  <2>10. QED  BY <1>f, <2>6, <2>7, <2>8, <2>9 DEF MatchInv
<1>4. CASE Match!ReceiverClosed
  <2>1. UNCHANGED <<linked, toHost, toGuest, host, tick, frames, hostPending, pending, lastSeq, ack, accepted,
                    guest, seen, seq>>
    BY <1>4 DEF Match!ReceiverClosed
  <2>2. ~linked  BY <1>4 DEF Match!ReceiverClosed
  <2>3. FramesStand /\ RefusedOnly'  BY <1>t, <2>1
  <2>4. FramesSent' /\ NoneSkipped'  BY <2>1, <2>2, <2>3, StandsOrdered, StandsUnskipped
  <2>5. MatchChannels'  BY <1>i, <2>1 DEF MatchChannels
  <2>6. MatchHistory' /\ OutcomeLast' /\ Match!FramesAgree' /\ MatchQueues' /\ CommandsKept'
    BY <1>h, <1>g, <1>q, <1>c, <2>1
  <2>7. QED  BY <1>f, <2>3, <2>4, <2>5, <2>6 DEF MatchInv
<1>5. CASE Match!Tick
  <2>1. UNCHANGED <<linked, toHost, toGuest, lastSeq, ack, accepted, lost, guest, seen, seq>>
    BY <1>5 DEF Match!Tick
  <2>2. /\ host = "loop" /\ host' = "frame" /\ tick < MaxTicks /\ tick' = tick + 1
        /\ hostPending' = Match!QueuedAfter(tick', [hostPending EXCEPT ![tick'] = None])
        /\ pending' = [pending EXCEPT ![tick'] = Match!Nothing]
    BY <1>5 DEF Match!Tick
  <2>3. PICK o \in {"host", "guest", "draw", None} : frames' = Append(frames, Match!Frame(tick + 1, o))
    BY <1>5 DEF Match!Tick, Match!Outcomes
  <2> DEFINE f == Match!Frame(tick + 1, o)
  <2>4. tick + 1 \in Match!Ticks /\ tick + 1 \in 0..MaxTicks /\ tick' \in Nat \ {0}
    BY <1>s, <2>2, EnginesAssumption DEF Match!Ticks
  <2>5. f \in FrameRecord /\ f.guest = pending[tick + 1] /\ f.outcome = o
    BY <1>i, <2>4 DEF Match!Frame, FrameRecord, MatchQueues
  <2>6. /\ frames' \in Seq(FrameRecord) /\ Len(frames') = tick + 1 /\ DOMAIN frames' = 1..(tick + 1)
        /\ \A t \in 1..tick : frames'[t] = frames[t]
        /\ frames'[tick + 1] = f
    <3>1. frames \in Seq(FrameRecord) /\ Len(frames) = tick  BY <1>i DEF MatchHistory
    <3> HIDE DEF f
    <3>2. frames' = Append(frames, f)  BY <2>3 DEF f
    <3>3. QED  BY <2>5, <3>1, <3>2, AppendProperties, LenProperties
  <2> HIDE DEF f
  <2>7. \A t \in 1..tick : frames[t].outcome = None  BY <1>i, <1>s, <2>2 DEF OutcomeLast
  <2>8. MatchHistory' /\ OutcomeLast'
    <3>1. MatchHistory'  BY <1>i, <1>0, <2>1, <2>2, <2>4, <2>6 DEF MatchHistory
    <3>2. \A t \in 1..(tick + 1) : t \in 1..tick \/ t = tick + 1  BY <1>s
    <3>3. QED  BY <2>2, <2>6, <2>7, <3>1, <3>2 DEF OutcomeLast
  <2>9. MatchChannels'  BY <1>i, <2>1 DEF MatchChannels
  <2>10. MatchQueues'
    <3>1. hostPending' \in [Match!Ticks -> {None} \union (0..MaxTicks)]
      BY <1>i, <2>2, <2>4, EnginesAssumption DEF MatchQueues, Match!QueuedAfter
    <3>2. Match!Nothing \in Command /\ Match!Nothing.target = 0  BY DEF Command, Match!Nothing
    <3>3. pending' \in [Match!Ticks -> Command] /\ \A t \in Match!Ticks : pending'[t].target \in {0, t}
      BY <1>i, <2>2, <3>2 DEF MatchQueues
    <3>4. QED  BY <1>i, <2>1, <3>1, <3>3 DEF MatchQueues, Match!Ticks
  <2>11. CommandsKept'
    <3>1. /\ pending'[tick + 1] = Match!Nothing
          /\ \A t \in Match!Ticks : t # tick + 1 => pending'[t] = pending[t]
      BY <1>i, <2>2, <2>4 DEF MatchQueues
    <3>2. \A d \in accepted : d.target \in Nat \ {0}
      BY <1>i, EnginesAssumption DEF CommandsKept, Match!Ticks
    <3>3. \A d \in accepted : /\ d.target \in Match!Ticks
                              /\ d.target <= tick + 1 => frames'[d.target].guest = d
                              /\ d.target > tick + 1 => pending'[d.target] = d
      <4>1. SUFFICES ASSUME NEW d \in accepted
                     PROVE  /\ d.target \in Match!Ticks
                            /\ d.target <= tick + 1 => frames'[d.target].guest = d
                            /\ d.target > tick + 1 => pending'[d.target] = d
        OBVIOUS
      <4> DEFINE n == d.target
      <4>2. /\ n \in Match!Ticks /\ n \in Nat \ {0}
            /\ n <= tick => frames[n].guest = d
            /\ n > tick => pending[n] = d
        BY <1>i, <3>2 DEF CommandsKept
      <4> HIDE DEF n
      <4>3. CASE n <= tick  BY <1>s, <2>6, <4>2, <4>3 DEF n
      <4>4. CASE n = tick + 1  BY <1>s, <2>5, <2>6, <4>2, <4>4 DEF n
      <4>5. CASE n > tick + 1  BY <1>s, <3>1, <4>2, <4>5 DEF n
      <4>6. QED  BY <1>s, <4>2, <4>3, <4>4, <4>5
    <3>4. \A t \in Match!Ticks : t > tick + 1 /\ pending'[t] # Match!Nothing =>
              pending'[t] \in accepted /\ pending'[t].target = t
      <4>1. Match!Ticks \subseteq Nat  BY EnginesAssumption DEF Match!Ticks
      <4>2. QED  BY <1>i, <1>s, <3>1, <4>1 DEF CommandsKept
    <3>5. \A t \in 1..(tick + 1) : frames'[t].guest # Match!Nothing =>
              frames'[t].guest \in accepted /\ frames'[t].guest.target = t
      <4>1. \A t \in 1..tick : frames[t].guest # Match!Nothing =>
                frames[t].guest \in accepted /\ frames[t].guest.target = t
        BY <1>i, <1>s DEF CommandsKept
      <4>2. f.guest # Match!Nothing => f.guest \in accepted /\ f.guest.target = tick + 1
        BY <1>i, <1>s, <2>4, <2>5 DEF CommandsKept
      <4>3. \A t \in 1..(tick + 1) : t \in 1..tick \/ t = tick + 1  BY <1>s
      <4>4. QED  BY <2>6, <4>1, <4>2, <4>3
    <3>6. QED  BY <2>1, <2>2, <2>6, <3>3, <3>4, <3>5 DEF CommandsKept, Match!Ticks, Match!Nothing
  <2>12. FrameAt' = FrameAt /\ RefusedOnly'  BY <1>i, <1>0, <2>1 DEF FrameAt, RefusedOnly
  <2>13. FramesSent'
    <3>1. \A i \in FrameAt : toGuest[i].tick \in 1..tick /\ toGuest[i].frame.outcome = None
      BY <1>i, <2>2 DEF FramesSent
    <3>2. \A i \in FrameAt : /\ toGuest[i].tick \in 1..(tick + 1) /\ toGuest[i].tick < tick + 1
                             /\ toGuest[i].frame = frames'[toGuest[i].tick]
      BY <1>i, <1>s, <2>6, <3>1 DEF FramesSent
    <3>3. QED  BY <1>i, <2>1, <2>2, <2>12, <3>1, <3>2 DEF FramesSent
  <2>14. NoneSkipped'
    <3>1. linked => tick = Len(seen) \/ \E i \in FrameAt : toGuest[i].tick = tick
      BY <1>i, <2>2 DEF NoneSkipped
    <3>2. linked => tick' = Len(seen') + 1 \/ \E i \in FrameAt' : toGuest'[i].tick + 1 = tick'
      BY <2>1, <2>2, <2>12, <3>1
    <3>3. tick' > 0 /\ (lost => ~linked)  BY <1>i, <2>4 DEF NoneSkipped
    <3>4. QED  BY <2>1, <2>2, <3>2, <3>3 DEF NoneSkipped
  <2>15. Match!FramesAgree'
    <3>1. IsPrefix(seen, Append(frames, f))
      <4>1. IsPrefix(seen, frames)  BY <1>i DEF Match!FramesAgree, IsPrefix
      <4>2. QED  BY <1>i, <2>5, <4>1, PrefixOfAppend DEF MatchHistory
    <3>2. IsPrefix(seen, frames')  BY <2>3, <3>1 DEF f
    <3>3. IsPrefix(seen, frames)'  BY <2>1, <3>2 DEF IsPrefix
    <3>4. QED  BY <1>i, <1>0, <2>1, <2>2, <3>3 DEF Match!FramesAgree, IsPrefix
  <2>16. QED  BY <1>f, <2>8, <2>9, <2>10, <2>11, <2>12, <2>13, <2>14, <2>15 DEF MatchInv
<1>6. CASE Match!SendFrame
  <2>1. UNCHANGED <<linked, toHost, tick, frames, hostPending, pending, lastSeq, ack, accepted, guest, seen, seq>>
    BY <1>6 DEF Match!SendFrame
  <2> DEFINE f == frames[tick]  m == [kind |-> "frame", tick |-> tick, frame |-> f]
             ends == IF f.outcome # None THEN "done" ELSE "loop"
  <2>2. /\ host = "frame"
        /\ \/ host' = ends /\ toGuest' = toGuest /\ lost' = lost /\ lost
           \/ host' = ends /\ lost' = lost /\ linked /\ toGuest' = Append(toGuest, m)
           \/ host' = ends /\ lost' = lost /\ ~linked /\ toGuest' = toGuest
           \/ host' \in {ends, "aborted"} /\ lost' = TRUE /\ ~linked /\ toGuest' = toGuest
    <3>1. frames[Len(frames)] = f  BY <1>i DEF MatchHistory
    <3>2. QED  BY <1>6, <3>1 DEF Match!SendFrame, Match!ToGuest
  <2>3. tick \in 1..tick /\ f \in FrameRecord
    BY <1>i, <1>s, <2>2 DEF NoneSkipped, MatchHistory
  <2>4. m \in GuestMessage /\ m.kind = "frame" /\ m.tick = tick /\ m.frame = f
    <3>1. m \in GuestMessage  BY <1>s, <2>3, MessageShapes
    <3>2. QED  BY <3>1
  <2>5. ends \in {"done", "loop"} /\ (f.outcome # None => ends = "done")  OBVIOUS
  <2> HIDE DEF m, f, ends
  <2>6. MatchHistory'  BY <1>i, <1>0, <2>1, <2>2, <2>5 DEF MatchHistory
  <2>7. OutcomeLast'
    <3>1. \A t \in DOMAIN frames : frames[t].outcome # None => t = tick  BY <1>i DEF OutcomeLast
    <3>2. \A t \in DOMAIN frames : frames[t].outcome # None => host' \in {"done", "aborted"}
      BY <2>2, <2>5, <3>1 DEF f
    <3>3. QED  BY <2>1, <3>1, <3>2 DEF OutcomeLast
  <2>8. MatchQueues' /\ CommandsKept'  BY <1>c, <1>q, <2>1
  <2>9. Match!FramesAgree'  BY <1>i, <1>0, <2>1, <2>2 DEF Match!FramesAgree
  <2>10. CASE toGuest' = toGuest
    <3>1. FrameAt' = FrameAt /\ RefusedOnly' /\ MatchChannels'
      BY <1>i, <1>0, <2>1, <2>10 DEF FrameAt, RefusedOnly, MatchChannels
    <3>2. \A i \in FrameAt : toGuest[i].frame.outcome = None  BY <1>i, <2>2 DEF FramesSent
    <3>3. FramesSent'  BY <1>i, <2>1, <2>2, <2>5, <2>10, <3>1, <3>2 DEF FramesSent
    <3>4. ~linked
      <4>1. toGuest' # Append(toGuest, m)
        <5>1. Len(Append(toGuest, m)) = Len(toGuest) + 1 /\ Len(toGuest) \in Nat
          BY <1>i, <2>4, AppendProperties, LenProperties DEF MatchChannels
        <5>2. QED  BY <2>10, <5>1
      <4>2. QED  BY <1>i, <2>2, <4>1 DEF NoneSkipped
    <3>5. NoneSkipped'  BY <1>i, <2>1, <2>2, <2>5, <3>4 DEF NoneSkipped
    <3>6. QED  BY <1>f, <2>6, <2>7, <2>8, <2>9, <3>1, <3>3, <3>5 DEF MatchInv
  <2>11. CASE linked /\ lost' = lost /\ host' = ends /\ toGuest' = Append(toGuest, m)
    <3> DEFINE n == Len(toGuest) + 1
    <3>1. /\ toGuest' \in Seq(GuestMessage) /\ Len(toGuest') = n
          /\ \A i \in 1..Len(toGuest) : toGuest'[i] = toGuest[i]
          /\ toGuest'[n] = m
      BY <1>i, <2>4, <2>11, AppendProperties DEF MatchChannels
    <3>2. n \in Nat /\ DOMAIN toGuest = 1..(n - 1) /\ DOMAIN toGuest' = 1..n /\ Len(toGuest) = n - 1
      BY <1>i, <3>1, LenProperties DEF MatchChannels
    <3> HIDE DEF n
    <3>3. \A i \in 1..n : i \in 1..(n - 1) \/ i = n  BY <3>2
    <3>4. /\ \A i \in FrameAt' : i \in FrameAt \/ i = n
          /\ n \in FrameAt' /\ FrameAt \subseteq FrameAt'
          /\ \A i \in FrameAt : toGuest'[i] = toGuest[i] /\ i < n /\ i \in Nat
      BY <2>4, <3>1, <3>2, <3>3 DEF FrameAt
    <3>5. MatchChannels'  BY <1>i, <2>1, <3>1 DEF MatchChannels
    <3>6. RefusedOnly'  BY <1>i, <1>0, <2>4, <3>1, <3>2, <3>3 DEF RefusedOnly
    <3>7. \A i \in FrameAt : toGuest[i].frame.outcome = None /\ toGuest[i].tick < tick
      BY <1>i, <2>2 DEF FramesSent
    <3>8. tick = Len(seen) + 1 \/ \E i \in FrameAt : toGuest[i].tick + 1 = tick
      BY <1>i, <2>2, <2>11 DEF NoneSkipped
    <3>9. ASSUME NEW i \in FrameAt'
          PROVE  /\ toGuest'[i].tick \in 1..tick' /\ toGuest'[i].frame = frames'[toGuest'[i].tick]
                 /\ host' = "frame" => toGuest'[i].tick < tick'
                 /\ toGuest'[i].frame.outcome # None => host' = "done" /\ toGuest'[i].tick = tick'
                 /\ \/ toGuest'[i].tick = Len(seen') + 1
                    \/ \E j \in FrameAt' : j < i /\ toGuest'[j].tick + 1 = toGuest'[i].tick
                 /\ \A j \in FrameAt' : j < i => toGuest'[j].tick < toGuest'[i].tick
      <4>1. CASE i = n
        <5>1. /\ toGuest'[i].tick = tick /\ toGuest'[i].frame = frames[tick]
              /\ toGuest'[i].frame = f
          BY <2>4, <3>1, <4>1 DEF f
        <5>2. \/ toGuest'[i].tick = Len(seen') + 1
              \/ \E j \in FrameAt' : j < i /\ toGuest'[j].tick + 1 = toGuest'[i].tick
          BY <2>1, <3>4, <3>8, <4>1, <5>1
        <5>3. \A j \in FrameAt' : j < i => toGuest'[j].tick < toGuest'[i].tick
          BY <3>2, <3>4, <3>7, <4>1, <5>1
        <5>4. QED  BY <2>1, <2>3, <2>5, <2>11, <5>1, <5>2, <5>3
      <4>2. CASE i \in FrameAt
        <5>1. toGuest'[i] = toGuest[i] /\ i < n /\ i \in Nat /\ toGuest[i].frame.outcome = None
          BY <3>4, <3>7, <4>2
        <5>2. \A j \in FrameAt' : j < i => j \in FrameAt /\ toGuest'[j] = toGuest[j]
          BY <3>2, <3>4, <5>1
        <5>3. /\ toGuest[i].tick \in 1..tick /\ toGuest[i].frame = frames[toGuest[i].tick]
              /\ \/ toGuest[i].tick = Len(seen) + 1
                 \/ \E j \in FrameAt : j < i /\ toGuest[j].tick + 1 = toGuest[i].tick
              /\ \A j \in FrameAt : j < i => toGuest[j].tick < toGuest[i].tick
          BY <1>i, <4>2 DEF FramesSent
        <5>4. \/ toGuest'[i].tick = Len(seen') + 1
              \/ \E j \in FrameAt' : j < i /\ toGuest'[j].tick + 1 = toGuest'[i].tick
          BY <2>1, <3>4, <5>1, <5>3
        <5>5. \A j \in FrameAt' : j < i => toGuest'[j].tick < toGuest'[i].tick
          BY <5>1, <5>2, <5>3
        <5>6. host' # "frame"  BY <2>5, <2>11
        <5>7. QED  BY <2>1, <5>1, <5>3, <5>4, <5>5, <5>6
      <4>3. QED  BY <3>4, <4>1, <4>2
    <3>10. FramesSent'  BY <3>9 DEF FramesSent
    <3>11. NoneSkipped'
      <4>1. toGuest'[n].tick = tick'  BY <2>1, <2>4, <3>1
      <4>2. lost' => ~linked'  BY <1>i, <2>1, <2>11 DEF NoneSkipped
      <4>3. QED  BY <2>5, <2>11, <3>4, <4>1, <4>2 DEF NoneSkipped
    <3>12. QED  BY <1>f, <2>6, <2>7, <2>8, <2>9, <3>5, <3>6, <3>10, <3>11 DEF MatchInv
  <2>12. QED  BY <2>2, <2>10, <2>11
<1>7. CASE Match!HostDisconnected
  <2>1. UNCHANGED <<linked, toHost, toGuest, tick, frames, hostPending, pending, lastSeq, ack, accepted, lost,
                    guest, seen, seq>>
    BY <1>7 DEF Match!HostDisconnected
  <2>2. host \in {"join", "loop"} /\ host' = "aborted"  BY <1>7 DEF Match!HostDisconnected
  <2>3. FramesStand /\ RefusedOnly'  BY <1>t, <2>1
  <2>4. FramesSent'  BY <2>2, <2>3, StandsOrdered
  <2>5. NoneSkipped'  BY <1>i, <2>1, <2>2 DEF NoneSkipped
  <2>6. MatchHistory' /\ OutcomeLast'  BY <1>i, <1>0, <2>1, <2>2 DEF MatchHistory, OutcomeLast
  <2>7. MatchChannels'  BY <1>i, <2>1 DEF MatchChannels
  <2>8. MatchQueues' /\ CommandsKept'  BY <1>q, <1>c, <2>1
  <2>9. Match!FramesAgree'  BY <1>i, <1>0, <2>1, <2>2 DEF Match!FramesAgree
  <2>10. QED  BY <1>f, <2>3, <2>4, <2>5, <2>6, <2>7, <2>8, <2>9 DEF MatchInv
<1>8. CASE Match!GuestJoins
  <2>1. UNCHANGED <<linked, toGuest, host, tick, frames, hostPending, pending, lastSeq, ack, accepted, lost, seen, seq>>
    BY <1>8 DEF Match!GuestJoins
  <2>2. /\ guest = "start" /\ guest' = "ready"
        /\ toHost' = <<Match!Nothing>> \/ toHost' = toHost
    BY <1>8 DEF Match!GuestJoins
  <2>3. FramesStand /\ RefusedOnly'  BY <1>t, <2>1
  <2>4. FramesSent' /\ NoneSkipped'
    BY <1>i, <2>1, <2>3, StandsOrdered, StandsUnskipped DEF NoneSkipped
  <2>5. MatchHistory' /\ OutcomeLast'  BY <1>i, <1>0, <2>1, <2>2 DEF MatchHistory, OutcomeLast
  <2>6. MatchChannels'
    <3>1. Match!Nothing \in Command /\ Match!Nothing.seq = 0  BY DEF Command, Match!Nothing
    <3>2. seq \in Nat  BY <1>i DEF MatchQueues
    <3>3. CASE toHost' = <<Match!Nothing>>
      <4>1. toHost' \in Seq(Command) /\ \A i \in DOMAIN toHost' : toHost'[i] = Match!Nothing
        BY <3>1, <3>3
      <4>2. QED  BY <1>i, <2>1, <3>1, <3>2, <4>1 DEF MatchChannels
    <3>4. CASE toHost' = toHost  BY <1>i, <2>1, <3>4 DEF MatchChannels
    <3>5. QED  BY <2>2, <3>3, <3>4
  <2>7. MatchQueues' /\ CommandsKept'  BY <1>q, <1>c, <2>1
  <2>8. Match!FramesAgree'  BY <1>i, <1>0, <2>1, <2>2 DEF Match!FramesAgree
  <2>9. QED  BY <1>f, <2>3, <2>4, <2>5, <2>6, <2>7, <2>8 DEF MatchInv
<1>9. CASE Match!GuestReady
  <2>1. UNCHANGED <<linked, host, tick, frames, hostPending, pending, lastSeq, ack, accepted, lost, seen>>
    BY <1>9 DEF Match!GuestReady
  <2>2. /\ guest = "ready" /\ toGuest # <<>> /\ toGuest' = Tail(toGuest)
        /\ \/ Head(toGuest).kind = "ready" /\ Match!SendCommands(0)
           \/ Head(toGuest).kind = "reject" /\ guest' = "aborted" /\ UNCHANGED <<toHost, seq>>
    BY <1>9 DEF Match!GuestReady, Match!Received
  <2>3. /\ guest' \in {"playing", "crashed", "aborted"} /\ (guest' = "aborted" => ~agreed)
        /\ Sent(0) \/ UNCHANGED <<toHost, seq>>
    <3>1. CASE Head(toGuest).kind = "ready" /\ Match!SendCommands(0)  BY <3>1, CommandsGoOut
    <3>2. CASE Head(toGuest).kind = "reject" /\ guest' = "aborted" /\ UNCHANGED <<toHost, seq>>
      <4>1. toGuest[1].kind = "reject" /\ 1 \in DOMAIN toGuest  BY <2>2, <3>2, TakeGuestMessage
      <4>2. QED  BY <1>i, <3>2, <4>1 DEF RefusedOnly
    <3>3. QED  BY <2>2, <3>1, <3>2
  <2>4. Head(toGuest).kind # "frame"  BY <2>2
  <2>5. FramesSent' /\ NoneSkipped' /\ RefusedOnly'  BY <1>0, <2>1, <2>2, <2>4, OtherTaken
  <2>6. MatchHistory' /\ OutcomeLast'  BY <1>i, <1>0, <2>1, <2>3 DEF MatchHistory, OutcomeLast
  <2>7. MatchChannels' /\ MatchQueues'  BY <1>s, <2>1, <2>2, <2>3, GuestTypes
  <2>8. CommandsKept'  BY <1>c, <2>1
  <2>9. Match!FramesAgree'  BY <1>i, <1>0, <2>1, <2>2, <2>3 DEF Match!FramesAgree
  <2>10. QED  BY <1>f, <2>5, <2>6, <2>7, <2>8, <2>9 DEF MatchInv
<1>10. CASE Match!ReceiveAck
  <2>1. UNCHANGED <<linked, toHost, host, tick, frames, hostPending, pending, lastSeq, ack, accepted, lost, guest,
                    seen, seq>>
    BY <1>10 DEF Match!ReceiveAck
  <2>2. toGuest # <<>> /\ toGuest' = Tail(toGuest) /\ Head(toGuest).kind # "frame"
    BY <1>10 DEF Match!ReceiveAck, Match!Received
  <2>3. FramesSent' /\ NoneSkipped' /\ RefusedOnly'  BY <1>0, <2>1, <2>2, OtherTaken
  <2>4. MatchHistory' /\ OutcomeLast' /\ Match!FramesAgree' /\ CommandsKept'  BY <1>h, <1>g, <1>c, <2>1
  <2>5. MatchChannels' /\ MatchQueues'  BY <1>s, <2>1, <2>2, GuestTypes
  <2>6. QED  BY <1>f, <2>3, <2>4, <2>5 DEF MatchInv
<1>11. CASE Match!ReceiveFrame
  <2>1. UNCHANGED <<linked, host, tick, frames, hostPending, pending, lastSeq, ack, accepted, lost>>
    BY <1>11 DEF Match!ReceiveFrame
  <2> DEFINE m == Head(toGuest)  k == Len(seen) + 1
  <2>2. /\ guest = "playing" /\ toGuest # <<>> /\ toGuest' = Tail(toGuest) /\ m.kind = "frame"
    BY <1>11 DEF Match!ReceiveFrame, Match!Received
  <2>3. /\ m = toGuest[1] /\ 1 \in FrameAt /\ m \in GuestMessage
        /\ \A i \in FrameAt : i \in Nat \ {0}
    BY <2>2, TakeGuestMessage DEF FrameAt
  <2>4. /\ m.tick = k /\ k \in 1..tick /\ m.frame = frames[k] /\ m.frame \in FrameRecord /\ k = Len(seen) + 1
        /\ m.frame.outcome # None => host = "done" /\ tick = k
        /\ \A i \in FrameAt : i # 1 => toGuest[i].tick > k
    <3>1. ~\E j \in FrameAt : j < 1  BY <2>3
    <3>2. \A i \in FrameAt : i # 1 => 1 < i  BY <2>3
    <3>3. m.frame \in FrameRecord  BY <2>2, <2>3, MessageShapes
    <3> HIDE DEF m
    <3>4. m.tick = Len(seen) + 1 /\ m.tick \in 1..tick /\ m.frame = frames[m.tick]
      BY <1>i, <2>3, <3>1 DEF FramesSent
    <3>5. m.frame.outcome # None => host = "done" /\ m.tick = tick  BY <1>i, <2>3 DEF FramesSent
    <3>6. \A i \in FrameAt : i # 1 => toGuest[1].tick < toGuest[i].tick
      BY <1>i, <2>3, <3>2 DEF FramesSent
    <3>7. \A i \in FrameAt : toGuest[i].tick \in 1..tick  BY <1>i DEF FramesSent
    <3>8. QED  BY <1>s, <2>3, <3>3, <3>4, <3>5, <3>6, <3>7
  <2>5. /\ seen' = Append(seen, m.frame)
        /\ \/ m.frame.outcome # None /\ guest' = "done" /\ UNCHANGED <<toHost, seq>>
           \/ m.frame.outcome = None /\ Match!SendCommands(k)
    BY <1>11, <2>4 DEF Match!ReceiveFrame, Match!Follows
  <2>6. /\ (guest' = "done" /\ m.frame.outcome # None) \/ guest' \in {"playing", "crashed"}
        /\ Sent(k) \/ UNCHANGED <<toHost, seq>>
    <3> HIDE DEF k
    <3>1. ASSUME Match!SendCommands(k) PROVE guest' \in {"playing", "crashed"} /\ (Sent(k) \/ UNCHANGED <<toHost, seq>>)
      BY <2>4, <3>1, CommandsGoOut
    <3>2. QED  BY <2>5, <3>1
  <2> HIDE DEF m, k
  <2>7. /\ seen' \in Seq(FrameRecord) /\ Len(seen') = k
        /\ \A i \in 1..Len(seen) : seen'[i] = seen[i]
        /\ seen'[k] = m.frame
    BY <1>i, <2>4, <2>5, AppendProperties DEF MatchHistory
  <2>8. \A t \in 1..k : seen'[t] = frames[t]
    <3>1. \A t \in 1..k : t \in 1..Len(seen) \/ t = k  BY <1>s, <2>4
    <3>2. QED  BY <1>s, <2>4, <2>7, <3>1
  <2>9. MatchHistory' /\ OutcomeLast'
    BY <1>i, <1>0, <2>1, <2>6, <2>7 DEF MatchHistory, OutcomeLast
  <2>10. MatchChannels' /\ MatchQueues'  BY <2>1, <2>2, <2>4, <2>6, GuestTypes
  <2>11. CommandsKept'  BY <1>c, <2>1
  <2>12. Match!FramesAgree'
    <3>1. frames \in Seq(FrameRecord) /\ Len(frames) = tick  BY <1>i DEF MatchHistory
    <3>2. IsPrefix(seen', frames)  BY <2>4, <2>7, <2>8, <3>1, PrefixByEntries
    <3>3. IsPrefix(seen, frames)'  BY <2>1, <3>2 DEF IsPrefix
    <3>4. guest' # "aborted"  BY <2>6
    <3>5. ASSUME guest' = "done" PROVE seen' = frames' /\ host' = "done"
      <4>1. host = "done" /\ tick = k  BY <2>4, <2>6, <3>5
      <4>2. seen' = frames  BY <2>7, <2>8, <3>1, <4>1, SeqEqual
      <4>3. QED  BY <2>1, <4>1, <4>2
    <3>6. QED  BY <3>3, <3>4, <3>5 DEF Match!FramesAgree, IsPrefix
  <2>13. /\ \A i \in FrameAt' : i \in Nat \ {0} /\ i + 1 \in FrameAt /\ toGuest'[i] = toGuest[i + 1]
         /\ \A i \in FrameAt : i # 1 => i - 1 \in FrameAt' /\ toGuest'[i - 1] = toGuest[i]
         /\ RefusedOnly'
    BY <1>0, <2>2, TakeGuestMessage
  <2>14. FramesSent'
    <3>1. ASSUME NEW i \in FrameAt'
          PROVE  /\ toGuest'[i].tick \in 1..tick' /\ toGuest'[i].frame = frames'[toGuest'[i].tick]
                 /\ host' = "frame" => toGuest'[i].tick < tick'
                 /\ toGuest'[i].frame.outcome # None => host' = "done" /\ toGuest'[i].tick = tick'
                 /\ \/ toGuest'[i].tick = Len(seen') + 1
                    \/ \E j \in FrameAt' : j < i /\ toGuest'[j].tick + 1 = toGuest'[i].tick
                 /\ \A j \in FrameAt' : j < i => toGuest'[j].tick < toGuest'[i].tick
      <4>1. i + 1 \in FrameAt /\ toGuest'[i] = toGuest[i + 1] /\ i \in Nat \ {0} /\ i + 1 # 1  BY <2>13
      <4>2. /\ toGuest[i + 1].tick \in 1..tick /\ toGuest[i + 1].frame = frames[toGuest[i + 1].tick]
            /\ host = "frame" => toGuest[i + 1].tick < tick
            /\ toGuest[i + 1].frame.outcome # None => host = "done" /\ toGuest[i + 1].tick = tick
            /\ \/ toGuest[i + 1].tick = Len(seen) + 1
               \/ \E j \in FrameAt : j < i + 1 /\ toGuest[j].tick + 1 = toGuest[i + 1].tick
            /\ \A j \in FrameAt : j < i + 1 => toGuest[j].tick < toGuest[i + 1].tick
        BY <1>i, <4>1 DEF FramesSent
      <4>3. PICK j \in FrameAt : j < i + 1 /\ toGuest[j].tick + 1 = toGuest[i + 1].tick
        <5>1. toGuest[i + 1].tick > k  BY <2>4, <4>1
        <5>2. toGuest[i + 1].tick # Len(seen) + 1  BY <1>s, <2>4, <4>2, <5>1
        <5>3. QED  BY <4>2, <5>2
      <4>4. \/ toGuest'[i].tick = Len(seen') + 1
            \/ \E h \in FrameAt' : h < i /\ toGuest'[h].tick + 1 = toGuest'[i].tick
        <5>1. CASE j = 1  BY <2>3, <2>4, <2>7, <4>1, <4>3, <5>1
        <5>2. CASE j # 1
          <6>1. j - 1 \in FrameAt' /\ toGuest'[j - 1] = toGuest[j] /\ j - 1 < i
            BY <2>3, <2>13, <4>1, <4>3, <5>2
          <6>2. QED  BY <4>1, <4>3, <6>1
        <5>3. QED  BY <5>1, <5>2
      <4>5. ASSUME NEW h \in FrameAt', h < i PROVE toGuest'[h].tick < toGuest'[i].tick
        <5>1. h + 1 \in FrameAt /\ toGuest'[h] = toGuest[h + 1] /\ h + 1 < i + 1  BY <2>13, <4>1, <4>5
        <5>2. QED  BY <4>1, <4>2, <5>1
      <4>6. QED  BY <2>1, <4>1, <4>2, <4>4, <4>5
    <3>2. QED  BY <3>1 DEF FramesSent
  <2>15. NoneSkipped'
    <3>1. ASSUME linked, host \in {"loop", "done"}
          PROVE  tick = k \/ \E i \in FrameAt' : toGuest'[i].tick = tick
      <4>1. PICK i \in FrameAt : toGuest[i].tick = tick
        <5>1. tick # Len(seen)  BY <1>s, <2>4
        <5>2. QED  BY <1>i, <3>1, <5>1 DEF NoneSkipped
      <4>2. QED  BY <2>3, <2>4, <2>13, <4>1
    <3>2. ASSUME linked, host = "frame"
          PROVE  tick = k + 1 \/ \E i \in FrameAt' : toGuest'[i].tick + 1 = tick
      <4>1. k < tick
        <5>1. m.tick < tick  BY <1>i, <2>3, <3>2 DEF FramesSent
        <5>2. QED  BY <2>4, <5>1
      <4>2. PICK i \in FrameAt : toGuest[i].tick + 1 = tick
        <5>1. tick # Len(seen) + 1  BY <1>s, <2>4, <4>1
        <5>2. QED  BY <1>i, <3>2, <5>1 DEF NoneSkipped
      <4>3. CASE i = 1  BY <2>3, <2>4, <4>2, <4>3
      <4>4. CASE i # 1  BY <2>13, <4>2, <4>4
      <4>5. QED  BY <4>3, <4>4
    <3>3. linked /\ host \in {"loop", "done"} =>
              tick' = Len(seen') \/ \E i \in FrameAt' : toGuest'[i].tick = tick'
      BY <2>1, <2>7, <3>1
    <3>4. linked /\ host = "frame" =>
              tick' = Len(seen') + 1 \/ \E i \in FrameAt' : toGuest'[i].tick + 1 = tick'
      BY <2>1, <2>7, <3>2
    <3>5. /\ host = "join" => tick = 0
          /\ host = "frame" => tick > 0
          /\ lost => ~linked
      BY <1>i DEF NoneSkipped
    <3>6. QED  BY <2>1, <3>3, <3>4, <3>5 DEF NoneSkipped
  <2>16. QED  BY <1>f, <2>9, <2>10, <2>11, <2>12, <2>13, <2>14, <2>15 DEF MatchInv
<1>12. CASE Match!GuestDisconnected
  <2>1. UNCHANGED <<linked, toHost, toGuest, host, tick, frames, hostPending, pending, lastSeq, ack, accepted, lost,
                    seen, seq>>
    BY <1>12 DEF Match!GuestDisconnected
  <2>2. ~linked /\ guest' = "aborted"  BY <1>12 DEF Match!GuestDisconnected
  <2>3. FramesStand /\ RefusedOnly'  BY <1>t, <2>1
  <2>4. FramesSent' /\ NoneSkipped'  BY <2>1, <2>2, <2>3, StandsOrdered, StandsUnskipped
  <2>5. MatchHistory' /\ OutcomeLast'  BY <1>i, <1>0, <2>1, <2>2 DEF MatchHistory, OutcomeLast
  <2>6. MatchChannels'  BY <1>i, <2>1 DEF MatchChannels
  <2>7. MatchQueues' /\ CommandsKept'  BY <1>q, <1>c, <2>1
  <2>8. Match!FramesAgree'  BY <1>i, <1>0, <2>1, <2>2 DEF Match!FramesAgree
  <2>9. QED  BY <1>f, <2>3, <2>4, <2>5, <2>6, <2>7, <2>8 DEF MatchInv
<1>13. CASE Match!Disconnect
  <2>1. UNCHANGED <<toHost, toGuest, host, tick, frames, hostPending, pending, lastSeq, ack, accepted, lost, guest,
                    seen, seq>>
    BY <1>13 DEF Match!Disconnect
  <2>2. linked' = FALSE  BY <1>13 DEF Match!Disconnect
  <2>3. FramesStand /\ RefusedOnly'  BY <1>t, <2>1
  <2>4. FramesSent' /\ NoneSkipped'  BY <2>1, <2>2, <2>3, StandsOrdered, StandsUnskipped
  <2>5. MatchChannels'  BY <1>i, <2>1 DEF MatchChannels
  <2>6. MatchHistory' /\ OutcomeLast' /\ Match!FramesAgree' /\ MatchQueues' /\ CommandsKept'
    BY <1>h, <1>g, <1>q, <1>c, <2>1, <2>2
  <2>7. QED  BY <1>f, <2>3, <2>4, <2>5, <2>6 DEF MatchInv
<1>14. QED
  BY <1>1, <1>2, <1>3, <1>4, <1>5, <1>6, <1>7, <1>8, <1>9, <1>10, <1>11, <1>12, <1>13 DEF Match!Next

\* A step of another engine leaves the match alone.
LEMMA MatchStands == MatchInv /\ UNCHANGED match => MatchInv'
<1> SUFFICES ASSUME MatchInv, UNCHANGED match PROVE MatchInv'  OBVIOUS
<1>0. UNCHANGED <<onDisconnect, agreed, linked, toHost, toGuest, host, tick, frames, hostPending, pending, lastSeq,
                  ack, accepted, lost, guest, seen, seq>>
  BY DEF match
<1>1. MatchFlags' /\ MatchHistory' /\ MatchChannels' /\ MatchQueues'
  BY <1>0 DEF MatchInv, MatchFlags, MatchHistory, MatchChannels, MatchQueues, Match!Ticks
<1>2. CommandsKept'  BY <1>0 DEF MatchInv, CommandsKept, Match!Ticks, Match!Nothing
<1>3. FrameAt' = FrameAt  BY <1>0 DEF FrameAt
<1>4. FramesSent' /\ NoneSkipped'  BY <1>0, <1>3 DEF MatchInv, FramesSent, NoneSkipped
<1>5. OutcomeLast' /\ RefusedOnly' /\ Match!FramesAgree'
  BY <1>0 DEF MatchInv, OutcomeLast, RefusedOnly, Match!FramesAgree
<1>6. QED  BY <1>1, <1>2, <1>4, <1>5 DEF MatchInv
-----------------------------------------------------------------------------
(* The decisions of a round.  The records of the file and its marks.        *)
DecisionRecord == [round : 1..Rounds, origin : {"explicit", "intent", "policy"}]
WindowTypes ==
    /\ Window!TypeOK
    /\ decisions \in Seq(DecisionRecord) /\ looked \in 0..Len(decisions)
    /\ used \in [1..Rounds -> Nat]

(* A round has a decision only once it is played, and a person's window     *)
(* never gets to the place where an engine plays by itself.                 *)
Played ==
    /\ stage # "idle" => window > 0
    /\ stage = "hold" => control = "human"
    /\ \A r \in 1..Rounds : used[r] # 0 => r < window \/ (r = window /\ stage \in {"close", "idle"})

(* Only the windows so far have marked records, this one only with the one  *)
(* it took: none of a later round is out of its reach.                      *)
MarkedByNow ==
    \A i \in consumed : \/ decisions[i].round < window
                        \/ decisions[i].round = window /\ used[window] # 0

WindowInv ==
    WindowTypes /\ Played /\ MarkedByNow /\ Window!FutureDecisionsKept /\ Window!ExplicitBeatsPolicy

\* A set of numbers with a bound has a largest one.
LEMMA LargestNumber ==
    ASSUME NEW n \in Nat, NEW S \in SUBSET (1..n), S # {}
    PROVE  \E i \in S : \A j \in S : j <= i
<1> DEFINE R == OpToRel(<, Nat)  T == {n - i : i \in S}
<1>1. T \subseteq Nat /\ T # {}
  <2>1. \A i \in S : i \in 1..n  OBVIOUS
  <2>2. \A i \in S : n - i \in Nat  BY <2>1
  <2>3. QED  BY <2>2
<1>2. IsWellFoundedOn(R, Nat)  BY NatLessThanWellFounded
<1>3. \A x, y \in Nat : x < y => <<x, y>> \in R  BY DEF OpToRel
<1> HIDE DEF R, T
<1>4. PICK x \in T : \A y \in T : ~(<<y, x>> \in R)  BY <1>1, <1>2, WFMin
<1>5. \A y \in T : ~(y < x)  BY <1>1, <1>3, <1>4
<1>6. PICK i \in S : x = n - i  BY <1>4 DEF T
<1>7. ASSUME NEW j \in S PROVE j <= i
  <2>1. n - j \in T  BY DEF T
  <2>2. ~(n - j < n - i)  BY <1>5, <1>6, <2>1
  <2>3. QED  BY <2>2
<1>8. QED  BY <1>7

\* Best: a candidate that no other one goes before, the last of its kind.
LEMMA BestExists ==
    ASSUME WindowTypes, NEW r \in 1..Rounds, Window!Candidates(r) # {}
    PROVE  /\ Window!Best(r) \in Window!Candidates(r)
           /\ \A j \in Window!Candidates(r) : Window!Priority(j) <= Window!Priority(Window!Best(r))
<1> DEFINE C == Window!Candidates(r)  H == {i \in C : Window!Priority(i) = 100}
           Beats(i) == \A j \in C : \/ Window!Priority(j) < Window!Priority(i)
                                    \/ Window!Priority(j) = Window!Priority(i) /\ j <= i
<1>1. Len(decisions) \in Nat /\ DOMAIN decisions = 1..Len(decisions)  BY LenProperties DEF WindowTypes
<1>2. C \in SUBSET (1..Len(decisions))  BY <1>1 DEF Window!Candidates
<1>3. \A i \in C : Window!Priority(i) \in {50, 100}  BY DEF Window!Priority
<1>4. Window!Best(r) = CHOOSE i \in C : Beats(i)  BY DEF Window!Best
<1> HIDE DEF C
<1>5. \E i \in C : Beats(i)
  <2>1. CASE H = {}
    <3>1. \A i \in C : Window!Priority(i) = 50  BY <1>3, <2>1
    <3>2. PICK i \in C : \A j \in C : j <= i  BY <1>1, <1>2, LargestNumber DEF C
    <3>3. QED  BY <3>1, <3>2
  <2>2. CASE H # {}
    <3>1. H \in SUBSET (1..Len(decisions))  BY <1>2
    <3> HIDE DEF H
    <3>2. PICK i \in H : \A j \in H : j <= i  BY <1>1, <2>2, <3>1, LargestNumber
    <3>3. i \in C /\ Window!Priority(i) = 100  BY DEF H
    <3>4. ASSUME NEW j \in C
          PROVE  \/ Window!Priority(j) < Window!Priority(i)
                 \/ Window!Priority(j) = Window!Priority(i) /\ j <= i
      <4>1. CASE Window!Priority(j) = 50  BY <3>3, <4>1
      <4>2. CASE Window!Priority(j) = 100
        <5>1. j \in H  BY <4>2 DEF H
        <5>2. QED  BY <3>2, <3>3, <4>2, <5>1
      <4>3. QED  BY <1>3, <4>1, <4>2
    <3>5. QED  BY <3>3, <3>4
  <2>3. QED  BY <2>1, <2>2
<1>6. Window!Best(r) \in C /\ Beats(Window!Best(r))  BY <1>4, <1>5
<1>7. ASSUME NEW j \in C PROVE Window!Priority(j) <= Window!Priority(Window!Best(r))
  BY <1>3, <1>6
<1>8. QED  BY <1>6, <1>7 DEF C

\* Max: the latest record of a round is one of its records.
LEMMA LatestExists ==
    ASSUME WindowTypes, NEW r \in 1..Rounds, Window!Latest(r) # {}
    PROVE  Window!Max(Window!Latest(r)) \in DOMAIN decisions
<1> DEFINE L == Window!Latest(r)
<1>1. Len(decisions) \in Nat /\ DOMAIN decisions = 1..Len(decisions)  BY LenProperties DEF WindowTypes
<1>2. L \in SUBSET (1..Len(decisions)) /\ L # {}  BY <1>1 DEF Window!Latest
<1> HIDE DEF L
<1>3. PICK i \in L : \A j \in L : j <= i  BY <1>1, <1>2, LargestNumber
<1>4. \A j \in L : i >= j  BY <1>2, <1>3
<1>5. Window!Max(L) \in L  BY <1>3, <1>4 DEF Window!Max
<1>6. QED  BY <1>1, <1>2, <1>5 DEF L

\* A record that is appended comes after what was looked at.
LEMMA RecordAppended ==
    ASSUME WindowInv, NEW e \in DecisionRecord, decisions' = Append(decisions, e),
           UNCHANGED <<control, window, consumed, looked, used, finalized>>,
           Window!TypeOK', stage' = stage \/ (stage \notin {"idle", "close"} /\ stage' \notin {"hold", "close", "idle"})
    PROVE  WindowInv'
<1>i. WindowTypes /\ Played /\ MarkedByNow /\ Window!FutureDecisionsKept /\ Window!ExplicitBeatsPolicy
  BY DEF WindowInv
<1>t. Window!TypeOK /\ decisions \in Seq(DecisionRecord) /\ looked \in 0..Len(decisions)
      /\ used \in [1..Rounds -> Nat]
  BY <1>i DEF WindowTypes
<1>1. /\ decisions' \in Seq(DecisionRecord) /\ Len(decisions') = Len(decisions) + 1
      /\ \A i \in 1..Len(decisions) : decisions'[i] = decisions[i]
  BY <1>t, AppendProperties
<1>2. Len(decisions) \in Nat /\ DOMAIN decisions = 1..Len(decisions)  BY <1>t, LenProperties
<1>3. consumed \subseteq DOMAIN decisions /\ \A r \in 1..Rounds : used[r] \in {0} \union DOMAIN decisions
  BY <1>t DEF Window!TypeOK
<1>4. WindowTypes'  BY <1>t, <1>1, <1>2 DEF WindowTypes
<1>5. Played'
  <2>1. \A r \in 1..Rounds : used[r] # 0 => r < window \/ (r = window /\ stage \in {"close", "idle"})
    BY <1>i DEF Played
  <2>2. CASE stage' = stage  BY <1>i, <2>2 DEF Played
  <2>3. CASE stage \notin {"idle", "close"} /\ stage' \notin {"hold", "close", "idle"}
    BY <1>i, <2>1, <2>3 DEF Played
  <2>4. QED  BY <2>2, <2>3
<1>6. MarkedByNow'
  <2>1. \A i \in consumed : decisions'[i] = decisions[i]  BY <1>1, <1>2, <1>3
  <2>2. QED  BY <1>i, <2>1 DEF MarkedByNow
<1>7. \A i \in 1..looked : decisions'[i] = decisions[i]  BY <1>t, <1>1, <1>2
<1>8. Window!FutureDecisionsKept'
  <2>1. stage' \in {"close", "idle"} => stage \in {"close", "idle"}  OBVIOUS
  <2>2. QED  BY <1>i, <1>7, <2>1 DEF Window!FutureDecisionsKept
<1>9. Window!ExplicitBeatsPolicy'
  <2>1. \A r \in 1..Rounds : used[r] # 0 => decisions'[used[r]] = decisions[used[r]]
    BY <1>1, <1>2, <1>3
  <2>2. \A r \in 1..Rounds : \A i \in 1..(IF r = window THEN looked ELSE 0) : i \in 1..looked
    BY <1>t
  <2>3. ASSUME NEW r \in 1..Rounds, used[r] # 0, decisions[used[r]].origin = "policy", control = "hybrid",
               NEW i \in 1..(IF r = window THEN looked ELSE 0), decisions'[i].round = r
        PROVE  decisions'[i].origin = "policy"
    <3>1. decisions'[i] = decisions[i]  BY <1>7, <2>2
    <3>2. QED  BY <1>i, <2>3, <3>1 DEF Window!ExplicitBeatsPolicy
  <2>4. QED  BY <2>1, <2>3 DEF Window!ExplicitBeatsPolicy
<1>10. QED  BY <1>4, <1>5, <1>6, <1>8, <1>9 DEF WindowInv

\* What is in the file stays in it.
LEMMA RecordsStay ==
    ASSUME WindowInv, NEW e \in DecisionRecord, decisions' = Append(decisions, e),
           UNCHANGED <<consumed, used>>
    PROVE  /\ consumed' \subseteq DOMAIN decisions'
           /\ \A r \in 1..Rounds : used'[r] \in {0} \union DOMAIN decisions'
<1>1. decisions \in Seq(DecisionRecord) /\ Window!TypeOK  BY DEF WindowInv, WindowTypes
<1>2. Len(decisions) \in Nat /\ DOMAIN decisions = 1..Len(decisions)
      /\ DOMAIN decisions' = 1..(Len(decisions) + 1)
  BY <1>1, AppendProperties, LenProperties
<1>3. DOMAIN decisions \subseteq DOMAIN decisions'  BY <1>2
<1>4. QED  BY <1>1, <1>3 DEF Window!TypeOK

\* The record of the window is set, no other one's.
LEMMA TakesRecord ==
    ASSUME used \in [1..Rounds -> Nat], window \in 1..Rounds, NEW v \in Nat,
           used' = [used EXCEPT ![window] = v]
    PROVE  /\ used' \in [1..Rounds -> Nat] /\ used'[window] = v
           /\ \A r \in 1..Rounds : r # window => used'[r] = used[r]
OBVIOUS

\* A step of the bus, of its writers or of the game process keeps it.
LEMMA WindowKept == WindowInv /\ Window!Next => WindowInv'
<1> SUFFICES ASSUME WindowInv, Window!Next PROVE WindowInv'  OBVIOUS
<1>i. WindowTypes /\ Played /\ MarkedByNow /\ Window!FutureDecisionsKept /\ Window!ExplicitBeatsPolicy
  BY DEF WindowInv
<1>t. Window!TypeOK /\ decisions \in Seq(DecisionRecord) /\ looked \in 0..Len(decisions)
      /\ used \in [1..Rounds -> Nat]
  BY <1>i DEF WindowTypes
<1>n. /\ Len(decisions) \in Nat /\ DOMAIN decisions = 1..Len(decisions) /\ Rounds \in Nat
      /\ window \in 0..Rounds /\ looked \in Nat
  BY <1>t, LenProperties, EnginesAssumption DEF Window!TypeOK
<1>r. stage # "idle" => window \in 1..Rounds  BY <1>i, <1>n DEF Played
\* a step that touches neither the records nor what is taken of them
<1>s. ASSUME UNCHANGED <<control, window, decisions, consumed, looked, used>>, Window!TypeOK',
             \/ stage' = stage
             \/ stage \notin {"idle", "close"} /\ stage' \notin {"hold", "close", "idle"}
      PROVE  WindowInv'
  <2>1. WindowTypes'  BY <1>i, <1>s DEF WindowTypes
  <2>2. Played' /\ MarkedByNow'  BY <1>i, <1>s DEF Played, MarkedByNow
  <2>3. Window!FutureDecisionsKept'  BY <1>i, <1>s DEF Window!FutureDecisionsKept
  <2>4. Window!ExplicitBeatsPolicy'  BY <1>i, <1>s DEF Window!ExplicitBeatsPolicy
  <2>5. QED  BY <2>1, <2>2, <2>3, <2>4 DEF WindowInv
<1>1. ASSUME NEW s \in Submitters, NEW r \in 1..Rounds, Window!Check(s, r) PROVE WindowInv'
  <2>1. UNCHANGED <<control, window, stage, intents, decisions, consumed, looked, used, finalized>>
        /\ submitting' = [submitting EXCEPT ![s] = r]
    BY <1>1 DEF Window!Check
  <2>2. Window!TypeOK'  BY <1>t, <1>n, <2>1 DEF Window!TypeOK
  <2>3. QED  BY <1>s, <2>1, <2>2
<1>2. ASSUME NEW s \in Submitters, Window!Submit(s) PROVE WindowInv'
  <2> DEFINE e == [round |-> submitting[s], origin |-> "explicit"]
  <2>1. /\ UNCHANGED <<control, window, stage, intents, consumed, looked, used, finalized>>
        /\ submitting[s] # 0 /\ submitting' = [submitting EXCEPT ![s] = 0]
        /\ decisions' = Append(decisions, e)
    BY <1>2 DEF Window!Submit, Window!Submitted
  <2>2. e \in DecisionRecord
    <3>1. submitting[s] \in 1..Rounds  BY <1>t, <1>n, <2>1 DEF Window!TypeOK
    <3>2. QED  BY <3>1 DEF DecisionRecord
  <2> HIDE DEF e
  <2>3. Window!TypeOK'  BY <1>n, <1>t, <2>1, <2>2, RecordsStay DEF Window!TypeOK
  <2>4. QED  BY <2>1, <2>2, <2>3, RecordAppended
<1>3. ASSUME NEW i \in MCIntents, Window!AppendIntent(i) PROVE WindowInv'
  <2>1. UNCHANGED <<control, window, stage, decisions, consumed, looked, used, finalized, submitting>>
        /\ intents' = [intents EXCEPT ![i] = "pending"]
    BY <1>3 DEF Window!AppendIntent
  <2>2. Window!TypeOK'  BY <1>t, <2>1 DEF Window!TypeOK
  <2>3. QED  BY <1>s, <2>1, <2>2
<1>4. ASSUME NEW i \in MCIntents, Window!TakeIntent(i) PROVE WindowInv'
  <2>1. /\ UNCHANGED <<control, window, decisions, consumed, looked, used, finalized, submitting>>
        /\ stage = "intents" /\ stage' \in {"intents", "submit"}
        /\ \/ intents' = [intents EXCEPT ![i] = "materialized"]
           \/ intents' = [intents EXCEPT ![i] = "failed"]
           \/ intents' = intents
    BY <1>4 DEF Window!TakeIntent
  <2>2. Window!TypeOK'  BY <1>t, <2>1 DEF Window!TypeOK
  <2>3. QED  BY <1>s, <2>1, <2>2
<1>5. CASE Window!Open
  <2>1. UNCHANGED <<control, intents, decisions, consumed, looked, used, finalized, submitting>>
        /\ stage = "idle" /\ window < Rounds /\ window' = window + 1
        /\ stage' = IF control = "human" THEN "hold" ELSE "open"
    BY <1>5 DEF Window!Open
  <2>2. Window!TypeOK'  BY <1>t, <1>n, <2>1 DEF Window!TypeOK
  <2>3. WindowTypes'  BY <1>i, <2>1, <2>2 DEF WindowTypes
  <2>4. Played'  BY <1>i, <1>n, <2>1 DEF Played
  <2>5. MarkedByNow'
    <3>1. \A i \in consumed : decisions[i].round \in 1..Rounds
      <4>1. \A i \in consumed : decisions[i] \in DecisionRecord  BY <1>t, <1>n DEF Window!TypeOK
      <4>2. QED  BY <4>1 DEF DecisionRecord
    <3>2. \A i \in consumed : decisions[i].round < window + 1  BY <1>i, <1>n, <3>1 DEF MarkedByNow
    <3>3. QED  BY <2>1, <3>2 DEF MarkedByNow
  <2>6. Window!FutureDecisionsKept'  BY <2>1 DEF Window!FutureDecisionsKept
  <2>7. Window!ExplicitBeatsPolicy'
    <3>1. used[window + 1] = 0
      <4>1. window + 1 \in 1..Rounds /\ ~(window + 1 < window) /\ window + 1 # window  BY <1>n, <2>1
      <4>2. QED  BY <1>i, <4>1 DEF Played
    <3>2. ASSUME NEW r \in 1..Rounds, used[r] # 0 PROVE r # window + 1
      BY <3>1, <3>2
    <3>3. QED  BY <2>1, <3>2 DEF Window!ExplicitBeatsPolicy
  <2>8. QED  BY <2>3, <2>4, <2>5, <2>6, <2>7 DEF WindowInv
<1>6. CASE Window!ReadIntents \/ Window!IntentsDone \/ Window!LookForPolicy
  <2>1. /\ UNCHANGED <<control, window, intents, decisions, consumed, looked, used, finalized, submitting>>
        /\ stage \in {"open", "intents", "policy"} /\ stage' \in {"intents", "policy", "poll", "produce"}
    BY <1>6 DEF Window!ReadIntents, Window!IntentsDone, Window!LookForPolicy
  <2>2. Window!TypeOK'  BY <1>t, <2>1 DEF Window!TypeOK
  <2>3. QED  BY <1>s, <2>1, <2>2
<1>7. CASE Window!SubmitIntent \/ Window!SubmitPolicy
  <2>1. /\ UNCHANGED <<control, window, consumed, looked, used, finalized, submitting>>
        /\ stage \in {"submit", "produce"} /\ stage' \in {"intents", "poll"}
        /\ intents' = [intents EXCEPT ![current] = "materialized"] \/ intents' = intents
    BY <1>7 DEF Window!SubmitIntent, Window!SubmitPolicy
  <2>2. PICK o \in {"policy", "intent"} : decisions' = Append(decisions, [round |-> window, origin |-> o])
    BY <1>7 DEF Window!SubmitIntent, Window!SubmitPolicy, Window!Submitted
  <2> DEFINE e == [round |-> window, origin |-> o]
  <2>3. e \in DecisionRecord  BY <1>r, <2>1 DEF DecisionRecord
  <2> HIDE DEF e
  <2>4. decisions' = Append(decisions, e)  BY <2>2 DEF e
  <2>5. Window!TypeOK'
    <3>1. intents' \in [MCIntents -> {None, "pending", "materialized", "failed"}]
      BY <1>t, <2>1 DEF Window!TypeOK
    <3>2. QED  BY <1>n, <1>t, <2>1, <2>3, <2>4, <3>1, RecordsStay DEF Window!TypeOK
  <2>6. QED  BY <2>1, <2>3, <2>4, <2>5, RecordAppended
<1>8. CASE Window!Consume
  <2> DEFINE C == Window!Candidates(window)  b == Window!Best(window)
  <2>1. /\ UNCHANGED <<control, window, intents, decisions, finalized, submitting>>
        /\ stage = "poll" /\ looked' = Len(decisions) /\ consumed' = consumed \union C
        /\ \/ C # {} /\ used' = [used EXCEPT ![window] = b] /\ stage' = "close"
           \/ C = {} /\ used' = used /\ stage' \in {"poll", "close"}
    BY <1>8 DEF Window!Consume, Window!Marked
  <2>2. window \in 1..Rounds  BY <1>r, <2>1
  <2>3. used[window] = 0 /\ \A r \in 1..Rounds : used[r] # 0 => r < window
    BY <1>i, <1>n, <2>1, <2>2 DEF Played
  <2>4. \A i \in DOMAIN decisions : decisions[i].round = window => i \in C
    <3>1. \A i \in consumed : decisions[i].round # window  BY <1>i, <1>n, <2>3 DEF MarkedByNow
    <3>2. QED  BY <3>1 DEF Window!Candidates
  <2>5. C # {} => b \in C /\ \A j \in C : Window!Priority(j) <= Window!Priority(b)
    BY <1>i, <2>2, BestExists
  <2>6. C \subseteq DOMAIN decisions /\ \A i \in C : decisions[i].round = window
    BY DEF Window!Candidates
  <2>7. \A i \in DOMAIN decisions : /\ Window!Priority(i) \in {50, 100}
                                    /\ Window!Priority(i) <= 50 <=> decisions[i].origin = "policy"
    BY DEF Window!Priority
  <2> HIDE DEF C, b
  <2>8. /\ used' \in [1..Rounds -> Nat] /\ \A r \in 1..Rounds : used'[r] \in {0} \union DOMAIN decisions
        /\ \A r \in 1..Rounds : r # window => used'[r] = used[r]
        /\ C # {} => used'[window] = b /\ b \in 1..Len(decisions)
        /\ C = {} => used'[window] = 0
    <3>1. \A r \in 1..Rounds : used[r] \in {0} \union DOMAIN decisions  BY <1>t DEF Window!TypeOK
    <3>2. C # {} => b \in 1..Len(decisions)  BY <1>n, <2>5, <2>6
    <3>3. /\ used' \in [1..Rounds -> Nat]
          /\ \A r \in 1..Rounds : r # window => used'[r] = used[r]
          /\ C # {} => used'[window] = b
          /\ C = {} => used'[window] = 0
      <4>1. CASE C # {} /\ used' = [used EXCEPT ![window] = b]
        <5>1. b \in Nat  BY <1>n, <3>2, <4>1
        <5>2. QED  BY <1>t, <2>2, <4>1, <5>1, TakesRecord
      <4>2. CASE C = {} /\ used' = used  BY <1>t, <2>3, <4>2
      <4>3. QED  BY <2>1, <4>1, <4>2
    <3>4. QED  BY <1>n, <3>1, <3>2, <3>3
  <2>9. Window!TypeOK'
    <3>1. consumed' \subseteq DOMAIN decisions  BY <1>t, <2>1, <2>6 DEF Window!TypeOK
    <3>2. QED  BY <1>t, <2>1, <2>8, <3>1 DEF Window!TypeOK
  <2>10. WindowTypes'  BY <1>n, <1>t, <2>1, <2>8, <2>9 DEF WindowTypes
  <2>11. Played'  BY <1>n, <2>1, <2>2, <2>3, <2>8 DEF Played
  <2>12. MarkedByNow'
    <3>1. C # {} => used'[window] # 0  BY <2>8
    <3>2. \A i \in consumed : decisions[i].round < window  BY <1>i, <2>3 DEF MarkedByNow
    <3>3. QED  BY <2>1, <2>6, <3>1, <3>2 DEF MarkedByNow
  <2>13. Window!FutureDecisionsKept'
    <3>1. used'[window] = 0 => C = {}  BY <2>8
    <3>2. C = {} => \A i \in 1..Len(decisions) : decisions[i].round # window  BY <1>n, <2>4
    <3>3. QED  BY <2>1, <3>1, <3>2 DEF Window!FutureDecisionsKept
  <2>14. Window!ExplicitBeatsPolicy'
    <3>1. ASSUME NEW r \in 1..Rounds, used'[r] # 0, decisions[used'[r]].origin = "policy", r = window,
                 NEW i \in 1..Len(decisions), decisions[i].round = r
          PROVE  decisions[i].origin = "policy"
      <4>1. C # {} /\ used'[r] = b /\ b \in DOMAIN decisions  BY <1>n, <2>8, <3>1
      <4>2. i \in C /\ i \in DOMAIN decisions  BY <1>n, <2>4, <3>1
      <4>3. Window!Priority(b) <= 50  BY <2>7, <3>1, <4>1
      <4>4. Window!Priority(i) <= Window!Priority(b)  BY <2>5, <4>1, <4>2
      <4>5. Window!Priority(i) \in {50, 100} /\ Window!Priority(b) \in {50, 100}  BY <2>7, <4>1, <4>2
      <4>6. Window!Priority(i) <= 50  BY <4>3, <4>4, <4>5
      <4>7. QED  BY <2>7, <4>2, <4>6
    <3>2. QED  BY <2>1, <3>1 DEF Window!ExplicitBeatsPolicy
  <2>15. QED  BY <2>10, <2>11, <2>12, <2>13, <2>14 DEF WindowInv
<1>9. CASE Window!Release
  <2> DEFINE L == Window!Latest(window)  b == Window!Max(L)
  <2>1. /\ UNCHANGED <<control, window, intents, decisions, consumed, finalized, submitting>>
        /\ stage = "hold" /\ looked' = Len(decisions)
        /\ \/ L # {} /\ used' = [used EXCEPT ![window] = b] /\ stage' = "close"
           \/ L = {} /\ used' = used /\ stage' \in {"hold", "timeout"}
    BY <1>9 DEF Window!Release
  <2>2. window \in 1..Rounds /\ control = "human"  BY <1>i, <1>r, <2>1 DEF Played
  <2>3. \A r \in 1..Rounds : used[r] # 0 => r < window  BY <1>i, <1>n, <2>1, <2>2 DEF Played
  <2>4. L # {} => b \in 1..Len(decisions)  BY <1>i, <1>n, <2>2, LatestExists
  <2> HIDE DEF L, b
  <2>5. /\ used' \in [1..Rounds -> Nat] /\ \A r \in 1..Rounds : used'[r] \in {0} \union DOMAIN decisions
        /\ \A r \in 1..Rounds : r # window => used'[r] = used[r]
        /\ used'[window] # 0 => stage' = "close"
        /\ stage' = "close" => used'[window] # 0
    <3>1. \A r \in 1..Rounds : used[r] \in {0} \union DOMAIN decisions  BY <1>t DEF Window!TypeOK
    <3>2. used[window] = 0  BY <1>n, <2>2, <2>3
    <3>3. /\ used' \in [1..Rounds -> Nat]
          /\ \A r \in 1..Rounds : r # window => used'[r] = used[r]
          /\ used'[window] = IF L # {} THEN b ELSE 0
      <4>1. CASE L # {} /\ used' = [used EXCEPT ![window] = b]
        <5>1. b \in Nat  BY <1>n, <2>4, <4>1
        <5>2. QED  BY <1>t, <2>2, <4>1, <5>1, TakesRecord
      <4>2. CASE L = {} /\ used' = used  BY <1>t, <3>2, <4>2
      <4>3. QED  BY <2>1, <4>1, <4>2
    <3>4. QED  BY <1>n, <2>1, <2>4, <3>1, <3>3
  <2>6. Window!TypeOK'  BY <1>t, <2>1, <2>5 DEF Window!TypeOK
  <2>7. WindowTypes'  BY <1>n, <1>t, <2>1, <2>5, <2>6 DEF WindowTypes
  <2>8. Played'  BY <1>n, <2>1, <2>2, <2>3, <2>5 DEF Played
  <2>9. MarkedByNow'
    <3>1. \A i \in consumed : decisions[i].round < window
      <4>1. used[window] = 0  BY <1>n, <2>2, <2>3
      <4>2. QED  BY <1>i, <4>1 DEF MarkedByNow
    <3>2. QED  BY <2>1, <3>1 DEF MarkedByNow
  <2>10. Window!FutureDecisionsKept'  BY <2>1, <2>2, <2>5 DEF Window!FutureDecisionsKept
  <2>11. Window!ExplicitBeatsPolicy'  BY <2>1, <2>2 DEF Window!ExplicitBeatsPolicy
  <2>12. QED  BY <2>7, <2>8, <2>9, <2>10, <2>11 DEF WindowInv
<1>10. CASE Window!TimedOut \/ Window!Close
  <2>1. /\ UNCHANGED <<control, window, intents, decisions, consumed, looked, used, submitting>>
        /\ \/ stage = "timeout" /\ stage' = "failed"
           \/ stage = "close" /\ stage' = "idle"
        /\ \E f \in {"consumed", "release", "fallback", "timeout"} : finalized' = [finalized EXCEPT ![window] = f]
    BY <1>10 DEF Window!TimedOut, Window!Close
  <2>2. Window!TypeOK'
    <3>1. finalized' \in [1..Rounds -> {None, "consumed", "release", "fallback", "timeout"}]
      BY <1>t, <2>1 DEF Window!TypeOK
    <3>2. stage' \in {"failed", "idle"}  BY <2>1
    <3>3. QED  BY <1>t, <2>1, <3>1, <3>2 DEF Window!TypeOK
  <2>3. CASE stage = "timeout" /\ stage' = "failed"  BY <1>s, <2>1, <2>2, <2>3
  <2>4. CASE stage = "close" /\ stage' = "idle"
    <3>1. WindowTypes' /\ Played' /\ MarkedByNow'
      BY <1>i, <2>1, <2>2, <2>4 DEF WindowTypes, Played, MarkedByNow
    <3>2. Window!FutureDecisionsKept'  BY <1>i, <2>1, <2>4 DEF Window!FutureDecisionsKept
    <3>3. Window!ExplicitBeatsPolicy'  BY <1>i, <2>1 DEF Window!ExplicitBeatsPolicy
    <3>4. QED  BY <3>1, <3>2, <3>3 DEF WindowInv
  <2>5. QED  BY <2>1, <2>3, <2>4
<1>11. QED
  BY <1>1, <1>2, <1>3, <1>4, <1>5, <1>6, <1>7, <1>8, <1>9, <1>10 DEF Window!Next

\* The windows start with the invariant.
LEMMA WindowInit == Window!Init => WindowInv
<1> SUFFICES ASSUME Window!Init PROVE WindowInv  OBVIOUS
<1>1. /\ window = 0 /\ stage = "idle" /\ intents = [i \in MCIntents |-> None]
      /\ decisions = <<>> /\ consumed = {} /\ looked = 0
      /\ used = [r \in 1..Rounds |-> 0] /\ finalized = [r \in 1..Rounds |-> None]
      /\ submitting = [s \in Submitters |-> 0]
  BY DEF Window!Init
<1>2. Window!TypeOK  BY <1>1, EnginesAssumption DEF Window!TypeOK
<1>3. WindowTypes  BY <1>1, <1>2 DEF WindowTypes
<1>4. Played /\ MarkedByNow  BY <1>1 DEF Played, MarkedByNow
<1>5. Window!FutureDecisionsKept /\ Window!ExplicitBeatsPolicy
  BY <1>1 DEF Window!FutureDecisionsKept, Window!ExplicitBeatsPolicy
<1>6. QED  BY <1>3, <1>4, <1>5 DEF WindowInv

\* A step of another engine leaves the windows alone.
LEMMA WindowStands == WindowInv /\ UNCHANGED deciding => WindowInv'
<1> SUFFICES ASSUME WindowInv, UNCHANGED deciding PROVE WindowInv'  OBVIOUS
<1>1. UNCHANGED <<control, window, stage, intents, decisions, consumed, looked, used, finalized, submitting>>
  BY DEF deciding
<1>2. Window!TypeOK'  BY <1>1 DEF WindowInv, WindowTypes, Window!TypeOK
<1>3. WindowTypes' /\ Played' /\ MarkedByNow'
  BY <1>1, <1>2 DEF WindowInv, WindowTypes, Played, MarkedByNow
<1>4. Window!FutureDecisionsKept' /\ Window!ExplicitBeatsPolicy'
  BY <1>1 DEF WindowInv, Window!FutureDecisionsKept, Window!ExplicitBeatsPolicy
<1>5. QED  BY <1>3, <1>4 DEF WindowInv
-----------------------------------------------------------------------------
(* Hidden roles: a deck after so many shuffles.                              *)
\* What holds of 0 and passes from a number to the next holds up to n.
LEMMA UpTo ==
    ASSUME NEW n \in Nat, NEW S, 0 \in S, \A k \in 0..(n - 1) : k \in S => k + 1 \in S
    PROVE  0..n \subseteq S
<1> SUFFICES ASSUME NEW T, T = (0..n) \ S, T # {} PROVE FALSE  OBVIOUS
<1>1. IsWellFoundedOn(OpToRel(<, Nat), Nat)  BY NatLessThanWellFounded
<1>2. T \in SUBSET Nat  OBVIOUS
<1>3. PICK m \in T : \A y \in T : ~(<<y, m>> \in OpToRel(<, Nat))  BY <1>1, <1>2, WFMin, Zenon
<1>4. m # 0 /\ m - 1 \in 0..(n - 1) /\ m - 1 + 1 = m  OBVIOUS
<1>5. m - 1 \notin T
  <2>1. <<m - 1, m>> \in Nat \X Nat /\ m - 1 < m  BY <1>4
  <2>2. <<m - 1, m>> \in OpToRel(<, Nat)  BY <2>1 DEF OpToRel
  <2>3. QED  BY <1>3, <2>2
<1>6. m - 1 \in S  BY <1>4, <1>5
<1>7. QED  BY <1>4, <1>6

\* A function whose values are defined one from the other, f[s] in D[s], exists.
Steps(n, D, U, base, g) ==
    /\ n \in Nat /\ base \in D[0] /\ \A s \in 0..n : D[s] \subseteq U
    /\ \A s \in 1..n : \A d \in D[s - 1] : g[<<s, d>>] \in D[s]
Stepwise(n, U, base, g, f) ==
    f \in [0..n -> U] /\ f = [s \in 0..n |-> IF s = 0 THEN base ELSE g[<<s, f[s - 1]>>]]

LEMMA StepByStep ==
    ASSUME NEW n, NEW D, NEW U, NEW base, NEW g, Steps(n, D, U, base, g)
    PROVE  \E f : Stepwise(n, U, base, g, f)
<1>n. n \in Nat /\ base \in D[0] /\ \A s \in 0..n : D[s] \subseteq U  BY DEF Steps
<1>g. \A s \in 1..n : \A d \in D[s - 1] : g[<<s, d>>] \in D[s]  BY DEF Steps
<1> USE <1>n, <1>g
<1> DEFINE Up(k, f) == f[0] = base /\ f[k] \in D[k] /\ \A s \in 1..k : f[s] = g[<<s, f[s - 1]>>]
           S == {k \in 0..n : \E f \in [0..k -> U] : Up(k, f)}
<1>1. 0 \in S
  <2>1. PICK f : f = [s \in 0..0 |-> base]  OBVIOUS
  <2>2. base \in U  OBVIOUS
  <2>3. f \in [0..0 -> U] /\ Up(0, f)  BY <2>1, <2>2
  <2>4. QED  BY <2>3
<1>2. ASSUME NEW k \in 0..(n - 1), k \in S PROVE k + 1 \in S
  <2>1. PICK f \in [0..k -> U] : Up(k, f)  BY <1>2
  <2>v. PICK v : v = g[<<k + 1, f[k]>>]  OBVIOUS
  <2>2. v \in D[k + 1] /\ v \in U
    <3>1. k + 1 \in 1..n /\ k + 1 - 1 = k /\ k + 1 \in 0..n  OBVIOUS
    <3>2. v \in D[k + 1]  BY <2>1, <2>v, <3>1
    <3>3. QED  BY <3>1, <3>2
  <2>3. PICK h : h = [s \in 0..(k + 1) |-> IF s = k + 1 THEN v ELSE f[s]]  OBVIOUS
  <2>4. \A s \in 0..(k + 1) : s = k + 1 \/ s \in 0..k  OBVIOUS
  <2>5. h \in [0..(k + 1) -> U]  BY <2>2, <2>3, <2>4
  <2>6. \A s \in 0..k : s \in 0..(k + 1) /\ s # k + 1  OBVIOUS
  <2>7. h[k + 1] = v /\ \A s \in 0..k : h[s] = f[s]  BY <2>3, <2>6
  <2>8. Up(k + 1, h)
    <3>1. h[0] = base  BY <2>1, <2>7
    <3>2. ASSUME NEW s \in 1..(k + 1) PROVE h[s] = g[<<s, h[s - 1]>>]
      <4>1. s - 1 \in 0..k /\ h[s - 1] = f[s - 1]  BY <2>7
      <4>2. CASE s = k + 1  BY <2>v, <2>7, <4>1, <4>2
      <4>3. CASE s # k + 1
        <5>1. s \in 1..k /\ s \in 0..k  BY <4>3
        <5>2. QED  BY <2>1, <2>7, <4>1, <5>1
      <4>4. QED  BY <4>2, <4>3
    <3>3. QED  BY <2>2, <2>7, <3>1, <3>2
  <2>9. k + 1 \in 0..n  OBVIOUS
  <2>10. QED  BY <2>5, <2>8, <2>9
<1>3. n \in S
  <2> HIDE DEF S
  <2>1. 0..n \subseteq S  BY <1>1, <1>2, UpTo
  <2>2. QED  BY <2>1
<1>4. PICK f \in [0..n -> U] : Up(n, f)  BY <1>3
<1>5. f = [s \in 0..n |-> IF s = 0 THEN base ELSE g[<<s, f[s - 1]>>]]
  <2>1. \A s \in 0..n : f[s] = IF s = 0 THEN base ELSE g[<<s, f[s - 1]>>]
    <3>1. \A s \in 0..n : s = 0 \/ s \in 1..n  OBVIOUS
    <3>2. QED  BY <1>4, <3>1
  <2>2. QED  BY <2>1
<1>6. QED  BY <1>4, <1>5, Zenon DEF Stepwise

\* And every such function has f[s] in D[s].
LEMMA Climb ==
    ASSUME NEW n \in Nat, NEW D, NEW f, f[0] \in D[0], \A s \in 1..n : f[s - 1] \in D[s - 1] => f[s] \in D[s]
    PROVE  \A s \in 0..n : f[s] \in D[s]
<1> DEFINE S == {k \in 0..n : f[k] \in D[k]}
<1>1. 0 \in S  OBVIOUS
<1>2. ASSUME NEW k \in 0..(n - 1), k \in S PROVE k + 1 \in S
  <2>1. k + 1 \in 1..n /\ k + 1 - 1 = k /\ k + 1 \in 0..n  OBVIOUS
  <2>2. QED  BY <1>2, <2>1
<1>3. 0..n \subseteq S
  <2> HIDE DEF S
  <2>1. QED  BY <1>1, <1>2, UpTo
<1>4. QED  BY <1>3

\* The orders of the cards, and a deck under the locks of the first k seats.
Perms == {p \in [1..N -> 1..N] : \A i, j \in 1..N : p[i] = p[j] => i = j}
LocksAt(k) == [c \in 1..N |-> [t \in 1..N |-> (IF t = c THEN 1 ELSE 0) + (IF t <= k THEN 1 ELSE 0)]]
DeckAt(k, p) == [i \in 1..N |-> [id |-> p[i], locks |-> LocksAt(k)]]
DecksAt(k) == {DeckAt(k, p) : p \in Perms}

LEMMA OrdersCompose ==
    ASSUME NEW p \in Perms, NEW q \in Perms
    PROVE  [i \in 1..N |-> q[p[i]]] \in Perms
<1>1. PICK r : r = [i \in 1..N |-> q[p[i]]]  OBVIOUS
<1>2. p \in [1..N -> 1..N] /\ q \in [1..N -> 1..N]  BY DEF Perms
<1>3. r \in [1..N -> 1..N]  BY <1>1, <1>2
<1>4. ASSUME NEW i \in 1..N, NEW j \in 1..N, r[i] = r[j] PROVE i = j
  <2>1. p[i] \in 1..N /\ p[j] \in 1..N /\ q[p[i]] = q[p[j]]  BY <1>1, <1>2, <1>4
  <2>2. p[i] = p[j]  BY <2>1 DEF Perms
  <2>3. QED  BY <2>2 DEF Perms
<1>5. QED  BY <1>1, <1>3, <1>4 DEF Perms

LEMMA LockedIs ==
    ASSUME N \in Nat, NEW s \in 1..N, NEW x
    PROVE  Roles!Locked([id |-> x, locks |-> LocksAt(s - 1)], s) = [id |-> x, locks |-> LocksAt(s)]
<1>1. PICK h, v : h = LocksAt(s - 1) /\ v = LocksAt(s)  OBVIOUS
<1>2. ASSUME NEW c \in 1..N, NEW t \in 1..N PROVE v[c][t] = h[c][t] + (IF t = s THEN 1 ELSE 0)
  <2>1. t <= s <=> (t <= s - 1 \/ t = s)  OBVIOUS
  <2>2. ~(t = s /\ t <= s - 1)  OBVIOUS
  <2>3. QED  BY SMTT(30), <1>1, <2>1, <2>2 DEF LocksAt
<1>3. v = [c \in 1..N |-> [t \in 1..N |-> h[c][t] + (IF t = s THEN 1 ELSE 0)]]
  <2>1. v = [c \in 1..N |-> [t \in 1..N |-> v[c][t]]]  BY <1>1 DEF LocksAt
  <2>2. QED  BY <1>2, <2>1, Zenon
<1>4. Roles!Locked([id |-> x, locks |-> h], s)
        = [id |-> x, locks |-> [c \in 1..N |-> [t \in 1..N |-> h[c][t] + (IF t = s THEN 1 ELSE 0)]]]
  <2>1. PICK card : card = [id |-> x, locks |-> h]  OBVIOUS
  <2>2. PICK w : w = [c \in 1..N |-> [t \in 1..N |-> h[c][t] + (IF t = s THEN 1 ELSE 0)]]  OBVIOUS
  <2>3. card.locks = h  BY <2>1
  <2>4. Roles!Locked(card, s) = [card EXCEPT !.locks = w]  BY <2>2, <2>3, Zenon DEF Roles!Locked, Roles!Seats
  <2>5. [card EXCEPT !.locks = w] = [id |-> x, locks |-> w]  BY <2>1
  <2>6. QED  BY <2>1, <2>2, <2>4, <2>5, Zenon
<1>5. QED  BY <1>1, <1>3, <1>4, Zenon

LEMMA OneShuffle ==
    ASSUME N \in Nat, NEW s \in 1..N, NEW d \in DecksAt(s - 1), NEW p \in Perms
    PROVE  Roles!Shuffled(d, s, p) \in DecksAt(s)
<1>1. PICK q \in Perms : d = DeckAt(s - 1, q)  BY DEF DecksAt
<1>2. PICK e : e = [i \in 1..N |-> Roles!Locked(d[i], s)]  OBVIOUS
<1>3. \A i \in 1..N : d[i] = [id |-> q[i], locks |-> LocksAt(s - 1)]  BY <1>1 DEF DeckAt
<1>4. \A i \in 1..N : e[i] = [id |-> q[i], locks |-> LocksAt(s)]
  <2>1. \A i \in 1..N : e[i] = Roles!Locked(d[i], s)  BY <1>2, Zenon
  <2>2. QED  BY <1>3, <2>1, LockedIs
<1>5. Roles!Shuffled(d, s, p) = [i \in 1..N |-> e[p[i]]]
  BY <1>2 DEF Roles!Shuffled, Roles!Permuted, Roles!Seats
<1>6. PICK r : r = [i \in 1..N |-> q[p[i]]]  OBVIOUS
<1>7. r \in Perms  BY <1>6, OrdersCompose
<1>8. Roles!Shuffled(d, s, p) = DeckAt(s, r)
  <2>1. \A i \in 1..N : e[p[i]] = [id |-> r[i], locks |-> LocksAt(s)]  BY <1>4, <1>6 DEF Perms
  <2>2. QED  BY <1>5, <2>1, Zenon DEF DeckAt
<1>9. QED  BY <1>7, <1>8 DEF DecksAt

LEMMA FirstDeck == ASSUME N \in Nat PROVE Roles!InitialDeck \in DecksAt(0)
<1>1. PICK p : p = [i \in 1..N |-> i]  OBVIOUS
<1>2. p \in Perms  BY <1>1 DEF Perms
<1>3. Roles!Own = LocksAt(0)
  <2>1. \A c, t \in 1..N : (IF t = c THEN 1 ELSE 0) = (IF t = c THEN 1 ELSE 0) + (IF t <= 0 THEN 1 ELSE 0)
    OBVIOUS
  <2>2. QED  BY <2>1 DEF Roles!Own, Roles!Seats, LocksAt
<1>4. Roles!InitialDeck = DeckAt(0, p)  BY <1>1, <1>3 DEF Roles!InitialDeck, Roles!Seats, DeckAt
<1>5. QED  BY <1>2, <1>4 DEF DecksAt

\* What the audit replays from the seeds.
LEMMA ReplayIs ==
    ASSUME N \in Nat, seed \in [1..N -> Perms]
    PROVE  /\ Roles!Replay[0] = Roles!InitialDeck
           /\ \A s \in 1..N : Roles!Replay[s] = Roles!Shuffled(Roles!Replay[s - 1], s, seed[s])
           /\ \A s \in 0..N : Roles!Replay[s] \in DecksAt(s)
<1>1. PICK base : base = Roles!InitialDeck  OBVIOUS
<1>D. PICK D : D = [k \in 0..N |-> DecksAt(k)]  OBVIOUS
<1>U. PICK U : U = UNION {D[k] : k \in 0..N}  OBVIOUS
<1>2. PICK g : g = [x \in (1..N) \X U |-> Roles!Shuffled(x[2], x[1], seed[x[1]])]  OBVIOUS
<1>3. \A s \in 1..N : \A d \in D[s - 1] :
        g[<<s, d>>] = Roles!Shuffled(d, s, seed[s]) /\ Roles!Shuffled(d, s, seed[s]) \in D[s]
  <2> SUFFICES ASSUME NEW s \in 1..N, NEW d \in D[s - 1]
               PROVE  g[<<s, d>>] = Roles!Shuffled(d, s, seed[s]) /\ Roles!Shuffled(d, s, seed[s]) \in D[s]
    OBVIOUS
  <2>1. s - 1 \in 0..N /\ s \in 0..N  OBVIOUS
  <2>2. d \in U /\ d \in DecksAt(s - 1) /\ D[s] = DecksAt(s)  BY <1>D, <1>U, <2>1
  <2>3. g[<<s, d>>] = Roles!Shuffled(d, s, seed[s])  BY <1>2, <2>2
  <2>4. seed[s] \in Perms  OBVIOUS
  <2>5. Roles!Shuffled(d, s, seed[s]) \in DecksAt(s)  BY <2>2, <2>4, OneShuffle
  <2>6. QED  BY <2>2, <2>3, <2>5
<1>4. base \in D[0]  BY <1>1, <1>D, FirstDeck
<1>5. \A s \in 0..N : D[s] \subseteq U  BY <1>U
<1>6. PICK f \in [0..N -> U] : f = [s \in 0..N |-> IF s = 0 THEN base ELSE g[<<s, f[s - 1]>>]]
  <2>1. \A s \in 1..N : \A d \in D[s - 1] : g[<<s, d>>] \in D[s]  BY <1>3
  <2>2. Steps(N, D, U, base, g)  BY <1>4, <1>5, <2>1 DEF Steps
  <2>3. \E f : Stepwise(N, U, base, g, f)  BY <2>2, StepByStep, Zenon
  <2>4. QED  BY <2>3, Zenon DEF Stepwise
<1>7. \A s \in 0..N : f[s] \in D[s]
  <2>1. f[0] \in D[0]
    <3>1. f[0] = base  BY <1>6
    <3>2. QED  BY <1>4, <3>1
  <2>2. \A s \in 1..N : f[s] = g[<<s, f[s - 1]>>]
    <3>1. \A s \in 1..N : s \in 0..N /\ s # 0  OBVIOUS
    <3>2. QED  BY <1>6, <3>1
  <2>3. ASSUME NEW s \in 1..N, f[s - 1] \in D[s - 1] PROVE f[s] \in D[s]
    <3>1. PICK d : d = f[s - 1]  OBVIOUS
    <3>2. g[<<s, d>>] \in D[s]  BY <1>3, <2>3, <3>1
    <3>3. QED  BY <2>2, <3>1, <3>2
  <2>4. QED  BY <2>1, <2>3, Climb
<1>8. f = [s \in 0..N |-> IF s = 0 THEN Roles!InitialDeck ELSE Roles!ReplayShuffle(s, f[s - 1])]
  <2>1. \A s \in 0..N : s # 0 => g[<<s, f[s - 1]>>] = Roles!ReplayShuffle(s, f[s - 1])
    <3>1. \A s \in 0..N : s # 0 => s \in 1..N /\ s - 1 \in 0..N  OBVIOUS
    <3>2. QED  BY <1>3, <1>7, <3>1 DEF Roles!ReplayShuffle
  <2>2. QED  BY <1>1, <1>6, <2>1, Zenon
<1>9. Roles!Replay = [s \in 0..N |-> IF s = 0 THEN Roles!InitialDeck ELSE Roles!ReplayShuffle(s, Roles!Replay[s - 1])]
  BY <1>8, Zenon DEF Roles!Replay
<1>10. Roles!Replay[0] = Roles!InitialDeck  BY <1>9
<1>11. \A s \in 1..N : Roles!Replay[s] = Roles!Shuffled(Roles!Replay[s - 1], s, seed[s])
  <2>1. \A s \in 1..N : s \in 0..N /\ s # 0  OBVIOUS
  <2>2. QED  BY <1>9, <2>1 DEF Roles!ReplayShuffle
<1>12. \A s \in 0..N : Roles!Replay[s] \in D[s]
  <2>1. PICK R : R = Roles!Replay  OBVIOUS
  <2>2. R[0] \in D[0]  BY <1>1, <1>4, <1>10, <2>1
  <2>3. \A s \in 1..N : R[s - 1] \in D[s - 1] => R[s] \in D[s]  BY <1>3, <1>11, <2>1
  <2>4. QED  BY <2>1, <2>2, <2>3, Climb
<1>13. QED  BY <1>D, <1>10, <1>11, <1>12
-----------------------------------------------------------------------------
\* The anonymous messages when the first k seats have taken their layers off.
BatchAt(k, p) == [i \in 1..N |-> [from |-> p[i], layers |-> (k + 1)..N]]
BatchesAt(k) == {BatchAt(k, p) : p \in Perms}
MixStep(e, s, p) == Roles!Permuted([i \in 1..N |-> [e[i] EXCEPT !.layers = @ \ {s}]], p)

LEMMA OneMix ==
    ASSUME N \in Nat, NEW s \in 1..N, NEW e \in BatchesAt(s - 1), NEW p \in Perms
    PROVE  MixStep(e, s, p) \in BatchesAt(s)
<1>1. PICK q \in Perms : e = BatchAt(s - 1, q)  BY DEF BatchesAt
<1>2. PICK d : d = [i \in 1..N |-> [e[i] EXCEPT !.layers = @ \ {s}]]  OBVIOUS
<1>3. ((s - 1 + 1)..N) \ {s} = (s + 1)..N  OBVIOUS
<1>4. \A i \in 1..N : d[i] = [from |-> q[i], layers |-> (s + 1)..N]
  <2> SUFFICES ASSUME NEW i \in 1..N PROVE d[i] = [from |-> q[i], layers |-> (s + 1)..N]  OBVIOUS
  <2>1. PICK a, b : a = (s - 1 + 1)..N /\ b = (s + 1)..N  OBVIOUS
  <2>2. a \ {s} = b  BY <1>3, <2>1
  <2>3. e[i] = [from |-> q[i], layers |-> a]  BY <1>1, <2>1 DEF BatchAt
  <2>4. [e[i] EXCEPT !.layers = @ \ {s}] = [from |-> q[i], layers |-> b]  BY <2>2, <2>3
  <2>5. QED  BY <1>2, <2>1, <2>4
<1>5. MixStep(e, s, p) = [i \in 1..N |-> d[p[i]]]  BY <1>2 DEF MixStep, Roles!Permuted
<1>6. PICK r : r = [i \in 1..N |-> q[p[i]]]  OBVIOUS
<1>7. r \in Perms  BY <1>6, OrdersCompose
<1>8. MixStep(e, s, p) = BatchAt(s, r)
  <2>1. \A i \in 1..N : d[p[i]] = [from |-> r[i], layers |-> (s + 1)..N]  BY <1>4, <1>6 DEF Perms
  <2>2. QED  BY <1>5, <2>1, Zenon DEF BatchAt
<1>9. QED  BY <1>7, <1>8 DEF BatchesAt

FirstBatch == [i \in 1..N |-> [from |-> i, layers |-> 1..N]]

\* What the audit replays of the mix.
LEMMA ReplayMixIs ==
    ASSUME N \in Nat, seed \in [1..N -> Perms]
    PROVE  /\ Roles!ReplayMix[0] = FirstBatch
           /\ \A s \in 1..N : Roles!ReplayMix[s] = MixStep(Roles!ReplayMix[s - 1], s, seed[s])
           /\ \A s \in 0..N : Roles!ReplayMix[s] \in BatchesAt(s)
<1>1. PICK base : base = FirstBatch  OBVIOUS
<1>D. PICK D : D = [k \in 0..N |-> BatchesAt(k)]  OBVIOUS
<1>U. PICK U : U = UNION {D[k] : k \in 0..N}  OBVIOUS
<1>2. PICK g : g = [x \in (1..N) \X U |-> MixStep(x[2], x[1], seed[x[1]])]  OBVIOUS
<1>3. \A s \in 1..N : \A d \in D[s - 1] :
        g[<<s, d>>] = MixStep(d, s, seed[s]) /\ MixStep(d, s, seed[s]) \in D[s]
  <2> SUFFICES ASSUME NEW s \in 1..N, NEW d \in D[s - 1]
               PROVE  g[<<s, d>>] = MixStep(d, s, seed[s]) /\ MixStep(d, s, seed[s]) \in D[s]
    OBVIOUS
  <2>1. s - 1 \in 0..N /\ s \in 0..N  OBVIOUS
  <2>2. d \in U /\ d \in BatchesAt(s - 1) /\ D[s] = BatchesAt(s)  BY <1>D, <1>U, <2>1
  <2>3. g[<<s, d>>] = MixStep(d, s, seed[s])  BY <1>2, <2>2
  <2>4. seed[s] \in Perms  OBVIOUS
  <2>5. MixStep(d, s, seed[s]) \in BatchesAt(s)  BY <2>2, <2>4, OneMix
  <2>6. QED  BY <2>2, <2>3, <2>5
<1>4. base \in D[0]
  <2>1. PICK p : p = [i \in 1..N |-> i]  OBVIOUS
  <2>2. p \in Perms  BY <2>1 DEF Perms
  <2>3. base = BatchAt(0, p)  BY <1>1, <2>1 DEF FirstBatch, BatchAt
  <2>4. QED  BY <1>D, <2>2, <2>3 DEF BatchesAt
<1>5. \A s \in 0..N : D[s] \subseteq U  BY <1>U
<1>6. PICK f \in [0..N -> U] : f = [s \in 0..N |-> IF s = 0 THEN base ELSE g[<<s, f[s - 1]>>]]
  <2>1. \A s \in 1..N : \A d \in D[s - 1] : g[<<s, d>>] \in D[s]  BY <1>3
  <2>2. Steps(N, D, U, base, g)  BY <1>4, <1>5, <2>1 DEF Steps
  <2>3. \E f : Stepwise(N, U, base, g, f)  BY <2>2, StepByStep, Zenon
  <2>4. QED  BY <2>3, Zenon DEF Stepwise
<1>7. \A s \in 0..N : f[s] \in D[s]
  <2>1. f[0] \in D[0]
    <3>1. f[0] = base  BY <1>6
    <3>2. QED  BY <1>4, <3>1
  <2>2. \A s \in 1..N : f[s] = g[<<s, f[s - 1]>>]
    <3>1. \A s \in 1..N : s \in 0..N /\ s # 0  OBVIOUS
    <3>2. QED  BY <1>6, <3>1
  <2>3. ASSUME NEW s \in 1..N, f[s - 1] \in D[s - 1] PROVE f[s] \in D[s]
    <3>1. PICK d : d = f[s - 1]  OBVIOUS
    <3>2. g[<<s, d>>] \in D[s]  BY <1>3, <2>3, <3>1
    <3>3. QED  BY <2>2, <3>1, <3>2
  <2>4. QED  BY <2>1, <2>3, Climb
<1>8. f = [s \in 0..N |-> IF s = 0 THEN [i \in 1..N |-> [from |-> i, layers |-> 1..N]]
                          ELSE Roles!Mixed(f[s - 1], s)]
  <2>1. \A s \in 0..N : s # 0 => g[<<s, f[s - 1]>>] = MixStep(f[s - 1], s, seed[s])
    <3>1. \A s \in 0..N : s # 0 => s \in 1..N /\ s - 1 \in 0..N  OBVIOUS
    <3>2. QED  BY <1>3, <1>7, <3>1
  <2>2. \A e, s : Roles!Mixed(e, s) = MixStep(e, s, seed[s])  BY Zenon DEF Roles!Mixed, MixStep, Roles!Seats
  <2>3. base = [i \in 1..N |-> [from |-> i, layers |-> 1..N]]  BY <1>1 DEF FirstBatch
  <2>4. QED  BY <1>6, <2>1, <2>2, <2>3, Zenon
<1>9. Roles!ReplayMix = [s \in 0..N |-> IF s = 0 THEN [i \in 1..N |-> [from |-> i, layers |-> 1..N]]
                                       ELSE Roles!Mixed(Roles!ReplayMix[s - 1], s)]
  BY <1>8, Zenon DEF Roles!ReplayMix, Roles!Seats
<1>10. Roles!ReplayMix[0] = FirstBatch  BY <1>9 DEF FirstBatch
<1>11. \A s \in 1..N : Roles!ReplayMix[s] = MixStep(Roles!ReplayMix[s - 1], s, seed[s])
  <2>1. \A s \in 1..N : s \in 0..N /\ s # 0  OBVIOUS
  <2>2. \A e, s : Roles!Mixed(e, s) = MixStep(e, s, seed[s])  BY Zenon DEF Roles!Mixed, MixStep, Roles!Seats
  <2>3. QED  BY <1>9, <2>1, <2>2
<1>12. \A s \in 0..N : Roles!ReplayMix[s] \in D[s]
  <2>1. PICK R : R = Roles!ReplayMix  OBVIOUS
  <2>2. R[0] \in D[0]  BY <1>1, <1>4, <1>10, <2>1
  <2>3. \A s \in 1..N : R[s - 1] \in D[s - 1] => R[s] \in D[s]  BY <1>3, <1>11, <2>1
  <2>4. QED  BY <2>1, <2>2, <2>3, Climb
<1>13. QED  BY <1>D, <1>10, <1>11, <1>12

-----------------------------------------------------------------------------
\* A card of the last deck when the seats of off have taken their locks off.
Under(off) == [c \in 1..N |-> [t \in 1..N |-> IF t \in off THEN 0 ELSE IF t = c THEN 2 ELSE 1]]

LEMMA AllLocked == ASSUME N \in Nat PROVE LocksAt(N) = Under({})
<1>1. \A c, t \in 1..N : (IF t = c THEN 1 ELSE 0) + (IF t <= N THEN 1 ELSE 0)
                           = IF t \in {} THEN 0 ELSE IF t = c THEN 2 ELSE 1
  OBVIOUS
<1>2. QED  BY <1>1 DEF LocksAt, Under

LEMMA OpenedIs ==
    ASSUME N \in Nat, NEW s \in 1..N, NEW x, NEW off, s \notin off
    PROVE  Roles!Opened([id |-> x, locks |-> Under(off)], s) = [id |-> x, locks |-> Under(off \union {s})]
<1>1. PICK h, v : h = Under(off) /\ v = Under(off \union {s})  OBVIOUS
<1>2. ASSUME NEW c \in 1..N, NEW t \in 1..N
      PROVE  v[c][t] = h[c][t] - (IF t # s THEN 0 ELSE IF c = s THEN 2 ELSE 1)
  <2>1. CASE t # s  BY <1>1, <2>1 DEF Under
  <2>2. CASE t = s  BY <1>1, <2>2 DEF Under
  <2>3. QED  BY <2>1, <2>2
<1>3. PICK card : card = [id |-> x, locks |-> h]  OBVIOUS
<1>4. PICK w : w = [c \in 1..N |-> [t \in 1..N |-> h[c][t] - (IF t # s THEN 0 ELSE IF c = s THEN 2 ELSE 1)]]
  OBVIOUS
<1>5. v = w
  <2>1. v = [c \in 1..N |-> [t \in 1..N |-> v[c][t]]]  BY <1>1 DEF Under
  <2>2. QED  BY <1>2, <1>4, <2>1, Zenon
<1>6. card.locks = h  BY <1>3
<1>7. Roles!Opened(card, s) = [card EXCEPT !.locks = w]  BY <1>4, <1>6, Zenon DEF Roles!Opened, Roles!Seats
<1>8. [card EXCEPT !.locks = w] = [id |-> x, locks |-> w]  BY <1>3
<1>9. QED  BY <1>1, <1>3, <1>5, <1>7, <1>8, Zenon

\* The audit takes all locks off the last deck.
LEMMA DecryptedIs ==
    ASSUME N \in Nat, NEW p, Roles!Replay[N] = DeckAt(N, p)
    PROVE  Roles!Decrypted[N] = [i \in 1..N |-> [id |-> p[i], locks |-> Under(1..N)]]
<1>1. PICK f : f = [k \in 0..N |-> [i \in 1..N |-> [id |-> p[i], locks |-> Under(1..k)]]]  OBVIOUS
<1>2. PICK R : R = Roles!Replay[N]  OBVIOUS
<1>3. f[0] = R
  <2>1. f[0] = [i \in 1..N |-> [id |-> p[i], locks |-> Under(1..0)]]  BY <1>1
  <2>2. 1..0 = {}  OBVIOUS
  <2>3. QED  BY <1>2, <2>1, <2>2, AllLocked, Zenon DEF DeckAt
<1>4. ASSUME NEW s \in 1..N PROVE f[s] = [i \in 1..N |-> Roles!Opened(f[s - 1][i], s)]
  <2>1. s \in 0..N /\ s - 1 \in 0..N /\ s \notin 1..(s - 1) /\ (1..(s - 1)) \union {s} = 1..s  OBVIOUS
  <2>2. \A i \in 1..N : f[s - 1][i] = [id |-> p[i], locks |-> Under(1..(s - 1))]  BY <1>1, <2>1
  <2>3. \A i \in 1..N : Roles!Opened(f[s - 1][i], s) = [id |-> p[i], locks |-> Under(1..s)]
    <3>1. PICK u, w : u = 1..(s - 1) /\ w = 1..s  OBVIOUS
    <3>2. u \union {s} = w /\ s \notin u  BY <2>1, <3>1
    <3>3. \A i \in 1..N : Roles!Opened([id |-> p[i], locks |-> Under(u)], s) = [id |-> p[i], locks |-> Under(w)]
      BY <3>2, OpenedIs
    <3>4. QED  BY <2>2, <3>1, <3>3
  <2>4. f[s] = [i \in 1..N |-> [id |-> p[i], locks |-> Under(1..s)]]  BY <1>1, <2>1
  <2>5. QED  BY <2>3, <2>4, Zenon
<1>5. f = [s \in 0..N |-> IF s = 0 THEN Roles!Replay[N] ELSE [i \in Roles!Seats |-> Roles!Opened(f[s - 1][i], s)]]
  <2>1. \A s \in 0..N : s # 0 => s \in 1..N  OBVIOUS
  <2>2. \A s \in 0..N : f[s] = IF s = 0 THEN R ELSE [i \in 1..N |-> Roles!Opened(f[s - 1][i], s)]
    BY <1>3, <1>4, <2>1, Zenon
  <2>3. f = [s \in 0..N |-> f[s]]  BY <1>1
  <2>4. QED  BY <1>2, <2>2, <2>3, Zenon DEF Roles!Seats
<1>6. Roles!Decrypted = [s \in 0..N |-> IF s = 0 THEN Roles!Replay[N]
                                        ELSE [i \in Roles!Seats |-> Roles!Opened(Roles!Decrypted[s - 1][i], s)]]
  BY <1>5, Zenon DEF Roles!Decrypted
<1>7. PICK h : h = Roles!Decrypted  OBVIOUS
<1>8. h[0] = R  BY <1>2, <1>6, <1>7
<1>9. \A s \in 1..N : h[s] = [i \in 1..N |-> Roles!Opened(h[s - 1][i], s)]
  <2>1. \A s \in 1..N : s \in 0..N /\ s # 0  OBVIOUS
  <2>2. QED  BY <1>6, <1>7, <2>1 DEF Roles!Seats
<1>10. \A s \in 0..N : h[s] = f[s]
  <2>1. PICK D : D = [s \in 0..N |-> {f[s]}]  OBVIOUS
  <2>2. h[0] \in D[0]  BY <1>3, <1>8, <2>1
  <2>3. ASSUME NEW s \in 1..N, h[s - 1] \in D[s - 1] PROVE h[s] \in D[s]
    <3>1. s \in 0..N /\ s - 1 \in 0..N  OBVIOUS
    <3>2. h[s - 1] = f[s - 1]  BY <2>1, <2>3, <3>1
    <3>3. h[s] = f[s]  BY <1>4, <1>9, <3>2, Zenon
    <3>4. QED  BY <2>1, <3>1, <3>3
  <2>4. \A s \in 0..N : h[s] \in D[s]  BY <2>2, <2>3, Climb
  <2>5. QED  BY <2>1, <2>4
<1>11. f[N] = [i \in 1..N |-> [id |-> p[i], locks |-> Under(1..N)]]
  <2>1. N \in 0..N  OBVIOUS
  <2>2. QED  BY <1>1, <2>1, Zenon
<1>12. h[N] = f[N]  BY <1>10
<1>13. QED  BY <1>7, <1>11, <1>12

\* Permuted cards give a role as often as the registry does.
LEMMA AsManyRoles ==
    ASSUME N \in Nat, NEW p \in Perms, NEW role
    PROVE  Cardinality({s \in 1..N : Registry[p[s]] = role}) = Cardinality({i \in 1..N : Registry[i] = role})
<1>1. PICK A, B : A = {s \in 1..N : Registry[p[s]] = role} /\ B = {i \in 1..N : Registry[i] = role}  OBVIOUS
<1>2. IsFiniteSet(1..N) /\ IsFiniteSet(A)
  <2>1. IsFiniteSet(1..N)  BY FS_Interval
  <2>2. A \subseteq 1..N  BY <1>1
  <2>3. QED  BY <2>1, <2>2, FS_Subset
<1>3. p \in Surjection(1..N, 1..N)
  <2>1. p \in Injection(1..N, 1..N)  BY DEF Injection, IsInjective, Perms
  <2>2. QED  BY <1>2, <2>1, FS_Injection
<1>4. PICK f : f = [s \in A |-> p[s]]  OBVIOUS
<1>5. f \in [A -> B]  BY <1>1, <1>4 DEF Perms
<1>6. f \in Injection(A, B)  BY <1>1, <1>4, <1>5 DEF Injection, IsInjective, Perms
<1>7. f \in Surjection(A, B)
  <2>1. ASSUME NEW i \in B PROVE \E s \in A : f[s] = i
    <3>1. i \in 1..N /\ Registry[i] = role  BY <1>1
    <3>2. PICK s \in 1..N : p[s] = i  BY <1>3, <3>1 DEF Surjection
    <3>3. s \in A  BY <1>1, <3>1, <3>2
    <3>4. QED  BY <1>4, <3>2, <3>3
  <2>2. QED  BY <1>5, <2>1 DEF Surjection
<1>8. f \in Bijection(A, B)  BY <1>6, <1>7 DEF Bijection
<1>9. ExistsBijection(A, B)  BY <1>8 DEF ExistsBijection
<1>10. Cardinality(B) = Cardinality(A)  BY <1>2, <1>9, FS_Bijection
<1>11. QED  BY <1>1, <1>10

-----------------------------------------------------------------------------
(* Hidden roles: what the relay and the seats have, said of the decks R and  *)
(* the batches M that the committed seeds p give.                            *)
Given(R, M, p) ==
    /\ p \in [1..N -> Perms]
    /\ R[0] = Roles!InitialDeck /\ \A s \in 1..N : R[s] = Roles!Shuffled(R[s - 1], s, p[s])
    /\ M[0] = FirstBatch /\ \A s \in 1..N : M[s] = MixStep(M[s - 1], s, p[s])
    /\ \A s \in 0..N : R[s] \in DecksAt(s) /\ M[s] \in BatchesAt(s)

Question == [seat : 1..N, target : 1..N, status : {"pending", "verified"}, guardians : SUBSET (1..N)]
Step(A, s) == [input |-> A[s - 1], output |-> A[s]]
\* A seat that the relay has passed has recorded the step; one more may have,
\* its answer lost.
Recorded(record, A, to) == \A s \in 1..N : record[s] = Step(A, s) \/ (record[s] = None /\ s > to)
Truth(R, q) == [query |-> q, target |-> queries[q].target, role |-> Registry[R[N][queries[q].target].id]]

RolesTypes ==
    /\ DOMAIN shuffleRecord = 1..N /\ DOMAIN transit = 1..N /\ DOMAIN assigned = 1..N /\ DOMAIN mixRecord = 1..N
    /\ DOMAIN queries = 1..MaxQueries
    /\ unlocked \in [1..N -> SUBSET (1..N)] /\ shares \in [1..N -> SUBSET (1..N)]
    /\ hellos \subseteq 1..N /\ team \in [1..N -> SUBSET (1..N)]
Decked(R) ==
    /\ deck.stage \in 0..N /\ deck = [stage |-> deck.stage, cards |-> R[deck.stage]]
    /\ Recorded(shuffleRecord, R, deck.stage)
\* A card on its way has its own locks, without those of the seats that have
\* taken theirs off; and those are not the recipient's.
Dealt(R) ==
    \A r \in 1..N :
        /\ r \notin unlocked[r]
        /\ IF transit[r] = None THEN unlocked[r] = {} /\ shares[r] = {}
           ELSE deck.stage = N /\ transit[r] = [id |-> R[N][r].id, locks |-> Under(unlocked[r])]
Assigned(R) ==
    \A r \in 1..N : assigned[r] = None
        \/ (deck.stage = N /\ assigned[r] = [card |-> R[N][r].id, role |-> Registry[R[N][r].id]])
Questions(R) ==
    /\ \A q \in 1..MaxQueries : queries[q] = None
        \/ (queries[q] \in Question /\ assigned[queries[q].seat] # None /\ assigned[queries[q].seat].role = "seer"
            /\ (queries[q].status = "verified" => Truth(R, q) \in results))
    /\ \A d \in results :
        /\ d.query \in 1..MaxQueries /\ queries[d.query] # None /\ queries[d.query].status = "verified"
        /\ d = Truth(R, d.query)
Batched(M) ==
    /\ batch.stage \in 0..N /\ batch = [stage |-> batch.stage, envelopes |-> M[batch.stage]]
    /\ Recorded(mixRecord, M, batch.stage)
RolesState(R, M, p) ==
    seed = p /\ RolesTypes /\ Decked(R) /\ Dealt(R) /\ Assigned(R) /\ Questions(R) /\ Batched(M)
RolesInv == \E R, M, p : Given(R, M, p) /\ RolesState(R, M, p)

LEMMA RolesBegin == Roles!Init => RolesInv
<1> SUFFICES ASSUME Roles!Init PROVE RolesInv  OBVIOUS
<1>1. N \in Nat /\ seed \in [1..N -> Perms]
  BY RolesAssumption DEF Roles!Init, Roles!Seats, Perms
<1>2. PICK R, M, p : R = Roles!Replay /\ M = Roles!ReplayMix /\ p = seed  OBVIOUS
<1>3. Given(R, M, p)  BY <1>1, <1>2, ReplayIs, ReplayMixIs DEF Given
<1>4. RolesTypes  BY DEF Roles!Init, RolesTypes, Roles!Seats
<1>5. Decked(R)
  <2>1. deck = [stage |-> 0, cards |-> R[0]]  BY <1>3 DEF Roles!Init, Given
  <2>2. \A s \in 1..N : shuffleRecord[s] = None /\ s > 0  BY <1>1 DEF Roles!Init, Roles!Seats
  <2>3. QED  BY <1>1, <2>1, <2>2 DEF Decked, Recorded
<1>6. Dealt(R)  BY DEF Roles!Init, Roles!Seats, Dealt
<1>7. Assigned(R)  BY DEF Roles!Init, Roles!Seats, Assigned
<1>8. Questions(R)  BY DEF Roles!Init, Questions
<1>9. Batched(M)
  <2>1. batch = [stage |-> 0, envelopes |-> M[0]]  BY <1>3 DEF Roles!Init, Given, FirstBatch, Roles!Seats
  <2>2. \A s \in 1..N : mixRecord[s] = None /\ s > 0  BY <1>1 DEF Roles!Init, Roles!Seats
  <2>3. QED  BY <1>1, <2>1, <2>2 DEF Batched, Recorded
<1>10. RolesState(R, M, p)  BY <1>2, <1>4, <1>5, <1>6, <1>7, <1>8, <1>9 DEF RolesState
<1>11. QED  BY <1>3, <1>10 DEF RolesInv

LEMMA ShuffleKeeps ==
    ASSUME NEW R, NEW M, NEW p, Given(R, M, p), RolesState(R, M, p), NEW s \in 1..N, Roles!Shuffle(s)
    PROVE  RolesState(R, M, p)'
<1>0. N \in Nat  BY RolesAssumption
<1>1. deck.stage = s - 1 /\ deck.cards = R[s - 1] /\ deck.stage # N /\ s \in 0..N
  <2>1. deck.stage = s - 1  BY DEF Roles!Shuffle
  <2>2. deck = [stage |-> s - 1, cards |-> R[s - 1]]  BY <2>1 DEF RolesState, Decked
  <2>3. QED  BY <1>0, <2>1, <2>2
<1>2. Roles!Shuffled(deck.cards, s, seed[s]) = R[s]  BY <1>1 DEF Given, RolesState
<1>3. shuffleRecord' = [shuffleRecord EXCEPT ![s] = Step(R, s)]
  BY <1>1, <1>2 DEF Roles!Shuffle, Roles!Permutation, Step
<1>4. deck' = [stage |-> s, cards |-> R[s]] \/ deck' = deck
  BY <1>2 DEF Roles!Shuffle, Roles!Permutation
<1>5. UNCHANGED <<seed, transit, unlocked, shares, assigned, queries, results, hellos, team, batch, mixRecord>>
  BY DEF Roles!Shuffle
<1>6. RolesTypes'  BY <1>3, <1>5 DEF RolesState, RolesTypes
<1>7. Decked(R)'
  <2>1. deck'.stage \in 0..N /\ deck' = [stage |-> deck'.stage, cards |-> R[deck'.stage]] /\ deck'.stage <= s
    BY <1>0, <1>1, <1>4 DEF RolesState, Decked
  <2>2. ASSUME NEW t \in 1..N PROVE shuffleRecord'[t] = Step(R, t) \/ (shuffleRecord'[t] = None /\ t > deck'.stage)
    <3>1. CASE t = s  BY <1>3, <3>1 DEF RolesState, RolesTypes
    <3>2. CASE t # s
      <4>1. shuffleRecord'[t] = shuffleRecord[t]  BY <1>3, <3>2 DEF RolesState, RolesTypes
      <4>2. shuffleRecord[t] = Step(R, t) \/ (shuffleRecord[t] = None /\ t > s - 1)
        BY <1>1 DEF RolesState, Decked, Recorded
      <4>3. QED  BY <1>0, <2>1, <3>2, <4>1, <4>2
    <3>3. QED  BY <3>1, <3>2
  <2>3. QED  BY <2>1, <2>2 DEF Decked, Recorded
<1>8. \A r \in 1..N : transit[r] = None /\ assigned[r] = None  BY <1>1 DEF RolesState, Dealt, Assigned
<1>9. Dealt(R)'  BY <1>5, <1>8 DEF RolesState, Dealt
<1>10. Assigned(R)'  BY SMTT(30), <1>5, <1>8 DEF RolesState, Assigned
<1>11. Questions(R)' /\ Batched(M)'
  BY <1>5 DEF RolesState, Questions, Batched, Recorded, Truth
<1>12. QED  BY <1>5, <1>6, <1>7, <1>9, <1>10, <1>11 DEF RolesState

LEMMA DealKeeps ==
    ASSUME NEW R, NEW M, NEW p, Given(R, M, p), RolesState(R, M, p), NEW r \in 1..N, Roles!Deal(r)
    PROVE  RolesState(R, M, p)'
<1>0. N \in Nat /\ N \in 0..N  BY RolesAssumption
<1>1. deck.stage = N /\ transit[r] = None /\ transit' = [transit EXCEPT ![r] = deck.cards[r]]
  BY DEF Roles!Deal
<1>2. UNCHANGED <<seed, deck, shuffleRecord, unlocked, shares, assigned, queries, results, hellos, team, batch,
                  mixRecord>>
  BY DEF Roles!Deal
<1>3. deck.cards = R[N]  BY <1>1 DEF RolesState, Decked
<1>4. R[N][r] = [id |-> R[N][r].id, locks |-> Under({})]
  <2>1. R[N] \in DecksAt(N)  BY <1>0 DEF Given
  <2>2. PICK q : R[N] = DeckAt(N, q)  BY <2>1 DEF DecksAt
  <2>3. R[N][r] = [id |-> q[r], locks |-> Under({})]  BY <1>0, <2>2, AllLocked DEF DeckAt
  <2>4. QED  BY <2>3
<1>5. RolesTypes'  BY <1>1, <1>2 DEF RolesState, RolesTypes
<1>6. Dealt(R)'
  <2>1. ASSUME NEW t \in 1..N
        PROVE  /\ t \notin unlocked'[t]
               /\ IF transit'[t] = None THEN unlocked'[t] = {} /\ shares'[t] = {}
                  ELSE deck'.stage = N /\ transit'[t] = [id |-> R[N][t].id, locks |-> Under(unlocked'[t])]
    <3>1. CASE t = r
      <4>1. unlocked[t] = {} /\ shares[t] = {}  BY <1>1, <3>1 DEF RolesState, Dealt
      <4>2. transit'[t] = R[N][r]  BY <1>1, <1>3, <3>1 DEF RolesState, RolesTypes
      <4>3. QED  BY <1>1, <1>2, <1>4, <3>1, <4>1, <4>2
    <3>2. CASE t # r
      <4>1. transit'[t] = transit[t]  BY SMTT(30), <1>1, <3>2 DEF RolesState, RolesTypes
      <4>2. QED  BY <1>2, <4>1 DEF RolesState, Dealt
    <3>3. QED  BY <3>1, <3>2
  <2>2. QED  BY <2>1 DEF Dealt
<1>7. Decked(R)' /\ Assigned(R)' /\ Questions(R)' /\ Batched(M)'
  BY <1>2 DEF RolesState, Decked, Assigned, Questions, Batched, Recorded, Truth
<1>8. QED  BY <1>2, <1>5, <1>6, <1>7 DEF RolesState


LEMMA UnlockKeeps ==
    ASSUME NEW R, NEW M, NEW p, Given(R, M, p), RolesState(R, M, p), NEW s \in 1..N, NEW r \in 1..N,
           Roles!Unlock(s, r)
    PROVE  RolesState(R, M, p)'
<1>0. N \in Nat /\ N \in 0..N  BY RolesAssumption
<1>1. s # r /\ transit[r] # None /\ s \notin unlocked[r]  BY DEF Roles!Unlock
<1>2. transit' = [transit EXCEPT ![r] = Roles!Opened(transit[r], s)]  BY DEF Roles!Unlock
<1>3. unlocked' = [unlocked EXCEPT ![r] = unlocked[r] \union {s}]  BY DEF Roles!Unlock
<1>4. UNCHANGED <<seed, deck, shuffleRecord, shares, assigned, queries, results, hellos, team, batch, mixRecord>>
  BY DEF Roles!Unlock
<1>5. PICK x, off : x = R[N][r].id /\ off = unlocked[r]  OBVIOUS
<1>6. deck.stage = N /\ transit[r] = [id |-> x, locks |-> Under(off)] /\ r \notin off
  BY <1>1, <1>5 DEF RolesState, Dealt
<1>7. PICK v : v = [id |-> x, locks |-> Under(off \union {s})]  OBVIOUS
<1>8. Roles!Opened(transit[r], s) = v
  <2>1. s \notin off  BY <1>1, <1>5
  <2>2. Roles!Opened([id |-> x, locks |-> Under(off)], s) = v  BY <1>0, <1>7, <2>1, OpenedIs
  <2>3. QED  BY <1>6, <2>2
<1>9. v # None
  <2>1. x \in 1..N
    <3>1. R[N] \in DecksAt(N)  BY <1>0 DEF Given
    <3>2. PICK q \in Perms : R[N] = DeckAt(N, q)  BY <3>1 DEF DecksAt
    <3>3. x = q[r]  BY <1>5, <3>2 DEF DeckAt
    <3>4. QED  BY <3>3 DEF Perms
  <2>2. Under(off \union {s}) \in [1..N -> [1..N -> 0..2]]  BY DEF Under
  <2>3. v \in [id : 1..N, locks : [1..N -> [1..N -> 0..2]]]  BY <1>7, <2>1, <2>2
  <2>4. QED  BY <2>3, RolesAssumption
<1>10. RolesTypes'  BY <1>2, <1>3, <1>4 DEF RolesState, RolesTypes
<1>11. Dealt(R)'
  <2>1. ASSUME NEW t \in 1..N
        PROVE  /\ t \notin unlocked'[t]
               /\ IF transit'[t] = None THEN unlocked'[t] = {} /\ shares'[t] = {}
                  ELSE deck'.stage = N /\ transit'[t] = [id |-> R[N][t].id, locks |-> Under(unlocked'[t])]
    <3>1. CASE t = r
      <4>1. transit'[t] = v  BY <1>2, <1>8, <3>1 DEF RolesState, RolesTypes
      <4>2. unlocked'[t] = off \union {s}  BY <1>3, <1>5, <3>1 DEF RolesState, RolesTypes
      <4>3. QED  BY <1>1, <1>4, <1>5, <1>6, <1>7, <1>9, <3>1, <4>1, <4>2
    <3>2. CASE t # r
      <4>1. transit'[t] = transit[t] /\ unlocked'[t] = unlocked[t]
        BY SMTT(30), <1>2, <1>3, <3>2 DEF RolesState, RolesTypes
      <4>2. QED  BY <1>4, <4>1 DEF RolesState, Dealt
    <3>3. QED  BY <3>1, <3>2
  <2>2. QED  BY <2>1 DEF Dealt
<1>12. Decked(R)' /\ Assigned(R)' /\ Questions(R)' /\ Batched(M)'
  BY <1>4 DEF RolesState, Decked, Assigned, Questions, Batched, Recorded, Truth
<1>13. QED  BY <1>4, <1>10, <1>11, <1>12 DEF RolesState

LEMMA ShareRoleKeeps ==
    ASSUME NEW R, NEW M, NEW p, Given(R, M, p), RolesState(R, M, p), NEW s \in 1..N, NEW r \in 1..N,
           Roles!ShareRole(s, r)
    PROVE  RolesState(R, M, p)'
<1>1. shares' = [shares EXCEPT ![r] = shares[r] \union {s}]  BY DEF Roles!ShareRole
<1>2. UNCHANGED <<seed, deck, shuffleRecord, transit, unlocked, assigned, queries, results, hellos, team, batch,
                  mixRecord>>
  BY DEF Roles!ShareRole
<1>3. transit[r] # None  BY DEF Roles!ShareRole
<1>4. RolesTypes'  BY <1>1, <1>2 DEF RolesState, RolesTypes
<1>5. \A t \in 1..N : transit[t] = None => shares'[t] = shares[t]  BY <1>1, <1>3 DEF RolesState, RolesTypes
<1>6. Dealt(R)'  BY SMTT(30), <1>2, <1>5 DEF RolesState, Dealt
<1>7. Decked(R)' /\ Assigned(R)' /\ Questions(R)' /\ Batched(M)'
  BY <1>2 DEF RolesState, Decked, Assigned, Questions, Batched, Recorded, Truth
<1>8. QED  BY <1>2, <1>4, <1>6, <1>7 DEF RolesState

LEMMA AcceptRoleKeeps ==
    ASSUME NEW R, NEW M, NEW p, Given(R, M, p), RolesState(R, M, p), NEW r \in 1..N, Roles!AcceptRole(r)
    PROVE  RolesState(R, M, p)'
<1>0. N \in Nat /\ N \in 0..N  BY RolesAssumption
<1>1. assigned[r] = None /\ unlocked[r] = (1..N) \ {r} /\ Roles!Clear(Roles!Opened(transit[r], r))
  BY DEF Roles!AcceptRole, Roles!Seats
<1>2. assigned' = [assigned EXCEPT ![r] = [card |-> transit[r].id, role |-> Registry[deck.cards[r].id]]]
  BY DEF Roles!AcceptRole
<1>3. UNCHANGED <<seed, deck, shuffleRecord, transit, unlocked, shares, queries, results, hellos, team, batch,
                  mixRecord>>
  BY DEF Roles!AcceptRole
<1>4. transit[r] # None
  <2>1. shares[r] # {}  BY <1>0 DEF Roles!AcceptRole, Roles!Seats
  <2>2. QED  BY <2>1 DEF RolesState, Dealt
<1>5. deck.stage = N /\ transit[r].id = R[N][r].id
  <2>1. PICK x, h : x = R[N][r].id /\ h = Under(unlocked[r])  OBVIOUS
  <2>2. deck.stage = N /\ transit[r] = [id |-> x, locks |-> h]  BY <1>4, <2>1 DEF RolesState, Dealt
  <2>3. QED  BY <2>1, <2>2
<1>6. deck.cards = R[N]  BY <1>5 DEF RolesState, Decked
<1>7. RolesTypes'  BY <1>2, <1>3 DEF RolesState, RolesTypes
<1>8. Assigned(R)'
  <2>1. assigned'[r] = [card |-> R[N][r].id, role |-> Registry[R[N][r].id]]
    BY <1>2, <1>5, <1>6 DEF RolesState, RolesTypes
  <2>2. \A t \in 1..N : t # r => assigned'[t] = assigned[t]  BY <1>2 DEF RolesState, RolesTypes
  <2>3. QED  BY <1>3, <1>5, <2>1, <2>2 DEF RolesState, Assigned
<1>9. \A t \in 1..N : assigned[t] # None => assigned'[t] = assigned[t]  BY <1>1, <1>2 DEF RolesState, RolesTypes
<1>10. Questions(R)'
  <2>1. \A q : Truth(R, q)' = Truth(R, q)  BY <1>3 DEF Truth
  <2>2. QED  BY <1>3, <1>9, <2>1 DEF RolesState, Questions, Question
<1>11. Decked(R)' /\ Dealt(R)' /\ Batched(M)'
  BY <1>3 DEF RolesState, Decked, Dealt, Batched, Recorded
<1>12. QED  BY <1>3, <1>7, <1>8, <1>10, <1>11 DEF RolesState

LEMMA CreateQueryKeeps ==
    ASSUME NEW R, NEW M, NEW p, Given(R, M, p), RolesState(R, M, p), NEW s \in 1..N, NEW target \in 1..N,
           NEW q \in 1..MaxQueries, Roles!CreateQuery(s, q, target)
    PROVE  RolesState(R, M, p)'
<1>1. PICK v : v = [seat |-> s, target |-> target, status |-> "pending", guardians |-> {}]  OBVIOUS
<1>2. Roles!RoleOf(s) = "seer" /\ queries[q] = None /\ queries' = [queries EXCEPT ![q] = v]
  BY <1>1 DEF Roles!CreateQuery
<1>3. UNCHANGED <<seed, deck, shuffleRecord, transit, unlocked, shares, assigned, results, hellos, team, batch,
                  mixRecord>>
  BY DEF Roles!CreateQuery
<1>4. RolesTypes'  BY <1>2, <1>3 DEF RolesState, RolesTypes
<1>5. Questions(R)'
  <2>1. queries'[q] = v /\ \A k \in 1..MaxQueries : k # q => queries'[k] = queries[k]
    BY <1>2 DEF RolesState, RolesTypes
  <2>2. v \in Question /\ v.status # "verified" /\ v.seat = s  BY <1>1 DEF Question
  <2>3. assigned' = assigned /\ assigned[s] # None /\ assigned[s].role = "seer"
    BY <1>2, <1>3, RolesAssumption DEF Roles!RoleOf
  <2>4. \A k \in 1..MaxQueries : k # q => Truth(R, k)' = Truth(R, k)  BY <2>1 DEF Truth
  <2>5. \A d \in results : d.query # q  BY <1>2 DEF RolesState, Questions
  <2>6. ASSUME NEW k \in 1..MaxQueries
        PROVE  queries'[k] = None
                   \/ (/\ queries'[k] \in Question
                       /\ assigned'[queries'[k].seat] # None /\ assigned'[queries'[k].seat].role = "seer"
                       /\ (queries'[k].status = "verified" => Truth(R, k)' \in results'))
    <3>1. CASE k = q  BY <1>2, <2>1, <2>2, <2>3, <3>1
    <3>2. CASE k # q  BY <1>3, <2>1, <2>3, <2>4, <3>2 DEF RolesState, Questions
    <3>3. QED  BY <3>1, <3>2
  <2>7. \A d \in results' : /\ d.query \in 1..MaxQueries /\ queries'[d.query] # None
                            /\ queries'[d.query].status = "verified" /\ d = Truth(R, d.query)'
    BY <1>3, <2>1, <2>4, <2>5 DEF RolesState, Questions
  <2>8. QED  BY <2>6, <2>7 DEF Questions
<1>6. Decked(R)' /\ Dealt(R)' /\ Assigned(R)' /\ Batched(M)'
  BY <1>3 DEF RolesState, Decked, Dealt, Assigned, Batched, Recorded
<1>7. QED  BY <1>3, <1>4, <1>5, <1>6 DEF RolesState

LEMMA ShareQueryKeeps ==
    ASSUME NEW R, NEW M, NEW p, Given(R, M, p), RolesState(R, M, p), NEW s \in 1..N, NEW q \in 1..MaxQueries,
           Roles!ShareQuery(s, q)
    PROVE  RolesState(R, M, p)'
<1>1. queries[q] # None  BY DEF Roles!ShareQuery
<1>2. PICK v : v = [queries[q] EXCEPT !.guardians = queries[q].guardians \union {s}]  OBVIOUS
<1>3. queries' = [queries EXCEPT ![q] = v]  BY <1>2 DEF Roles!ShareQuery
<1>4. UNCHANGED <<seed, deck, shuffleRecord, transit, unlocked, shares, assigned, results, hellos, team, batch,
                  mixRecord>>
  BY DEF Roles!ShareQuery
<1>5. RolesTypes'  BY <1>3, <1>4 DEF RolesState, RolesTypes
<1>6. queries[q] \in Question  BY <1>1 DEF RolesState, Questions
<1>7. v \in Question /\ v.seat = queries[q].seat /\ v.target = queries[q].target /\ v.status = queries[q].status
  BY <1>2, <1>6 DEF Question
<1>8. v # None  BY <1>7, RolesAssumption DEF Question
<1>9. Questions(R)'
  <2>1. queries'[q] = v /\ \A k \in 1..MaxQueries : k # q => queries'[k] = queries[k]
    BY <1>3 DEF RolesState, RolesTypes
  <2>2. assigned' = assigned  BY <1>4
  <2>3. \A k \in 1..MaxQueries : Truth(R, k)' = Truth(R, k)  BY <1>7, <2>1 DEF Truth
  <2>4. ASSUME NEW k \in 1..MaxQueries
        PROVE  queries'[k] = None
                   \/ (/\ queries'[k] \in Question
                       /\ assigned'[queries'[k].seat] # None /\ assigned'[queries'[k].seat].role = "seer"
                       /\ (queries'[k].status = "verified" => Truth(R, k)' \in results'))
    <3>1. CASE k = q  BY <1>1, <1>4, <1>7, <2>1, <2>2, <2>3, <3>1 DEF RolesState, Questions
    <3>2. CASE k # q  BY <1>4, <2>1, <2>2, <2>3, <3>2 DEF RolesState, Questions
    <3>3. QED  BY <3>1, <3>2
  <2>5. ASSUME NEW d \in results'
        PROVE  /\ d.query \in 1..MaxQueries /\ queries'[d.query] # None
               /\ queries'[d.query].status = "verified" /\ d = Truth(R, d.query)'
    BY <1>4, <1>7, <1>8, <2>1, <2>3, <2>5 DEF RolesState, Questions
  <2>6. QED  BY <2>4, <2>5 DEF Questions
<1>10. Decked(R)' /\ Dealt(R)' /\ Assigned(R)' /\ Batched(M)'
  BY <1>4 DEF RolesState, Decked, Dealt, Assigned, Batched, Recorded
<1>11. QED  BY <1>4, <1>5, <1>9, <1>10 DEF RolesState

LEMMA AcceptQueryKeeps ==
    ASSUME NEW R, NEW M, NEW p, Given(R, M, p), RolesState(R, M, p), NEW q \in 1..MaxQueries,
           Roles!AcceptQuery(q)
    PROVE  RolesState(R, M, p)'
<1>0. N \in Nat  BY RolesAssumption
<1>1. queries[q] # None /\ queries[q].status = "pending"  BY DEF Roles!AcceptQuery
<1>2. PICK v : v = [queries[q] EXCEPT !.status = "verified"]  OBVIOUS
<1>3. queries' = [queries EXCEPT ![q] = v]  BY <1>2 DEF Roles!AcceptQuery
<1>4. UNCHANGED <<seed, deck, shuffleRecord, transit, unlocked, shares, assigned, hellos, team, batch, mixRecord>>
  BY DEF Roles!AcceptQuery
<1>5. RolesTypes'  BY <1>3, <1>4 DEF RolesState, RolesTypes
<1>6. queries[q] \in Question /\ assigned[queries[q].seat] # None /\ assigned[queries[q].seat].role = "seer"
  BY <1>1 DEF RolesState, Questions
<1>7. v \in Question /\ v.seat = queries[q].seat /\ v.target = queries[q].target /\ v.status = "verified"
  BY <1>2, <1>6 DEF Question
<1>8. v # None  BY <1>7, RolesAssumption DEF Question
<1>9. deck.cards = R[N]
  <2>1. queries[q].seat \in 1..N  BY <1>6 DEF Question
  <2>2. deck.stage = N  BY <1>6, <2>1 DEF RolesState, Assigned
  <2>3. QED  BY <2>2 DEF RolesState, Decked
<1>10. results' = results \union {Truth(R, q)}  BY <1>9 DEF Roles!AcceptQuery, Truth
<1>11. Questions(R)'
  <2>1. queries'[q] = v /\ \A k \in 1..MaxQueries : k # q => queries'[k] = queries[k]
    BY <1>3 DEF RolesState, RolesTypes
  <2>2. assigned' = assigned  BY <1>4
  <2>3. \A k \in 1..MaxQueries : Truth(R, k)' = Truth(R, k)  BY <1>7, <2>1 DEF Truth
  <2>4. ASSUME NEW k \in 1..MaxQueries
        PROVE  queries'[k] = None
                   \/ (/\ queries'[k] \in Question
                       /\ assigned'[queries'[k].seat] # None /\ assigned'[queries'[k].seat].role = "seer"
                       /\ (queries'[k].status = "verified" => Truth(R, k)' \in results'))
    <3>1. CASE k = q  BY <1>6, <1>7, <1>10, <2>1, <2>2, <2>3, <3>1
    <3>2. CASE k # q  BY <1>10, <2>1, <2>2, <2>3, <3>2 DEF RolesState, Questions
    <3>3. QED  BY <3>1, <3>2
  <2>5. ASSUME NEW d \in results'
        PROVE  /\ d.query \in 1..MaxQueries /\ queries'[d.query] # None
               /\ queries'[d.query].status = "verified" /\ d = Truth(R, d.query)'
    <3>1. CASE d = Truth(R, q)
      <4>1. d.query = q  BY <3>1 DEF Truth
      <4>2. QED  BY <1>7, <1>8, <2>1, <2>3, <3>1, <4>1
    <3>2. CASE d \in results  BY <1>1, <2>1, <2>3, <3>2 DEF RolesState, Questions
    <3>3. QED  BY <1>10, <2>5, <3>1, <3>2
  <2>6. QED  BY <2>4, <2>5 DEF Questions
<1>12. Decked(R)' /\ Dealt(R)' /\ Assigned(R)' /\ Batched(M)'
  BY <1>4 DEF RolesState, Decked, Dealt, Assigned, Batched, Recorded
<1>13. QED  BY <1>4, <1>5, <1>11, <1>12 DEF RolesState


LEMMA HellosKeep ==
    ASSUME NEW R, NEW M, NEW p, Given(R, M, p), RolesState(R, M, p), NEW s \in 1..N,
           Roles!Hello(s) \/ Roles!AcceptHellos(s)
    PROVE  RolesState(R, M, p)'
<1>1. UNCHANGED <<seed, deck, shuffleRecord, transit, unlocked, shares, assigned, queries, results, batch, mixRecord>>
  BY DEF Roles!Hello, Roles!AcceptHellos
<1>2. hellos' \subseteq 1..N /\ team' \in [1..N -> SUBSET (1..N)]
  <2>1. hellos \subseteq 1..N /\ team \in [1..N -> SUBSET (1..N)]  BY DEF RolesState, RolesTypes
  <2>2. CASE Roles!Hello(s)  BY <2>1, <2>2 DEF Roles!Hello
  <2>3. CASE Roles!AcceptHellos(s)
    <3>1. PICK W : W \subseteq hellos /\ team' = [team EXCEPT ![s] = W] /\ hellos' = hellos
      <4>1. PICK W : W = {h \in hellos : Roles!RoleOf(h) = "wolf"}  OBVIOUS
      <4>2. team' = [team EXCEPT ![s] = W] /\ hellos' = hellos  BY <2>3, <4>1 DEF Roles!AcceptHellos
      <4>3. QED  BY <4>1, <4>2
    <3>2. QED  BY <2>1, <3>1
  <2>4. QED  BY <2>2, <2>3
<1>3. RolesTypes'  BY SMTT(30), <1>1, <1>2 DEF RolesState, RolesTypes
<1>4. Decked(R)' /\ Dealt(R)' /\ Assigned(R)' /\ Questions(R)' /\ Batched(M)'
  BY <1>1 DEF RolesState, Decked, Dealt, Assigned, Questions, Batched, Recorded, Truth
<1>5. QED  BY <1>1, <1>3, <1>4 DEF RolesState

LEMMA MixKeeps ==
    ASSUME NEW R, NEW M, NEW p, Given(R, M, p), RolesState(R, M, p), NEW s \in 1..N, Roles!Mix(s)
    PROVE  RolesState(R, M, p)'
<1>0. N \in Nat  BY RolesAssumption
<1>1. batch.stage = s - 1 /\ batch.envelopes = M[s - 1] /\ s \in 0..N
  <2>1. batch.stage = s - 1  BY DEF Roles!Mix
  <2>2. batch = [stage |-> s - 1, envelopes |-> M[s - 1]]  BY <2>1 DEF RolesState, Batched
  <2>3. QED  BY <1>0, <2>1, <2>2
<1>2. PICK record : record = [input |-> batch.envelopes, output |-> Roles!Mixed(batch.envelopes, s)]  OBVIOUS
<1>3. record = Step(M, s) /\ record.output = M[s]
  <2>1. Roles!Mixed(batch.envelopes, s) = MixStep(M[s - 1], s, p[s])
    BY <1>1 DEF Roles!Mixed, MixStep, Roles!Seats, RolesState
  <2>2. MixStep(M[s - 1], s, p[s]) = M[s]  BY DEF Given
  <2>3. QED  BY <1>1, <1>2, <2>1, <2>2 DEF Step
<1>4. mixRecord' = [mixRecord EXCEPT ![s] = record]
      /\ (batch' = [stage |-> s, envelopes |-> record.output] \/ batch' = batch)
  BY <1>2 DEF Roles!Mix
<1>5. UNCHANGED <<seed, deck, shuffleRecord, transit, unlocked, shares, assigned, queries, results, hellos, team>>
  BY DEF Roles!Mix
<1>6. RolesTypes'  BY <1>4, <1>5 DEF RolesState, RolesTypes
<1>7. Batched(M)'
  <2>1. batch'.stage \in 0..N /\ batch' = [stage |-> batch'.stage, envelopes |-> M[batch'.stage]]
        /\ batch'.stage <= s
    <3>1. CASE batch' = [stage |-> s, envelopes |-> record.output]  BY <1>0, <1>1, <1>3, <3>1
    <3>2. CASE batch' = batch  BY <1>0, <1>1, <3>2 DEF RolesState, Batched
    <3>3. QED  BY <1>4, <3>1, <3>2
  <2>2. ASSUME NEW t \in 1..N PROVE mixRecord'[t] = Step(M, t) \/ (mixRecord'[t] = None /\ t > batch'.stage)
    <3>1. CASE t = s  BY <1>3, <1>4, <3>1 DEF RolesState, RolesTypes
    <3>2. CASE t # s
      <4>1. mixRecord'[t] = mixRecord[t]  BY <1>4, <3>2 DEF RolesState, RolesTypes
      <4>2. mixRecord[t] = Step(M, t) \/ (mixRecord[t] = None /\ t > s - 1)
        BY SMTT(30), <1>1 DEF RolesState, Batched, Recorded
      <4>3. QED  BY <1>0, <2>1, <3>2, <4>1, <4>2
    <3>3. QED  BY <3>1, <3>2
  <2>3. QED  BY <2>1, <2>2 DEF Batched, Recorded
<1>8. Decked(R)' /\ Dealt(R)' /\ Assigned(R)' /\ Questions(R)'
  BY <1>5 DEF RolesState, Decked, Dealt, Assigned, Questions, Recorded, Truth
<1>9. QED  BY <1>5, <1>6, <1>7, <1>8 DEF RolesState

LEMMA RolesKeep == RolesInv /\ Roles!Next => RolesInv'
<1> SUFFICES ASSUME RolesInv, Roles!Next PROVE RolesInv'  OBVIOUS
<1>1. PICK R, M, p : Given(R, M, p) /\ RolesState(R, M, p)  BY DEF RolesInv
<1>2. RolesState(R, M, p)'
  <2>1. CASE \E s \in 1..N : \/ Roles!Shuffle(s) \/ Roles!Deal(s) \/ Roles!AcceptRole(s)
                             \/ Roles!Hello(s) \/ Roles!AcceptHellos(s) \/ Roles!Mix(s)
    BY <1>1, <2>1, ShuffleKeeps, DealKeeps, AcceptRoleKeeps, HellosKeep, MixKeeps
  <2>2. CASE \E s, r \in 1..N : Roles!Unlock(s, r) \/ Roles!ShareRole(s, r)
    BY <1>1, <2>2, UnlockKeeps, ShareRoleKeeps
  <2>3. CASE \E q \in 1..MaxQueries, s, r \in 1..N : Roles!CreateQuery(s, q, r)
    BY <1>1, <2>3, CreateQueryKeeps
  <2>4. CASE \E q \in 1..MaxQueries : (\E s \in 1..N : Roles!ShareQuery(s, q)) \/ Roles!AcceptQuery(q)
    BY <1>1, <2>4, ShareQueryKeeps, AcceptQueryKeeps
  <2>5. QED  BY <2>1, <2>2, <2>3, <2>4, Zenon DEF Roles!Next, Roles!Seats
<1>3. QED  BY <1>1, <1>2 DEF RolesInv

LEMMA RolesStutter == RolesInv /\ UNCHANGED dealing => RolesInv'
<1> SUFFICES ASSUME RolesInv, UNCHANGED dealing PROVE RolesInv'  OBVIOUS
<1>1. PICK R, M, p : Given(R, M, p) /\ RolesState(R, M, p)  BY SMTT(30) DEF RolesInv
<1>2. RolesState(R, M, p)'
  BY <1>1 DEF dealing, RolesState, RolesTypes, Decked, Dealt, Assigned, Questions, Batched, Recorded, Truth
<1>3. QED  BY <1>1, <1>2 DEF RolesInv

\* What the audit replays is what the relay and the seats have had.
LEMMA AsReplayed ==
    ASSUME NEW R, NEW M, NEW p, Given(R, M, p), seed = p
    PROVE  \A s \in 0..N : Roles!Replay[s] = R[s] /\ Roles!ReplayMix[s] = M[s]
<1>0. N \in Nat  BY RolesAssumption
<1>1. PICK S, T : S = Roles!Replay /\ T = Roles!ReplayMix  OBVIOUS
<1>2. /\ S[0] = Roles!InitialDeck /\ \A s \in 1..N : S[s] = Roles!Shuffled(S[s - 1], s, p[s])
      /\ T[0] = FirstBatch /\ \A s \in 1..N : T[s] = MixStep(T[s - 1], s, p[s])
  BY <1>0, <1>1, ReplayIs, ReplayMixIs DEF Given
<1>3. PICK D, E : D = [s \in 0..N |-> {R[s]}] /\ E = [s \in 0..N |-> {M[s]}]  OBVIOUS
<1>4. S[0] \in D[0] /\ T[0] \in E[0]  BY <1>0, <1>2, <1>3 DEF Given
<1>5. ASSUME NEW s \in 1..N
      PROVE  (S[s - 1] \in D[s - 1] => S[s] \in D[s]) /\ (T[s - 1] \in E[s - 1] => T[s] \in E[s])
  <2>1. s \in 0..N /\ s - 1 \in 0..N  BY <1>0
  <2>2. D[s] = {R[s]} /\ D[s - 1] = {R[s - 1]} /\ E[s] = {M[s]} /\ E[s - 1] = {M[s - 1]}  BY <1>3, <2>1
  <2>3. S[s - 1] = R[s - 1] => S[s] = R[s]  BY <1>2, Zenon DEF Given
  <2>4. T[s - 1] = M[s - 1] => T[s] = M[s]  BY <1>2, Zenon DEF Given
  <2>5. QED  BY <2>2, <2>3, <2>4
<1>6. \A s \in 0..N : S[s] \in D[s]  BY <1>0, <1>4, <1>5, Climb
<1>7. \A s \in 0..N : T[s] \in E[s]  BY <1>0, <1>4, <1>5, Climb
<1>8. QED  BY <1>1, <1>3, <1>6, <1>7

LEMMA RolesHide == RolesInv => Roles!TypeOK /\ Roles!CardStaysLocked /\ Roles!TerminalVerifies
<1> SUFFICES ASSUME RolesInv PROVE Roles!TypeOK /\ Roles!CardStaysLocked /\ Roles!TerminalVerifies  OBVIOUS
<1>0. N \in Nat /\ N \in 0..N /\ 1 \in 1..N /\ DOMAIN Registry = 1..N  BY RolesAssumption
<1>1. PICK R, M, p : Given(R, M, p) /\ RolesState(R, M, p)  BY DEF RolesInv
<1>2. PICK q \in Perms : R[N] = DeckAt(N, q)
  <2>1. R[N] \in DecksAt(N)  BY <1>0, <1>1 DEF Given
  <2>2. QED  BY <2>1 DEF DecksAt
<1>3. \A r \in 1..N : R[N][r].id = q[r] /\ q[r] \in 1..N  BY <1>2 DEF DeckAt, Perms
<1>4. \A r \in 1..N : assigned[r] # None =>
        deck.stage = N /\ assigned[r].card = q[r] /\ assigned[r].role = Registry[q[r]]
        /\ assigned[r] = [card |-> q[r], role |-> Registry[q[r]]]
  BY <1>1, <1>3 DEF RolesState, Assigned
<1>5. Roles!TypeOK
  <2>1. DOMAIN deck.cards = 1..N /\ deck.stage \in 0..N
    <3>1. deck.stage \in 0..N /\ deck.cards = R[deck.stage]  BY <1>1 DEF RolesState, Decked
    <3>2. R[deck.stage] \in DecksAt(deck.stage)  BY <1>1, <3>1 DEF Given
    <3>3. PICK w : R[deck.stage] = DeckAt(deck.stage, w)  BY <3>2 DEF DecksAt
    <3>4. QED  BY <3>1, <3>3 DEF DeckAt
  <2>2. \A s \in 1..N : assigned[s] = None \/ (assigned[s].card \in 1..N /\ assigned[s].role \in Roles!Roles)
    <3>1. \A i \in 1..N : Registry[i] \in Roles!Roles  BY <1>0 DEF Roles!Roles, Roles!Range
    <3>2. QED  BY <1>3, <1>4, <3>1
  <2>3. batch.stage \in 0..N  BY <1>1 DEF RolesState, Batched
  <2>4. QED  BY <1>1, <2>1, <2>2, <2>3 DEF RolesState, RolesTypes, Roles!TypeOK, Roles!Seats
<1>6. Roles!CardStaysLocked
  <2>1. ASSUME NEW r \in 1..N, NEW c \in 1..N, transit[r] # None PROVE transit[r].locks[c][r] > 0
    <3>1. PICK x, h : x = R[N][r].id /\ h = Under(unlocked[r])  OBVIOUS
    <3>2. transit[r] = [id |-> x, locks |-> h] /\ r \notin unlocked[r]
      BY <1>1, <2>1, <3>1 DEF RolesState, Dealt
    <3>3. h[c][r] = IF r = c THEN 2 ELSE 1  BY <3>1, <3>2 DEF Under
    <3>4. QED  BY <3>2, <3>3
  <2>2. QED  BY <2>1 DEF Roles!CardStaysLocked, Roles!Seats
<1>7. Roles!TerminalVerifies
  <2> SUFFICES ASSUME \A s \in 1..N : assigned[s] # None PROVE Roles!ArtifactVerifies
    BY DEF Roles!TerminalVerifies, Roles!Seats
  <2>1. deck.stage = N  BY <1>0, <1>4
  <2>2. \A s \in 0..N : Roles!Replay[s] = R[s] /\ Roles!ReplayMix[s] = M[s]
    BY <1>1, AsReplayed DEF RolesState
  <2>n. \A s \in 1..N : s - 1 \in 0..N /\ s \in 0..N /\ ~(s > N)  BY <1>0
  <2>3. Roles!ShufflesReplay
    <3>1. \A s \in 1..N : shuffleRecord[s] = Step(R, s)
      BY <1>1, <2>1, <2>n DEF RolesState, Decked, Recorded
    <3>2. QED  BY <2>2, <2>n, <3>1 DEF Step, Roles!ShufflesReplay, Roles!Seats
  <2>4. Roles!AssignmentsMatch
    <3>1. Roles!Replay[N] = DeckAt(N, q)  BY <1>0, <1>2, <2>2
    <3>2. Roles!Decrypted[N] = [i \in 1..N |-> [id |-> q[i], locks |-> Under(1..N)]]  BY <1>0, <3>1, DecryptedIs
    <3>3. \A s \in 1..N : Roles!Clear(Roles!Decrypted[N][s])
      <4>1. PICK h : h = Under(1..N)  OBVIOUS
      <4>2. \A s \in 1..N : Roles!Decrypted[N][s].locks = h  BY <3>2, <4>1
      <4>3. \A c, t \in 1..N : h[c][t] = 0  BY <4>1 DEF Under
      <4>4. QED  BY <4>2, <4>3 DEF Roles!Clear, Roles!Seats
    <3>4. \A s \in 1..N : Roles!Replay[N][s].id = q[s]  BY <1>3, <1>0, <2>2
    <3>5. \A s \in 1..N : assigned[s] = [card |-> Roles!Replay[N][s].id, role |-> Registry[Roles!Replay[N][s].id]]
      BY <1>4, <3>4
    <3>6. ASSUME NEW role
          PROVE  Cardinality({s \in 1..N : assigned[s].role = role}) = Cardinality({i \in 1..N : Registry[i] = role})
      <4>1. {s \in 1..N : assigned[s].role = role} = {s \in 1..N : Registry[q[s]] = role}  BY <1>4
      <4>2. Cardinality({s \in 1..N : Registry[q[s]] = role}) = Cardinality({i \in 1..N : Registry[i] = role})
        BY <1>0, AsManyRoles
      <4>3. QED  BY <4>1, <4>2, Zenon
    <3>7. \A S : Roles!Cardinality(S) = Cardinality(S)  BY DEF Roles!Cardinality, Cardinality
    <3>8. QED  BY <3>3, <3>5, <3>6, <3>7 DEF Roles!AssignmentsMatch, Roles!Seats
  <2>5. Roles!DeliveriesMatch
    <3> SUFFICES ASSUME NEW k \in 1..MaxQueries, queries[k] # None, queries[k].status = "verified"
                 PROVE  /\ Roles!RoleOf(queries[k].seat) = "seer"
                        /\ {d \in results : d.query = k}
                             = {[query |-> k, target |-> queries[k].target, role |-> Roles!RoleOf(queries[k].target)]}
      BY DEF Roles!DeliveriesMatch
    <3>1. queries[k] \in Question /\ assigned[queries[k].seat] # None /\ assigned[queries[k].seat].role = "seer"
          /\ Truth(R, k) \in results
      BY <1>1 DEF RolesState, Questions
    <3>2. queries[k].target \in 1..N  BY <3>1 DEF Question
    <3>3. Truth(R, k) = [query |-> k, target |-> queries[k].target, role |-> Roles!RoleOf(queries[k].target)]
      <4>1. Roles!RoleOf(queries[k].target) = Registry[q[queries[k].target]]  BY <1>4, <3>2 DEF Roles!RoleOf
      <4>2. QED  BY <1>3, <3>2, <4>1 DEF Truth
    <3>4. \A d \in results : d.query = k => d = Truth(R, k)  BY <1>1 DEF RolesState, Questions
    <3>5. Truth(R, k).query = k  BY DEF Truth
    <3>6. {d \in results : d.query = k} = {Truth(R, k)}  BY <3>1, <3>4, <3>5
    <3>7. Roles!RoleOf(queries[k].seat) = "seer"  BY <3>1 DEF Roles!RoleOf
    <3>8. QED  BY <3>3, <3>6, <3>7
  <2>6. Roles!MixReplays
    <3> SUFFICES ASSUME batch.stage = N
                 PROVE  /\ \A s \in 1..N : mixRecord[s]
                              = [input |-> Roles!ReplayMix[s - 1], output |-> Roles!ReplayMix[s]]
                        /\ \A i \in 1..N : Roles!ReplayMix[N][i].layers = {}
      BY DEF Roles!MixReplays, Roles!Seats
    <3>1. \A s \in 1..N : mixRecord[s] = Step(M, s)
      BY <1>1, <2>n DEF RolesState, Batched, Recorded
    <3>2. \A s \in 1..N : mixRecord[s] = [input |-> Roles!ReplayMix[s - 1], output |-> Roles!ReplayMix[s]]
      BY <2>2, <2>n, <3>1 DEF Step
    <3>3. M[N] \in BatchesAt(N)  BY <1>0, <1>1 DEF Given
    <3>4. PICK w : M[N] = BatchAt(N, w)  BY <3>3 DEF BatchesAt
    <3>5. (N + 1)..N = {}  BY <1>0
    <3>6. \A i \in 1..N : M[N][i].layers = (N + 1)..N  BY <3>4 DEF BatchAt
    <3>7. QED  BY <1>0, <2>2, <3>2, <3>5, <3>6
  <2>7. QED  BY <2>3, <2>4, <2>5, <2>6 DEF Roles!ArtifactVerifies
<1>8. QED  BY <1>5, <1>6, <1>7
-----------------------------------------------------------------------------
(* The engines together: the invariant of the one a behaviour runs.         *)
EnginesInv ==
    /\ part = "duel" => DuelInv
    /\ part = "chat" => ChatInv
    /\ part = "window" => WindowInv
    /\ part = "match" => MatchInv
    /\ part = "roles" => RolesInv

\* Each engine starts with its invariant.
LEMMA EnginesInit == MCInit => EnginesInv
BY DuelInit, ChatInit, WindowInit, MatchInit, RolesBegin DEF MCInit, EnginesInv

\* Each keeps its own, whichever engine takes the step.
LEMMA EnginesKept ==
    EnginesInv /\ [MCNext]_<<part, vars, chat, deciding, match, dealing, poker>> => EnginesInv'
<1> SUFFICES ASSUME EnginesInv, [MCNext]_<<part, vars, chat, deciding, match, dealing, poker>> PROVE EnginesInv'
  OBVIOUS
<1>1. part' = part  BY DEF MCNext
<1>2. part = "duel" => Next \/ UNCHANGED vars  BY DEF MCNext
<1>3. part = "chat" => Chat!Next \/ UNCHANGED chat  BY DEF MCNext
<1>4. part = "match" => Match!Next \/ UNCHANGED match  BY DEF MCNext
<1>5. part = "duel" => DuelInv'  BY <1>2, DuelKept, DuelStands DEF EnginesInv
<1>6. part = "chat" => ChatInv'  BY <1>3, ChatKept, ChatStands DEF EnginesInv
<1>7. part = "match" => MatchInv'  BY <1>4, MatchKept, MatchStands DEF EnginesInv
<1>8. part = "window" => WindowInv'
  <2>1. part = "window" => Window!Next \/ UNCHANGED deciding  BY DEF MCNext
  <2>2. QED  BY <2>1, WindowKept, WindowStands DEF EnginesInv
<1>9. part = "roles" => RolesInv'
  <2>1. part = "roles" => Roles!Next \/ UNCHANGED dealing  BY DEF MCNext
  <2>2. QED  BY <2>1, RolesKeep, RolesStutter DEF EnginesInv
<1>10. QED  BY <1>1, <1>5, <1>6, <1>7, <1>8, <1>9 DEF EnginesInv

\* A duel keeps its values secret until both sides are bound to theirs, and
\* ends with one outcome (DuelIsFair, engine.py run_host and run_guest).
THEOREM DuelFair == MCSpec => []DuelIsFair
<1>1. EnginesInv => DuelIsFair  BY DuelImplies DEF EnginesInv, DuelIsFair
<1>2. QED  BY <1>1, EnginesInit, EnginesKept, PTL DEF MCSpec

\* A conversation sends every line of the inbox once and in order, and the
\* backlog before it starts to listen (ChatIsWhole, engine.py run_free_chat).
THEOREM ChatWhole == MCSpec => []ChatIsWhole
<1>1. ChatInv => Chat!TypeOK /\ Chat!EveryLineOnce /\ Chat!BacklogFirst  BY ChatImplies
<1>2. EnginesInv => ChatIsWhole  BY <1>1 DEF EnginesInv, ChatIsWhole
<1>3. QED  BY <1>2, EnginesInit, EnginesKept, PTL DEF MCSpec

\* In a match in real time an acknowledged command is applied in the frame of
\* its tick, and the guest's history is the host's (MatchAgrees, realtime.py).
THEOREM MatchSafe == MCSpec => []MatchAgrees
<1>1. EnginesInv => MatchAgrees  BY MatchImplies DEF EnginesInv, MatchAgrees
<1>2. QED  BY <1>1, EnginesInit, EnginesKept, PTL DEF MCSpec

\* A decision for a later round is not passed over by the windows before it,
\* and what a policy produced is never played over an explicit decision that
\* was in the file when the choice was made (DecisionsCount, hooks.py, sdk.py).
THEOREM DecisionsSafe == MCSpec => []DecisionsCount
<1>1. EnginesInv => DecisionsCount
  BY DEF EnginesInv, WindowInv, WindowTypes, DecisionsCount
<1>2. QED  BY <1>1, EnginesInit, EnginesKept, PTL DEF MCSpec

\* Nobody but its recipient can open a card on its way, whoever took a lock off
\* before and in whatever order; and when every seat has its role, the audit of
\* the artifact passes, whatever answers were lost and asked for again
\* (RolesStayHidden, hidden_role.py unlock_for_recipient and the verification).
THEOREM RolesSafe == MCSpec => []RolesStayHidden
<1>1. EnginesInv => RolesStayHidden  BY RolesHide DEF EnginesInv, RolesStayHidden
<1>2. QED  BY <1>1, EnginesInit, EnginesKept, PTL DEF MCSpec
=============================================================================
