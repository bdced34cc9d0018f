---------------------------- MODULE RuntimeProofs ----------------------------
(***************************************************************************)
(* The invariants of the runtime service and of the coach, each kept by    *)
(* every step of its own part.                                             *)
(***************************************************************************)
EXTENDS MCServices, SequenceTheorems, FiniteSetTheorems, WellFoundedInduction, TLAPS

(* Sets of numbers have a least element, and bounded ones a largest; a       *)
(* sequence without one of its elements.                                     *)
LEMMA LeastIs == ASSUME NEW S \in SUBSET Nat, S # {} PROVE Min(S) \in S /\ \A y \in S : Min(S) <= y
<1>1. PICK m \in S : \A y \in S : ~(<<y, m>> \in OpToRel(<, Nat))
  <2>1. IsWellFoundedOn(OpToRel(<, Nat), Nat)  BY NatLessThanWellFounded
  <2>2. QED  BY <2>1, WFMin, Zenon
<1>2. ASSUME NEW y \in S PROVE m <= y
  <2>1. <<y, m>> \in Nat \X Nat  OBVIOUS
  <2>2. ~(y < m)  BY <1>1, <2>1 DEF OpToRel
  <2>3. QED  BY <2>2
<1>3. QED  BY <1>2 DEF Min

LEMMA LargestIs ==
    ASSUME NEW n \in Nat, NEW S \in SUBSET (0..n), S # {} PROVE Max(S) \in S /\ \A y \in S : y <= Max(S)
<1> DEFINE D == {n - x : x \in S}
<1>1. D \in SUBSET Nat /\ D # {}
  <2>1. \A x \in S : x \in 0..n /\ n - x \in Nat  OBVIOUS
  <2>2. \A d \in D : d \in Nat  BY <2>1
  <2>3. PICK x \in S : TRUE  OBVIOUS
  <2>4. n - x \in D  BY <2>3
  <2>5. QED  BY <2>2, <2>4
<1>2. PICK d \in D : \A e \in D : d <= e  BY <1>1, LeastIs
<1>3. PICK m \in S : d = n - m  OBVIOUS
<1>4. \A y \in S : n - m <= n - y  BY <1>2, <1>3
<1>5. \A y \in S : m >= y  BY <1>4
<1>6. QED  BY <1>5 DEF Max

LEMMA RemovedIs ==
    ASSUME NEW S, NEW s \in Seq(S), NEW p \in DOMAIN s
    PROVE  /\ RemoveAt(s, p) \in Seq(S) /\ Len(RemoveAt(s, p)) = Len(s) - 1
           /\ \A j \in 1..(Len(s) - 1) : RemoveAt(s, p)[j] = IF j < p THEN s[j] ELSE s[j + 1]
<1>1. p \in 1..Len(s)  OBVIOUS
<1> DEFINE front == SubSeq(s, 1, p - 1)  back == SubSeq(s, p + 1, Len(s))
<1>2. front \in Seq(S) /\ Len(front) = p - 1 /\ \A i \in 1..(p - 1) : front[i] = s[i]
  BY <1>1, SubSeqProperties
<1>3. back \in Seq(S) /\ Len(back) = Len(s) - p /\ \A i \in 1..(Len(s) - p) : back[i] = s[p + i]
  BY <1>1, SubSeqProperties
<1> HIDE DEF front, back
<1>4. RemoveAt(s, p) = front \o back  BY DEF RemoveAt, front, back
<1>5. QED  BY <1>1, <1>2, <1>3, <1>4, ConcatProperties

LEMMA Grown ==
    ASSUME NEW S, NEW s \in Seq(S), NEW x \in S
    PROVE  /\ Append(s, x) \in Seq(S) /\ Len(Append(s, x)) = Len(s) + 1 /\ Append(s, x)[Len(s) + 1] = x
           /\ DOMAIN s = 1..Len(s) /\ DOMAIN Append(s, x) = 1..(Len(s) + 1)
           /\ \A i \in DOMAIN s : i \in DOMAIN Append(s, x) /\ i # Len(s) + 1 /\ Append(s, x)[i] = s[i]
           /\ \A i \in DOMAIN Append(s, x) : i \in DOMAIN s \/ i = Len(s) + 1
           /\ Len(s) + 1 \notin DOMAIN s /\ Len(s) + 1 \in DOMAIN Append(s, x)
OBVIOUS

LEMMA Distinct ==
    ASSUME NEW n \in Nat, NEW k \in 1..n, NEW m \in Nat, NEW f \in [1..m -> (1..n) \ {k}],
           \A i, j \in 1..m : f[i] = f[j] => i = j
    PROVE  m < n
<1>1. f \in Injection(1..m, (1..n) \ {k})  BY DEF Injection, IsInjective
<1>2. IsFiniteSet(1..n) /\ Cardinality(1..n) = n  BY FS_Interval
<1>3. IsFiniteSet((1..n) \ {k}) /\ Cardinality((1..n) \ {k}) = n - 1  BY <1>2, FS_RemoveElement
<1>4. Cardinality(1..m) <= n - 1  BY <1>1, <1>3, FS_Injection
<1>5. Cardinality(1..m) = m  BY FS_Interval
<1>6. QED  BY <1>4, <1>5
-----------------------------------------------------------------------------
(* The runtime server: what it holds of a request, and of its sessions.     *)
Statuses == {"ready", "running", "completed"}
StateRecord == [generation : Nat, sequence : Nat, digest : Seq(Nat)]
SessionObject == [generation : Nat, trail : Seq(Nat), sequence : Nat, history : Seq(Nat), status : Statuses]
BindingRecord == [generation : Nat, sequence : Nat, history : Seq(Nat), status : Statuses, closed : BOOLEAN]
Change == [sequence : Nat, trail : Seq(Nat), status : Statuses]
Refusals == {"role_mismatch", "version_conflict", "internal", "output_rejected"}
JobStages == {"open", "publish", "step", "judge", "assign", "replace", "close", "done", "known", "failed", "finish"}
Job == [id : Nat, pc : JobStages, on : Nat \union {None}, next : BindingRecord \union Change \union {None},
        result : StateRecord \union Refusals \union {None}]
Request == [method : {"open", "step", "close"}, key : Nat, params : StateRecord \union {None}, crashes : Nat,
            after : SUBSET Nat]
Reply == [id : Nat, ok : BOOLEAN, code : {"ok", "rate_limit", "cancelled"} \union Notices \union Refusals,
          result : StateRecord \union {None}]
Entry == [key : Nat, result : StateRecord]

ServerTypes ==
    /\ process \in {"up", "stopping", "down"} /\ crashes \in Nat
    /\ sent \in Seq(Request) /\ out \in Seq(Reply) /\ cache \in Seq(Entry) /\ Len(cache) <= CacheLimit
    /\ pending \in SUBSET Nat /\ queue \in Seq(Nat) /\ job \in [Threads -> Job \union {None}]
DiskRecord == [root : BOOLEAN, generations : SUBSET Nat, binding : BindingRecord \union {None}]
SessionTypes ==
    /\ objects \in Seq(SessionObject) /\ session \in Nat \union {None} /\ disk \in DiskRecord

(* What a thread has in hand, stage by stage.                               *)
InHand ==
    \A t \in Threads : job[t] # None =>
        /\ job[t].pc \in {"judge", "assign", "replace"} => job[t].on \in DOMAIN objects
        /\ job[t].pc = "assign" => job[t].next \in Change
        /\ job[t].pc = "replace" => job[t].next \in BindingRecord
        /\ job[t].pc \in {"replace", "done", "known"} => job[t].result \in StateRecord
        /\ job[t].pc = "failed" => job[t].result \in Refusals

(* A request that waits is in the queue or with a thread, and has no answer *)
(* yet unless its thread is about to go.                                    *)
Replies ==
    \A k \in DOMAIN out : out[k].id \in DOMAIN sent /\ (out[k].ok => out[k].code = "ok" /\ out[k].result \in StateRecord)
Waiting ==
    /\ pending \subseteq DOMAIN sent
    /\ \A i \in DOMAIN sent : sent[i].key \in 1..i /\ sent[i].crashes <= crashes
    /\ \A i \in pending : sent[i].crashes = crashes
    /\ \A p \in DOMAIN queue : queue[p] \in pending /\ ~Answered(queue[p])
    /\ \A p, q \in DOMAIN queue : queue[p] = queue[q] => p = q
InWork ==
    /\ \A t \in Threads : job[t] # None =>
          /\ job[t].id \in pending /\ (job[t].pc # "finish" => ~Answered(job[t].id))
          /\ \A p \in DOMAIN queue : queue[p] # job[t].id
    /\ \A t, u \in Threads : t # u /\ job[t] # None /\ job[u] # None => job[t].id # job[u].id

(* Every open takes the next generation and no two are under way.  (An old  *)
(* step that writes its binding late may have the last one publish an older *)
(* generation: after that none is opened any more.)                         *)
Exists(gen) == \E i \in DOMAIN objects : objects[i].generation = gen
Opens(n) ==
    /\ disk.generations = 1..n /\ (disk.root <=> n > 0) /\ Len(objects) \in {n - 1, n}
    /\ \A i \in DOMAIN objects : objects[i].generation \in 1..i /\ (i < n => objects[i].generation = i)
    /\ disk.binding # None => Exists(disk.binding.generation)
    /\ session # None => session \in DOMAIN objects /\ objects[session].generation = session
    /\ \A t \in Threads : job[t] # None =>
          /\ job[t].pc = "replace" => Exists(job[t].next.generation)
          /\ job[t].pc = "publish" =>
                Len(objects) = n - 1 /\ \A u \in Threads : job[u] # None /\ job[u].pc = "publish" => u = t
Sessions == \E n \in Nat : Opens(n)

(* A client that waits for its answers, and a table that has room for its   *)
(* keys: what was answered is in the table, and who works on a key is the   *)
(* only one and finds it there or not for good.                             *)
Patient == ~Impatient /\ MaxSent <= CacheLimit
Current(i) == sent[i].crashes = crashes
HasKey(key) == \E c \in DOMAIN cache : cache[c].key = key
HasEntry(key, result) == \E c \in DOMAIN cache : cache[c].key = key /\ cache[c].result = result
Keys ==
    /\ Len(sent) <= MaxSent
    /\ \A i \in DOMAIN sent : \A x \in sent[i].after : x \in DOMAIN sent /\ Answered(x)
    /\ \A i, k \in DOMAIN sent :
          sent[i].key = sent[k].key /\ Current(i) /\ Current(k) /\ ~Answered(i) /\ ~Answered(k) => i = k
Table ==
    /\ \A c, d \in DOMAIN cache : cache[c].key = cache[d].key => c = d
    /\ \A c \in DOMAIN cache : cache[c].key \in 1..Len(sent)
    /\ \A k \in DOMAIN out : out[k].ok /\ Current(out[k].id) => HasEntry(sent[out[k].id].key, out[k].result)
Lookups ==
    \A t \in Threads : job[t] # None =>
        /\ job[t].pc \notin {"known", "finish"} => ~HasKey(sent[job[t].id].key)
        /\ job[t].pc = "known" => HasEntry(sent[job[t].id].key, job[t].result)
Repeats == Keys /\ Table /\ Lookups /\ RepeatGetsFirstAnswer

Server  == ServerTypes /\ Replies /\ Waiting /\ InWork /\ AnsweredOnce /\ (Patient => Repeats)
Service == SessionTypes /\ InHand /\ Sessions
RuntimeInv == Server /\ Service

(* A thread at work changes the service and what it has in hand.            *)
Working(t) ==
    /\ job[t] # None /\ job[t].pc \notin {"known", "finish"}
    /\ \E j \in Job : j.id = job[t].id /\ j.pc \notin {"known", "finish"} /\ job' = [job EXCEPT ![t] = j]
    /\ UNCHANGED <<process, crashes, sent, pending, queue, cache, out>>
LEMMA WorkKeeps == ASSUME NEW t \in Threads, Server, Working(t) PROVE Server'
<1>1. PICK j \in Job : j.id = job[t].id /\ j.pc \notin {"known", "finish"} /\ job' = [job EXCEPT ![t] = j]
  BY DEF Working
<1>2. job \in [Threads -> Job \union {None}] /\ job[t] # None /\ job[t].pc \notin {"known", "finish"}
  BY DEF Server, ServerTypes, Working
<1>3. job'[t] = j /\ (\A u \in Threads : u # t => job'[u] = job[u]) /\ job' \in [Threads -> Job \union {None}]
  BY <1>1, <1>2
<1> HIDE DEF Job
<1>4. UNCHANGED <<process, crashes, sent, pending, queue, cache, out>>  BY DEF Working
<1>5. \A u \in Threads : job'[u] # None => job[u] # None /\ job'[u].id = job[u].id /\ (job'[u].pc = "finish" <=> job[u].pc = "finish")
  BY <1>1, <1>2, <1>3
<1>6. ServerTypes' /\ Replies' /\ Waiting' /\ AnsweredOnce'
  BY <1>3, <1>4 DEF Server, ServerTypes, Replies, Waiting, AnsweredOnce, Answered
<1>7. InWork'
  BY <1>4, <1>5 DEF Server, InWork, Answered
<1>8. ASSUME Patient PROVE Lookups'
  BY <1>1, <1>2, <1>3, <1>4, <1>8 DEF Server, Repeats, Lookups, HasKey, HasEntry
<1>9. Patient => Repeats'
  BY <1>4, <1>8 DEF Server, Patient, Repeats, Keys, Table, Current, Answered, HasEntry, RepeatGetsFirstAnswer
<1>10. QED  BY <1>6, <1>7, <1>9 DEF Server, Patient

(* A new request, which the pool takes or refuses.                          *)
LEMMA AskKeeps ==
    ASSUME NEW method \in {"open", "step"} \union {"close"}, NEW key \in 1..(Len(sent) + 1),
           NEW params \in StateRecord \union {None}, Server, Asks(method, key, params),
           Patient => \A k \in DOMAIN sent : sent[k].key = key => Answered(k) \/ Lost(k)
    PROVE  Server'
<1>n. PICK n : n = Len(sent) + 1  OBVIOUS
<1>r. PICK r : r = [method |-> method, key |-> key, params |-> params, crashes |-> crashes,
                    after |-> {out[k].id : k \in {m \in DOMAIN out : out[m].ok}}]
  OBVIOUS
<1>o. PICK o : o = [id |-> n, ok |-> FALSE, code |-> "rate_limit", result |-> None]  OBVIOUS
<1>1. sent \in Seq(Request) /\ out \in Seq(Reply) /\ queue \in Seq(Nat) /\ n \in Nat \ {0} /\ crashes \in Nat
  BY <1>n DEF Server, ServerTypes
<1>2. r \in Request
  <2>1. \A k \in DOMAIN out : out[k].id \in Nat
    <3>1. \A k \in DOMAIN out : out[k] \in Reply  BY <1>1
    <3>2. QED  BY <3>1 DEF Reply
  <2>2. {out[k].id : k \in {m \in DOMAIN out : out[m].ok}} \in SUBSET Nat  BY <2>1
  <2>3. key \in Nat  BY <1>1
  <2>4. QED  BY <1>1, <1>r, <2>2, <2>3 DEF Request
<1>3. o \in Reply  BY <1>1, <1>o DEF Reply
<1>4. sent' = Append(sent, r) /\ UNCHANGED <<process, crashes, job, cache>> /\ Len(sent) < MaxSent
  BY <1>r DEF Asks
<1>5. \/ out' = Append(out, o) /\ UNCHANGED <<pending, queue>>
      \/ out' = out /\ pending' = pending \union {n} /\ queue' = Append(queue, n)
  BY <1>n, <1>o DEF Asks
<1>6. \A k \in DOMAIN out : out[k].ok => out[k].id \in r.after  BY <1>r
<1>7. \A x \in r.after : x \in DOMAIN sent /\ Answered(x)
  BY <1>r DEF Server, Replies, Answered
<1>8. r.key = key /\ r.crashes = crashes /\ o.id = n /\ o.code = "rate_limit" /\ ~o.ok  BY <1>r, <1>o
<1>9. /\ sent' \in Seq(Request) /\ Len(sent') = n /\ DOMAIN sent' = 1..n /\ DOMAIN sent = 1..(n - 1)
      /\ sent'[n] = r /\ \A i \in DOMAIN sent : sent'[i] = sent[i] /\ i \in DOMAIN sent' /\ i # n
      /\ n \in DOMAIN sent' /\ n \notin DOMAIN sent
  BY <1>1, <1>2, <1>4, <1>n, Grown
<1>28. out \in Seq(Reply)  BY <1>1
<1>10. out' \in Seq(Reply) /\ \A k \in DOMAIN out : k \in DOMAIN out' /\ out'[k] = out[k]
  <2>1. CASE out' = out  BY <1>28, <2>1
  <2>2. CASE out' = Append(out, o)  BY <1>28, <1>3, <2>2, Grown
  <2>3. QED  BY <1>5, <2>1, <2>2
<1>11. \A k \in DOMAIN out' : k \in DOMAIN out \/ (out'[k] = o /\ k = Len(out) + 1)
  <2>1. CASE out' = out  BY <2>1
  <2>2. CASE out' = Append(out, o)  BY <1>28, <1>3, <2>2, Grown
  <2>3. QED  BY <1>5, <2>1, <2>2
<1>12. \A k \in DOMAIN out : out[k].id \in DOMAIN sent /\ out[k].id # n
  BY <1>9 DEF Server, Replies
<1>13. \A i \in DOMAIN sent : Answered(i)' <=> Answered(i)
  BY <1>8, <1>9, <1>10, <1>11 DEF Answered
<1>14. n \in pending' => ~Answered(n)' /\ out' = out
  <2>1. n \notin pending  BY <1>9 DEF Server, Waiting
  <2>2. n \in pending' => out' = out  BY <1>5, <2>1
  <2>3. QED  BY <2>2, <1>12 DEF Answered
<1>30. queue \in Seq(Nat) /\ n \in Nat /\ pending \in SUBSET Nat  BY <1>1 DEF Server, ServerTypes
<1>15. pending' \in SUBSET Nat /\ queue' \in Seq(Nat)
  <2>1. CASE UNCHANGED <<pending, queue>>  BY <1>30, <2>1
  <2>2. CASE pending' = pending \union {n} /\ queue' = Append(queue, n)  BY <1>30, <2>2, Grown
  <2>3. QED  BY <1>5, <2>1, <2>2
<1>16. ServerTypes'  BY <1>4, <1>9, <1>10, <1>15 DEF Server, ServerTypes
<1>17. Replies'  BY <1>8, <1>9, <1>10, <1>11 DEF Server, Replies
<1>18. \A p \in DOMAIN queue' :
          \/ p \in DOMAIN queue /\ queue'[p] = queue[p]
          \/ queue'[p] = n /\ p = Len(queue) + 1 /\ n \in pending'
  <2>1. CASE UNCHANGED <<pending, queue>>  BY <2>1
  <2>2. CASE pending' = pending \union {n} /\ queue' = Append(queue, n)  BY <1>30, <2>2, Grown
  <2>3. QED  BY <1>5, <2>1, <2>2
<1>19. \A i \in pending' : i \in pending \/ i = n  BY <1>5
<1>20. pending \subseteq pending'  BY <1>5
<1>21. \A p \in DOMAIN queue : queue[p] \in pending /\ queue[p] \in DOMAIN sent /\ ~Answered(queue[p])
  BY DEF Server, Waiting
<1>22. Waiting'
  <2>1. pending' \subseteq DOMAIN sent'  BY <1>9, <1>19 DEF Server, Waiting
  <2>2. \A i \in DOMAIN sent' : sent'[i].key \in 1..i /\ sent'[i].crashes <= crashes'
    BY <1>1, <1>4, <1>8, <1>9, <1>n DEF Server, Waiting
  <2>6. \A i \in pending' : sent'[i].crashes = crashes'
    BY <1>4, <1>8, <1>9, <1>19 DEF Server, Waiting
  <2>3. (\A p \in DOMAIN queue : queue[p] \in pending /\ ~Answered(queue[p]))'
    BY <1>13, <1>14, <1>18, <1>20, <1>21
  <2>4. \A p, q \in DOMAIN queue' : queue'[p] = queue'[q] => p = q
    BY <1>9, <1>18, <1>21 DEF Server, Waiting
  <2>5. QED  BY <2>1, <2>2, <2>3, <2>4, <2>6 DEF Waiting
<1>23. \A t \in Threads : job[t] # None => job[t].id \in pending /\ job[t].id \in DOMAIN sent
  BY DEF Server, Waiting, InWork
<1>24. InWork'
  BY <1>4, <1>9, <1>13, <1>18, <1>20, <1>23 DEF Server, InWork
<1>25. AnsweredOnce'
  BY <1>8, <1>10, <1>11, <1>12 DEF Server, AnsweredOnce
<1>26. ASSUME Patient PROVE Repeats'
  <2>1. Repeats  BY <1>26 DEF Server
  <2>2. Keys'
    <3>1. Len(sent') <= MaxSent  BY <1>1, <1>4, <1>9, <1>n, ServicesAssumption
    <3>3. \A i \in DOMAIN sent' : \A x \in sent'[i].after : x \in DOMAIN sent' /\ Answered(x)'
      BY <2>1, <1>7, <1>9, <1>13 DEF Repeats, Keys
    <3>4. \A k \in DOMAIN sent : sent[k].key = key => Answered(k) \/ ~Current(k)
      BY <1>26, <1>1 DEF Lost, Current
    <3>5. \A i, k \in DOMAIN sent' :
              sent'[i].key = sent'[k].key /\ Current(i)' /\ Current(k)' /\ ~Answered(i)' /\ ~Answered(k)' => i = k
      BY <2>1, <3>4, <1>4, <1>8, <1>9, <1>13 DEF Repeats, Keys, Current
    <3>6. QED  BY <3>1, <3>3, <3>5 DEF Keys
  <2>3. Table'
    <3>1. 1..Len(sent) \subseteq 1..Len(sent')  BY <1>9, <1>n
    <3>2. \A k \in DOMAIN out' : out'[k].ok /\ sent'[out'[k].id].crashes = crashes' =>
              /\ k \in DOMAIN out /\ out'[k] = out[k] /\ out[k].ok
              /\ Current(out[k].id) /\ sent'[out[k].id] = sent[out[k].id]
      BY <1>4, <1>8, <1>9, <1>10, <1>11, <1>12 DEF Current
    <3>4. (\A k \in DOMAIN out : out[k].ok /\ Current(out[k].id) => HasEntry(sent[out[k].id].key, out[k].result))'
      <4>1. ASSUME NEW k \in DOMAIN out', out'[k].ok, sent'[out'[k].id].crashes = crashes'
            PROVE  \E c \in DOMAIN cache : cache[c].key = sent'[out'[k].id].key /\ cache[c].result = out'[k].result
        <5>1. k \in DOMAIN out /\ out'[k] = out[k] /\ out[k].ok /\ Current(out[k].id) /\ sent'[out[k].id] = sent[out[k].id]
          BY <3>2, <4>1
        <5>2. HasEntry(sent[out[k].id].key, out[k].result)  BY <2>1, <5>1 DEF Repeats, Table
        <5>3. QED  BY <5>1, <5>2 DEF HasEntry
      <4>2. cache' = cache  BY <1>4
      <4>3. QED  BY <4>1, <4>2 DEF HasEntry, Current
    <3>5. QED  BY <2>1, <3>1, <3>4, <1>4 DEF Repeats, Table
  <2>4. Lookups'  BY <2>1, <1>4, <1>9, <1>23 DEF Repeats, Lookups, HasKey, HasEntry
  <2>5. RepeatGetsFirstAnswer'
    <3>1. ASSUME NEW a \in DOMAIN out', NEW b \in DOMAIN out', out'[a].ok, b \notin DOMAIN out
          PROVE  ~out'[b].ok /\ out'[b].code = "rate_limit"
      BY <3>1, <1>8, <1>11
    <3>2. ASSUME NEW a \in DOMAIN out', out'[a].ok PROVE a \in DOMAIN out
      BY <3>2, <1>8, <1>11
    <3>3. \A k \in DOMAIN out : out'[k] = out[k] /\ sent'[out'[k].id] = sent[out[k].id]
      BY <1>9, <1>10, <1>12
    <3>4. QED  BY <2>1, <3>1, <3>2, <3>3 DEF Repeats, RepeatGetsFirstAnswer
  <2>6. QED  BY <2>2, <2>3, <2>4, <2>5 DEF Repeats
<1>27. QED  BY <1>16, <1>17, <1>22, <1>24, <1>25, <1>26 DEF Server, Patient

LEMMA ClientKeeps == Server /\ (AskOpen \/ AskNext \/ AskAgain) => Server' /\ UNCHANGED service
<1> SUFFICES ASSUME Server, AskOpen \/ AskNext \/ AskAgain PROVE Server' /\ UNCHANGED service  OBVIOUS
<1>1. sent \in Seq(Request) /\ out \in Seq(Reply) /\ Len(sent) + 1 \in 1..(Len(sent) + 1)  BY DEF Server, ServerTypes
<1>n. \A k \in DOMAIN sent : sent[k].key # Len(sent) + 1
  <2>1. \A k \in DOMAIN sent : sent[k].key \in 1..k  BY DEF Server, Waiting
  <2>2. \A k \in DOMAIN sent : k <= Len(sent) /\ k \in Nat  BY <1>1
  <2>3. QED  BY <1>1, <2>1, <2>2
<1>2. CASE AskOpen
  <2>1. Patient => \A k \in DOMAIN sent : sent[k].key = Len(sent) + 1 => Answered(k) \/ Lost(k)  BY <1>n, Zenon
  <2>2. QED  BY <1>1, <1>2, <2>1, AskKeeps DEF AskOpen, Asks
<1>3. CASE AskNext
  <2>1. Patient => \A k \in DOMAIN sent : sent[k].key = Len(sent) + 1 => Answered(k) \/ Lost(k)  BY <1>n, Zenon
  <2>2. Newest \in StateRecord
    <3>1. {k \in DOMAIN out : out[k].ok} # {}  BY <1>3 DEF AskNext, Told
    <3>2. {k \in DOMAIN out : out[k].ok} \in SUBSET (0..Len(out)) /\ Len(out) \in Nat  BY <1>1
    <3>3. Max({k \in DOMAIN out : out[k].ok}) \in {k \in DOMAIN out : out[k].ok}  BY <3>1, <3>2, LargestIs
    <3>4. QED  BY <3>3 DEF Newest, Server, Replies
  <2>3. PICK method \in {"step", "close"} : Asks(method, Len(sent) + 1, Newest)  BY <1>3 DEF AskNext
  <2>4. QED  BY <1>1, <2>1, <2>2, <2>3, AskKeeps DEF Asks
<1>4. CASE AskAgain
  <2>1. PICK i \in DOMAIN sent :
            /\ Impatient \/ \A k \in DOMAIN sent : sent[k].key = sent[i].key => Answered(k) \/ Lost(k)
            /\ Asks(sent[i].method, sent[i].key, sent[i].params)
    BY <1>4 DEF AskAgain
  <2>2. sent[i] \in Request  BY <1>1
  <2>3. sent[i].key \in 1..(Len(sent) + 1)
    BY <1>1 DEF Server, Waiting
  <2>4. QED  BY <2>1, <2>2, <2>3, AskKeeps DEF Asks, Request, Patient
<1>5. QED  BY <1>2, <1>3, <1>4


(* A cancel: nothing is answered but what waits in the queue.               *)
LEMMA CancelKeeps == ASSUME Server, AcceptCancel PROVE Server' /\ UNCHANGED service
<1>i. PICK i \in DOMAIN sent :
          /\ out' = Append(out, [id |-> i, ok |-> FALSE, code |-> CancelCode(i), result |-> None])
          /\ pending' = IF CancelCode(i) = "cancelled" THEN pending \ {i} ELSE pending
          /\ IF CancelCode(i) = "cancelled" /\ i \in ToSet(queue)
             THEN \E p \in DOMAIN queue : queue[p] = i /\ queue' = RemoveAt(queue, p)
             ELSE UNCHANGED queue
          /\ UNCHANGED <<process, crashes, sent, job, cache, service>>
  BY DEF AcceptCancel
<1>o. PICK o : o = [id |-> i, ok |-> FALSE, code |-> CancelCode(i), result |-> None]  OBVIOUS
<1>1. /\ o = [id |-> i, ok |-> FALSE, code |-> CancelCode(i), result |-> None]
      /\ out' = Append(out, o)
      /\ pending' = IF CancelCode(i) = "cancelled" THEN pending \ {i} ELSE pending
      /\ IF CancelCode(i) = "cancelled" THEN \E p \in DOMAIN queue : queue[p] = i /\ queue' = RemoveAt(queue, p)
                                        ELSE UNCHANGED queue
      /\ UNCHANGED <<process, crashes, sent, job, cache, service>>
  <2>1. CancelCode(i) = "cancelled" => i \in ToSet(queue)  BY DEF CancelCode
  <2>2. QED  BY <1>i, <1>o, <2>1
<1>2. sent \in Seq(Request) /\ out \in Seq(Reply) /\ queue \in Seq(Nat) /\ pending \in SUBSET Nat
  BY DEF Server, ServerTypes
<1>3. o \in Reply /\ o.id = i /\ ~o.ok /\ o.code \in Notices \union {"cancelled"}
      /\ (o.code \notin Notices => i \in pending /\ ~Answered(i))
  <2>1. CancelCode(i) \in Notices \union {"cancelled"}  BY DEF CancelCode, Notices
  <2>2. i \in Nat  BY <1>2
  <2>3. CancelCode(i) \notin Notices => i \in pending /\ i \in ToSet(queue)  BY DEF CancelCode, Notices
  <2>4. CancelCode(i) \notin Notices => ~Answered(i)  BY <2>3 DEF ToSet, Server, Waiting
  <2>5. QED  BY <1>1, <2>1, <2>2, <2>3, <2>4 DEF Reply
<1>4. out' \in Seq(Reply) /\ DOMAIN out' = 1..(Len(out) + 1) /\ DOMAIN out = 1..Len(out)
      /\ out'[Len(out) + 1] = o /\ Len(out) + 1 \notin DOMAIN out /\ Len(out) + 1 \in DOMAIN out'
      /\ (\A k \in DOMAIN out : k \in DOMAIN out' /\ out'[k] = out[k])
      /\ \A k \in DOMAIN out' : k \in DOMAIN out \/ k = Len(out) + 1
  BY <1>1, <1>2, <1>3, Grown
<1>5. UNCHANGED <<process, crashes, sent, job, cache, service>>  BY <1>1
<1>6. \A x \in DOMAIN sent : Answered(x)' => Answered(x) \/ (x = i /\ o.code = "cancelled")
  BY <1>3, <1>4 DEF Answered, Notices
<1>7. \A x : Answered(x) => Answered(x)'  BY <1>4 DEF Answered
<1>8. /\ queue' \in Seq(Nat) /\ pending' \in SUBSET Nat /\ pending' \subseteq pending
      /\ \A p, q \in DOMAIN queue' : queue'[p] = queue'[q] => p = q
      /\ \A p \in DOMAIN queue' : queue'[p] \in pending' /\ \E q \in DOMAIN queue : queue'[p] = queue[q]
      /\ o.code = "cancelled" => i \notin pending' /\ pending' = pending \ {i}
      /\ o.code # "cancelled" => pending' = pending
      /\ o.code = "cancelled" => i \in pending /\ \E q \in DOMAIN queue : i = queue[q]
  <2>1. \A p, q \in DOMAIN queue : queue[p] = queue[q] => p = q  BY DEF Server, Waiting
  <2>2. \A p \in DOMAIN queue : queue[p] \in pending  BY DEF Server, Waiting
  <2>3. CASE o.code = "cancelled"
    <3>1. CancelCode(i) = "cancelled"  BY <1>1, <2>3
    <3>2. PICK p \in DOMAIN queue : queue[p] = i /\ queue' = RemoveAt(queue, p)  BY <1>1, <3>1
    <3>3. /\ queue' \in Seq(Nat) /\ Len(queue') = Len(queue) - 1
          /\ \A j \in 1..(Len(queue) - 1) : queue'[j] = IF j < p THEN queue[j] ELSE queue[j + 1]
      BY <1>2, <3>2, RemovedIs
    <3>4. \A j \in DOMAIN queue' : \E q \in DOMAIN queue \ {p} : queue'[j] = queue[q] /\ q = IF j < p THEN j ELSE j + 1
      <4>1. DOMAIN queue = 1..Len(queue) /\ DOMAIN queue' = 1..(Len(queue) - 1) /\ Len(queue) \in Nat /\ p \in Nat
        BY <1>2, <3>2, <3>3
      <4>2. ASSUME NEW j \in DOMAIN queue'
            PROVE  \E q \in DOMAIN queue \ {p} : queue'[j] = queue[q] /\ q = IF j < p THEN j ELSE j + 1
        <5>1. CASE j < p
          <6>1. j \in DOMAIN queue \ {p} /\ queue'[j] = queue[j]  BY <3>3, <4>1, <5>1
          <6>2. QED  BY <5>1, <6>1
        <5>2. CASE ~(j < p)
          <6>1. j + 1 \in DOMAIN queue \ {p} /\ queue'[j] = queue[j + 1]  BY <3>3, <4>1, <5>2
          <6>2. QED  BY <5>2, <6>1
        <5>3. QED  BY <5>1, <5>2
      <4>3. QED  BY <4>2
    <3>5. \A j \in DOMAIN queue' : j \in Nat  BY <3>3
    <3>6. \A j, k \in DOMAIN queue' : queue'[j] = queue'[k] => j = k
      BY <2>1, <3>2, <3>4, <3>5, <1>2
    <3>7. \A j \in DOMAIN queue' : queue'[j] \in pending \ {i}  BY <2>1, <2>2, <3>2, <3>4
    <3>8. pending' = pending \ {i}  BY <1>1, <3>1
    <3>9. i \in pending  BY <2>2, <3>2
    <3>10. QED  BY <1>2, <2>3, <3>2, <3>3, <3>4, <3>6, <3>7, <3>8, <3>9
  <2>4. CASE o.code # "cancelled"
    <3>1. queue' = queue /\ pending' = pending  BY <1>1, <2>4
    <3>2. QED  BY <1>2, <2>1, <2>2, <2>4, <3>1
  <2>5. QED  BY <2>3, <2>4
<1>9. ServerTypes'  BY <1>4, <1>5, <1>8 DEF Server, ServerTypes
<1>10. Replies'  BY <1>3, <1>4, <1>5 DEF Server, Replies
<1>11. Waiting'
  <2>1. pending' \subseteq DOMAIN sent' /\ \A x \in pending' : sent'[x].crashes = crashes'
    BY <1>5, <1>8 DEF Server, Waiting
  <2>2. \A p \in DOMAIN queue' : queue'[p] \in DOMAIN sent /\ queue'[p] \in pending'  BY <1>8 DEF Server, Waiting
  <2>3. \A p \in DOMAIN queue' : ~Answered(queue'[p])  BY <1>8 DEF Server, Waiting
  <2>4. (\A p \in DOMAIN queue : queue[p] \in pending /\ ~Answered(queue[p]))'  BY <1>6, <1>8, <2>2, <2>3
  <2>5. QED  BY <1>5, <1>8, <2>1, <2>4 DEF Server, Waiting
<1>12. \A t \in Threads : job[t] # None => job[t].id \in pending /\ job[t].id \in DOMAIN sent /\ \A p \in DOMAIN queue : queue[p] # job[t].id
  BY DEF Server, Waiting, InWork
<1>13. \A t \in Threads : job[t] # None => job[t].id \in pending' /\ (o.code = "cancelled" => job[t].id # i)
  BY <1>8, <1>12
<1>14. InWork'
  <2>1. (\A t \in Threads : job[t] # None =>
          /\ job[t].id \in pending /\ (job[t].pc # "finish" => ~Answered(job[t].id))
          /\ \A p \in DOMAIN queue : queue[p] # job[t].id)'
    BY <1>5, <1>6, <1>8, <1>12, <1>13 DEF Server, InWork
  <2>2. QED  BY <1>5, <2>1 DEF Server, InWork
<1>15. AnsweredOnce'
  <2>1. \A k \in DOMAIN out : out[k].id = i => out[k].code \in Notices \/ o.code \in Notices
    BY <1>3 DEF Answered, Notices
  <2>2. QED  BY <1>3, <1>4, <2>1 DEF Server, AnsweredOnce
<1>16. ASSUME Patient PROVE Repeats'
  <2>1. Repeats  BY <1>16 DEF Server
  <2>2. Keys'  BY <2>1, <1>5, <1>7 DEF Repeats, Keys, Current
  <2>3. Table'  BY <2>1, <1>3, <1>4, <1>5 DEF Repeats, Table, Current, HasEntry
  <2>4. Lookups'  BY <2>1, <1>5 DEF Repeats, Lookups, HasKey, HasEntry
  <2>5. RepeatGetsFirstAnswer'
    <3>1. ASSUME NEW a \in DOMAIN out', out'[a].ok PROVE a \in DOMAIN out
      BY <3>1, <1>3, <1>4
    <3>2. QED  BY <2>1, <3>1, <1>3, <1>4, <1>5 DEF Repeats, RepeatGetsFirstAnswer, Notices
  <2>6. QED  BY <2>2, <2>3, <2>4, <2>5 DEF Repeats
<1>17. QED  BY <1>5, <1>9, <1>10, <1>11, <1>14, <1>15, <1>16 DEF Server, Patient

(* The process stops, ends and starts again.                                *)
LEMMA ProcessKeeps == ASSUME Server, Shutdown \/ Crash \/ Restart PROVE Server'
<1>1. CASE Shutdown
  <2>1. queue' = <<>> /\ process' = "stopping" /\ UNCHANGED <<crashes, sent, pending, job, cache, out>>  BY <1>1 DEF Shutdown
  <2>2. ServerTypes'  BY <2>1 DEF Server, ServerTypes
  <2>3. Replies' /\ Waiting' /\ InWork' /\ AnsweredOnce'
    BY <2>1 DEF Server, Replies, Waiting, InWork, AnsweredOnce, Answered
  <2>4. Patient => Repeats'
    BY <2>1 DEF Server, Repeats, Keys, Table, Lookups, RepeatGetsFirstAnswer, Answered, Current, HasKey, HasEntry
  <2>5. QED  BY <2>2, <2>3, <2>4 DEF Server, Patient
<1>2. CASE Restart
  <2>1. process' = "up" /\ UNCHANGED <<crashes, sent, pending, queue, job, cache, out>>  BY <1>2 DEF Restart
  <2>2. ServerTypes'  BY <2>1 DEF Server, ServerTypes
  <2>3. Replies' /\ Waiting' /\ InWork' /\ AnsweredOnce'
    BY <2>1 DEF Server, Replies, Waiting, InWork, AnsweredOnce, Answered
  <2>4. Patient => Repeats'
    BY <2>1 DEF Server, Repeats, Keys, Table, Lookups, RepeatGetsFirstAnswer, Answered, Current, HasKey, HasEntry
  <2>5. QED  BY <2>2, <2>3, <2>4 DEF Server, Patient
<1>3. CASE Crash
  <2>1. /\ process' = "down" /\ crashes' = crashes + 1 /\ pending' = {} /\ queue' = <<>> /\ job' = [t \in Threads |-> None]
        /\ cache' = <<>> /\ UNCHANGED <<sent, out>>
    BY <1>3 DEF Crash
  <2>2. crashes \in Nat /\ sent \in Seq(Request)  BY DEF Server, ServerTypes
  <2>3. \A i \in DOMAIN sent : sent[i].crashes \in Nat /\ sent[i].crashes < crashes'
    <3>1. \A i \in DOMAIN sent : sent[i] \in Request  BY <2>2
    <3>2. QED  BY <2>1, <2>2, <3>1 DEF Server, Waiting, Request
  <2>4. ServerTypes'
    <3>1. cache' \in Seq(Entry) /\ Len(cache') = 0 /\ queue' \in Seq(Nat)  BY <2>1
    <3>2. QED  BY <2>1, <2>2, <3>1, ServicesAssumption DEF Server, ServerTypes
  <2>5. Replies' /\ Waiting' /\ InWork' /\ AnsweredOnce'
    BY <2>1, <2>2, <2>3 DEF Server, Replies, Waiting, InWork, AnsweredOnce, Answered
  <2>6. ASSUME Patient PROVE Repeats'
    <3>1. Repeats  BY <2>6 DEF Server
    <3>2. \A i \in DOMAIN sent : ~Current(i)'  BY <2>1, <2>2, <2>3 DEF Current
    <3>3. Keys'  BY <3>1, <3>2, <2>1 DEF Repeats, Keys, Answered
    <3>4. Table'  BY <3>2, <2>1 DEF Server, Replies, Table
    <3>5. Lookups' /\ RepeatGetsFirstAnswer'  BY <3>1, <2>1 DEF Repeats, Lookups, RepeatGetsFirstAnswer
    <3>6. QED  BY <3>3, <3>4, <3>5 DEF Repeats
  <2>7. QED  BY <2>4, <2>5, <2>6 DEF Server, Patient
<1>4. QED  BY <1>1, <1>2, <1>3


(* A thread takes the first request of the queue, answers, and is free.     *)
LEMMA TakeServes == ASSUME NEW t \in Threads, Server, Take(t) PROVE Server'
<1>1. /\ job[t] = None /\ queue # <<>> /\ queue' = Tail(queue)
      /\ UNCHANGED <<process, crashes, sent, pending, cache, out>>
  BY DEF Take
<1>2. /\ sent \in Seq(Request) /\ cache \in Seq(Entry) /\ queue \in Seq(Nat) /\ pending \in SUBSET Nat
      /\ job \in [Threads -> Job \union {None}] /\ pending \subseteq DOMAIN sent
  BY DEF Server, ServerTypes, Waiting
<1>i. PICK i : i = Head(queue)  OBVIOUS
<1>3. /\ DOMAIN queue = 1..Len(queue) /\ Len(queue) \in Nat /\ 1 \in DOMAIN queue /\ i = queue[1]
      /\ queue' \in Seq(Nat) /\ Len(queue') = Len(queue) - 1 /\ DOMAIN queue' = 1..(Len(queue) - 1)
      /\ \A p \in DOMAIN queue' : p + 1 \in DOMAIN queue /\ p + 1 # 1 /\ queue'[p] = queue[p + 1]
  BY <1>1, <1>2, <1>i, HeadTailProperties
<1>4. i \in pending /\ i \in DOMAIN sent /\ ~Answered(i)  BY <1>2, <1>3 DEF Server, Waiting
<1>j. PICK j : j = [id |-> i, pc |-> IF Stored(sent[i].key) = {} THEN sent[i].method ELSE "known",
                    on |-> None, next |-> None,
                    result |-> IF Stored(sent[i].key) = {} THEN None ELSE cache[Min(Stored(sent[i].key))].result]
  OBVIOUS
<1>5. job' = [job EXCEPT ![t] = j]  BY <1>i, <1>j DEF Take
<1>6. sent[i] \in Request  BY <1>2, <1>4
<1>7. ASSUME Stored(sent[i].key) # {}
      PROVE  j.result \in StateRecord /\ HasEntry(sent[i].key, j.result) /\ j.pc = "known"
  <2>1. Stored(sent[i].key) \in SUBSET Nat  BY <1>2 DEF Stored
  <2>2. Min(Stored(sent[i].key)) \in Stored(sent[i].key)  BY <2>1, <1>7, LeastIs
  <2>3. PICK c \in DOMAIN cache : c = Min(Stored(sent[i].key)) /\ cache[c].key = sent[i].key  BY <2>2 DEF Stored
  <2>4. j.result = cache[c].result /\ cache[c] \in Entry  BY <1>2, <1>7, <1>j, <2>3
  <2>5. QED  BY <1>7, <1>j, <2>3, <2>4 DEF Entry, HasEntry
<1>8. ASSUME Stored(sent[i].key) = {}
      PROVE  j.result = None /\ ~HasKey(sent[i].key) /\ j.pc \in {"open", "step", "close"}
  BY <1>8, <1>j, <1>6 DEF Stored, HasKey, Request
<1>9. j.id = i /\ j.pc # "finish" /\ j \in Job
  <2>1. j.id = i /\ j.next = None /\ j.on = None  BY <1>j
  <2>2. j.pc \in JobStages /\ j.pc # "finish"  BY <1>7, <1>8 DEF JobStages
  <2>3. j.result \in StateRecord \union Refusals \union {None}  BY <1>7, <1>8
  <2>4. j = [id |-> j.id, pc |-> j.pc, on |-> j.on, next |-> j.next, result |-> j.result]  BY <1>j
  <2>5. i \in Nat  BY <1>2, <1>4
  <2>6. QED  BY <2>1, <2>2, <2>3, <2>4, <2>5 DEF Job
<1>10. job' \in [Threads -> Job \union {None}] /\ job'[t] = j /\ \A u \in Threads : u # t => job'[u] = job[u]
  BY <1>2, <1>5, <1>9
<1>11. \A x : Answered(x)' <=> Answered(x)  BY <1>1 DEF Answered
<1>12. ServerTypes'  BY <1>1, <1>3, <1>10 DEF Server, ServerTypes
<1>13. Replies' /\ AnsweredOnce'  BY <1>1 DEF Server, Replies, AnsweredOnce
<1>14. \A p \in DOMAIN queue' : \E q \in DOMAIN queue : q # 1 /\ queue'[p] = queue[q]  BY <1>3
<1>15. \A p \in DOMAIN queue' : queue'[p] # i  BY SMTT(30), <1>3, <1>14 DEF Server, Waiting
<1>16. Waiting'
  <2>1. (\A p \in DOMAIN queue : queue[p] \in pending /\ ~Answered(queue[p]))'
    BY <1>1, <1>11, <1>14 DEF Server, Waiting
  <2>2. \A p, q \in DOMAIN queue' : queue'[p] = queue'[q] => p = q
    <3>1. ASSUME NEW p \in DOMAIN queue', NEW q \in DOMAIN queue', queue'[p] = queue'[q] PROVE p = q
      <4>1. p + 1 = q + 1  BY <1>3, <3>1 DEF Server, Waiting
      <4>2. p \in Nat /\ q \in Nat  BY SMTT(30), <1>3
      <4>3. QED  BY <4>1, <4>2
    <3>2. QED  BY <3>1
  <2>3. QED  BY <1>1, <2>1, <2>2 DEF Server, Waiting
<1>17. \A u \in Threads : job[u] # None => job[u].id # i /\ \A p \in DOMAIN queue' : queue'[p] # job[u].id
  BY <1>3, <1>14 DEF Server, InWork
<1>18. InWork'
  <2>1. (\A u \in Threads : job[u] # None =>
          /\ job[u].id \in pending /\ (job[u].pc # "finish" => ~Answered(job[u].id))
          /\ \A p \in DOMAIN queue : queue[p] # job[u].id)'
    BY <1>1, <1>4, <1>9, <1>10, <1>11, <1>15, <1>17 DEF Server, InWork
  <2>2. \A u, v \in Threads : u # v /\ job'[u] # None /\ job'[v] # None => job'[u].id # job'[v].id
    BY <1>9, <1>10, <1>17 DEF Server, InWork
  <2>3. QED  BY <2>1, <2>2 DEF InWork
<1>19. ASSUME Patient PROVE Repeats'
  <2>1. Repeats  BY <1>19 DEF Server
  <2>2. Keys' /\ Table' /\ RepeatGetsFirstAnswer'
    BY <1>1, <1>11, <2>1 DEF Repeats, Keys, Table, RepeatGetsFirstAnswer, Current, HasEntry
  <2>3. Lookups'
    <3>1. ASSUME NEW u \in Threads, job'[u] # None
          PROVE  /\ job'[u].pc \notin {"known", "finish"} => ~HasKey(sent[job'[u].id].key)
                 /\ job'[u].pc = "known" => HasEntry(sent[job'[u].id].key, job'[u].result)
      <4>1. CASE u = t  BY <1>7, <1>8, <1>9, <1>10, <4>1
      <4>2. CASE u # t  BY <3>1, <1>10, <2>1, <4>2 DEF Repeats, Lookups
      <4>3. QED  BY <4>1, <4>2
    <3>2. QED  BY <3>1, <1>1 DEF Lookups, HasKey, HasEntry
  <2>4. QED  BY <2>2, <2>3 DEF Repeats
<1>20. QED  BY <1>12, <1>13, <1>16, <1>18, <1>19 DEF Server, Patient

LEMMA FinishServes == ASSUME NEW t \in Threads, Server, Finish(t) PROVE Server'
<1>1. /\ job[t] # None /\ job[t].pc = "finish" /\ pending' = pending \ {job[t].id} /\ job' = [job EXCEPT ![t] = None]
      /\ UNCHANGED <<process, crashes, sent, queue, cache, out>>
  BY DEF Finish, At
<1>2. job \in [Threads -> Job \union {None}] /\ pending \in SUBSET Nat  BY DEF Server, ServerTypes
<1>3. job' \in [Threads -> Job \union {None}] /\ job'[t] = None /\ \A u \in Threads : u # t => job'[u] = job[u]
  BY <1>1, <1>2
<1>4. \A u \in Threads : job'[u] # None => job'[u] = job[u] /\ u # t  BY <1>3
<1>5. \A p \in DOMAIN queue : queue[p] # job[t].id  BY <1>1 DEF Server, InWork
<1>6. \A u \in Threads : job'[u] # None => job[u].id # job[t].id  BY <1>1, <1>4 DEF Server, InWork
<1>7. \A x : Answered(x)' <=> Answered(x)  BY <1>1 DEF Answered
<1>8. ServerTypes' /\ Replies' /\ AnsweredOnce'
  BY <1>1, <1>2, <1>3 DEF Server, ServerTypes, Replies, AnsweredOnce
<1>9. Waiting'
  <2>1. (\A p \in DOMAIN queue : queue[p] \in pending /\ ~Answered(queue[p]))'
    BY <1>1, <1>5, <1>7 DEF Server, Waiting
  <2>2. QED  BY <1>1, <2>1 DEF Server, Waiting
<1>10. InWork'
  <2>1. (\A u \in Threads : job[u] # None =>
          /\ job[u].id \in pending /\ (job[u].pc # "finish" => ~Answered(job[u].id))
          /\ \A p \in DOMAIN queue : queue[p] # job[u].id)'
    BY <1>1, <1>4, <1>6, <1>7 DEF Server, InWork
  <2>2. QED  BY <1>4, <2>1 DEF Server, InWork
<1>11. Patient => Repeats'
  <2>1. Patient => Repeats  BY DEF Server
  <2>2. Patient => Keys' /\ Table' /\ RepeatGetsFirstAnswer'
    BY <1>1, <1>7, <2>1 DEF Repeats, Keys, Table, RepeatGetsFirstAnswer, Current, HasEntry
  <2>3. Patient => Lookups'  BY <1>1, <1>4, <2>1 DEF Repeats, Lookups, HasKey, HasEntry
  <2>4. QED  BY <2>2, <2>3 DEF Repeats
<1>12. QED  BY <1>8, <1>9, <1>10, <1>11 DEF Server, Patient

LEMMA StoredTyped ==
    ASSUME NEW key \in Nat, NEW result \in StateRecord, Server
    PROVE  StoredResult(key, result) \in Seq(Entry) /\ Len(StoredResult(key, result)) <= CacheLimit
<1>1. cache \in Seq(Entry) /\ Len(cache) <= CacheLimit /\ CacheLimit \in Nat \ {0}
  BY ServicesAssumption DEF Server, ServerTypes
<1>r. PICK room : room = IF Len(cache) >= CacheLimit THEN Tail(cache) ELSE cache  OBVIOUS
<1>2. room \in Seq(Entry) /\ Len(room) < CacheLimit
  <2>1. CASE Len(cache) >= CacheLimit
    <3>1. cache # <<>>  BY <1>1, <2>1
    <3>2. Tail(cache) \in Seq(Entry) /\ Len(Tail(cache)) = Len(cache) - 1  BY <1>1, <3>1, HeadTailProperties
    <3>3. QED  BY <1>1, <1>r, <2>1, <3>2
  <2>2. CASE ~(Len(cache) >= CacheLimit)  BY <1>1, <1>r, <2>2
  <2>3. QED  BY <2>1, <2>2
<1>a. PICK at : at = {i \in DOMAIN room : room[i].key = key}  OBVIOUS
<1>e. PICK e : e = [key |-> key, result |-> result]  OBVIOUS
<1>3. e \in Entry  BY <1>e DEF Entry
<1>4. CASE at = {}
  <2>1. StoredResult(key, result) = Append(room, e)  BY <1>4, <1>r, <1>a, <1>e DEF StoredResult
  <2>2. Append(room, e) \in Seq(Entry) /\ Len(Append(room, e)) = Len(room) + 1  BY <1>2, <1>3, Grown
  <2>3. Len(room) \in Nat  BY <1>2
  <2>4. QED  BY <1>1, <1>2, <2>1, <2>2, <2>3
<1>5. CASE at # {}
  <2>1. StoredResult(key, result) = [room EXCEPT ![Min(at)].result = result]  BY <1>5, <1>r, <1>a DEF StoredResult
  <2>2. at \in SUBSET Nat  BY <1>2, <1>a
  <2>3. Min(at) \in DOMAIN room  BY <1>5, <1>a, <2>2, LeastIs
  <2>4. room[Min(at)] \in Entry  BY <1>2, <2>3
  <2>5. [room[Min(at)] EXCEPT !.result = result] \in Entry  BY <2>4 DEF Entry
  <2>6. StoredResult(key, result) = [room EXCEPT ![Min(at)] = [room[Min(at)] EXCEPT !.result = result]]
    BY <2>1, <2>3
  <2>7. QED  BY <1>1, <1>2, <2>3, <2>5, <2>6
<1>6. QED  BY <1>4, <1>5

(* A key without an entry has room in the table of a patient client.        *)
LEMMA StoredLast ==
    ASSUME NEW key \in 1..Len(sent), NEW result, Server, Patient, ~HasKey(key)
    PROVE  StoredResult(key, result) = Append(cache, [key |-> key, result |-> result])
<1>1. /\ cache \in Seq(Entry) /\ sent \in Seq(Request) /\ Len(sent) \in Nat /\ Len(cache) \in Nat
      /\ DOMAIN cache = 1..Len(cache)
  BY DEF Server, ServerTypes
<1>2. \A i \in 1..Len(cache) : cache[i].key \in 1..Len(sent) /\ cache[i].key # key
  BY <1>1 DEF Server, Repeats, Table, HasKey
<1>3. \A i, j \in 1..Len(cache) : cache[i].key = cache[j].key => i = j
  BY <1>1 DEF Server, Repeats, Table
<1>f. PICK f : f = [i \in 1..Len(cache) |-> cache[i].key]  OBVIOUS
<1>9. f \in [1..Len(cache) -> (1..Len(sent)) \ {key}] /\ \A i, j \in 1..Len(cache) : f[i] = f[j] => i = j
  BY <1>2, <1>3, <1>f
<1>4. Len(cache) < Len(sent)  BY <1>1, <1>9, Distinct
<1>5. Len(sent) <= MaxSent /\ MaxSent <= CacheLimit /\ MaxSent \in Nat /\ CacheLimit \in Nat
  BY ServicesAssumption DEF Server, Repeats, Keys, Patient
<1>6. ~(Len(cache) >= CacheLimit)  BY <1>1, <1>4, <1>5
<1>7. {i \in DOMAIN cache : cache[i].key = key} = {}  BY <1>1, <1>2
<1>8. QED  BY <1>6, <1>7 DEF StoredResult


LEMMA AnswerServes == ASSUME NEW t \in Threads, Server, InHand, Answer(t) PROVE Server'
<1>i. PICK i : i = job[t].id  OBVIOUS
<1>o. PICK o : o = [id |-> job[t].id, ok |-> job[t].pc # "failed",
                    code |-> IF job[t].pc # "failed" THEN "ok" ELSE job[t].result,
                    result |-> IF job[t].pc # "failed" THEN job[t].result ELSE None]
  OBVIOUS
<1>1. /\ job[t] # None /\ job[t].pc \in {"done", "known", "failed"}
      /\ cache' = IF job[t].pc = "done" THEN StoredResult(sent[i].key, job[t].result) ELSE cache
      /\ out' = Append(out, o) /\ job' = [job EXCEPT ![t].pc = "finish"]
      /\ UNCHANGED <<process, crashes, sent, pending, queue>>
  BY <1>i, <1>o DEF Answer, Asked
<1>2. /\ job \in [Threads -> Job \union {None}] /\ out \in Seq(Reply) /\ sent \in Seq(Request) /\ crashes \in Nat
      /\ cache \in Seq(Entry) /\ Len(cache) <= CacheLimit /\ pending \in SUBSET Nat
  BY DEF Server, ServerTypes
<1>3. i \in pending /\ i \in DOMAIN sent /\ ~Answered(i) /\ sent[i].crashes = crashes /\ sent[i].key \in 1..i
  BY <1>1, <1>i DEF Server, InWork, Waiting
<1>4. job[t].pc # "failed" => job[t].result \in StateRecord  BY <1>1 DEF InHand
<1>5. job[t].pc = "failed" => job[t].result \in Refusals  BY <1>1 DEF InHand
<1>6. o \in Reply /\ o.id = i /\ o.code \notin Notices /\ (o.ok => o.code = "ok" /\ o.result = job[t].result)
      /\ (o.ok <=> job[t].pc # "failed")
  <2>1. i \in Nat  BY <1>2, <1>3
  <2>2. CASE job[t].pc = "failed"
    <3>1. o.id = i /\ o.ok = FALSE /\ o.code \in Refusals /\ o.result = None  BY <1>5, <1>i, <1>o, <2>2
    <3>2. o = [id |-> i, ok |-> FALSE, code |-> o.code, result |-> None]  BY <1>i, <1>o, <2>2
    <3>3. o \in Reply  BY <2>1, <3>1, <3>2 DEF Reply
    <3>4. QED  BY <2>2, <3>1, <3>3 DEF Refusals, Notices
  <2>3. CASE job[t].pc # "failed"
    <3>1. o = [id |-> i, ok |-> TRUE, code |-> "ok", result |-> job[t].result]  BY <1>i, <1>o, <2>3
    <3>2. o \in Reply  BY <1>4, <2>1, <2>3, <3>1 DEF Reply
    <3>3. QED  BY <2>3, <3>1, <3>2 DEF Notices
  <2>4. QED  BY <2>2, <2>3
<1>7. /\ out' \in Seq(Reply) /\ DOMAIN out' = 1..(Len(out) + 1) /\ DOMAIN out = 1..Len(out)
      /\ out'[Len(out) + 1] = o /\ Len(out) + 1 \notin DOMAIN out /\ Len(out) + 1 \in DOMAIN out'
      /\ \A k \in DOMAIN out : k \in DOMAIN out' /\ out'[k] = out[k]
      /\ \A k \in DOMAIN out' : k \in DOMAIN out \/ k = Len(out) + 1
  BY <1>1, <1>2, <1>6, Grown
<1>8. \A x : Answered(x)' <=> Answered(x) \/ x = i
  <2>1. ASSUME NEW x, Answered(x) PROVE Answered(x)'  BY <2>1, <1>7 DEF Answered
  <2>2. Answered(i)'  BY <1>6, <1>7 DEF Answered, Notices
  <2>3. ASSUME NEW x, Answered(x)', x # i PROVE Answered(x)
    BY <2>3, <1>6, <1>7 DEF Answered
  <2>4. QED  BY <2>1, <2>2, <2>3
<1>9. job[t] \in Job  BY <1>1, <1>2
<1>j. PICK j : j = [job[t] EXCEPT !.pc = "finish"]  OBVIOUS
<1>10. j \in Job /\ j.id = i /\ j.pc = "finish"  BY <1>9, <1>i, <1>j DEF Job, JobStages
<1>11. job' \in [Threads -> Job \union {None}] /\ job'[t] = j /\ \A u \in Threads : u # t => job'[u] = job[u]
  <2>1. job' = [job EXCEPT ![t] = j]  BY <1>1, <1>j
  <2>2. QED  BY <1>2, <1>10, <2>1
<1>12. cache' \in Seq(Entry) /\ Len(cache') <= CacheLimit
  <2>1. CASE job[t].pc = "done"
    <3>1. sent[i].key \in Nat  BY <1>2, <1>3
    <3>2. QED  BY <1>1, <1>4, <2>1, <3>1, StoredTyped
  <2>2. CASE job[t].pc # "done"  BY <1>1, <1>2, <2>2
  <2>3. QED  BY <2>1, <2>2
<1>13. ServerTypes'  BY <1>1, <1>7, <1>11, <1>12 DEF Server, ServerTypes
<1>14. Replies'
  <2>1. o.ok => o.result \in StateRecord  BY <1>4, <1>6
  <2>2. QED  BY <1>1, <1>3, <1>6, <1>7, <2>1 DEF Server, Replies
<1>15. \A p \in DOMAIN queue : queue[p] # i  BY <1>1, <1>i DEF Server, InWork
<1>16. Waiting'
  <2>1. (\A p \in DOMAIN queue : queue[p] \in pending /\ ~Answered(queue[p]))'
    BY <1>1, <1>8, <1>15 DEF Server, Waiting
  <2>2. QED  BY <1>1, <2>1 DEF Server, Waiting
<1>17. \A u \in Threads : u # t /\ job[u] # None => job[u].id # i  BY <1>1, <1>i DEF Server, InWork
<1>18. InWork'
  <2>1. (\A u \in Threads : job[u] # None =>
          /\ job[u].id \in pending /\ (job[u].pc # "finish" => ~Answered(job[u].id))
          /\ \A p \in DOMAIN queue : queue[p] # job[u].id)'
    BY <1>1, <1>3, <1>8, <1>10, <1>11, <1>15, <1>17 DEF Server, InWork
  <2>2. \A u, v \in Threads : u # v /\ job'[u] # None /\ job'[v] # None => job'[u].id # job'[v].id
    BY <1>10, <1>11, <1>17 DEF Server, InWork
  <2>3. QED  BY <2>1, <2>2 DEF InWork
<1>19. AnsweredOnce'
  <2>1. \A k \in DOMAIN out : out[k].id = i => out[k].code \in Notices  BY <1>3 DEF Answered, Notices
  <2>2. QED  BY <1>6, <1>7, <2>1 DEF Server, AnsweredOnce
<1>20. ASSUME Patient PROVE Repeats'
  <2>1. Repeats  BY <1>20 DEF Server
  <2>2. Keys'  BY <1>1, <1>8, <2>1 DEF Repeats, Keys, Current
  <2>3. job[t].pc # "known" => ~HasKey(sent[i].key)  BY <1>1, <1>i, <2>1 DEF Repeats, Lookups
  <2>4. sent[i].key \in 1..Len(sent)  BY <1>2, <1>3
  <2>5. \/ cache' = cache
        \/ job[t].pc = "done" /\ cache' = Append(cache, [key |-> sent[i].key, result |-> job[t].result])
    BY <1>1, <1>20, <2>3, <2>4, StoredLast
  <2>6. \A c \in DOMAIN cache : c \in DOMAIN cache' /\ cache'[c] = cache[c]
    BY SMTT(30), <1>2, <2>5
  <2>7. \A c \in DOMAIN cache' :
            \/ c \in DOMAIN cache
            \/ c = Len(cache) + 1 /\ job[t].pc = "done" /\ cache'[c].key = sent[i].key /\ ~HasKey(sent[i].key)
    BY <1>2, <2>3, <2>5
  <2>8. \A key, result : HasEntry(key, result) => HasEntry(key, result)'  BY <2>6 DEF HasEntry
  <2>9. job[t].pc # "failed" =>
            \E c \in DOMAIN cache' : cache'[c].key = sent[i].key /\ cache'[c].result = job[t].result
    <3>1. CASE job[t].pc = "known"  BY <1>1, <1>i, <2>1, <2>6, <3>1 DEF Repeats, Lookups, HasEntry
    <3>2. CASE job[t].pc = "done"
      <4>1. cache' = Append(cache, [key |-> sent[i].key, result |-> job[t].result])
        BY <1>1, <1>20, <2>3, <2>4, <3>2, StoredLast
      <4>2. PICK c : c = Len(cache) + 1  OBVIOUS
      <4>3. c \in DOMAIN cache' /\ cache'[c] = [key |-> sent[i].key, result |-> job[t].result]
        BY <1>2, <4>1, <4>2
      <4>4. QED  BY <4>3
    <3>3. QED  BY <1>1, <3>1, <3>2
  <2>10. Table'
    <3>1. \A c, d \in DOMAIN cache' : cache'[c].key = cache'[d].key => c = d
      BY <2>1, <2>6, <2>7 DEF Repeats, Table, HasKey
    <3>2. \A c \in DOMAIN cache' : cache'[c].key \in 1..Len(sent)
      BY <2>1, <2>4, <2>6, <2>7 DEF Repeats, Table
    <3>3. (\A k \in DOMAIN out : out[k].ok /\ Current(out[k].id) => HasEntry(sent[out[k].id].key, out[k].result))'
      <4>1. ASSUME NEW k \in DOMAIN out', out'[k].ok, sent[out'[k].id].crashes = crashes
            PROVE  \E c \in DOMAIN cache' : cache'[c].key = sent[out'[k].id].key /\ cache'[c].result = out'[k].result
        <5>1. CASE k \in DOMAIN out
          <6>1. HasEntry(sent[out[k].id].key, out[k].result)  BY <1>7, <2>1, <4>1, <5>1 DEF Repeats, Table, Current
          <6>2. QED  BY <1>7, <2>6, <5>1, <6>1 DEF HasEntry
        <5>2. CASE k \notin DOMAIN out  BY <1>6, <1>7, <2>9, <4>1, <5>2
        <5>3. QED  BY <5>1, <5>2
      <4>2. QED  BY <1>1, <4>1 DEF HasEntry, Current
    <3>4. QED  BY <1>1, <3>1, <3>2, <3>3 DEF Table
  <2>11. Lookups'
    <3>1. ASSUME NEW u \in Threads, u # t, job[u] # None, job[u].pc \notin {"known", "finish"}, job[t].pc = "done"
          PROVE  sent[job[u].id].key # sent[i].key
      <4>1. /\ job[u].id # i /\ job[u].id \in DOMAIN sent /\ ~Answered(job[u].id) /\ Current(job[u].id)
        BY <1>17, <3>1 DEF Server, InWork, Waiting, Current
      <4>2. QED  BY <1>3, <2>1, <4>1 DEF Repeats, Keys, Current
    <3>2. \A u \in Threads : job[u] # None /\ job[u].pc \notin {"known", "finish"} /\ u # t =>
              ~HasKey(sent[job[u].id].key)'
      <4>1. ASSUME NEW u \in Threads, job[u] # None, job[u].pc \notin {"known", "finish"}, u # t
            PROVE  \A c \in DOMAIN cache' : cache'[c].key # sent[job[u].id].key
        <5>1. \A c \in DOMAIN cache : cache[c].key # sent[job[u].id].key
          BY <2>1, <4>1 DEF Repeats, Lookups, HasKey
        <5>2. QED  BY <2>6, <2>7, <3>1, <4>1, <5>1
      <4>2. QED  BY <1>1, <1>11, <4>1 DEF HasKey
    <3>3. QED  BY <1>1, <1>10, <1>11, <2>1, <2>8, <3>2 DEF Repeats, Lookups
  <2>12. RepeatGetsFirstAnswer'
    <3>1. ASSUME NEW a \in DOMAIN out', NEW b \in DOMAIN out',
                 out'[a].ok, out'[a].id \in sent[out'[b].id].after,
                 sent[out'[a].id].key = sent[out'[b].id].key, sent[out'[a].id].crashes = sent[out'[b].id].crashes
          PROVE  /\ out'[b].code \in {"ok", "rate_limit", "cancelled"} \union Notices
                 /\ out'[b].ok => out'[b].result = out'[a].result
      <4>1. out'[b].id \in DOMAIN sent  BY <1>3, <1>6, <1>7 DEF Server, Replies
      <4>2. Answered(out'[a].id)  BY <2>1, <3>1, <4>1 DEF Repeats, Keys
      <4>3. a \in DOMAIN out /\ out'[a] = out[a]  BY <1>3, <1>6, <1>7, <4>2
      <4>4. CASE b \in DOMAIN out
        BY <1>7, <2>1, <3>1, <4>3, <4>4 DEF Repeats, RepeatGetsFirstAnswer
      <4>5. CASE b \notin DOMAIN out
        <5>1. out'[b] = o  BY <1>7, <4>5
        <5>2. Current(out[a].id)  BY <1>3, <1>6, <3>1, <4>3, <5>1 DEF Current
        <5>3. HasEntry(sent[i].key, out[a].result)
          BY <1>6, <2>1, <3>1, <4>3, <5>1, <5>2 DEF Repeats, Table
        <5>4. job[t].pc = "known"  BY <2>3, <5>3 DEF HasKey, HasEntry
        <5>5. HasEntry(sent[i].key, job[t].result)  BY <1>1, <1>i, <2>1, <5>4 DEF Repeats, Lookups
        <5>6. job[t].result = out[a].result  BY <2>1, <5>3, <5>5 DEF Repeats, Table, HasEntry
        <5>7. QED  BY <1>6, <4>3, <5>1, <5>4, <5>6
      <4>6. QED  BY <4>4, <4>5
    <3>2. QED  BY <1>1, <3>1 DEF RepeatGetsFirstAnswer
  <2>13. QED  BY <2>2, <2>10, <2>11, <2>12 DEF Repeats
<1>21. QED  BY <1>13, <1>14, <1>16, <1>18, <1>19, <1>20 DEF Server, Patient

-----------------------------------------------------------------------------
(* The sessions: what a job has in hand stays good while the service does    *)
(* not change.                                                               *)
Held(j) ==
    /\ j.pc \in {"judge", "assign", "replace"} => j.on \in DOMAIN objects
    /\ j.pc = "assign" => j.next \in Change
    /\ j.pc = "replace" => j.next \in BindingRecord /\ Exists(j.next.generation)
    /\ j.pc \in {"replace", "done", "known"} => j.result \in StateRecord
    /\ j.pc = "failed" => j.result \in Refusals
LEMMA HandIs == Service => \A t \in Threads : job[t] # None => Held(job[t])
BY DEF Service, InHand, Sessions, Opens, Held

LEMMA ServiceStays ==
    ASSUME Service, UNCHANGED service,
           \A u \in Threads : job'[u] # None =>
              \/ job'[u] = job[u]
              \/ job'[u].pc # "publish" /\ Held(job'[u])
    PROVE  Service'
<1>1. \A u \in Threads : job'[u] # None => Held(job'[u])  BY HandIs
<1>2. \A u \in Threads : job'[u] # None /\ job'[u].pc = "publish" => job[u] # None /\ job[u].pc = "publish"
  OBVIOUS
<1>3. UNCHANGED <<objects, session, disk>>  BY DEF service
<1>4. InHand'  BY <1>1, <1>3 DEF InHand, Held
<1>5. PICK n \in Nat : Opens(n)  BY DEF Service, Sessions
<1>6. Opens(n)'  BY <1>1, <1>2, <1>3, <1>5 DEF Opens, Held, Exists
<1>7. QED  BY <1>3, <1>4, <1>6 DEF Service, SessionTypes, Sessions

LEMMA ClientServes == ASSUME Service, UNCHANGED <<job, service>> PROVE Service'
BY ServiceStays

LEMMA CrashServes == ASSUME Service, Crash PROVE Service'
<1>1. \A u \in Threads : job'[u] = None  BY DEF Crash
<1>2. UNCHANGED <<objects, disk>> /\ session' = None  BY DEF Crash
<1>3. PICK n \in Nat : Opens(n)  BY DEF Service, Sessions
<1>4. Opens(n)'  BY <1>1, <1>2, <1>3 DEF Opens, Exists
<1>5. QED  BY <1>1, <1>2, <1>4 DEF Service, SessionTypes, InHand, Sessions

LEMMA ThreadServes ==
    ASSUME NEW t \in Threads, Server, Service, Take(t) \/ Answer(t) \/ Finish(t)
    PROVE  Service'
<1>1. UNCHANGED service  BY DEF Take, Answer, Finish
<1>2. job \in [Threads -> Job \union {None}]  BY DEF Server, ServerTypes
<1>3. CASE Take(t)
  <2>1. PICK i : i = Head(queue)  OBVIOUS
  <2>2. PICK j : j = [id |-> i, pc |-> IF Stored(sent[i].key) = {} THEN sent[i].method ELSE "known",
                    on |-> None, next |-> None,
                    result |-> IF Stored(sent[i].key) = {} THEN None ELSE cache[Min(Stored(sent[i].key))].result]
    OBVIOUS
  <2>3. job' = [job EXCEPT ![t] = j] /\ queue # <<>>  BY <1>3, <2>1, <2>2 DEF Take
  <2>4. /\ sent \in Seq(Request) /\ cache \in Seq(Entry) /\ queue \in Seq(Nat)
    BY DEF Server, ServerTypes
  <2>5. i = queue[1] /\ 1 \in DOMAIN queue  BY <2>1, <2>3, <2>4
  <2>6. i \in DOMAIN sent  BY <2>5 DEF Server, Waiting
  <2>7. sent[i] \in Request  BY <2>4, <2>6
  <2>8. CASE Stored(sent[i].key) = {}
    <3>1. j.pc \in {"open", "step", "close"}  BY <2>2, <2>7, <2>8 DEF Request
    <3>2. j.pc # "publish" /\ Held(j)  BY <3>1 DEF Held
    <3>3. QED  BY <1>1, <1>2, <2>3, <3>2, ServiceStays
  <2>9. CASE Stored(sent[i].key) # {}
    <3>1. Stored(sent[i].key) \in SUBSET Nat  BY <2>4 DEF Stored
    <3>2. Min(Stored(sent[i].key)) \in DOMAIN cache  BY <3>1, <2>9, LeastIs DEF Stored
    <3>3. cache[Min(Stored(sent[i].key))] \in Entry  BY <2>4, <3>2
    <3>4. j.pc = "known" /\ j.result \in StateRecord  BY <2>2, <2>9, <3>3 DEF Entry
    <3>5. j.pc # "publish" /\ Held(j)  BY <3>4 DEF Held
    <3>6. QED  BY <1>1, <1>2, <2>3, <3>5, ServiceStays
  <2>10. QED  BY <2>8, <2>9
<1>4. CASE Answer(t)
  <2>1. job[t] # None /\ job' = [job EXCEPT ![t].pc = "finish"]  BY <1>4 DEF Answer
  <2>2. job[t] \in Job  BY <1>2, <2>1
  <2>3. job'[t].pc = "finish" /\ \A u \in Threads : u # t => job'[u] = job[u]  BY <1>2, <2>1, <2>2 DEF Job
  <2>4. Held(job'[t])  BY <2>3 DEF Held
  <2>5. QED  BY <1>1, <2>3, <2>4, ServiceStays
<1>5. CASE Finish(t)
  <2>1. \A u \in Threads : job'[u] # None => job'[u] = job[u]  BY <1>2, <1>5 DEF Finish
  <2>2. QED  BY <1>1, <2>1, ServiceStays
<1>6. QED  BY <1>3, <1>4, <1>5

(* A thread at work.                                                        *)
LEMMA FailServes ==
    ASSUME NEW t \in Threads, NEW code \in Refusals, Server, Service,
           job[t] # None, job[t].pc \notin {"known", "finish"}, Fails(t, code)
    PROVE  Working(t) /\ Service'
<1>1. job \in [Threads -> Job \union {None}]  BY DEF Server, ServerTypes
<1>2. job[t] \in Job  BY <1>1
<1>j. PICK j : j = [job[t] EXCEPT !.pc = "failed", !.result = code]  OBVIOUS
<1>3. j \in Job /\ j.id = job[t].id /\ j.pc = "failed" /\ j.result = code  BY <1>2, <1>j DEF Job, JobStages
<1>4. job' = [job EXCEPT ![t] = j] /\ UNCHANGED <<process, crashes, sent, pending, queue, cache, service, out>>
  BY <1>j DEF Fails
<1>5. Working(t)  BY <1>3, <1>4 DEF Working
<1>6. Held(j) /\ j.pc # "publish"  BY <1>3 DEF Held
<1>7. QED  BY <1>1, <1>4, <1>5, <1>6, ServiceStays


LEMMA OpenCheckServes == ASSUME NEW t \in Threads, Server, Service, OpenCheck(t) PROVE Working(t) /\ Service'
<1>1. job \in [Threads -> Job \union {None}] /\ job[t] # None /\ job[t].pc = "open"
  BY DEF Server, ServerTypes, OpenCheck, At
<1>2. job[t] \in Job  BY <1>1
<1>3. CASE \E code \in Refusals : Fails(t, code)  BY <1>1, <1>3, FailServes
<1>4. CASE ~\E code \in Refusals : Fails(t, code)
  <2>1. /\ session = None /\ (disk.root => Recoverable) /\ Generation \notin disk.generations
        /\ disk' = [disk EXCEPT !.root = TRUE, !.generations = @ \union {Generation}]
        /\ job' = [job EXCEPT ![t].pc = "publish"]
        /\ UNCHANGED <<process, crashes, sent, pending, queue, cache, out, objects, session>>
    BY <1>4 DEF OpenCheck, Goes, Refusals
  <2>j. PICK j : j = [job[t] EXCEPT !.pc = "publish"]  OBVIOUS
  <2>2. j \in Job /\ j.id = job[t].id /\ j.pc = "publish"  BY <1>2, <2>j DEF Job, JobStages
  <2>3. job' = [job EXCEPT ![t] = j]  BY <2>1, <2>j
  <2>4. Working(t)  BY <1>1, <2>1, <2>2, <2>3 DEF Working
  <2>5. job'[t] = j /\ \A u \in Threads : u # t => job'[u] = job[u]  BY <1>1, <2>3
  <2>6. disk \in DiskRecord /\ objects \in Seq(SessionObject)  BY DEF Service, SessionTypes
  <2>7. PICK n \in Nat : Opens(n)  BY DEF Service, Sessions
  <2>8. Generation = n + 1 /\ Len(objects) = n /\ \A i \in DOMAIN objects : objects[i].generation = i
    <3>1. CASE disk.root
      <4>1. disk.binding # None /\ Generation = disk.binding.generation + 1
        BY <2>1, <3>1 DEF Recoverable, Generation
      <4>2. PICK i \in DOMAIN objects : objects[i].generation = disk.binding.generation
        BY <2>7, <4>1 DEF Opens, Exists
      <4>3. objects[i].generation \in 1..i /\ i \in 1..Len(objects) /\ Len(objects) \in {n - 1, n}
        BY <2>6, <2>7 DEF Opens
      <4>4. Generation \in 2..(i + 1) /\ Generation \notin 1..n  BY <2>1, <2>7, <4>1, <4>2, <4>3 DEF Opens
      <4>5. i = n /\ Len(objects) = n /\ objects[i].generation = n  BY <4>1, <4>2, <4>3, <4>4
      <4>6. \A k \in DOMAIN objects : objects[k].generation = k
        BY <2>6, <2>7, <4>5 DEF Opens
      <4>7. QED  BY <4>1, <4>2, <4>5, <4>6
    <3>2. CASE ~disk.root
      <4>1. n = 0 /\ Generation = 1  BY <2>7, <3>2 DEF Opens, Generation
      <4>2. Len(objects) = 0  BY <2>6, <2>7, <4>1 DEF Opens
      <4>3. QED  BY <2>6, <4>1, <4>2
    <3>3. QED  BY <3>1, <3>2
  <2>9. /\ disk'.root = TRUE /\ disk'.generations = disk.generations \union {n + 1}
        /\ disk'.binding = disk.binding /\ disk' \in DiskRecord
    <3>1. disk = [root |-> disk.root, generations |-> disk.generations, binding |-> disk.binding]
          /\ disk.generations \in SUBSET Nat /\ disk.binding \in BindingRecord \union {None}
      BY <2>6 DEF DiskRecord
    <3>2. disk' = [root |-> TRUE, generations |-> disk.generations \union {n + 1}, binding |-> disk.binding]
      BY <2>1, <2>8, <3>1
    <3>3. disk.generations \union {n + 1} \in SUBSET Nat  BY <3>1
    <3>4. QED  BY <3>1, <3>2, <3>3 DEF DiskRecord
  <2>10. Held(j)  BY <2>2 DEF Held
  <2>11. Held(j)'  BY <2>1, <2>2, <2>5 DEF Held
  <2>12. InHand'  BY <2>1, <2>2, <2>5 DEF Service, InHand
  <2>13. \A u \in Threads : job[u] # None => job[u].pc # "publish"
    BY <2>7, <2>8 DEF Opens
  <2>14. Opens(n + 1)'
    <3>1. disk'.generations = 1..(n + 1) /\ (disk'.root <=> n + 1 > 0)  BY <2>7, <2>9 DEF Opens
    <3>2. Len(objects) \in {(n + 1) - 1, n + 1}  BY <2>8
    <3>3. \A i \in DOMAIN objects : objects[i].generation \in 1..i /\ (i < n + 1 => objects[i].generation = i)
      BY <2>6, <2>8
    <3>4. disk'.binding # None => Exists(disk'.binding.generation)  BY <2>7, <2>9 DEF Opens
    <3>5. \A u \in Threads : job'[u] # None /\ job'[u].pc = "replace" => Exists(job'[u].next.generation)
      BY <2>2, <2>5, <2>7 DEF Opens
    <3>6. \A u \in Threads : job'[u] # None /\ job'[u].pc = "publish" => u = t
      BY <2>5, <2>13
    <3>7. QED  BY <2>1, <2>8, <3>1, <3>2, <3>3, <3>4, <3>5, <3>6 DEF Opens, Exists
  <2>15. SessionTypes'  BY <2>1, <2>9 DEF Service, SessionTypes
  <2>16. QED  BY <2>4, <2>7, <2>12, <2>14, <2>15 DEF Service, Sessions
<1>5. QED  BY <1>3, <1>4

LEMMA OpenPublishServes == ASSUME NEW t \in Threads, Server, Service, OpenPublish(t) PROVE Working(t) /\ Service'
<1>1. job \in [Threads -> Job \union {None}] /\ job[t] # None /\ job[t].pc = "publish"
  BY DEF Server, ServerTypes, OpenPublish, At
<1>2. job[t] \in Job  BY <1>1
<1>s. PICK s : s = Opened(disk.binding)  OBVIOUS
<1>3. /\ objects' = Append(objects, s) /\ session' = s.generation
      /\ job' = [job EXCEPT ![t].pc = "replace", ![t].on = s.generation, ![t].next = Binding(s, FALSE),
                            ![t].result = State(s)]
      /\ UNCHANGED <<process, crashes, sent, pending, queue, cache, disk, out>>
  BY <1>s DEF OpenPublish
<1>4. PICK n \in Nat : Opens(n)  BY DEF Service, Sessions
<1>5. Len(objects) = n - 1 /\ \A u \in Threads : job[u] # None /\ job[u].pc = "publish" => u = t
  BY <1>1, <1>4 DEF Opens
<1>6. disk \in DiskRecord /\ objects \in Seq(SessionObject)  BY DEF Service, SessionTypes
<1>7. s \in SessionObject /\ s.generation \in 1..n
  <2>1. n >= 1 /\ n \in Nat  BY <1>5, <1>6
  <2>2. CASE disk.binding = None
    <3>1. s = [generation |-> 1, trail |-> <<>>, sequence |-> 0, history |-> <<>>, status |-> "ready"]
      BY <1>s, <2>2 DEF Opened
    <3>2. s \in SessionObject  BY <3>1 DEF SessionObject, Statuses
    <3>3. QED  BY <2>1, <3>1, <3>2
  <2>3. CASE disk.binding # None
    <3>1. disk.binding \in BindingRecord  BY <1>6, <2>3 DEF DiskRecord
    <3>2. s = [generation |-> disk.binding.generation + 1, trail |-> <<>>, sequence |-> disk.binding.sequence,
               history |-> disk.binding.history, status |-> disk.binding.status]
      BY <1>s, <2>3 DEF Opened
    <3>3. s \in SessionObject  BY <3>1, <3>2 DEF SessionObject, BindingRecord
    <3>4. PICK i \in DOMAIN objects : objects[i].generation = disk.binding.generation
      BY <1>4, <2>3 DEF Opens, Exists
    <3>5. objects[i].generation \in 1..i /\ i \in 1..(n - 1)  BY <1>4, <1>5, <1>6 DEF Opens
    <3>6. s.generation \in 1..n  BY <2>1, <3>2, <3>4, <3>5
    <3>7. QED  BY <3>3, <3>6
  <2>4. QED  BY <2>2, <2>3
<1>8. /\ objects' \in Seq(SessionObject) /\ Len(objects') = n /\ DOMAIN objects' = 1..n /\ DOMAIN objects = 1..(n - 1)
      /\ objects'[n] = s /\ n \in DOMAIN objects' /\ \A i \in DOMAIN objects : i \in DOMAIN objects' /\ objects'[i] = objects[i]
  BY <1>3, <1>5, <1>6, <1>7, Grown
<1>9. Binding(s, FALSE) \in BindingRecord /\ State(s) \in StateRecord /\ Binding(s, FALSE).generation = s.generation
  BY <1>7 DEF SessionObject, Binding, State, BindingRecord, StateRecord
<1>j. PICK j : j = [job[t] EXCEPT !.pc = "replace", !.on = s.generation, !.next = Binding(s, FALSE), !.result = State(s)]
  OBVIOUS
<1>10. /\ j \in Job /\ j.id = job[t].id /\ j.pc = "replace" /\ j.on = s.generation /\ j.next = Binding(s, FALSE)
       /\ j.result = State(s)
  <2>1. s.generation \in Nat  BY <1>7 DEF SessionObject
  <2>2. QED  BY <1>2, <1>9, <1>j, <2>1 DEF Job, JobStages
<1>11. job' = [job EXCEPT ![t] = j]  BY <1>3, <1>j
<1>12. Working(t)  BY <1>1, <1>3, <1>10, <1>11 DEF Working
<1>13. job'[t] = j /\ \A u \in Threads : u # t => job'[u] = job[u]  BY <1>1, <1>11
<1>14. InHand'  BY <1>7, <1>8, <1>9, <1>10, <1>13 DEF Service, InHand
<1>15. \A x : Exists(x) => Exists(x)'  BY <1>8 DEF Exists
<1>16. Exists(s.generation)'
  <2>1. objects'[n].generation = s.generation /\ n \in DOMAIN objects'  BY <1>8
  <2>2. PICK g : g = s.generation  OBVIOUS
  <2>3. QED  BY <2>1, <2>2 DEF Exists
<1>17. Opens(n)'
  <2>1. disk'.generations = 1..n /\ (disk'.root <=> n > 0) /\ Len(objects') \in {n - 1, n}
    BY <1>3, <1>4, <1>8 DEF Opens
  <2>2. \A i \in DOMAIN objects' : objects'[i].generation \in 1..i /\ (i < n => objects'[i].generation = i)
    BY <1>4, <1>7, <1>8 DEF Opens
  <2>3. (disk.binding # None => Exists(disk.binding.generation))'
    BY <1>3, <1>4, <1>15 DEF Opens
  <2>4. session' \in DOMAIN objects' /\ objects'[session'].generation = session'
    BY <1>3, <1>7, <1>8, <2>2
  <2>5. (\A u \in Threads : job[u] # None /\ job[u].pc = "replace" => Exists(job[u].next.generation))'
    <3>1. \A u \in Threads : u # t /\ job[u] # None /\ job[u].pc = "replace" => Exists(job[u].next.generation)
      BY <1>4 DEF Opens
    <3>2. \E i \in DOMAIN objects' : objects'[i].generation = j.next.generation
      BY <1>8, <1>9, <1>10
    <3>3. QED  BY <1>13, <1>15, <3>1, <3>2 DEF Exists
  <2>6. \A u \in Threads : job'[u] # None => job'[u].pc # "publish"
    BY <1>5, <1>10, <1>13
  <2>7. QED  BY <2>1, <2>2, <2>3, <2>4, <2>5, <2>6 DEF Opens
<1>18. SessionTypes'
  <2>1. s.generation \in Nat  BY <1>7 DEF SessionObject
  <2>2. QED  BY <1>3, <1>8, <2>1 DEF Service, SessionTypes
<1>19. QED  BY <1>12, <1>14, <1>17, <1>18 DEF Service, Sessions


LEMMA BoundIs == ASSUME NEW t \in Threads, Service, Bound(t)
    PROVE session \in DOMAIN objects /\ objects[session].generation = session /\ objects[session] \in SessionObject
<1>1. session # None /\ objects \in Seq(SessionObject)  BY DEF Bound, Service, SessionTypes
<1>2. session \in DOMAIN objects /\ objects[session].generation = session  BY <1>1 DEF Service, Sessions, Opens
<1>3. QED  BY <1>1, <1>2

LEMMA StepServes ==
    ASSUME NEW t \in Threads, Server, Service, StepCheck(t) \/ StepJudge(t)
    PROVE  Working(t) /\ Service'
<1>1. job \in [Threads -> Job \union {None}] /\ job[t] # None /\ job[t].pc \in {"step", "judge"}
  BY DEF Server, ServerTypes, StepCheck, StepJudge, At
<1>2. job[t] \in Job  BY <1>1
<1>3. CASE StepCheck(t)
  <2>1. CASE ~Bound(t) \/ objects[session].status = "completed"
    <3>1. Fails(t, "output_rejected")  BY <1>3, <2>1 DEF StepCheck
    <3>2. QED  BY <1>1, <3>1, FailServes DEF Refusals
  <2>2. CASE Bound(t) /\ objects[session].status # "completed"
    <3>1. job' = [job EXCEPT ![t].pc = "judge", ![t].on = session]
          /\ UNCHANGED <<process, crashes, sent, pending, queue, cache, service, out>>
      BY <1>3, <2>2 DEF StepCheck
    <3>2. session \in DOMAIN objects /\ session \in Nat
      BY <2>2, BoundIs DEF Service, SessionTypes
    <3>j. PICK j : j = [job[t] EXCEPT !.pc = "judge", !.on = session]  OBVIOUS
    <3>3. j \in Job /\ j.id = job[t].id /\ j.pc = "judge" /\ j.on = session  BY <1>2, <3>2, <3>j DEF Job, JobStages
    <3>4. job' = [job EXCEPT ![t] = j]  BY <3>1, <3>j
    <3>5. Working(t)  BY <1>1, <3>1, <3>3, <3>4 DEF Working
    <3>6. Held(j)  BY <3>2, <3>3 DEF Held
    <3>7. UNCHANGED service  BY <3>1
    <3>8. QED  BY <1>1, <3>3, <3>4, <3>5, <3>6, <3>7, ServiceStays
  <2>3. QED  BY <2>1, <2>2
<1>4. CASE StepJudge(t)
  <2>s. PICK s : s = objects[job[t].on]  OBVIOUS
  <2>n. PICK n : n = [sequence |-> s.sequence + 1, trail |-> Append(s.trail, s.sequence),
                      status |-> IF s.sequence + 1 >= MaxRounds THEN "completed" ELSE "running"]
    OBVIOUS
  <2>1. /\ job[t].pc = "judge" /\ job' = [job EXCEPT ![t].pc = "assign", ![t].next = n]
        /\ UNCHANGED <<process, crashes, sent, pending, queue, cache, service, out>>
    BY <1>4, <2>s, <2>n DEF StepJudge, At, Mine
  <2>2. job[t].on \in DOMAIN objects /\ objects \in Seq(SessionObject)
    BY <1>1, <2>1 DEF Service, InHand, SessionTypes
  <2>3. s \in SessionObject  BY <2>2, <2>s
  <2>4. n \in Change
    <3>1. s.sequence \in Nat /\ s.trail \in Seq(Nat)  BY <2>3 DEF SessionObject
    <3>2. s.sequence + 1 \in Nat /\ Append(s.trail, s.sequence) \in Seq(Nat)  BY <3>1
    <3>3. (IF s.sequence + 1 >= MaxRounds THEN "completed" ELSE "running") \in Statuses  BY DEF Statuses
    <3>4. QED  BY <2>n, <3>2, <3>3 DEF Change
  <2>j. PICK j : j = [job[t] EXCEPT !.pc = "assign", !.next = n]  OBVIOUS
  <2>5. j \in Job /\ j.id = job[t].id /\ j.pc = "assign" /\ j.next = n /\ j.on = job[t].on
    BY <1>2, <2>4, <2>j DEF Job, JobStages
  <2>6. job' = [job EXCEPT ![t] = j]  BY <2>1, <2>j
  <2>7. Working(t)  BY <1>1, <2>1, <2>5, <2>6 DEF Working
  <2>8. Held(j)  BY <2>2, <2>4, <2>5 DEF Held
  <2>9. UNCHANGED service  BY <2>1
  <2>10. QED  BY <1>1, <2>5, <2>6, <2>7, <2>8, <2>9, ServiceStays
<1>5. QED  BY <1>3, <1>4

LEMMA StepAssignServes == ASSUME NEW t \in Threads, Server, Service, StepAssign(t) PROVE Working(t) /\ Service'
<1>1. job \in [Threads -> Job \union {None}] /\ job[t] # None /\ job[t].pc = "assign"
  BY DEF Server, ServerTypes, StepAssign, At
<1>2. job[t] \in Job  BY <1>1
<1>o. PICK o : o = job[t].on  OBVIOUS
<1>n. PICK n : n = job[t].next  OBVIOUS
<1>k. PICK key : key = Asked(t).key  OBVIOUS
<1>3. o \in DOMAIN objects /\ n \in Change /\ objects \in Seq(SessionObject)
  BY <1>1, <1>o, <1>n DEF Service, InHand, SessionTypes
<1>4. key \in Nat
  <2>1. job[t].id \in DOMAIN sent /\ sent \in Seq(Request)
    BY <1>1 DEF Server, ServerTypes, Waiting, InWork
  <2>2. sent[job[t].id] \in Request  BY <2>1
  <2>3. QED  BY <1>k, <2>2 DEF Asked, Request
<1>s. PICK s : s = Stepped(objects[o], n, key)  OBVIOUS
<1>5. s \in SessionObject /\ s.generation = objects[o].generation
  <2>1. objects[o] \in SessionObject  BY <1>3
  <2>2. Append(objects[o].history, key) \in Seq(Nat)
    <3>1. objects[o].history \in Seq(Nat)  BY <2>1 DEF SessionObject
    <3>2. QED  BY <1>4, <3>1
  <2>3. s = [generation |-> objects[o].generation, trail |-> n.trail, sequence |-> n.sequence,
             history |-> Append(objects[o].history, key), status |-> n.status]
    BY <1>s, <2>1 DEF Stepped, SessionObject
  <2>4. n.trail \in Seq(Nat) /\ n.sequence \in Nat /\ n.status \in Statuses  BY <1>3 DEF Change
  <2>5. objects[o].generation \in Nat  BY <2>1 DEF SessionObject
  <2>6. QED  BY <2>2, <2>3, <2>4, <2>5 DEF SessionObject
<1>6. /\ objects' = [objects EXCEPT ![o] = s]
      /\ job' = [job EXCEPT ![t].pc = "replace", ![t].next = Binding(s, FALSE), ![t].result = State(s)]
      /\ UNCHANGED <<process, crashes, sent, pending, queue, cache, session, disk, out>>
  BY <1>o, <1>n, <1>k, <1>s DEF StepAssign, Mine
<1>7. /\ objects' \in Seq(SessionObject) /\ Len(objects') = Len(objects) /\ DOMAIN objects' = DOMAIN objects
      /\ \A i \in DOMAIN objects : objects'[i].generation = objects[i].generation
  BY <1>3, <1>5, <1>6
<1>8. Binding(s, FALSE) \in BindingRecord /\ State(s) \in StateRecord /\ Binding(s, FALSE).generation = s.generation
  BY <1>5 DEF SessionObject, Binding, State, BindingRecord, StateRecord
<1>j. PICK j : j = [job[t] EXCEPT !.pc = "replace", !.next = Binding(s, FALSE), !.result = State(s)]  OBVIOUS
<1>9. /\ j \in Job /\ j.id = job[t].id /\ j.pc = "replace" /\ j.on = o /\ j.next = Binding(s, FALSE)
      /\ j.result = State(s)
  BY <1>2, <1>8, <1>j, <1>o DEF Job, JobStages
<1>10. job' = [job EXCEPT ![t] = j]  BY <1>6, <1>j
<1>11. Working(t)  BY <1>1, <1>6, <1>9, <1>10 DEF Working
<1>12. job'[t] = j /\ \A u \in Threads : u # t => job'[u] = job[u]  BY <1>1, <1>10
<1>13. InHand'  BY <1>3, <1>7, <1>8, <1>9, <1>12 DEF Service, InHand
<1>14. PICK m \in Nat : Opens(m)  BY DEF Service, Sessions
<1>15. \A x : Exists(x) => Exists(x)'  BY <1>7 DEF Exists
<1>16. Opens(m)'
  <2>1. (\A u \in Threads : job[u] # None /\ job[u].pc = "replace" => Exists(job[u].next.generation))'
    <3>1. \A u \in Threads : u # t /\ job[u] # None /\ job[u].pc = "replace" => Exists(job[u].next.generation)
      BY <1>14 DEF Opens
    <3>2. \E i \in DOMAIN objects' : objects'[i].generation = j.next.generation
      BY <1>3, <1>5, <1>7, <1>8, <1>9
    <3>3. QED  BY <1>12, <1>15, <3>1, <3>2 DEF Exists
  <2>2. (disk.binding # None => Exists(disk.binding.generation))'
    BY <1>6, <1>14, <1>15 DEF Opens
  <2>3. \A u \in Threads : job'[u] # None /\ job'[u].pc = "publish" => job[u] # None /\ job[u].pc = "publish"
    BY <1>9, <1>12
  <2>4. (/\ disk.generations = 1..m /\ (disk.root <=> m > 0) /\ Len(objects) \in {m - 1, m}
         /\ \A i \in DOMAIN objects : objects[i].generation \in 1..i /\ (i < m => objects[i].generation = i)
         /\ session # None => session \in DOMAIN objects /\ objects[session].generation = session)'
    BY SMTT(30), <1>6, <1>7, <1>14 DEF Opens
  <2>5. \A u \in Threads : job'[u] # None /\ job'[u].pc = "publish" =>
            Len(objects') = m - 1 /\ \A v \in Threads : job'[v] # None /\ job'[v].pc = "publish" => v = u
    BY <1>7, <1>14, <2>3 DEF Opens
  <2>6. QED  BY <2>1, <2>2, <2>4, <2>5 DEF Opens
<1>17. SessionTypes'  BY <1>6, <1>7 DEF Service, SessionTypes
<1>18. QED  BY <1>11, <1>13, <1>16, <1>17 DEF Service, Sessions

LEMMA DiskServes ==
    ASSUME NEW t \in Threads, NEW b \in BindingRecord, NEW j \in Job, Server, Service,
           job[t] # None, job[t].pc \notin {"known", "finish"},
           disk' = [disk EXCEPT !.binding = b], Exists(b.generation),
           j.pc = "done", j.result \in StateRecord, j.id = job[t].id, job' = [job EXCEPT ![t] = j],
           session' \in {session, None},
           UNCHANGED <<process, crashes, sent, pending, queue, cache, objects, out>>
    PROVE  Working(t) /\ Service'
<1>1. job \in [Threads -> Job \union {None}]  BY DEF Server, ServerTypes
<1>2. Working(t)  BY DEF Working
<1>3. job'[t] = j /\ \A u \in Threads : u # t => job'[u] = job[u]  BY <1>1
<1>4. InHand'  BY <1>3 DEF Service, InHand
<1>5. PICK n \in Nat : Opens(n)  BY DEF Service, Sessions
<1>6. disk \in DiskRecord  BY DEF Service, SessionTypes
<1>7. /\ disk' \in DiskRecord /\ disk'.binding = b /\ disk'.root = disk.root
      /\ disk'.generations = disk.generations
  BY <1>6 DEF DiskRecord
<1>8. \A x : Exists(x)' <=> Exists(x)  BY DEF Exists
<1>9. \A u \in Threads : job'[u] # None /\ job'[u].pc \in {"publish", "replace"} => job'[u] = job[u]
  BY <1>3
<1>10. Opens(n)'
  <2>1. (disk.binding # None => Exists(disk.binding.generation))'
    BY <1>7, <1>8
  <2>2. (\A u \in Threads : job[u] # None /\ job[u].pc = "replace" => Exists(job[u].next.generation))'
    BY <1>5, <1>8, <1>9 DEF Opens
  <2>3. QED  BY <1>5, <1>7, <1>9, <2>1, <2>2 DEF Opens
<1>11. SessionTypes'  BY <1>7 DEF Service, SessionTypes
<1>12. QED  BY <1>2, <1>4, <1>10, <1>11 DEF Service, Sessions

LEMMA WriteServes ==
    ASSUME NEW t \in Threads, Server, Service, PersistReplace(t) \/ Close(t)
    PROVE  Working(t) /\ Service'
<1>1. job \in [Threads -> Job \union {None}] /\ job[t] # None /\ job[t].pc \in {"replace", "close"}
  BY DEF Server, ServerTypes, PersistReplace, Close, At
<1>2. job[t] \in Job  BY <1>1
<1>3. CASE PersistReplace(t)
  <2>1. /\ job[t].pc = "replace" /\ disk' = [disk EXCEPT !.binding = job[t].next] /\ job' = [job EXCEPT ![t].pc = "done"]
        /\ UNCHANGED <<process, crashes, sent, pending, queue, cache, out, objects, session>>
    BY <1>3 DEF PersistReplace, At, Goes
  <2>j. PICK j : j = [job[t] EXCEPT !.pc = "done"]  OBVIOUS
  <2>2. j \in Job /\ j.pc = "done" /\ j.id = job[t].id /\ j.result = job[t].result
    BY <1>2, <2>j DEF Job, JobStages
  <2>3. job' = [job EXCEPT ![t] = j]  BY <2>1, <2>j
  <2>4. Held(job[t])  BY <1>1, HandIs
  <2>5. PICK b : b = job[t].next  OBVIOUS
  <2>6. b \in BindingRecord /\ Exists(b.generation) /\ j.result \in StateRecord  BY <2>1, <2>2, <2>4, <2>5 DEF Held
  <2>7. QED  BY <1>1, <2>1, <2>2, <2>3, <2>5, <2>6, DiskServes
<1>4. CASE Close(t)
  <2>1. CASE ~Bound(t)
    <3>1. Fails(t, "output_rejected")  BY <1>4, <2>1 DEF Close
    <3>2. QED  BY <1>1, <3>1, FailServes DEF Refusals
  <2>2. CASE Bound(t)
    <3>s. PICK s : s = objects[session]  OBVIOUS
    <3>1. /\ disk' = [disk EXCEPT !.binding = Binding(s, TRUE)] /\ session' = None
          /\ job' = [job EXCEPT ![t].pc = "done", ![t].result = State(s)]
          /\ UNCHANGED <<process, crashes, sent, pending, queue, cache, objects, out>>
      BY <1>4, <2>2, <3>s DEF Close
    <3>2. session \in DOMAIN objects /\ s \in SessionObject  BY <2>2, <3>s, BoundIs
    <3>3. Binding(s, TRUE) \in BindingRecord /\ State(s) \in StateRecord /\ Binding(s, TRUE).generation = s.generation
      BY <3>2 DEF SessionObject, Binding, State, BindingRecord, StateRecord
    <3>j. PICK j : j = [job[t] EXCEPT !.pc = "done", !.result = State(s)]  OBVIOUS
    <3>4. j \in Job /\ j.pc = "done" /\ j.id = job[t].id /\ j.result = State(s)
      BY <1>2, <3>3, <3>j DEF Job, JobStages
    <3>5. job' = [job EXCEPT ![t] = j]  BY <3>1, <3>j
    <3>6. PICK b : b = Binding(s, TRUE)  OBVIOUS
    <3>7. b \in BindingRecord /\ Exists(b.generation)
      <4>1. b.generation = s.generation  BY <3>3, <3>6
      <4>2. Exists(b.generation)  BY <3>2, <3>s, <4>1 DEF Exists
      <4>3. QED  BY <3>3, <3>6, <4>2
    <3>8. /\ disk' = [disk EXCEPT !.binding = b] /\ session' \in {session, None}
          /\ UNCHANGED <<process, crashes, sent, pending, queue, cache, objects, out>>
      BY <3>1, <3>6
    <3>9. job[t] # None /\ job[t].pc \notin {"known", "finish"} /\ j.result \in StateRecord  BY <1>1, <3>3, <3>4
    <3>10. QED  BY <3>4, <3>5, <3>7, <3>8, <3>9, DiskServes
  <2>3. QED  BY <2>1, <2>2
<1>5. QED  BY <1>3, <1>4


LEMMA RunServes == ASSUME NEW t \in Threads, RuntimeInv, Run(t) PROVE RuntimeInv'
<1>1. CASE Take(t)  BY <1>1, TakeServes, ThreadServes DEF RuntimeInv
<1>2. CASE Answer(t)  BY <1>2, AnswerServes, ThreadServes DEF RuntimeInv, Service
<1>3. CASE Finish(t)  BY <1>3, FinishServes, ThreadServes DEF RuntimeInv
<1>4. CASE OpenCheck(t) \/ OpenPublish(t) \/ StepCheck(t) \/ StepJudge(t) \/ StepAssign(t) \/ PersistReplace(t) \/ Close(t)
  BY <1>4, WorkKeeps, OpenCheckServes, OpenPublishServes, StepServes, StepAssignServes, WriteServes DEF RuntimeInv
<1>5. QED  BY <1>1, <1>2, <1>3, <1>4 DEF Run

LEMMA RuntimeStep == RuntimeInv /\ [Next]_runtime => RuntimeInv'
<1> SUFFICES ASSUME RuntimeInv, [Next]_runtime PROVE RuntimeInv'  OBVIOUS
<1>1. CASE UNCHANGED runtime
  <2>1. UNCHANGED <<process, crashes, sent, pending, queue, job, cache, objects, session, disk, out>>
    BY <1>1 DEF runtime, service
  <2>2. Server'
    BY <2>1 DEF RuntimeInv, Server, ServerTypes, Replies, Waiting, InWork, AnsweredOnce, Answered, Patient,
       Repeats, Keys, Table, Lookups, RepeatGetsFirstAnswer, Current, HasKey, HasEntry
  <2>3. Service'  BY <2>1, ClientServes DEF RuntimeInv, service
  <2>4. QED  BY <2>2, <2>3 DEF RuntimeInv
<1>2. CASE AskOpen \/ AskNext \/ AskAgain
  <2>1. UNCHANGED job  BY <1>2 DEF AskOpen, AskNext, AskAgain, Asks
  <2>2. QED  BY <1>2, <2>1, ClientKeeps, ClientServes DEF RuntimeInv
<1>3. CASE AcceptCancel
  <2>1. UNCHANGED job  BY <1>3 DEF AcceptCancel
  <2>2. QED  BY <1>3, <2>1, CancelKeeps, ClientServes DEF RuntimeInv
<1>4. CASE Shutdown \/ Restart
  <2>1. UNCHANGED <<job, service>>  BY <1>4 DEF Shutdown, Restart
  <2>2. QED  BY <1>4, <2>1, ProcessKeeps, ClientServes DEF RuntimeInv
<1>5. CASE Crash  BY <1>5, ProcessKeeps, CrashServes DEF RuntimeInv
<1>6. QED  BY <1>1, <1>2, <1>3, <1>4, <1>5, RunServes DEF Next

LEMMA RuntimeBegins == Init => RuntimeInv
<1> SUFFICES ASSUME Init PROVE RuntimeInv  OBVIOUS
<1>1. \A t \in Threads : job[t] = None  BY DEF Init
<1>2. ServerTypes
  <2>1. sent \in Seq(Request) /\ out \in Seq(Reply) /\ cache \in Seq(Entry) /\ queue \in Seq(Nat) /\ Len(cache) = 0
    BY DEF Init
  <2>2. job \in [Threads -> Job \union {None}]  BY DEF Init
  <2>3. QED  BY <2>1, <2>2, ServicesAssumption DEF Init, ServerTypes
<1>3. Replies /\ Waiting /\ InWork /\ AnsweredOnce  BY <1>1 DEF Init, Replies, Waiting, InWork, AnsweredOnce
<1>4. Repeats
  <2>1. Len(sent) = 0  BY DEF Init
  <2>2. QED  BY <1>1, <2>1, ServicesAssumption DEF Init, Repeats, Keys, Table, Lookups, RepeatGetsFirstAnswer
<1>5. SessionTypes
  <2>1. objects \in Seq(SessionObject)  BY DEF Init
  <2>2. disk \in DiskRecord  BY DEF Init, DiskRecord
  <2>3. QED  BY <2>1, <2>2 DEF Init, SessionTypes
<1>6. Opens(0)
  <2>1. Len(objects) = 0 /\ disk.generations = {} /\ disk.root = FALSE /\ disk.binding = None /\ session = None
        /\ DOMAIN objects = {}
    BY DEF Init
  <2>2. QED  BY <1>1, <2>1 DEF Opens
<1>7. InHand  BY <1>1 DEF InHand
<1>8. QED  BY <1>2, <1>3, <1>4, <1>5, <1>6, <1>7 DEF RuntimeInv, Server, Service, Sessions

LEMMA RuntimeImplies == RuntimeInv => TypeOK /\ AnsweredOnce /\ (Patient => RepeatGetsFirstAnswer)
<1> SUFFICES ASSUME RuntimeInv PROVE TypeOK /\ AnsweredOnce /\ (Patient => RepeatGetsFirstAnswer)  OBVIOUS
<1>1. ToSet(queue) \subseteq pending  BY DEF RuntimeInv, Server, Waiting, ToSet
<1>2. session # None => objects[session].generation = session
  BY DEF RuntimeInv, Service, Sessions, Opens
<1>3. TypeOK  BY <1>1, <1>2 DEF RuntimeInv, Server, ServerTypes, InWork, TypeOK
<1>4. QED  BY <1>3 DEF RuntimeInv, Server, Repeats
-----------------------------------------------------------------------------
(* The coach: its inbox, and where the turns are that are not done.         *)
Line == [type : {"enqueue", "done", "reset"}, turn : 0..MaxTurns, gen : 0..MaxResets]
Utterance == [role : {"user", "coach", "error"}, turn : 1..MaxTurns, gen : 0..MaxResets]
Turn == [turn : 1..MaxTurns, gen : 0..MaxResets]
Sender == [at : {"append", "put"}, turn : 1..MaxTurns, gen : 0..MaxResets]
Resetter == [at : {"drain", "mark", "dialog", "session"}, turn : {0}, gen : 0..MaxResets]
WorkerStages == {"check", "user", "session", "running", "lost", "persist", "reply", "fail", "done"}
TurnWorker == [at : WorkerStages, turn : 1..MaxTurns, gen : 0..MaxResets, resume : BOOLEAN, again : BOOLEAN]
CoachTypes ==
    /\ agent \in Agents /\ daemon \in {"up", "stopping", "down"} /\ ends \in 0..MaxEnds
    /\ generation \in 0..MaxResets /\ conversation \in (0..MaxResets) \union {None}
    /\ inbox \in Seq(Line) /\ dialog \in Seq(Utterance) /\ turns \in Seq(Turn)
    /\ sender \in Sender \union {Coaching!Away} /\ resetter \in Resetter \union {Coaching!Away}
    /\ worker \in TurnWorker \union {Coaching!Idle}

AskedLines == {i \in DOMAIN inbox : inbox[i].type = "enqueue"}
Logged(turn, gen) == \E i \in AskedLines : inbox[i].turn = turn /\ inbox[i].gen = gen
Numbered ==
    /\ \A i \in AskedLines : inbox[i].turn \in 1..Coaching!Turns
    /\ \A i, j \in AskedLines : inbox[i].turn = inbox[j].turn => i = j
    /\ \A turn : Coaching!Done(turn) => turn \in 1..Coaching!Turns
    /\ sender.at = "append" => sender.turn = Coaching!Turns + 1

(* A turn is in one place, of which the inbox knows.                        *)
ToDo(turn, gen) == Logged(turn, gen) /\ ~Coaching!Done(turn)
Placed ==
    /\ \A k \in DOMAIN turns : ToDo(turns[k].turn, turns[k].gen)
    /\ worker.at # "idle" => ToDo(worker.turn, worker.gen)
    /\ sender.at = "put" => ToDo(sender.turn, sender.gen)
    /\ \A k, l \in DOMAIN turns : turns[k].turn = turns[l].turn => k = l
    /\ \A k \in DOMAIN turns : turns[k].turn # worker.turn /\ turns[k].turn # sender.turn
    /\ worker.at # "idle" => worker.turn # sender.turn

(* A reset is ahead of the inbox until it has written its line, and what is *)
(* asked meanwhile overlaps it.                                             *)
InTime(turn, gen) == gen <= Coaching!Generation \/ turn \in overlapped
Ahead ==
    /\ daemon = "down" => worker.at = "idle" /\ sender.at = "idle" /\ resetter.at = "idle" /\ turns = <<>>
    /\ daemon # "down" =>
          generation = IF resetter.at \in {"drain", "mark"} THEN Coaching!Generation + 1 ELSE Coaching!Generation
    /\ resetter.at # "idle" => resetter.gen = generation
    /\ \A i \in AskedLines : InTime(inbox[i].turn, inbox[i].gen)
    /\ sender.at # "idle" => InTime(sender.turn, sender.gen)

Somewhere(turn) ==
    \/ \E k \in DOMAIN turns : turns[k].turn = turn
    \/ worker.at # "idle" /\ worker.turn = turn
    \/ sender.at = "put" /\ sender.turn = turn
Kept ==
    daemon = "up" => \A i \in Coaching!Pending :
        inbox[i].gen < generation \/ inbox[i].turn \in overlapped \/ Somewhere(inbox[i].turn)

CoachInv == CoachTypes /\ Numbered /\ Placed /\ Ahead /\ Kept

(* What a new line of the inbox changes.                                     *)
LEMMA AskedIs == CoachTypes => IsFiniteSet(AskedLines) /\ Coaching!Turns = Cardinality(AskedLines) /\ Coaching!Turns \in Nat
<1> SUFFICES ASSUME CoachTypes
             PROVE  IsFiniteSet(AskedLines) /\ Coaching!Turns = Cardinality(AskedLines) /\ Coaching!Turns \in Nat
  OBVIOUS
<1>1. DOMAIN inbox = 1..Len(inbox) /\ Len(inbox) \in Nat  BY DEF CoachTypes
<1>2. IsFiniteSet(DOMAIN inbox)  BY <1>1, FS_Interval
<1>3. IsFiniteSet(AskedLines)  BY <1>2, FS_Subset DEF AskedLines
<1>4. Coaching!Turns = Cardinality(AskedLines)
  BY DEF AskedLines, Coaching!Turns, Coaching!Cardinality, Cardinality
<1>5. QED  BY <1>3, <1>4, FS_CardinalityType

Marks == {0} \union {inbox[i].gen : i \in {k \in DOMAIN inbox : inbox[k].type = "reset"}}

LEMMA MarkedIs ==
    CoachTypes => Coaching!Generation = Max(Marks) /\ Marks \in SUBSET (0..MaxResets)
<1> SUFFICES ASSUME CoachTypes PROVE Coaching!Generation = Max(Marks) /\ Marks \in SUBSET (0..MaxResets)  OBVIOUS
<1>1. \A i \in DOMAIN inbox : inbox[i] \in Line
  <2>1. inbox \in Seq(Line)  BY DEF CoachTypes
  <2>2. QED  BY <2>1
<1>2. \A i \in DOMAIN inbox : inbox[i].gen \in 0..MaxResets  BY <1>1 DEF Line
<1>3. Marks \in SUBSET (0..MaxResets)  BY <1>2, ServicesAssumption DEF Marks
<1>4. Coaching!Generation = Max(Marks)  BY DEF Coaching!Generation, Coaching!Max, Max, Marks
<1>5. QED  BY <1>3, <1>4

LEMMA GenerationIs ==
    ASSUME CoachTypes
    PROVE  Coaching!Generation \in 0..MaxResets /\ \A y \in Marks : y <= Coaching!Generation
<1>1. Coaching!Generation = Max(Marks) /\ Marks \in SUBSET (0..MaxResets)  BY MarkedIs
<1>2. Marks # {}  BY DEF Marks
<1>3. Max(Marks) \in Marks /\ \A y \in Marks : y <= Max(Marks)  BY <1>1, <1>2, LargestIs, ServicesAssumption
<1>4. QED  BY <1>1, <1>3

LEMMA LineAdded ==
    ASSUME CoachTypes, NEW l \in Line, inbox' = Append(inbox, l)
    PROVE  /\ inbox' \in Seq(Line) /\ \A i \in DOMAIN inbox : i \in DOMAIN inbox' /\ inbox'[i] = inbox[i]
           /\ Len(inbox) + 1 \in DOMAIN inbox' /\ Len(inbox) + 1 \notin DOMAIN inbox /\ inbox'[Len(inbox) + 1] = l
           /\ \A x : Coaching!Done(x)' <=> Coaching!Done(x) \/ (l.type = "done" /\ l.turn = x)
           /\ l.type = "enqueue" => AskedLines' = AskedLines \union {Len(inbox) + 1} /\ Coaching!Turns' = Coaching!Turns + 1
           /\ l.type # "enqueue" => AskedLines' = AskedLines /\ Coaching!Turns' = Coaching!Turns
<1> PICK n : n = Len(inbox) + 1  OBVIOUS
<1>1. /\ inbox' \in Seq(Line) /\ inbox'[n] = l /\ DOMAIN inbox' = DOMAIN inbox \union {n} /\ n \notin DOMAIN inbox
      /\ \A i \in DOMAIN inbox : inbox'[i] = inbox[i]
  <2>1. inbox \in Seq(Line)  BY DEF CoachTypes
  <2>2. QED  BY <2>1, Grown
<1>2. \A x : Coaching!Done(x)' <=> Coaching!Done(x) \/ (l.type = "done" /\ l.turn = x)
  BY <1>1 DEF Coaching!Done
<1>3. l.type = "enqueue" => AskedLines' = AskedLines \union {n}  BY <1>1 DEF AskedLines
<1>4. l.type # "enqueue" => AskedLines' = AskedLines  BY <1>1 DEF AskedLines
<1>5. Coaching!Turns' = Cardinality(AskedLines')
  BY DEF AskedLines, Coaching!Turns, Coaching!Cardinality, Cardinality
<1>6. n \notin AskedLines  BY <1>1 DEF AskedLines
<1>7. l.type = "enqueue" => Coaching!Turns' = Coaching!Turns + 1  BY <1>3, <1>5, <1>6, AskedIs, FS_AddElement
<1>8. l.type # "enqueue" => Coaching!Turns' = Coaching!Turns  BY <1>4, <1>5, AskedIs
<1>9. QED  BY <1>1, <1>2, <1>3, <1>4, <1>7, <1>8

LEMMA GenerationAfter ==
    ASSUME CoachTypes, NEW l \in Line, inbox' = Append(inbox, l), l.type = "reset" => l.gen = Coaching!Generation + 1
    PROVE  Coaching!Generation' = IF l.type = "reset" THEN l.gen ELSE Coaching!Generation
<1>1. inbox \in Seq(Line) /\ CoachTypes  BY DEF CoachTypes
<1>2. Coaching!Generation' = Max(Marks')
  BY DEF Coaching!Generation, Coaching!Max, Max, Marks
<1>3. CASE l.type # "reset"
  <2>1. Marks' = Marks  BY <1>1, <1>3, Grown DEF Marks
  <2>2. QED  BY <1>2, <1>3, <2>1, MarkedIs
<1>4. CASE l.type = "reset"
  <2>g. PICK g : g = Coaching!Generation  OBVIOUS
  <2>1. g \in 0..MaxResets /\ l.gen = g + 1  BY <1>4, <2>g, GenerationIs
  <2>2. \A y \in Marks : y \in 0..MaxResets /\ y <= g  BY <2>g, MarkedIs, GenerationIs
  <2>3. Marks' = Marks \union {l.gen}  BY <1>1, <1>4, Grown DEF Marks
  <2>4. PICK S : S = Marks'  OBVIOUS
  <2>5. l.gen \in S /\ \A y \in S : y \in Nat /\ y <= l.gen  BY <2>1, <2>2, <2>3, <2>4, ServicesAssumption
  <2>6. Coaching!Generation' = Max(S)  BY <1>2, <2>4
  <2>7. S \in SUBSET (0..l.gen) /\ S # {} /\ l.gen \in Nat  BY <2>1, <2>5, ServicesAssumption
  <2>8. Max(S) \in S /\ \A y \in S : y <= Max(S)  BY <2>7, LargestIs
  <2>9. QED  BY <1>4, <2>5, <2>6, <2>8
<1>5. QED  BY <1>3, <1>4

LEMMA InboxStays ==
    ASSUME UNCHANGED inbox
    PROVE  /\ Coaching!Turns' = Coaching!Turns /\ Coaching!Generation' = Coaching!Generation
           /\ AskedLines' = AskedLines /\ Coaching!Pending' = Coaching!Pending
           /\ \A x : Coaching!Done(x)' <=> Coaching!Done(x)
           /\ \A x, y : Logged(x, y)' <=> Logged(x, y)
           /\ \A x, y : ToDo(x, y)' <=> ToDo(x, y)
<1>1. Coaching!Turns' = Coaching!Turns /\ AskedLines' = AskedLines
  BY DEF Coaching!Turns, Coaching!Cardinality, AskedLines
<1>2. Coaching!Generation' = Coaching!Generation  BY DEF Coaching!Generation, Coaching!Max
<1>3. \A x : Coaching!Done(x)' <=> Coaching!Done(x)  BY DEF Coaching!Done
<1>4. Coaching!Pending' = Coaching!Pending  BY <1>2, <1>3 DEF Coaching!Pending
<1>5. \A x, y : Logged(x, y)' <=> Logged(x, y)  BY <1>1 DEF Logged
<1>6. \A x, y : ToDo(x, y)' <=> ToDo(x, y)  BY <1>3, <1>5 DEF ToDo
<1>7. QED  BY <1>1, <1>2, <1>3, <1>4, <1>5, <1>6

(* The steps of the worker within its turn, and its ways out of it.          *)
LEMMA WorkerGoes ==
    ASSUME CoachInv, worker.at # "idle", worker' \in TurnWorker, worker'.turn = worker.turn, worker'.gen = worker.gen,
           dialog' \in Seq(Utterance), conversation' \in (0..MaxResets) \union {None},
           UNCHANGED <<agent, daemon, ends, generation, inbox, turns, sender, resetter, overlapped>>
    PROVE  CoachInv'
<1>1. worker'.at # "idle"  BY DEF TurnWorker, WorkerStages
<1>2. CoachTypes'  BY DEF CoachInv, CoachTypes
<1>3. Numbered'  BY InboxStays DEF CoachInv, Numbered
<1>4. Placed'  BY <1>1, InboxStays DEF CoachInv, Placed
<1>5. Ahead'
  <2>1. daemon # "down"  BY DEF CoachInv, Ahead
  <2>2. QED  BY <2>1, InboxStays DEF CoachInv, Ahead, InTime
<1>6. Kept'  BY <1>1, InboxStays DEF CoachInv, Kept, Somewhere
<1>7. QED  BY <1>2, <1>3, <1>4, <1>5, <1>6 DEF CoachInv

LEMMA InTimeIs ==
    ASSUME CoachInv, NEW i \in AskedLines, daemon # "down"
    PROVE  inbox[i].gen \in Nat /\ generation \in Nat /\ (inbox[i].gen <= generation \/ inbox[i].turn \in overlapped)
<1>1. inbox[i] \in Line
  <2>1. inbox \in Seq(Line)  BY DEF CoachInv, CoachTypes
  <2>2. QED  BY <2>1 DEF AskedLines
<1>2. Coaching!Generation \in Nat  BY GenerationIs, ServicesAssumption DEF CoachInv
<1>3. generation \in Nat /\ generation >= Coaching!Generation
  BY <1>2, ServicesAssumption DEF CoachInv, CoachTypes, Ahead
<1>4. QED  BY <1>1, <1>2, <1>3, ServicesAssumption DEF CoachInv, Ahead, InTime, Line

LEMMA WorkerLeaves ==
    ASSUME CoachInv, worker.at # "idle", worker' = Coaching!Idle, worker.gen # generation \/ daemon # "up",
           UNCHANGED <<agent, daemon, ends, generation, inbox, dialog, conversation, turns, sender, resetter, overlapped>>
    PROVE  CoachInv'
<1>1. worker'.at = "idle" /\ worker'.turn = 0  BY DEF Coaching!Idle
<1>2. CoachTypes'  BY DEF CoachInv, CoachTypes
<1>3. Numbered'  BY InboxStays DEF CoachInv, Numbered
<1>4. Placed'
  <2>1. \A k \in DOMAIN turns : turns[k].turn # 0
    <3>1. turns \in Seq(Turn)  BY DEF CoachInv, CoachTypes
    <3>2. \A k \in DOMAIN turns : turns[k] \in Turn  BY <3>1
    <3>3. QED  BY <3>2 DEF Turn
  <2>2. QED  BY <1>1, <2>1, InboxStays DEF CoachInv, Placed
<1>5. Ahead'
  <2>1. daemon # "down"  BY DEF CoachInv, Ahead
  <2>2. QED  BY <2>1, InboxStays DEF CoachInv, Ahead, InTime
<1>6. Kept'
  <2> SUFFICES ASSUME daemon = "up", NEW i \in Coaching!Pending
               PROVE  inbox[i].gen < generation \/ inbox[i].turn \in overlapped \/ Somewhere(inbox[i].turn)'
    BY InboxStays DEF Kept
  <2>1. i \in AskedLines  BY DEF Coaching!Pending, AskedLines
  <2>2. CASE inbox[i].turn = worker.turn
    <3>1. PICK j \in AskedLines : inbox[j].turn = worker.turn /\ inbox[j].gen = worker.gen
      BY DEF CoachInv, Placed, ToDo, Logged
    <3>2. i = j  BY <2>1, <2>2, <3>1 DEF CoachInv, Numbered
    <3>3. inbox[i].gen # generation  BY <3>1, <3>2
    <3>4. QED  BY <2>1, <3>3, InTimeIs
  <2>3. CASE inbox[i].turn # worker.turn
    BY <2>3 DEF CoachInv, Kept, Somewhere
  <2>4. QED  BY <2>2, <2>3
<1>7. QED  BY <1>2, <1>3, <1>4, <1>5, <1>6 DEF CoachInv

LEMMA TurnSteps ==
    ASSUME CoachInv,
           \/ Coaching!Check \/ Coaching!User \/ Coaching!Conversation \/ Coaching!Ran
           \/ Coaching!Retry \/ Coaching!Persist \/ Coaching!Reply \/ Coaching!Fails
    PROVE  CoachInv'
<1>1. /\ agent \in Agents /\ daemon \in {"up", "stopping", "down"} /\ generation \in 0..MaxResets
      /\ conversation \in (0..MaxResets) \union {None} /\ dialog \in Seq(Utterance)
      /\ worker \in TurnWorker \union {Coaching!Idle}
  BY DEF CoachInv, CoachTypes
<1>2. worker.at # "idle" /\ worker # Coaching!Idle
  BY DEF Coaching!Check, Coaching!User, Coaching!Conversation, Coaching!Ran, Coaching!Retry, Coaching!Persist,
     Coaching!Reply, Coaching!Fails, Coaching!Idle
<1>3. worker \in TurnWorker  BY <1>1, <1>2
<1>4. worker.turn \in 1..MaxTurns /\ worker.gen \in 0..MaxResets  BY <1>3 DEF TurnWorker
<1>5. \A to \in WorkerStages :
          LET w == [worker EXCEPT !.at = to] IN w \in TurnWorker /\ w.turn = worker.turn /\ w.gen = worker.gen
  BY <1>3 DEF TurnWorker
<1>6. \A role \in {"user", "coach", "error"} : Coaching!Says(role) \in Seq(Utterance)
  <2> SUFFICES ASSUME NEW role \in {"user", "coach", "error"} PROVE Coaching!Says(role) \in Seq(Utterance)  OBVIOUS
  <2>1. [role |-> role, turn |-> worker.turn, gen |-> worker.gen] \in Utterance  BY <1>4 DEF Utterance
  <2>2. QED  BY <1>1, <2>1 DEF Coaching!Says
<1>7. Coaching!NewSession \in (0..MaxResets) \union {None}  BY <1>4 DEF Coaching!NewSession
<1>8. CASE Coaching!Check
  <2>1. /\ worker' = IF worker.gen = generation THEN [worker EXCEPT !.at = "user"] ELSE Coaching!Idle
        /\ UNCHANGED <<agent, daemon, ends, generation, inbox, dialog, conversation, turns, sender, resetter, overlapped>>
    BY <1>8 DEF Coaching!Check, Coaching!At, Coaching!IsCurrent
  <2>2. CASE worker.gen = generation
    <3>1. "user" \in WorkerStages /\ worker' = [worker EXCEPT !.at = "user"]  BY <2>1, <2>2 DEF WorkerStages
    <3>2. QED  BY <1>1, <1>2, <1>5, <2>1, <3>1, WorkerGoes
  <2>3. CASE worker.gen # generation  BY <1>2, <2>1, <2>3, WorkerLeaves
  <2>4. QED  BY <2>2, <2>3
<1>9. CASE Coaching!User
  <2>1. /\ worker' = [worker EXCEPT !.at = "session"] /\ dialog' \in {dialog, Coaching!Says("user")}
        /\ UNCHANGED <<agent, daemon, ends, generation, inbox, conversation, turns, sender, resetter, overlapped>>
    BY <1>9 DEF Coaching!User, Coaching!At
  <2>2. "session" \in WorkerStages  BY DEF WorkerStages
  <2>3. QED  BY <1>1, <1>2, <1>5, <1>6, <2>1, <2>2, WorkerGoes
<1>10. CASE Coaching!Conversation
  <2>1. /\ worker' = [worker EXCEPT !.at = "running", !.resume = conversation # None]
        /\ conversation' \in {conversation, Coaching!NewSession}
        /\ UNCHANGED <<agent, daemon, ends, generation, inbox, dialog, turns, sender, resetter, overlapped>>
    BY <1>10 DEF Coaching!Conversation
  <2>2. worker' \in TurnWorker /\ worker'.turn = worker.turn /\ worker'.gen = worker.gen
    BY <1>3, <2>1 DEF TurnWorker, WorkerStages
  <2>3. QED  BY <1>1, <1>2, <1>7, <2>1, <2>2, WorkerGoes
<1>11. CASE Coaching!Ran
  <2>1. UNCHANGED <<agent, daemon, ends, generation, inbox, dialog, conversation, turns, sender, resetter, overlapped>>
    BY <1>11 DEF Coaching!Ran
  <2>2. \/ \E to \in {"persist", "fail", "lost"} : worker' = [worker EXCEPT !.at = to]
        \/ worker' = Coaching!Idle /\ (worker.gen # generation \/ daemon # "up")
    BY <1>11 DEF Coaching!Ran, Coaching!At, Coaching!IsCurrent
  <2>3. {"persist", "fail", "lost"} \subseteq WorkerStages  BY DEF WorkerStages
  <2>4. CASE \E to \in {"persist", "fail", "lost"} : worker' = [worker EXCEPT !.at = to]
    BY <1>1, <1>2, <1>5, <2>1, <2>3, <2>4, WorkerGoes
  <2>5. CASE worker' = Coaching!Idle /\ (worker.gen # generation \/ daemon # "up")
    BY <1>2, <2>1, <2>5, WorkerLeaves
  <2>6. QED  BY <2>2, <2>4, <2>5
<1>12. CASE Coaching!Retry
  <2>1. /\ \/ worker' = [worker EXCEPT !.at = "running", !.resume = FALSE, !.again = TRUE]
           \/ worker' = [worker EXCEPT !.at = "fail"]
        /\ conversation' \in {conversation, Coaching!NewSession}
        /\ UNCHANGED <<agent, daemon, ends, generation, inbox, dialog, turns, sender, resetter, overlapped>>
    BY <1>12 DEF Coaching!Retry, Coaching!At
  <2>2. worker' \in TurnWorker /\ worker'.turn = worker.turn /\ worker'.gen = worker.gen
    BY <1>3, <2>1 DEF TurnWorker, WorkerStages
  <2>3. QED  BY <1>1, <1>2, <1>7, <2>1, <2>2, WorkerGoes
<1>13. CASE Coaching!Persist
  <2>1. /\ worker' = [worker EXCEPT !.at = "reply"] /\ conversation' \in {conversation, worker.gen}
        /\ UNCHANGED <<agent, daemon, ends, generation, inbox, dialog, turns, sender, resetter, overlapped>>
    BY <1>13 DEF Coaching!Persist, Coaching!At
  <2>2. "reply" \in WorkerStages  BY DEF WorkerStages
  <2>3. QED  BY <1>1, <1>2, <1>4, <1>5, <2>1, <2>2, WorkerGoes
<1>14. CASE Coaching!Reply \/ Coaching!Fails
  <2>1. /\ worker' = [worker EXCEPT !.at = "done"] /\ dialog' \in {dialog, Coaching!Says("coach"), Coaching!Says("error")}
        /\ UNCHANGED <<agent, daemon, ends, generation, inbox, conversation, turns, sender, resetter, overlapped>>
    BY <1>14 DEF Coaching!Reply, Coaching!Fails, Coaching!At
  <2>2. "done" \in WorkerStages  BY DEF WorkerStages
  <2>3. QED  BY <1>1, <1>2, <1>5, <1>6, <2>1, <2>2, WorkerGoes
<1>15. QED  BY <1>8, <1>9, <1>10, <1>11, <1>12, <1>13, <1>14

(* A turn that the inbox knows has a number that was given.                  *)
LEMMA LoggedIs ==
    ASSUME CoachInv, NEW x, NEW y, Logged(x, y)
    PROVE  x \in 1..Coaching!Turns /\ x \in 1..MaxTurns /\ y \in 0..MaxResets
<1>1. PICK i \in AskedLines : inbox[i].turn = x /\ inbox[i].gen = y  BY DEF Logged
<1>2. inbox[i] \in Line
  <2>1. inbox \in Seq(Line)  BY DEF CoachInv, CoachTypes
  <2>2. QED  BY <2>1 DEF AskedLines
<1>3. x \in 1..Coaching!Turns  BY <1>1 DEF CoachInv, Numbered
<1>4. Coaching!Turns \in Nat  BY AskedIs DEF CoachInv
<1>5. x \in 1..MaxTurns /\ y \in 0..MaxResets  BY <1>1, <1>2, <1>3, <1>4, ServicesAssumption DEF Line
<1>6. QED  BY <1>3, <1>5

LEMMA SendTurnKeeps == ASSUME CoachInv, Coaching!Send PROVE CoachInv'
<1>n. PICK n : n = Coaching!Turns + 1  OBVIOUS
<1>1. /\ daemon = "up" /\ sender = Coaching!Away /\ Coaching!Turns < MaxTurns
      /\ sender' = [at |-> "append", turn |-> n, gen |-> generation]
      /\ overlapped' = IF resetter # Coaching!Away THEN overlapped \union {n} ELSE overlapped
      /\ UNCHANGED <<agent, daemon, ends, generation, inbox, dialog, conversation, turns, resetter, worker>>
  BY <1>n DEF Coaching!Send
<1>2. n \in 1..MaxTurns /\ n \notin 1..Coaching!Turns
  BY <1>n, <1>1, AskedIs, ServicesAssumption DEF CoachInv
<1>3. sender.at = "idle" /\ sender'.at = "append" /\ sender'.turn = n /\ sender'.gen = generation /\ n # 0
  BY <1>1, <1>2 DEF Coaching!Away
<1>4. CoachTypes'
  <2>1. sender' \in Sender  BY <1>1, <1>2 DEF CoachInv, CoachTypes, Sender
  <2>2. QED  BY <1>1, <2>1 DEF CoachInv, CoachTypes
<1>5. Numbered'  BY <1>n, <1>1, <1>3, InboxStays DEF CoachInv, Numbered
<1>6. Placed'
  <2>1. \A k \in DOMAIN turns : turns[k].turn # n
    <3>1. \A k \in DOMAIN turns : Logged(turns[k].turn, turns[k].gen)  BY DEF CoachInv, Placed, ToDo
    <3>2. \A k \in DOMAIN turns : turns[k].turn \in 1..Coaching!Turns  BY <3>1, LoggedIs
    <3>3. QED  BY <1>2, <3>2
  <2>2. worker.at # "idle" => worker.turn # n
    <3>1. worker.at # "idle" => Logged(worker.turn, worker.gen)  BY DEF CoachInv, Placed, ToDo
    <3>2. QED  BY <1>2, <3>1, LoggedIs
  <2>3. QED  BY <1>1, <1>3, <2>1, <2>2, InboxStays DEF CoachInv, Placed
<1>7. Ahead'
  <2>1. Coaching!Generation \in Nat /\ generation \in Nat
    BY GenerationIs, ServicesAssumption DEF CoachInv, CoachTypes
  <2>2. generation <= Coaching!Generation \/ n \in overlapped'
    <3>1. CASE resetter = Coaching!Away
      <4>1. resetter.at = "idle"  BY <3>1 DEF Coaching!Away
      <4>2. QED  BY <1>1, <2>1, <4>1 DEF CoachInv, Ahead
    <3>2. CASE resetter # Coaching!Away  BY <1>1, <3>2
    <3>3. QED  BY <3>1, <3>2
  <2>3. overlapped \subseteq overlapped'  BY <1>1
  <2>4. (\A i \in AskedLines : InTime(inbox[i].turn, inbox[i].gen))'
    BY <1>1, <2>3, InboxStays DEF CoachInv, Ahead, InTime
  <2>5. (sender.at # "idle" => InTime(sender.turn, sender.gen))'
    BY <1>1, <1>3, <2>2, InboxStays DEF InTime
  <2>6. QED  BY <1>1, <2>4, <2>5, InboxStays DEF CoachInv, Ahead
<1>8. Kept'
  <2>1. overlapped \subseteq overlapped'  BY <1>1
  <2>2. QED  BY <1>1, <1>3, <2>1, InboxStays DEF CoachInv, Kept, Somewhere
<1>9. QED  BY <1>4, <1>5, <1>6, <1>7, <1>8 DEF CoachInv

LEMMA SendAppendKeeps == ASSUME CoachInv, Coaching!SendAppend PROVE CoachInv'
<1>l. PICK l : l = [type |-> "enqueue", turn |-> sender.turn, gen |-> sender.gen]  OBVIOUS
<1>m. PICK m : m = Len(inbox) + 1  OBVIOUS
<1>1. /\ sender.at = "append" /\ inbox' = Append(inbox, l) /\ sender' = [sender EXCEPT !.at = "put"]
      /\ UNCHANGED <<agent, daemon, ends, generation, dialog, conversation, turns, resetter, worker, overlapped>>
  BY <1>l DEF Coaching!SendAppend, Coaching!Mark
<1>2. CoachTypes  BY DEF CoachInv
<1>3. sender \in Sender  BY <1>1, <1>2 DEF CoachTypes, Coaching!Away
<1>4. /\ sender' \in Sender /\ sender'.at = "put" /\ sender'.turn = sender.turn /\ sender'.gen = sender.gen
      /\ l \in Line /\ l.type = "enqueue" /\ l.turn = sender.turn /\ l.gen = sender.gen
  BY <1>l, <1>1, <1>3 DEF Sender, Line
<1>5. /\ inbox' \in Seq(Line) /\ AskedLines' = AskedLines \union {m} /\ inbox'[m] = l
      /\ Coaching!Turns' = Coaching!Turns + 1 /\ m \notin DOMAIN inbox
      /\ \A i \in DOMAIN inbox : inbox'[i] = inbox[i]
      /\ \A x : Coaching!Done(x)' <=> Coaching!Done(x)
  BY <1>m, <1>1, <1>2, <1>4, LineAdded
<1>6. Coaching!Generation' = Coaching!Generation  BY <1>1, <1>2, <1>4, GenerationAfter
<1>7. AskedLines \subseteq DOMAIN inbox  BY DEF AskedLines
<1>8. Coaching!Turns \in Nat /\ sender.turn = Coaching!Turns + 1  BY <1>1, AskedIs DEF CoachInv, Numbered
<1>9. ~Coaching!Done(sender.turn)  BY <1>8 DEF CoachInv, Numbered
<1>10. \A x, y : ToDo(x, y) => ToDo(x, y)'
  <2>1. \A x, y : Logged(x, y) => Logged(x, y)'  BY <1>5, <1>7 DEF Logged
  <2>2. QED  BY <1>5, <2>1 DEF ToDo
<1>11. CoachTypes'  BY <1>1, <1>4, <1>5 DEF CoachInv, CoachTypes
<1>12. Numbered'
  <2>1. \A i \in AskedLines : inbox[i].turn \in 1..Coaching!Turns  BY DEF CoachInv, Numbered
  <2>2. \A i \in AskedLines : inbox[i].turn # sender.turn /\ inbox[i].turn \in 1..(Coaching!Turns + 1)
    BY <1>8, <2>1
  <2>3. (\A i \in AskedLines : inbox[i].turn \in 1..Coaching!Turns)'  BY <1>4, <1>5, <1>7, <1>8, <2>2
  <2>4. (\A i, j \in AskedLines : inbox[i].turn = inbox[j].turn => i = j)'
    BY <1>4, <1>5, <1>7, <2>2 DEF CoachInv, Numbered
  <2>5. \A x : Coaching!Done(x) => x \in 1..(Coaching!Turns + 1)  BY <1>8 DEF CoachInv, Numbered
  <2>6. QED  BY <1>4, <1>5, <2>3, <2>4, <2>5 DEF Numbered
<1>13. Placed'
  <2>1. ToDo(sender.turn, sender.gen)'
    <3>1. Logged(sender.turn, sender.gen)'  BY <1>4, <1>5 DEF Logged
    <3>2. QED  BY <1>4, <1>5, <1>9, <3>1 DEF ToDo
  <2>2. QED  BY <1>1, <1>4, <1>10, <2>1 DEF CoachInv, Placed
<1>14. Ahead'
  <2>1. daemon # "down"  BY <1>1 DEF CoachInv, Ahead
  <2>2. InTime(sender.turn, sender.gen)  BY <1>1 DEF CoachInv, Ahead
  <2>3. (\A i \in AskedLines : InTime(inbox[i].turn, inbox[i].gen))'
    BY <1>1, <1>4, <1>5, <1>6, <1>7, <2>2 DEF CoachInv, Ahead, InTime
  <2>4. InTime(sender.turn, sender.gen)'  BY <1>1, <1>4, <1>6, <2>2 DEF InTime
  <2>5. UNCHANGED <<daemon, generation, turns, resetter, worker>>  BY <1>1
  <2>6. QED  BY <1>6, <2>1, <2>3, <2>4, <2>5 DEF CoachInv, Ahead
<1>15. Kept'
  <2>1. \A i \in Coaching!Pending' : i = m \/ i \in Coaching!Pending
    BY <1>5, <1>6, <1>7 DEF Coaching!Pending, AskedLines
  <2>2. Coaching!Pending \subseteq DOMAIN inbox  BY DEF Coaching!Pending
  <2>3. \A x : Somewhere(x) => Somewhere(x)'  BY <1>1, <1>4 DEF Somewhere
  <2>4. Somewhere(sender.turn)'  BY <1>4 DEF Somewhere
  <2>5. QED  BY <1>1, <1>4, <1>5, <2>1, <2>2, <2>3, <2>4 DEF CoachInv, Kept
<1>16. QED  BY <1>11, <1>12, <1>13, <1>14, <1>15 DEF CoachInv

LEMMA SendPutKeeps == ASSUME CoachInv, Coaching!SendPut PROVE CoachInv'
<1>r. PICK r : r = [turn |-> sender.turn, gen |-> sender.gen]  OBVIOUS
<1>m. PICK m : m = Len(turns) + 1  OBVIOUS
<1>1. /\ sender.at = "put" /\ turns' = Append(turns, r) /\ sender' = Coaching!Away
      /\ UNCHANGED <<agent, daemon, ends, generation, inbox, dialog, conversation, resetter, worker, overlapped>>
  BY <1>r DEF Coaching!SendPut
<1>2. sender \in Sender /\ turns \in Seq(Turn)  BY <1>1 DEF CoachInv, CoachTypes, Coaching!Away
<1>3. r \in Turn /\ r.turn = sender.turn /\ r.gen = sender.gen /\ sender.turn # 0
  BY <1>r, <1>2 DEF Turn, Sender
<1>4. /\ turns' \in Seq(Turn) /\ turns'[m] = r /\ DOMAIN turns' = DOMAIN turns \union {m} /\ m \notin DOMAIN turns
      /\ \A k \in DOMAIN turns : turns'[k] = turns[k] /\ turns[k] \in Turn
  BY <1>m, <1>1, <1>2, <1>3, Grown
<1>5. sender'.at = "idle" /\ sender'.turn = 0  BY <1>1 DEF Coaching!Away
<1>6. CoachTypes'  BY <1>1, <1>4 DEF CoachInv, CoachTypes
<1>7. Numbered'  BY <1>1, <1>5, InboxStays DEF CoachInv, Numbered
<1>8. Placed'
  <2>1. \A k \in DOMAIN turns : turns[k].turn # 0  BY <1>4 DEF Turn
  <2>2. worker.turn # sender.turn
    <3>1. worker.at = "idle" => worker.turn = 0
      BY DEF CoachInv, CoachTypes, Coaching!Idle, TurnWorker, WorkerStages
    <3>2. QED  BY <1>3, <3>1 DEF CoachInv, Placed
  <2>3. worker.at # "idle" => worker.turn # 0
    <3>1. worker.at # "idle" => Logged(worker.turn, worker.gen)  BY DEF CoachInv, Placed, ToDo
    <3>2. QED  BY <3>1, LoggedIs
  <2>4. (\A k \in DOMAIN turns : ToDo(turns[k].turn, turns[k].gen))'
    BY <1>1, <1>3, <1>4, InboxStays DEF CoachInv, Placed
  <2>5. (\A k, j \in DOMAIN turns : turns[k].turn = turns[j].turn => k = j)'
    BY <1>1, <1>3, <1>4 DEF CoachInv, Placed
  <2>6. (\A k \in DOMAIN turns : turns[k].turn # worker.turn /\ turns[k].turn # sender.turn)'
    BY <1>1, <1>3, <1>4, <1>5, <2>1, <2>2 DEF CoachInv, Placed
  <2>7. QED  BY <1>1, <1>5, <2>3, <2>4, <2>5, <2>6, InboxStays DEF CoachInv, Placed
<1>9. Ahead'
  <2>1. daemon # "down"  BY <1>1 DEF CoachInv, Ahead
  <2>2. QED  BY <1>1, <1>5, <2>1, InboxStays DEF CoachInv, Ahead, InTime
<1>10. Kept'
  <2>1. \A x : Somewhere(x) => Somewhere(x)'
    <3>1. \A x : (\E k \in DOMAIN turns : turns[k].turn = x) => (\E k \in DOMAIN turns' : turns'[k].turn = x)
      BY <1>4
    <3>2. \E k \in DOMAIN turns' : turns'[k].turn = sender.turn  BY <1>3, <1>4
    <3>3. QED  BY <1>1, <3>1, <3>2 DEF Somewhere
  <2>2. QED  BY <1>1, <2>1, InboxStays DEF CoachInv, Kept
<1>11. QED  BY <1>6, <1>7, <1>8, <1>9, <1>10 DEF CoachInv

(* Where the resetter and the worker are when they are not idle.             *)
LEMMA PlacesAre ==
    ASSUME CoachInv
    PROVE  /\ resetter.at = "idle" <=> resetter = Coaching!Away
           /\ resetter.at # "idle" => resetter \in Resetter
           /\ worker.at = "idle" <=> worker = Coaching!Idle
           /\ worker.at # "idle" => worker \in TurnWorker
           /\ sender.at = "idle" <=> sender = Coaching!Away
           /\ sender.at # "idle" => sender \in Sender
<1>1. /\ resetter \in Resetter \union {Coaching!Away} /\ worker \in TurnWorker \union {Coaching!Idle}
      /\ sender \in Sender \union {Coaching!Away}
  BY DEF CoachInv, CoachTypes
<1>2. Coaching!Away.at = "idle" /\ Coaching!Idle.at = "idle"  BY DEF Coaching!Away, Coaching!Idle
<1>3. (\A w \in TurnWorker : w.at # "idle") /\ (\A r \in Resetter : r.at # "idle") /\ (\A s \in Sender : s.at # "idle")
  BY DEF TurnWorker, WorkerStages, Resetter, Sender
<1>4. QED  BY <1>1, <1>2, <1>3

LEMMA ResetKeeps == ASSUME CoachInv, Coaching!Reset PROVE CoachInv'
<1>1. /\ daemon = "up" /\ resetter = Coaching!Away /\ generation < MaxResets /\ generation' = generation + 1
      /\ resetter' = [at |-> "drain", turn |-> 0, gen |-> generation + 1]
      /\ overlapped' = IF sender # Coaching!Away THEN overlapped \union {sender.turn} ELSE overlapped
      /\ UNCHANGED <<agent, daemon, ends, inbox, dialog, conversation, turns, sender, worker>>
  BY DEF Coaching!Reset
<1>2. generation \in 0..MaxResets  BY DEF CoachInv, CoachTypes
<1>3. generation' \in 0..MaxResets /\ resetter' \in Resetter /\ resetter'.at = "drain" /\ resetter'.gen = generation'
  BY <1>1, <1>2, ServicesAssumption DEF Resetter
<1>4. Coaching!Generation = generation  BY <1>1, PlacesAre DEF CoachInv, Ahead
<1>5. overlapped \subseteq overlapped'  BY <1>1
<1>6. CoachTypes'  BY <1>1, <1>3 DEF CoachInv, CoachTypes
<1>7. Numbered'  BY <1>1, InboxStays DEF CoachInv, Numbered
<1>8. Placed'  BY <1>1, InboxStays DEF CoachInv, Placed
<1>9. Ahead'
  <2>1. (\A i \in AskedLines : InTime(inbox[i].turn, inbox[i].gen))'
    BY <1>1, <1>5, InboxStays DEF CoachInv, Ahead, InTime
  <2>2. (sender.at # "idle" => InTime(sender.turn, sender.gen))'
    BY <1>1, <1>5, InboxStays DEF CoachInv, Ahead, InTime
  <2>3. Coaching!Generation' = generation  BY <1>1, <1>4, InboxStays
  <2>4. QED  BY <1>1, <1>3, <2>1, <2>2, <2>3 DEF CoachInv, Ahead
<1>10. Kept'
  <2> SUFFICES ASSUME NEW i \in Coaching!Pending PROVE inbox[i].gen < generation' \/ inbox[i].turn \in overlapped'
    BY <1>1, InboxStays DEF Kept
  <2>1. i \in AskedLines  BY DEF Coaching!Pending, AskedLines
  <2>2. inbox[i].gen \in Nat /\ (inbox[i].gen <= generation \/ inbox[i].turn \in overlapped)
    BY <1>1, <2>1, InTimeIs
  <2>3. QED  BY <1>1, <1>2, <1>5, <2>2, ServicesAssumption
<1>11. QED  BY <1>6, <1>7, <1>8, <1>9, <1>10 DEF CoachInv

LEMMA ResetDrainKeeps == ASSUME CoachInv, Coaching!ResetDrain PROVE CoachInv'
<1>1. /\ resetter.at = "drain" /\ resetter' = [resetter EXCEPT !.at = "mark"] /\ turns' = <<>>
      /\ UNCHANGED <<agent, daemon, ends, generation, inbox, dialog, conversation, sender, worker, overlapped>>
  BY DEF Coaching!ResetDrain, Coaching!ResetStep
<1>2. resetter \in Resetter  BY <1>1, PlacesAre
<1>3. resetter' \in Resetter /\ resetter'.at = "mark" /\ resetter'.gen = resetter.gen  BY <1>1, <1>2 DEF Resetter
<1>4. daemon # "down" /\ generation = Coaching!Generation + 1  BY <1>1 DEF CoachInv, Ahead
<1>5. turns' \in Seq(Turn) /\ DOMAIN turns' = {}  BY <1>1
<1>6. CoachTypes'  BY <1>1, <1>3, <1>5 DEF CoachInv, CoachTypes
<1>7. Numbered'  BY <1>1, InboxStays DEF CoachInv, Numbered
<1>8. Placed'  BY <1>1, <1>5, InboxStays DEF CoachInv, Placed
<1>9. Ahead'
  <2>1. (\A i \in AskedLines : InTime(inbox[i].turn, inbox[i].gen))'
    BY <1>1, InboxStays DEF CoachInv, Ahead, InTime
  <2>2. (sender.at # "idle" => InTime(sender.turn, sender.gen))'
    BY <1>1, InboxStays DEF CoachInv, Ahead, InTime
  <2>3. Coaching!Generation' = Coaching!Generation  BY <1>1, InboxStays
  <2>4. generation = resetter.gen  BY <1>1 DEF CoachInv, Ahead
  <2>5. UNCHANGED <<daemon, generation>>  BY <1>1
  <2>6. QED  BY <1>3, <1>4, <2>1, <2>2, <2>3, <2>4, <2>5 DEF CoachInv, Ahead
<1>10. Kept'
  <2> SUFFICES ASSUME NEW i \in Coaching!Pending PROVE inbox[i].gen < generation \/ inbox[i].turn \in overlapped
    BY <1>1, InboxStays DEF Kept
  <2>1. i \in AskedLines  BY DEF Coaching!Pending, AskedLines
  <2>2. inbox[i].gen \in Nat  BY <1>4, <2>1, InTimeIs
  <2>3. inbox[i].gen <= Coaching!Generation \/ inbox[i].turn \in overlapped  BY <2>1 DEF CoachInv, Ahead, InTime
  <2>4. Coaching!Generation \in Nat  BY GenerationIs, ServicesAssumption DEF CoachInv
  <2>5. QED  BY <1>4, <2>2, <2>3, <2>4
<1>11. QED  BY <1>6, <1>7, <1>8, <1>9, <1>10 DEF CoachInv

LEMMA ResetMarkKeeps == ASSUME CoachInv, Coaching!ResetMark PROVE CoachInv'
<1>l. PICK l : l = [type |-> "reset", turn |-> 0, gen |-> resetter.gen]  OBVIOUS
<1>1. /\ resetter.at = "mark" /\ resetter' = [resetter EXCEPT !.at = "dialog"] /\ inbox' = Append(inbox, l)
      /\ UNCHANGED <<agent, daemon, ends, generation, dialog, conversation, turns, sender, worker, overlapped>>
  BY <1>l DEF Coaching!ResetMark, Coaching!ResetStep, Coaching!Mark
<1>2. resetter \in Resetter /\ CoachTypes  BY <1>1, PlacesAre DEF CoachInv
<1>3. resetter' \in Resetter /\ resetter'.at = "dialog" /\ resetter'.gen = resetter.gen  BY <1>1, <1>2 DEF Resetter
<1>4. daemon # "down" /\ generation = Coaching!Generation + 1 /\ resetter.gen = generation
  BY <1>1 DEF CoachInv, Ahead
<1>5. l \in Line /\ l.type = "reset" /\ l.gen = Coaching!Generation + 1
  BY <1>l, <1>2, <1>4, ServicesAssumption DEF Line, Resetter
<1>6. /\ inbox' \in Seq(Line) /\ AskedLines' = AskedLines /\ Coaching!Turns' = Coaching!Turns
      /\ \A i \in DOMAIN inbox : inbox'[i] = inbox[i]
      /\ \A x : Coaching!Done(x)' <=> Coaching!Done(x)
  BY <1>1, <1>2, <1>5, LineAdded
<1>7. Coaching!Generation' = l.gen  BY <1>1, <1>2, <1>5, GenerationAfter
<1>8. AskedLines \subseteq DOMAIN inbox  BY DEF AskedLines
<1>9. \A x, y : ToDo(x, y)' <=> ToDo(x, y)  BY <1>6, <1>8 DEF ToDo, Logged
<1>10. CoachTypes'  BY <1>1, <1>3, <1>6 DEF CoachInv, CoachTypes
<1>11. Numbered'  BY <1>1, <1>6, <1>8 DEF CoachInv, Numbered
<1>12. Placed'  BY <1>1, <1>9 DEF CoachInv, Placed
<1>13. Coaching!Generation \in Nat  BY <1>2, GenerationIs, ServicesAssumption
<1>14. Ahead'
  <2>1. (\A i \in AskedLines : InTime(inbox[i].turn, inbox[i].gen))'
    <3>1. \A i \in AskedLines : inbox[i].gen \in Nat  BY <1>4, InTimeIs
    <3>2. QED  BY <1>1, <1>5, <1>6, <1>7, <1>8, <1>13, <3>1 DEF CoachInv, Ahead, InTime
  <2>2. (sender.at # "idle" => InTime(sender.turn, sender.gen))'
    <3>1. sender.at # "idle" => sender.gen \in Nat  BY PlacesAre, ServicesAssumption DEF Sender
    <3>2. QED  BY <1>1, <1>5, <1>7, <1>13, <3>1 DEF CoachInv, Ahead, InTime
  <2>3. UNCHANGED <<daemon, generation>>  BY <1>1
  <2>4. QED  BY <1>3, <1>4, <1>5, <1>7, <2>1, <2>2, <2>3 DEF Ahead
<1>15. Kept'
  <2>1. \A i \in Coaching!Pending' : i \in Coaching!Pending /\ inbox'[i] = inbox[i]
    <3>1. \A i \in Coaching!Pending' : i \in AskedLines /\ ~Coaching!Done(inbox[i].turn) /\ inbox'[i] = inbox[i]
      BY <1>6, <1>8 DEF Coaching!Pending, AskedLines
    <3>2. \A i \in Coaching!Pending' : inbox[i].gen >= l.gen  BY <1>7, <3>1 DEF Coaching!Pending
    <3>3. \A i \in AskedLines : inbox[i].gen \in Nat  BY <1>4, InTimeIs
    <3>4. \A i \in Coaching!Pending' : inbox[i].gen >= Coaching!Generation  BY <1>5, <1>13, <3>1, <3>2, <3>3
    <3>5. QED  BY <3>1, <3>4 DEF Coaching!Pending, AskedLines
  <2>2. QED  BY <1>1, <2>1 DEF CoachInv, Kept, Somewhere
<1>16. QED  BY <1>10, <1>11, <1>12, <1>14, <1>15 DEF CoachInv

LEMMA ResetEndsKeep == ASSUME CoachInv, Coaching!ResetDialog \/ Coaching!ResetSession PROVE CoachInv'
<1>1. /\ resetter.at \in {"dialog", "session"}
      /\ resetter' = [resetter EXCEPT !.at = "session"] \/ resetter' = Coaching!Away
      /\ dialog' \in {dialog, <<>>} /\ conversation' \in {conversation, None}
      /\ UNCHANGED <<agent, daemon, ends, generation, inbox, turns, sender, worker, overlapped>>
  BY DEF Coaching!ResetDialog, Coaching!ResetSession, Coaching!ResetStep
<1>2. resetter \in Resetter  BY <1>1, PlacesAre
<1>3. /\ resetter' \in Resetter \union {Coaching!Away} /\ resetter'.at \in {"session", "idle"}
      /\ resetter'.at # "idle" => resetter'.gen = resetter.gen
  BY <1>1, <1>2 DEF Resetter, Coaching!Away
<1>4. dialog' \in Seq(Utterance)
  <2>1. dialog \in Seq(Utterance)  BY DEF CoachInv, CoachTypes
  <2>2. <<>> \in Seq(Utterance)  OBVIOUS
  <2>3. QED  BY <1>1, <2>1, <2>2
<1>5. CoachTypes'  BY <1>1, <1>3, <1>4 DEF CoachInv, CoachTypes
<1>6. Numbered'  BY <1>1, InboxStays DEF CoachInv, Numbered
<1>7. Placed'  BY <1>1, InboxStays DEF CoachInv, Placed
<1>8. Ahead'
  <2>1. daemon # "down" /\ generation = Coaching!Generation /\ resetter.gen = generation
    BY <1>1 DEF CoachInv, Ahead
  <2>2. (\A i \in AskedLines : InTime(inbox[i].turn, inbox[i].gen))'
    BY <1>1, InboxStays DEF CoachInv, Ahead, InTime
  <2>3. (sender.at # "idle" => InTime(sender.turn, sender.gen))'
    BY <1>1, InboxStays DEF CoachInv, Ahead, InTime
  <2>4. Coaching!Generation' = Coaching!Generation  BY <1>1, InboxStays
  <2>5. UNCHANGED <<daemon, generation>>  BY <1>1
  <2>6. QED  BY <1>3, <2>1, <2>2, <2>3, <2>4, <2>5 DEF Ahead
<1>9. Kept'  BY <1>1, InboxStays DEF CoachInv, Kept, Somewhere
<1>10. QED  BY <1>5, <1>6, <1>7, <1>8, <1>9 DEF CoachInv

LEMMA TakeTurnKeeps == ASSUME CoachInv, Coaching!Take PROVE CoachInv'
<1>h. PICK h : h = Head(turns)  OBVIOUS
<1>1. /\ daemon = "up" /\ worker = Coaching!Idle /\ turns # <<>> /\ turns' = Tail(turns)
      /\ worker' = [Coaching!Idle EXCEPT !.at = "check", !.turn = h.turn, !.gen = h.gen]
      /\ UNCHANGED <<agent, daemon, ends, generation, inbox, dialog, conversation, sender, resetter, overlapped>>
  BY <1>h DEF Coaching!Take
<1>2. turns \in Seq(Turn)  BY DEF CoachInv, CoachTypes
<1>3. /\ 1 \in DOMAIN turns /\ h = turns[1] /\ h \in Turn /\ turns' \in Seq(Turn)
      /\ \A k \in DOMAIN turns' : k + 1 \in DOMAIN turns /\ k + 1 # 1 /\ turns'[k] = turns[k + 1]
      /\ \A k \in DOMAIN turns : k # 1 => k - 1 \in DOMAIN turns' /\ turns'[k - 1] = turns[k]
      /\ \A k, j \in DOMAIN turns' : k + 1 = j + 1 => k = j
  BY <1>h, <1>1, <1>2
<1>4. worker' \in TurnWorker /\ worker'.at = "check" /\ worker'.turn = h.turn /\ worker'.gen = h.gen
  BY <1>1, <1>3 DEF TurnWorker, WorkerStages, Turn, Coaching!Idle
<1>5. ToDo(h.turn, h.gen) /\ \A k \in DOMAIN turns : turns[k].turn = h.turn => k = 1
  BY <1>3 DEF CoachInv, Placed
<1>6. CoachTypes'  BY <1>1, <1>3, <1>4 DEF CoachInv, CoachTypes
<1>7. Numbered'  BY <1>1, InboxStays DEF CoachInv, Numbered
<1>8. Placed'
  <2>1. (\A k \in DOMAIN turns : ToDo(turns[k].turn, turns[k].gen))'
    BY <1>1, <1>3, InboxStays DEF CoachInv, Placed
  <2>2. (\A k, j \in DOMAIN turns : turns[k].turn = turns[j].turn => k = j)'
    BY <1>3 DEF CoachInv, Placed
  <2>3. \A k \in DOMAIN turns' : turns'[k].turn # h.turn /\ turns'[k].turn # sender.turn
    BY <1>3, <1>5 DEF CoachInv, Placed
  <2>4. h.turn # sender.turn  BY <1>3 DEF CoachInv, Placed
  <2>5. ToDo(h.turn, h.gen)'  BY <1>1, <1>5, InboxStays
  <2>6. (sender.at = "put" => ToDo(sender.turn, sender.gen))'  BY <1>1, InboxStays DEF CoachInv, Placed
  <2>7. sender' = sender  BY <1>1
  <2>8. QED  BY <1>4, <2>1, <2>2, <2>3, <2>4, <2>5, <2>6, <2>7 DEF Placed
<1>9. Ahead'
  <2>1. (\A i \in AskedLines : InTime(inbox[i].turn, inbox[i].gen))'
    BY <1>1, InboxStays DEF CoachInv, Ahead, InTime
  <2>2. (sender.at # "idle" => InTime(sender.turn, sender.gen))'
    BY <1>1, InboxStays DEF CoachInv, Ahead, InTime
  <2>3. Coaching!Generation' = Coaching!Generation  BY <1>1, InboxStays
  <2>4. UNCHANGED <<daemon, generation, resetter>>  BY <1>1
  <2>5. QED  BY <1>1, <2>1, <2>2, <2>3, <2>4 DEF CoachInv, Ahead
<1>10. Kept'
  <2>1. \A x : Somewhere(x) => Somewhere(x)'
    <3>1. \A x : (\E k \in DOMAIN turns : turns[k].turn = x) => x = h.turn \/ \E k \in DOMAIN turns' : turns'[k].turn = x
      BY <1>3
    <3>2. worker.at = "idle" /\ sender' = sender  BY <1>1 DEF Coaching!Idle
    <3>3. QED  BY <1>4, <3>1, <3>2 DEF Somewhere
  <2>2. QED  BY <1>1, <2>1, InboxStays DEF CoachInv, Kept
<1>11. QED  BY <1>6, <1>7, <1>8, <1>9, <1>10 DEF CoachInv

LEMMA MarkDoneKeeps == ASSUME CoachInv, Coaching!MarkDone PROVE CoachInv'
<1>l. PICK l : l = [type |-> "done", turn |-> worker.turn, gen |-> worker.gen]  OBVIOUS
<1>1. /\ worker.at = "done" /\ worker' = Coaching!Idle /\ inbox' = Append(inbox, l)
      /\ UNCHANGED <<agent, daemon, ends, generation, dialog, conversation, turns, sender, resetter, overlapped>>
  BY <1>l DEF Coaching!MarkDone, Coaching!At, Coaching!Mark
<1>2. worker \in TurnWorker /\ CoachTypes  BY <1>1, PlacesAre DEF CoachInv
<1>3. l \in Line /\ l.type = "done" /\ l.turn = worker.turn  BY <1>l, <1>2, ServicesAssumption DEF Line, TurnWorker
<1>4. /\ inbox' \in Seq(Line) /\ AskedLines' = AskedLines /\ Coaching!Turns' = Coaching!Turns
      /\ \A i \in DOMAIN inbox : inbox'[i] = inbox[i]
      /\ \A x : Coaching!Done(x)' <=> Coaching!Done(x) \/ x = worker.turn
  BY <1>1, <1>2, <1>3, LineAdded
<1>5. Coaching!Generation' = Coaching!Generation  BY <1>1, <1>2, <1>3, GenerationAfter
<1>6. AskedLines \subseteq DOMAIN inbox  BY DEF AskedLines
<1>7. \A x, y : ToDo(x, y) /\ x # worker.turn => ToDo(x, y)'
  <2>1. \A x, y : Logged(x, y) => Logged(x, y)'  BY <1>4, <1>6 DEF Logged
  <2>2. QED  BY <1>4, <2>1 DEF ToDo
<1>8. worker'.at = "idle" /\ worker'.turn = 0  BY <1>1 DEF Coaching!Idle
<1>9. CoachTypes'  BY <1>1, <1>4 DEF CoachInv, CoachTypes
<1>10. Numbered'
  <2>1. worker.turn \in 1..Coaching!Turns
    <3>1. Logged(worker.turn, worker.gen)  BY <1>1 DEF CoachInv, Placed, ToDo
    <3>2. QED  BY <3>1, LoggedIs
  <2>2. QED  BY <1>1, <1>4, <1>6, <2>1 DEF CoachInv, Numbered
<1>11. Placed'
  <2>1. \A k \in DOMAIN turns : turns[k].turn # 0
    <3>1. \A k \in DOMAIN turns : Logged(turns[k].turn, turns[k].gen)  BY DEF CoachInv, Placed, ToDo
    <3>2. QED  BY <3>1, LoggedIs
  <2>2. UNCHANGED <<turns, sender>>  BY <1>1
  <2>3. QED  BY <1>1, <1>7, <1>8, <2>1, <2>2 DEF CoachInv, Placed
<1>12. Ahead'
  <2>1. (\A i \in AskedLines : InTime(inbox[i].turn, inbox[i].gen))'
    BY <1>1, <1>4, <1>5, <1>6 DEF CoachInv, Ahead, InTime
  <2>2. (sender.at # "idle" => InTime(sender.turn, sender.gen))'
    BY <1>1, <1>5 DEF CoachInv, Ahead, InTime
  <2>3. UNCHANGED <<daemon, generation, resetter>>  BY <1>1
  <2>4. daemon # "down"  BY <1>1 DEF CoachInv, Ahead
  <2>5. QED  BY <1>5, <2>1, <2>2, <2>3, <2>4 DEF CoachInv, Ahead
<1>13. Kept'
  <2>1. \A i \in Coaching!Pending' : i \in Coaching!Pending /\ inbox'[i] = inbox[i] /\ inbox[i].turn # worker.turn
    <3>1. \A i \in Coaching!Pending' : i \in AskedLines /\ ~Coaching!Done(inbox[i].turn) /\ inbox'[i] = inbox[i]
                                       /\ inbox[i].turn # worker.turn
      BY <1>4, <1>6 DEF Coaching!Pending, AskedLines
    <3>2. \A i \in Coaching!Pending' : inbox[i].gen >= Coaching!Generation
      BY <1>5, <3>1 DEF Coaching!Pending
    <3>3. QED  BY <3>1, <3>2 DEF Coaching!Pending, AskedLines
  <2>2. \A x : Somewhere(x) /\ x # worker.turn => Somewhere(x)'  BY <1>1 DEF Somewhere
  <2>3. QED  BY <1>1, <2>1, <2>2 DEF CoachInv, Kept
<1>14. QED  BY <1>9, <1>10, <1>11, <1>12, <1>13 DEF CoachInv

LEMMA EndKeeps == ASSUME CoachInv, Coaching!Stop \/ Coaching!Down PROVE CoachInv'
<1>1. CASE Coaching!Stop
  <2>1. /\ daemon = "up" /\ daemon' = "stopping" /\ ends < MaxEnds /\ ends' = ends + 1
        /\ UNCHANGED <<agent, generation, inbox, dialog, conversation, turns, sender, resetter, worker, overlapped>>
    BY <1>1 DEF Coaching!Stop
  <2>2. CoachTypes'  BY <2>1, ServicesAssumption DEF CoachInv, CoachTypes
  <2>3. Numbered'  BY <2>1, InboxStays DEF CoachInv, Numbered
  <2>4. Placed'  BY <2>1, InboxStays DEF CoachInv, Placed
  <2>5. Ahead'  BY <2>1, InboxStays DEF CoachInv, Ahead, InTime
  <2>6. Kept'  BY <2>1 DEF Kept
  <2>7. QED  BY <2>2, <2>3, <2>4, <2>5, <2>6 DEF CoachInv
<1>2. CASE Coaching!Down
  <2>1. /\ daemon' = "down" /\ worker' = Coaching!Idle /\ sender' = Coaching!Away /\ resetter' = Coaching!Away
        /\ turns' = <<>> /\ ends' \in {ends} \union {e \in {ends + 1} : ends < MaxEnds}
        /\ daemon # "down"
        /\ UNCHANGED <<agent, generation, inbox, dialog, conversation, overlapped>>
    BY <1>2 DEF Coaching!Down
  <2>2. worker'.at = "idle" /\ sender'.at = "idle" /\ resetter'.at = "idle"
    BY <2>1 DEF Coaching!Idle, Coaching!Away
  <2>3. CoachTypes'  BY <2>1, ServicesAssumption DEF CoachInv, CoachTypes
  <2>4. Numbered'  BY <2>1, <2>2, InboxStays DEF CoachInv, Numbered
  <2>5. DOMAIN turns' = {}  BY <2>1
  <2>6. Placed'  BY <2>1, <2>2, <2>5, InboxStays DEF CoachInv, Placed
  <2>7. Ahead'  BY <2>1, <2>2, InboxStays DEF CoachInv, Ahead, InTime
  <2>8. Kept'  BY <2>1 DEF Kept
  <2>9. QED  BY <2>3, <2>4, <2>6, <2>7, <2>8 DEF CoachInv
<1>3. QED  BY <1>1, <1>2

(* An increasing list of lines as long as there are lines names each once.   *)
LEMMA OrderIs ==
    ASSUME CoachTypes, NEW f \in Coaching!InOrder(Coaching!Pending)
    PROVE  /\ Cardinality(Coaching!Pending) \in Nat /\ f \in [1..Cardinality(Coaching!Pending) -> Coaching!Pending]
           /\ \A i, j \in DOMAIN f : f[i] = f[j] => i = j
           /\ \A k \in Coaching!Pending : \E i \in DOMAIN f : f[i] = k
<1>s. PICK S : S = Coaching!Pending  OBVIOUS
<1>1. S \subseteq DOMAIN inbox /\ DOMAIN inbox = 1..Len(inbox) /\ Len(inbox) \in Nat
  BY <1>s DEF Coaching!Pending, CoachTypes
<1>2. IsFiniteSet(S) /\ Cardinality(S) \in Nat
  <2>1. IsFiniteSet(DOMAIN inbox)  BY <1>1, FS_Interval
  <2>2. IsFiniteSet(S)  BY <1>1, <2>1, FS_Subset
  <2>3. QED  BY <2>2, FS_CardinalityType
<1>n. PICK n : n = Cardinality(S)  OBVIOUS
<1>3. f \in [1..n -> S] /\ \A i, j \in DOMAIN f : i < j => f[i] < f[j]
  BY <1>s, <1>n DEF Coaching!InOrder, Coaching!Cardinality, Cardinality
<1>4. \A i, j \in 1..n : f[i] = f[j] => i = j
  <2>1. \A i \in 1..n : f[i] \in Nat  BY <1>1, <1>3
  <2>2. n \in Nat  BY <1>2, <1>n
  <2>3. \A i, j \in 1..n : i < j \/ j < i \/ i = j  BY <2>2
  <2>4. QED  BY <1>3, <2>1, <2>3
<1>5. f \in Injection(1..n, S)  BY <1>3, <1>4 DEF Injection, IsInjective
<1>6. IsFiniteSet(1..n) /\ Cardinality(1..n) = n
  <2>1. n \in Nat  BY <1>2, <1>n
  <2>2. QED  BY <2>1, FS_Interval
<1>7. f \in Surjection(1..n, S)  BY <1>2, <1>n, <1>5, <1>6, FS_Injection
<1>8. \A k \in S : \E i \in 1..n : f[i] = k  BY <1>7 DEF Surjection
<1>9. QED  BY <1>s, <1>2, <1>n, <1>3, <1>4, <1>8

LEMMA StartKeeps == ASSUME CoachInv, Coaching!Start PROVE CoachInv'
<1>1. /\ daemon = "down" /\ daemon' = "up" /\ generation' = Coaching!Generation
      /\ UNCHANGED <<agent, ends, inbox, dialog, conversation, sender, resetter, worker, overlapped>>
  BY DEF Coaching!Start
<1>2. PICK f \in Coaching!InOrder(Coaching!Pending) :
          turns' = [i \in DOMAIN f |-> [turn |-> inbox[f[i]].turn, gen |-> inbox[f[i]].gen]]
  BY DEF Coaching!Start
<1>n. PICK n : n = Cardinality(Coaching!Pending)  OBVIOUS
<1>3. /\ n \in Nat /\ f \in [1..n -> Coaching!Pending] /\ \A i, j \in 1..n : f[i] = f[j] => i = j
      /\ \A k \in Coaching!Pending : \E i \in 1..n : f[i] = k
  BY <1>n, OrderIs DEF CoachInv
<1>4. worker.at = "idle" /\ sender.at = "idle" /\ resetter.at = "idle"  BY <1>1 DEF CoachInv, Ahead
<1>5. worker.turn = 0 /\ sender.turn = 0  BY <1>4, PlacesAre DEF Coaching!Idle, Coaching!Away
<1>6. \A k \in Coaching!Pending : k \in AskedLines /\ ToDo(inbox[k].turn, inbox[k].gen)
  BY DEF Coaching!Pending, AskedLines, ToDo, Logged
<1>7. DOMAIN turns' = 1..n  BY <1>2, <1>3
<1>8. \A i \in 1..n : /\ f[i] \in Coaching!Pending
                      /\ turns'[i] = [turn |-> inbox[f[i]].turn, gen |-> inbox[f[i]].gen]
  BY <1>2, <1>3
<1>9. \A i \in 1..n : turns'[i] \in Turn
  <2> SUFFICES ASSUME NEW i \in 1..n PROVE turns'[i] \in Turn  OBVIOUS
  <2>1. Logged(inbox[f[i]].turn, inbox[f[i]].gen)  BY <1>6, <1>8 DEF ToDo
  <2>2. inbox[f[i]].turn \in 1..MaxTurns /\ inbox[f[i]].gen \in 0..MaxResets  BY <2>1, LoggedIs
  <2>3. PICK x, y : x = inbox[f[i]].turn /\ y = inbox[f[i]].gen  OBVIOUS
  <2>4. [turn |-> x, gen |-> y] \in Turn  BY <2>2, <2>3 DEF Turn
  <2>5. turns'[i] = [turn |-> x, gen |-> y]  BY <1>8, <2>3
  <2>6. QED  BY <2>4, <2>5
<1>r. \A i \in 1..n : turns'[i].turn = inbox[f[i]].turn /\ turns'[i].gen = inbox[f[i]].gen
  <2> SUFFICES ASSUME NEW i \in 1..n PROVE turns'[i].turn = inbox[f[i]].turn /\ turns'[i].gen = inbox[f[i]].gen  OBVIOUS
  <2>1. PICK x, y : x = inbox[f[i]].turn /\ y = inbox[f[i]].gen  OBVIOUS
  <2>2. turns'[i] = [turn |-> x, gen |-> y]  BY <1>8, <2>1
  <2>3. turns'[i].turn = x /\ turns'[i].gen = y  BY <2>2
  <2>4. QED  BY <2>1, <2>3
<1>10. turns' \in Seq(Turn)
  <2>1. turns' = [i \in 1..n |-> turns'[i]]  BY <1>2, <1>7
  <2>2. QED  BY <1>3, <1>9, <2>1
<1>11. CoachTypes'
  <2>1. Coaching!Generation \in 0..MaxResets  BY GenerationIs DEF CoachInv
  <2>2. QED  BY <1>1, <1>10, <2>1 DEF CoachInv, CoachTypes
<1>12. Numbered'  BY <1>1, InboxStays DEF CoachInv, Numbered
<1>13. Placed'
  <2>1. \A i \in 1..n : turns'[i].turn # 0  BY <1>9 DEF Turn
  <2>2. (\A k \in DOMAIN turns : ToDo(turns[k].turn, turns[k].gen))'
    <3>1. \A i \in 1..n : ToDo(turns'[i].turn, turns'[i].gen)  BY <1>6, <1>8, <1>r
    <3>2. QED  BY <1>1, <1>7, <3>1, InboxStays
  <2>3. (\A k, j \in DOMAIN turns : turns[k].turn = turns[j].turn => k = j)'
    <3>1. \A i, j \in 1..n : turns'[i].turn = turns'[j].turn => f[i] = f[j]
      <4> SUFFICES ASSUME NEW i \in 1..n, NEW j \in 1..n, turns'[i].turn = turns'[j].turn PROVE f[i] = f[j]  OBVIOUS
      <4>1. PICK x, y : x = f[i] /\ y = f[j]  OBVIOUS
      <4>2. x \in AskedLines /\ y \in AskedLines  BY <1>6, <1>8, <4>1
      <4>3. inbox[x].turn = inbox[y].turn  BY <1>r, <4>1
      <4>4. QED  BY <4>1, <4>2, <4>3 DEF CoachInv, Numbered
    <3>2. QED  BY <1>3, <1>7, <3>1
  <2>4. UNCHANGED <<worker, sender>>  BY <1>1
  <2>5. QED  BY <1>4, <1>5, <1>7, <2>1, <2>2, <2>3, <2>4 DEF Placed
<1>14. Ahead'
  <2>1. (\A i \in AskedLines : InTime(inbox[i].turn, inbox[i].gen))'
    BY <1>1, InboxStays DEF CoachInv, Ahead, InTime
  <2>2. Coaching!Generation' = Coaching!Generation  BY <1>1, InboxStays
  <2>3. UNCHANGED <<worker, sender, resetter>>  BY <1>1
  <2>4. QED  BY <1>1, <1>4, <2>1, <2>2, <2>3 DEF Ahead
<1>15. Kept'
  <2>1. \A k \in Coaching!Pending : Somewhere(inbox[k].turn)'  BY <1>1, <1>3, <1>7, <1>8 DEF Somewhere
  <2>2. QED  BY <1>1, <2>1, InboxStays DEF Kept
<1>16. QED  BY <1>11, <1>12, <1>13, <1>14, <1>15 DEF CoachInv

LEMMA CoachStands == ASSUME CoachInv, UNCHANGED coaching PROVE CoachInv'
<1>1. UNCHANGED <<agent, daemon, ends, generation, inbox, dialog, conversation, turns, sender, resetter, worker, overlapped>>
  BY DEF coaching
<1>2. CoachTypes'  BY <1>1 DEF CoachInv, CoachTypes
<1>3. Numbered'  BY <1>1, InboxStays DEF CoachInv, Numbered
<1>4. Placed'  BY <1>1, InboxStays DEF CoachInv, Placed
<1>5. Ahead'  BY <1>1, InboxStays DEF CoachInv, Ahead, InTime
<1>6. Kept'  BY <1>1, InboxStays DEF CoachInv, Kept, Somewhere
<1>7. QED  BY <1>2, <1>3, <1>4, <1>5, <1>6 DEF CoachInv

LEMMA CoachStep == CoachInv /\ [Coaching!Next]_coaching => CoachInv'
BY SendTurnKeeps, SendAppendKeeps, SendPutKeeps, ResetKeeps, ResetDrainKeeps, ResetMarkKeeps, ResetEndsKeep,
   TakeTurnKeeps, TurnSteps, MarkDoneKeeps, EndKeeps, StartKeeps, CoachStands DEF Coaching!Next

LEMMA CoachBegins == Coaching!Init => CoachInv
<1> SUFFICES ASSUME Coaching!Init PROVE CoachInv  OBVIOUS
<1>1. /\ agent \in Agents /\ daemon = "up" /\ ends = 0 /\ generation = 0 /\ inbox = <<>> /\ dialog = <<>>
      /\ conversation = None /\ turns = <<>> /\ sender = Coaching!Away /\ resetter = Coaching!Away
      /\ worker = Coaching!Idle /\ overlapped = {}
  BY DEF Coaching!Init
<1>2. worker.at = "idle" /\ sender.at = "idle" /\ resetter.at = "idle" /\ worker.turn = 0 /\ sender.turn = 0
  BY <1>1 DEF Coaching!Idle, Coaching!Away
<1>3. DOMAIN inbox = {} /\ DOMAIN turns = {}  BY <1>1
<1>4. CoachTypes
  <2>1. inbox \in Seq(Line) /\ dialog \in Seq(Utterance) /\ turns \in Seq(Turn)  BY <1>1
  <2>2. 0 \in 0..MaxEnds /\ 0 \in 0..MaxResets  BY ServicesAssumption
  <2>3. QED  BY <1>1, <2>1, <2>2 DEF CoachTypes
<1>5. AskedLines = {} /\ Coaching!Pending = {} /\ Marks = {0} /\ \A x : ~Coaching!Done(x)
  BY <1>3 DEF AskedLines, Coaching!Pending, Marks, Coaching!Done
<1>6. Coaching!Generation = 0
  <2>1. Coaching!Generation \in 0..MaxResets /\ Coaching!Generation = Max({0})  BY <1>4, <1>5, GenerationIs, MarkedIs
  <2>2. Max({0}) \in {0}  BY LargestIs
  <2>3. QED  BY <2>1, <2>2
<1>7. Numbered  BY <1>2, <1>5 DEF Numbered
<1>8. Placed  BY <1>2, <1>3 DEF Placed
<1>9. Ahead  BY <1>1, <1>2, <1>5, <1>6 DEF Ahead
<1>10. Kept  BY <1>5 DEF Kept
<1>11. QED  BY <1>4, <1>7, <1>8, <1>9, <1>10 DEF CoachInv

LEMMA CoachImplies == CoachInv => Coaching!TypeOK /\ Coaching!NoTurnLost /\ Coaching!DoneIsDone
<1> SUFFICES ASSUME CoachInv PROVE Coaching!TypeOK /\ Coaching!NoTurnLost /\ Coaching!DoneIsDone  OBVIOUS
<1>1. Coaching!TypeOK
  <2>1. \A i \in DOMAIN inbox : inbox[i] \in Line
    <3>1. inbox \in Seq(Line)  BY DEF CoachInv, CoachTypes
    <3>2. QED  BY <3>1
  <2>2. \A i \in DOMAIN dialog : dialog[i] \in Utterance
    <3>1. dialog \in Seq(Utterance)  BY DEF CoachInv, CoachTypes
    <3>2. QED  BY <3>1
  <2>3. /\ \A i \in DOMAIN inbox : inbox[i].type \in {"enqueue", "done", "reset"} /\ inbox[i].turn \in 0..MaxTurns
        /\ \A i \in DOMAIN dialog : dialog[i].role \in {"user", "coach", "error"} /\ dialog[i].turn \in 1..MaxTurns
    BY <2>1, <2>2 DEF Line, Utterance
  <2>4. sender.at \in {"idle", "append", "put"}  BY PlacesAre DEF Sender
  <2>5. resetter.at \in {"idle", "drain", "mark", "dialog", "session"}  BY PlacesAre DEF Resetter
  <2>6. worker.at \in {"idle"} \union WorkerStages  BY PlacesAre DEF TurnWorker
  <2>7. /\ agent \in Agents /\ daemon \in {"up", "stopping", "down"} /\ ends \in 0..MaxEnds
        /\ generation \in 0..MaxResets /\ conversation \in (0..MaxResets) \union {None}
    BY DEF CoachInv, CoachTypes
  <2>8. QED  BY <2>3, <2>4, <2>5, <2>6, <2>7 DEF Coaching!TypeOK, WorkerStages
<1>2. Coaching!NoTurnLost  BY DEF CoachInv, Kept, Somewhere, Coaching!NoTurnLost
<1>3. Coaching!DoneIsDone
  <2>1. worker.at # "idle" => ~Coaching!Done(worker.turn)  BY DEF CoachInv, Placed, ToDo
  <2>2. \A k, j \in DOMAIN turns : turns[k].turn = turns[j].turn => k = j  BY DEF CoachInv, Placed
  <2>3. QED  BY <2>1, <2>2 DEF Coaching!DoneIsDone
<1>4. QED  BY <1>1, <1>2, <1>3
=============================================================================
