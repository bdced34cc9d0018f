--------------------------- MODULE CollabTaskProofs ---------------------------
(***************************************************************************)
(* Theorems about CollabTask for every set of manifests: the adapter gets  *)
(* a task at most once and with its inputs, and a running task has a       *)
(* thread that observes it. Then a theorem about CollabSession, for every  *)
(* set of guests: who is served has a session that is real. At the end,    *)
(* one about Transfer, for all pages, chunks and batches: the worker gets  *)
(* the inputs, and the guest finds the results.                            *)
(***************************************************************************)
EXTENDS MCCollabTask, SequenceTheorems, FiniteSetTheorems, WellFoundedInduction, TLAPS

\* The plans of each actor: what its handlers start with, and what is left.
Queueing  == {<<"queued">>, <<"MANIFEST", "waiting_inputs">>, <<"waiting_inputs">>}
RpcPlans  == {<<>>, <<"cancelled">>, <<"cancel_requested">>} \union Queueing
HandingOver == {<<"dispatching", "SUBMIT">>, <<"SUBMIT">>}
Attending == {<<"running", "waiting_local_operator">>, <<"waiting_local_operator">>}
Starting  == {<<"running", "WATCH">>, <<"WATCH">>}
Recovering == {<<>>, <<"execution_unknown">>}
DispPlans == Recovering \union HandingOver \union Attending \union Starting
Reporting == {<<>>, <<"export_check", "completed">>, <<"completed">>, <<"failed">>}

Plans ==
    /\ plan["rpc"] \in RpcPlans
    /\ plan["disp"] \in DispPlans
    /\ plan["watch"] \in Reporting
    /\ plan["cli"] \in Reporting

\* Before the task is queued only the event loop changes its state.
Early == {"absent", "received", "waiting_inputs"}

EarlyStates ==
    /\ state = "absent" => /\ declared = {} /\ question = "none"
                           /\ \A a \in Actors : Idle(a)
    /\ plan["rpc"] \in Queueing => state \in Early
    /\ state \in Early => checked \subseteq {"rpc"}
    /\ state \in Early => plan["disp"] \in Recovering
    /\ state = "queued" => plan["disp"] \in Recovering \union {<<"dispatching", "SUBMIT">>}

\* A dispatching task has its invocation in the ledger, and the adapter has not
\* been called for a task that is not handed over yet.
Invocation ==
    /\ state = "dispatching" => invoked
    /\ state \in Early \union {"queued"} => submits = 0
    /\ plan["disp"] \in HandingOver => submits = 0 /\ invoked
    /\ plan["disp"] \in Attending \union Starting => submits # 0
    /\ submits = 0 => state # "running" /\ ~watching /\ Idle("watch")

\* One thread observes the worker at a time.
Observer ==
    /\ watching => Idle("watch")
    /\ plan["disp"] \in Attending \union Starting => ~watching /\ Idle("watch")
    /\ plan["watch"] = <<"completed">> => state # "running"

\* A host that is down runs nothing; one that starts only recovers.
HostStates ==
    /\ host # "up" => Idle("rpc") /\ Idle("watch") /\ ~watching
    /\ host = "down" => Idle("disp")
    /\ host = "starting" => plan["disp"] \in Recovering
    /\ host = "starting" /\ state = "running" => plan["disp"] = <<"execution_unknown">>

IInv ==
    /\ TypeOK
    /\ Plans
    /\ EarlyStates
    /\ Invocation
    /\ Observer
    /\ HostStates
    /\ SubmittedOnce
    /\ RunningIsWatched

-----------------------------------------------------------------------------
(* Plans as sequences                                                        *)

\* A plan of one step.
LEMMA OneStep == ASSUME NEW a PROVE <<a>> # <<>> /\ Head(<<a>>) = a /\ Tail(<<a>>) = <<>>
OBVIOUS

\* A plan of two steps.
LEMMA TwoSteps ==
    ASSUME NEW a, NEW b
    PROVE  <<a, b>> # <<>> /\ Head(<<a, b>>) = a /\ Tail(<<a, b>>) = <<b>>
OBVIOUS

\* What remains of a plan of the event loop after its first step.
LEMMA RpcTail ==
    ASSUME NEW p \in RpcPlans, p # <<>>
    PROVE  /\ Tail(p) \in RpcPlans
           /\ Tail(p) # <<>> => p = <<"MANIFEST", "waiting_inputs">>
           /\ Head(p) = "MANIFEST" <=> p = <<"MANIFEST", "waiting_inputs">>
           /\ Head(p) \in {"queued", "waiting_inputs", "MANIFEST"} <=> p \in Queueing
           /\ Head(p) \in {"queued", "waiting_inputs", "MANIFEST", "cancelled", "cancel_requested"}
           /\ Tail(p) # <<>> => Tail(p) = <<"waiting_inputs">>
<1>1. CASE p = <<"MANIFEST", "waiting_inputs">>
  <2>1. Head(p) = "MANIFEST" /\ Tail(p) = <<"waiting_inputs">>  BY <1>1, TwoSteps
  <2>2. QED  BY <1>1, <2>1 DEF RpcPlans, Queueing
<1>2. CASE p # <<"MANIFEST", "waiting_inputs">>
  <2>1. PICK s \in {"queued", "waiting_inputs", "cancelled", "cancel_requested"} : p = <<s>>
    BY <1>2 DEF RpcPlans, Queueing
  <2>2. Head(p) = s /\ Tail(p) = <<>>  BY <2>1, OneStep
  <2>3. QED  BY <1>2, <2>1, <2>2 DEF RpcPlans, Queueing
<1>3. QED  BY <1>1, <1>2

\* What remains of a plan of the dispatcher.
LEMMA DispTail ==
    ASSUME NEW p \in DispPlans, p # <<>>
    PROVE  \/ p = <<"dispatching", "SUBMIT">> /\ Head(p) = "dispatching" /\ Tail(p) = <<"SUBMIT">>
           \/ p = <<"SUBMIT">> /\ Head(p) = "SUBMIT" /\ Tail(p) = <<>>
           \/ /\ p = <<"running", "waiting_local_operator">> /\ Head(p) = "running"
              /\ Tail(p) = <<"waiting_local_operator">>
           \/ /\ p = <<"waiting_local_operator">> /\ Head(p) = "waiting_local_operator"
              /\ Tail(p) = <<>>
           \/ p = <<"running", "WATCH">> /\ Head(p) = "running" /\ Tail(p) = <<"WATCH">>
           \/ p = <<"WATCH">> /\ Head(p) = "WATCH" /\ Tail(p) = <<>>
           \/ p = <<"execution_unknown">> /\ Head(p) = "execution_unknown" /\ Tail(p) = <<>>
<1>1. \/ p = <<"dispatching", "SUBMIT">>
      \/ p = <<"running", "waiting_local_operator">>
      \/ p = <<"running", "WATCH">>
      \/ p \in {<<"SUBMIT">>, <<"waiting_local_operator">>, <<"WATCH">>, <<"execution_unknown">>}
  BY DEF DispPlans, Recovering, HandingOver, Attending, Starting
<1>2. ASSUME NEW a, NEW b, p = <<a, b>> PROVE Head(p) = a /\ Tail(p) = <<b>>
  BY <1>2, TwoSteps
<1>3. ASSUME NEW a, p = <<a>> PROVE Head(p) = a /\ Tail(p) = <<>>
  BY <1>3, OneStep
<1>4. QED  BY <1>1, <1>2, <1>3

\* What remains of a report.
LEMMA ReportTail ==
    ASSUME NEW p \in Reporting, p # <<>>
    PROVE  \/ /\ p = <<"export_check", "completed">> /\ Head(p) = "export_check"
              /\ Tail(p) = <<"completed">>
           \/ p = <<"completed">> /\ Head(p) = "completed" /\ Tail(p) = <<>>
           \/ p = <<"failed">> /\ Head(p) = "failed" /\ Tail(p) = <<>>
<1>1. p = <<"export_check", "completed">> \/ p = <<"completed">> \/ p = <<"failed">>
  BY DEF Reporting
<1>2. ASSUME NEW a, NEW b, p = <<a, b>> PROVE Head(p) = a /\ Tail(p) = <<b>>
  BY <1>2, TwoSteps
<1>3. ASSUME NEW a, p = <<a>> PROVE Head(p) = a /\ Tail(p) = <<>>
  BY <1>3, OneStep
<1>4. QED  BY <1>1, <1>2, <1>3

\* All plans are sequences of states and calls.
LEMMA PlanTypes ==
    /\ RpcPlans \subseteq Seq(States \union Calls)
    /\ DispPlans \subseteq Seq(States \union Calls)
    /\ Reporting \subseteq Seq(States \union Calls)
<1>1. /\ RpcPlans \subseteq Seq(States \union Calls)
      /\ Reporting \subseteq Seq(States \union Calls)
  BY DEF RpcPlans, Queueing, Reporting, States, Terminal, BeforeExecution, Calls
<1>2. DispPlans \subseteq Seq(States \union Calls)
  BY DEF DispPlans, Recovering, HandingOver, Attending, Starting, States, Terminal,
         BeforeExecution, Calls
<1>3. QED  BY <1>1, <1>2

-----------------------------------------------------------------------------
(* Types                                                                     *)

\* Another plan for an actor that is not between a read and a write.
LEMMA NewPlanType ==
    ASSUME TypeOK, NEW a \in Actors, a \notin checked,
           NEW p \in Seq(States \union Calls), Plan(a, p)
    PROVE  /\ plan' \in [Actors -> Seq(States \union Calls)]
           /\ checked \subseteq {b \in Actors : plan'[b] # <<>> /\ Head(plan'[b]) \in States}
<1>1. plan' = [plan EXCEPT ![a] = p] /\ plan \in [Actors -> Seq(States \union Calls)]
  BY DEF Plan, TypeOK
<1>2. \A b \in Actors \ {a} : plan'[b] = plan[b]  BY <1>1
<1>3. \A b \in checked : b \in Actors \ {a} /\ plan[b] # <<>> /\ Head(plan[b]) \in States
  BY DEF TypeOK
<1>4. QED  BY <1>1, <1>2, <1>3

\* An idle actor, and one that has come to a call, is not between a read and a
\* write.
LEMMA NotChecked ==
    ASSUME TypeOK, NEW a \in Actors, Idle(a) \/ \E c \in Calls : At(a, c)
    PROVE  a \notin checked
<1>1. \A c \in Calls : c \notin States  BY DEF Calls, States, Terminal, BeforeExecution
<1>2. QED  BY <1>1 DEF TypeOK, Idle, At

\* The first plans of the handlers and threads.
LEMMA NewPlans ==
    /\ {<<"queued">>, <<"MANIFEST", "waiting_inputs">>, <<"cancelled">>, <<"cancel_requested">>}
          \subseteq RpcPlans
    /\ {<<"dispatching", "SUBMIT">>, <<"running", "waiting_local_operator">>,
        <<"running", "WATCH">>, <<"execution_unknown">>} \subseteq DispPlans
    /\ \A r \in {"completed", "failed"} : Outcome(r) \in Reporting /\ Outcome(r) # <<>>
    /\ \A b \in BOOLEAN : resultFile \in {"none", "completed", "failed"} =>
          Adopted(b) \in Reporting /\ Adopted(b) # <<>>
    /\ <<"failed">> \in Reporting /\ <<"failed">> # <<>>
    /\ <<>> \in RpcPlans /\ <<>> \in DispPlans /\ <<>> \in Reporting
<1>1. \A r \in {"completed", "failed"} : Outcome(r) \in Reporting /\ Outcome(r) # <<>>
  BY DEF Outcome, Reporting
<1>2. \A b \in BOOLEAN : resultFile \in {"none", "completed", "failed"} =>
          \E r \in {"completed", "failed"} : Adopted(b) = Outcome(r)
  BY DEF Adopted
<1>3. QED
  BY <1>1, <1>2 DEF RpcPlans, Queueing, DispPlans, Recovering, HandingOver, Attending, Starting,
                    Reporting

\* No report starts with its last step but a failure.
LEMMA OutcomeStarts ==
    /\ \A r \in {"completed", "failed"} : Outcome(r) # <<"completed">>
    /\ \A b \in BOOLEAN : resultFile \in {"none", "completed", "failed"} =>
          Adopted(b) # <<"completed">>
    /\ <<"failed">> # <<"completed">>
<1>1. \A r \in {"completed", "failed"} : Outcome(r) # <<"completed">>
  BY DEF Outcome
<1>2. \A b \in BOOLEAN : resultFile \in {"none", "completed", "failed"} =>
          \E r \in {"completed", "failed"} : Adopted(b) = Outcome(r)
  BY DEF Adopted
<1>3. QED  BY <1>1, <1>2

\* A ledger without the task satisfies the invariant.
LEMMA InitIInv == Init => IInv
<1> SUFFICES ASSUME Init PROVE IInv  OBVIOUS
<1>1. \A a \in Actors : plan[a] = <<>>  BY DEF Init
<1>2. TypeOK
  <2>1. plan \in [Actors -> Seq(States \union Calls)]  BY DEF Init
  <2>2. declared \in Manifests \union {{}}  BY DEF Init
  <2>3. /\ host \in {"down", "starting", "up"} /\ state \in States \union {"absent"}
        /\ submits \in 0..2
    BY DEF Init
  <2>4. /\ offered \subseteq declared /\ complete \subseteq offered
        /\ workspace \subseteq declared
    BY DEF Init
  <2>5. checked \subseteq {a \in Actors : plan[a] # <<>> /\ Head(plan[a]) \in States}
    BY DEF Init
  <2>6. QED  BY <2>1, <2>2, <2>3, <2>4, <2>5 DEF Init, TypeOK
<1>3. Plans  BY <1>1, NewPlans DEF Plans, Actors
<1>4. <<>> \notin Queueing /\ <<>> \in Recovering /\ <<>> \notin HandingOver
      /\ <<>> \notin Attending /\ <<>> \notin Starting
  BY DEF Queueing, Recovering, HandingOver, Attending, Starting
<1>5. EarlyStates /\ Invocation /\ Observer /\ HostStates
  BY <1>1, <1>4 DEF Init, EarlyStates, Invocation, Observer, HostStates, Idle, Actors, Early
<1>6. SubmittedOnce /\ RunningIsWatched  BY DEF Init, SubmittedOnce, RunningIsWatched
<1>7. QED  BY <1>2, <1>3, <1>5, <1>6 DEF IInv

-----------------------------------------------------------------------------
(* TaskStore.transition, by actor                                            *)

\* A transition leaves all but the state, the plan of its actor and the actors
\* between a read and a write.
Elsewhere(a) ==
    /\ UNCHANGED <<host, inputs, invocation, output>>
    /\ \A b \in Actors \ {a} : plan'[b] = plan[b]

\* What a read does: it goes on to the write, skips a state already reached, or
\* drops the plan.
LEMMA CheckEffect ==
    ASSUME IInv, NEW a \in Actors, Check(a)
    PROVE  /\ TypeOK'
           /\ Elsewhere(a)
           /\ state' = state
           /\ plan[a] # <<>> /\ Head(plan[a]) \in States
           /\ \/ plan'[a] = plan[a] /\ checked' = checked \union {a}
                 /\ Head(plan[a]) \in Edges[state] /\ Head(plan[a]) # state
              \/ plan'[a] = Tail(plan[a]) /\ checked' = checked /\ Head(plan[a]) = state
              \/ plan'[a] = <<>> /\ checked' = checked /\ Head(plan[a]) \notin Edges[state]
                 /\ Head(plan[a]) # state
<1>t. TypeOK  BY DEF IInv
<1>p. plan \in [Actors -> Seq(States \union Calls)] /\ plan[a] \in Seq(States \union Calls)
  BY <1>t DEF TypeOK
<1>1. /\ plan[a] # <<>> /\ Head(plan[a]) \in States /\ a \notin checked
      /\ UNCHANGED <<host, state, inputs, invocation, output>>
  BY DEF Check, Idle
<1>2. \/ plan' = plan /\ checked' = checked \union {a}
         /\ Head(plan[a]) \in Edges[state] /\ Head(plan[a]) # state
      \/ Plan(a, Tail(plan[a])) /\ checked' = checked /\ Head(plan[a]) = state
      \/ Plan(a, <<>>) /\ checked' = checked /\ Head(plan[a]) \notin Edges[state]
         /\ Head(plan[a]) # state
  BY DEF Check
<1>3. Tail(plan[a]) \in Seq(States \union Calls) /\ <<>> \in Seq(States \union Calls)
  BY <1>p, <1>1
<1>4. /\ plan' \in [Actors -> Seq(States \union Calls)]
      /\ checked' \subseteq {b \in Actors : plan'[b] # <<>> /\ Head(plan'[b]) \in States}
  <2>1. CASE plan' = plan /\ checked' = checked \union {a}
    BY <1>t, <1>1, <2>1 DEF TypeOK
  <2>2. CASE Plan(a, Tail(plan[a])) /\ checked' = checked
    BY <1>t, <1>1, <1>3, <2>2, NewPlanType
  <2>3. CASE Plan(a, <<>>) /\ checked' = checked
    BY <1>t, <1>1, <1>3, <2>3, NewPlanType
  <2>4. QED  BY <1>2, <2>1, <2>2, <2>3
<1>5. TypeOK'
  BY <1>t, <1>1, <1>4 DEF TypeOK, inputs, invocation, output
<1>6. \A b \in Actors \ {a} : plan'[b] = plan[b]
  BY <1>p, <1>2 DEF Plan
<1>7. QED  BY <1>p, <1>1, <1>2, <1>5, <1>6 DEF Plan, Elsewhere

\* What a write does: the state the plan asks for, whatever the state is now.
LEMMA WriteEffect ==
    ASSUME IInv, NEW a \in Actors, Write(a)
    PROVE  /\ TypeOK'
           /\ Elsewhere(a)
           /\ a \in checked
           /\ plan[a] # <<>> /\ Head(plan[a]) \in States
           /\ state' = Head(plan[a])
           /\ plan'[a] = Tail(plan[a])
           /\ checked' = checked \ {a}
<1>t. TypeOK  BY DEF IInv
<1>p. plan \in [Actors -> Seq(States \union Calls)] /\ plan[a] \in Seq(States \union Calls)
  BY <1>t DEF TypeOK
<1>1. /\ a \in checked /\ state' = Head(plan[a]) /\ checked' = checked \ {a}
      /\ plan' = [plan EXCEPT ![a] = Tail(plan[a])]
      /\ UNCHANGED <<host, inputs, invocation, output>>
  BY DEF Write, Plan
<1>2. plan[a] # <<>> /\ Head(plan[a]) \in States  BY <1>t, <1>1 DEF TypeOK
<1>3. Tail(plan[a]) \in Seq(States \union Calls)  BY <1>p, <1>2
<1>4. \A b \in Actors \ {a} : plan'[b] = plan[b]  BY <1>p, <1>1
<1>5. /\ plan' \in [Actors -> Seq(States \union Calls)]
      /\ checked' \subseteq {b \in Actors : plan'[b] # <<>> /\ Head(plan'[b]) \in States}
  BY <1>t, <1>p, <1>1, <1>3, <1>4 DEF TypeOK
<1>6. TypeOK'
  BY <1>t, <1>1, <1>2, <1>5 DEF TypeOK, inputs, invocation, output
<1>7. QED  BY <1>p, <1>1, <1>2, <1>4, <1>6 DEF Elsewhere

\* The read of the event loop: its plans have one transition left.
LEMMA CheckRpc == IInv /\ Check("rpc") => IInv'
<1> SUFFICES ASSUME IInv, Check("rpc") PROVE IInv'  OBVIOUS
<1> DEFINE p == plan["rpc"]
<1>a. "rpc" \in Actors /\ \A b \in Actors \ {"rpc"} : b \in {"disp", "watch", "cli"}
  BY DEF Actors
<1>1. /\ TypeOK'
      /\ UNCHANGED <<host, declared, invoked, submits, watching, state>>
      /\ plan'["disp"] = plan["disp"] /\ plan'["watch"] = plan["watch"]
      /\ plan'["cli"] = plan["cli"]
      /\ p # <<>> /\ Head(p) \in States
      /\ plan'["rpc"] \in {p, Tail(p), <<>>}
      /\ checked' \subseteq checked \union {"rpc"}
  BY <1>a, CheckEffect DEF Elsewhere, inputs, invocation, Actors
<1>2. p \in RpcPlans  BY DEF IInv, Plans
<1>3. "MANIFEST" \notin States  BY DEF States, Terminal, BeforeExecution
<1>4. Tail(p) = <<>>  BY <1>1, <1>2, <1>3, RpcTail
<1>5. plan'["rpc"] \in {p, <<>>} /\ <<>> \in RpcPlans /\ <<>> \notin Queueing
  BY <1>1, <1>4 DEF RpcPlans, Queueing
<1>6. state # "absent" /\ host = "up"
  BY <1>1 DEF IInv, EarlyStates, HostStates, Idle, Actors, TypeOK
<1>7. Plans'  BY <1>1, <1>2, <1>5 DEF IInv, Plans
<1>8. EarlyStates'  BY <1>1, <1>5, <1>6 DEF IInv, EarlyStates
<1>9. Invocation' /\ Observer' /\ HostStates'
  BY <1>1, <1>6 DEF IInv, Invocation, Observer, HostStates, Idle
<1>10. SubmittedOnce' /\ RunningIsWatched'
  BY <1>1 DEF IInv, SubmittedOnce, RunningIsWatched, Idle
<1>11. QED  BY <1>1, <1>7, <1>8, <1>9, <1>10 DEF IInv

\* Its write: only here does a task become queued, and then it is early.
LEMMA WriteRpc == IInv /\ Write("rpc") => IInv'
<1> SUFFICES ASSUME IInv, Write("rpc") PROVE IInv'  OBVIOUS
<1> DEFINE p == plan["rpc"]
<1>1. /\ TypeOK'
      /\ UNCHANGED <<host, declared, invoked, submits, watching>>
      /\ plan'["disp"] = plan["disp"] /\ plan'["watch"] = plan["watch"]
      /\ plan'["cli"] = plan["cli"]
      /\ p # <<>> /\ Head(p) \in States
      /\ plan'["rpc"] = Tail(p) /\ state' = Head(p)
      /\ checked' \subseteq checked /\ "rpc" \notin checked'
  BY WriteEffect DEF Elsewhere, inputs, invocation, Actors
<1>2. p \in RpcPlans  BY DEF IInv, Plans
<1>3. "MANIFEST" \notin States  BY DEF States, Terminal, BeforeExecution
<1>4. /\ plan'["rpc"] = <<>>
      /\ state' \in {"queued", "waiting_inputs", "cancelled", "cancel_requested"}
      /\ state' \in {"queued", "waiting_inputs"} => p \in Queueing
  BY <1>1, <1>2, <1>3, RpcTail
<1>5. <<>> \in RpcPlans /\ <<>> \notin Queueing  BY DEF RpcPlans, Queueing
<1>6. host = "up"
  BY <1>1 DEF IInv, HostStates, Idle, TypeOK
<1>7. Plans'  BY <1>1, <1>4, <1>5 DEF IInv, Plans
<1>8. state' \in {"queued", "waiting_inputs"} =>
        /\ state \in Early /\ checked \subseteq {"rpc"} /\ plan["disp"] \in Recovering
        /\ submits = 0
  BY <1>4 DEF IInv, EarlyStates, Invocation
<1>9. EarlyStates'  BY <1>1, <1>4, <1>5, <1>8 DEF EarlyStates, Early
<1>10. Invocation'  BY <1>1, <1>4, <1>8 DEF IInv, Invocation, Idle, Early
<1>11. Observer' /\ HostStates'  BY <1>1, <1>4, <1>6 DEF IInv, Observer, HostStates, Idle
<1>12. SubmittedOnce' /\ RunningIsWatched'
  BY <1>1, <1>4 DEF IInv, SubmittedOnce, RunningIsWatched
<1>13. QED  BY <1>1, <1>7, <1>9, <1>10, <1>11, <1>12 DEF IInv

\* The sets of plans of the dispatcher do not meet, but where a plan is a part of
\* another set's.
LEMMA DispKinds ==
    /\ <<"dispatching", "SUBMIT">> \in HandingOver /\ <<"SUBMIT">> \in HandingOver
    /\ <<"running", "waiting_local_operator">> \in Attending
    /\ <<"waiting_local_operator">> \in Attending
    /\ <<"running", "WATCH">> \in Starting /\ <<"WATCH">> \in Starting
    /\ <<"execution_unknown">> \in Recovering /\ <<>> \in Recovering
    /\ \A p \in HandingOver : p \notin Recovering \union Attending \union Starting
    /\ \A p \in Attending \union Starting : p \notin Recovering \union HandingOver
    /\ <<"SUBMIT">> # <<"dispatching", "SUBMIT">>
    /\ <<>> # <<"execution_unknown">>
BY DEF HandingOver, Attending, Starting, Recovering

\* The read of the dispatcher, or of the recovery.
LEMMA CheckDisp == IInv /\ Check("disp") => IInv'
<1> SUFFICES ASSUME IInv, Check("disp") PROVE IInv'  OBVIOUS
<1> DEFINE p == plan["disp"]
           q == plan'["disp"]
<1>1. /\ TypeOK'
      /\ UNCHANGED <<host, declared, invoked, submits, watching, state>>
      /\ plan'["rpc"] = plan["rpc"] /\ plan'["watch"] = plan["watch"]
      /\ plan'["cli"] = plan["cli"]
      /\ p # <<>> /\ Head(p) \in States
      /\ \/ q = p /\ checked' = checked \union {"disp"}
            /\ Head(p) \in Edges[state] /\ Head(p) # state
         \/ q = Tail(p) /\ checked' = checked /\ Head(p) = state
         \/ q = <<>> /\ checked' = checked /\ Head(p) \notin Edges[state]
            /\ Head(p) # state
  BY CheckEffect DEF Elsewhere, inputs, invocation, Actors
<1>2. p \in DispPlans /\ p # <<>>  BY <1>1 DEF IInv, Plans
<1>3. "SUBMIT" \notin States /\ "WATCH" \notin States
  BY DEF States, Terminal, BeforeExecution
<1>4. state # "absent" /\ state \in States
  BY <1>1 DEF IInv, EarlyStates, Idle, Actors, TypeOK
<1>5. \/ p = <<"dispatching", "SUBMIT">> /\ Head(p) = "dispatching" /\ Tail(p) = <<"SUBMIT">>
      \/ /\ p = <<"running", "waiting_local_operator">> /\ Head(p) = "running"
         /\ Tail(p) = <<"waiting_local_operator">>
      \/ /\ p = <<"waiting_local_operator">> /\ Head(p) = "waiting_local_operator"
         /\ Tail(p) = <<>>
      \/ p = <<"running", "WATCH">> /\ Head(p) = "running" /\ Tail(p) = <<"WATCH">>
      \/ p = <<"execution_unknown">> /\ Head(p) = "execution_unknown" /\ Tail(p) = <<>>
  BY <1>1, <1>2, <1>3, DispTail
<1>6. /\ {"queued", "waiting_inputs", "cancelled", "rejected"} = Edges["received"]
      /\ {"queued", "cancelled", "expired"} = Edges["waiting_inputs"]
      /\ {"waiting_local_operator", "execution_unknown"} \subseteq Edges["running"]
  BY DEF Edges, States, Terminal, BeforeExecution
<1>7. /\ q \in DispPlans
      /\ q = p \/ (q = Tail(p) /\ Head(p) = state) \/ q = <<>>
      /\ q \in HandingOver => p \in HandingOver
      /\ q = <<"dispatching", "SUBMIT">> => p = q
      /\ q \in Attending \union Starting => p \in Attending \union Starting
      /\ q = <<"SUBMIT">> => q = p \/ state = "dispatching"
      /\ q \in Recovering \/ p \notin Recovering
  BY <1>1, <1>2, <1>5, DispKinds DEF DispPlans
<1>8. Plans'  BY <1>1, <1>7 DEF IInv, Plans
<1>9. state \in Early => p = <<"execution_unknown">> /\ q \in Recovering
                         /\ checked' = checked
  BY <1>1, <1>4, <1>5, <1>6, DispKinds DEF IInv, EarlyStates, Early
<1>10. state = "queued" => q \in Recovering \union {<<"dispatching", "SUBMIT">>}
  BY <1>1, <1>5, <1>7, DispKinds DEF IInv, EarlyStates
<1>11. EarlyStates'
  BY <1>1, <1>4, <1>9, <1>10 DEF IInv, EarlyStates
<1>12. Invocation' /\ Observer'
  BY <1>1, <1>7 DEF IInv, Invocation, Observer, Idle
<1>13. host # "up" => p = <<"execution_unknown">>
  BY <1>1, <1>2, DispKinds DEF IInv, HostStates, Idle, TypeOK, Recovering
<1>14. host # "up" /\ state = "running" => q = p
  BY <1>1, <1>5, <1>6, <1>13
<1>15. host # "down"  BY <1>1 DEF IInv, HostStates, Idle
<1>16. HostStates'
  <2>1. host # "up" => q \in Recovering
    BY <1>1, <1>5, <1>13, DispKinds
  <2>2. QED  BY <1>1, <1>14, <1>15, <2>1, <1>13 DEF IInv, HostStates, Idle
<1>17. RunningIsWatched'
  <2>1. SUFFICES ASSUME state = "running" PROVE q # <<>>
    BY <1>1 DEF RunningIsWatched, Idle
  <2>2. p # <<"dispatching", "SUBMIT">>
    BY <2>1, DispKinds DEF IInv, Invocation
  <2>3. QED  BY <1>1, <1>2, <1>5, <1>6, <2>1, <2>2, OneStep
<1>18. QED
  BY <1>1, <1>8, <1>11, <1>12, <1>16, <1>17 DEF IInv, SubmittedOnce

\* Its write: the only one that makes a task running, by a plan that goes on.
LEMMA WriteDisp == IInv /\ Write("disp") => IInv'
<1> SUFFICES ASSUME IInv, Write("disp") PROVE IInv'  OBVIOUS
<1> DEFINE p == plan["disp"]
           q == plan'["disp"]
<1>1. /\ TypeOK'
      /\ UNCHANGED <<host, declared, invoked, submits, watching>>
      /\ plan'["rpc"] = plan["rpc"] /\ plan'["watch"] = plan["watch"]
      /\ plan'["cli"] = plan["cli"]
      /\ "disp" \in checked
      /\ p # <<>> /\ Head(p) \in States
      /\ q = Tail(p) /\ state' = Head(p)
      /\ checked' \subseteq checked
  BY WriteEffect DEF Elsewhere, inputs, invocation, Actors
<1>2. p \in DispPlans /\ p # <<>>  BY <1>1 DEF IInv, Plans
<1>3. "SUBMIT" \notin States /\ "WATCH" \notin States
  BY DEF States, Terminal, BeforeExecution
<1>4. \/ p = <<"dispatching", "SUBMIT">> /\ Head(p) = "dispatching" /\ Tail(p) = <<"SUBMIT">>
      \/ /\ p = <<"running", "waiting_local_operator">> /\ Head(p) = "running"
         /\ Tail(p) = <<"waiting_local_operator">>
      \/ /\ p = <<"waiting_local_operator">> /\ Head(p) = "waiting_local_operator"
         /\ Tail(p) = <<>>
      \/ p = <<"running", "WATCH">> /\ Head(p) = "running" /\ Tail(p) = <<"WATCH">>
      \/ p = <<"execution_unknown">> /\ Head(p) = "execution_unknown" /\ Tail(p) = <<>>
  BY <1>1, <1>2, <1>3, DispTail
<1>5. state \notin Early
  BY <1>1 DEF IInv, EarlyStates
<1>6. /\ state' \notin Early \union {"queued"}
      /\ q \in DispPlans
      /\ q \in HandingOver => p \in HandingOver
      /\ q \in Attending \union Starting => p \in Attending \union Starting
      /\ state' = "dispatching" => p \in HandingOver
      /\ state' = "running" => p \in Attending \union Starting /\ q # <<>>
  BY <1>1, <1>2, <1>4, DispKinds, OneStep DEF DispPlans, Early
<1>7. plan["rpc"] \notin Queueing  BY <1>5 DEF IInv, EarlyStates
<1>8. Plans'  BY <1>1, <1>6 DEF IInv, Plans
<1>9. EarlyStates'  BY <1>1, <1>6, <1>7 DEF EarlyStates, Early
<1>10. Invocation' /\ Observer'
  BY <1>1, <1>6, NewPlans, OneStep DEF IInv, Invocation, Observer, Idle
<1>11. HostStates'
  <2>1. host # "up" => p = <<"execution_unknown">> /\ host # "down"
    BY <1>1, <1>2, DispKinds DEF IInv, HostStates, Idle, TypeOK, Recovering
  <2>2. host # "up" => q = <<>> /\ state' = "execution_unknown"
    BY <1>1, <1>4, <2>1, OneStep
  <2>3. QED  BY <1>1, <2>1, <2>2, DispKinds DEF IInv, HostStates, Idle
<1>12. RunningIsWatched'
  BY <1>1, <1>6 DEF RunningIsWatched, Idle
<1>13. QED
  BY <1>1, <1>8, <1>9, <1>10, <1>11, <1>12 DEF IInv, SubmittedOnce

\* The reads of the watcher and of the command line.
LEMMA CheckReport ==
    ASSUME IInv, NEW a \in {"watch", "cli"}, Check(a)
    PROVE  IInv'
<1> DEFINE p == plan[a]
           q == plan'[a]
<1>1. /\ TypeOK'
      /\ UNCHANGED <<host, declared, invoked, submits, watching, state>>
      /\ plan'["rpc"] = plan["rpc"] /\ plan'["disp"] = plan["disp"]
      /\ \A b \in {"watch", "cli"} : b # a => plan'[b] = plan[b]
      /\ p # <<>>
      /\ \/ q = p /\ checked' = checked \union {a}
            /\ Head(p) \in Edges[state] /\ Head(p) # state
         \/ q = Tail(p) /\ checked' = checked /\ Head(p) = state
         \/ q = <<>> /\ checked' = checked /\ Head(p) \notin Edges[state]
            /\ Head(p) # state
  BY CheckEffect DEF Elsewhere, inputs, invocation, Actors
<1>2. p \in Reporting  BY DEF IInv, Plans
<1>3. \/ /\ p = <<"export_check", "completed">> /\ Head(p) = "export_check"
         /\ Tail(p) = <<"completed">>
      \/ p = <<"completed">> /\ Head(p) = "completed" /\ Tail(p) = <<>>
      \/ p = <<"failed">> /\ Head(p) = "failed" /\ Tail(p) = <<>>
  BY <1>1, <1>2, ReportTail
<1>4. state # "absent"
  BY <1>1 DEF IInv, EarlyStates, Idle, Actors
<1>5. /\ {"queued", "waiting_inputs", "cancelled", "rejected"} = Edges["received"]
      /\ {"queued", "cancelled", "expired"} = Edges["waiting_inputs"]
      /\ {"export_check", "failed"} \subseteq Edges["running"]
  BY DEF Edges, States, Terminal, BeforeExecution
<1>6. q \in Reporting /\ (q = <<"completed">> => q = p \/ state = "export_check")
  BY <1>1, <1>2, <1>3, NewPlans, OneStep DEF Reporting
<1>7. Plans'  BY <1>1, <1>6 DEF IInv, Plans
<1>8. state \in Early => checked' = checked
  BY <1>1, <1>3, <1>4, <1>5 DEF Early
<1>9. EarlyStates'  BY <1>1, <1>4, <1>8 DEF IInv, EarlyStates
<1>10. /\ ~Idle(a)
       /\ a = "watch" => submits # 0 /\ ~watching
            /\ plan["disp"] \notin Attending \union Starting /\ host = "up"
  BY <1>1 DEF IInv, Invocation, Observer, HostStates, Idle, TypeOK
<1>11. Invocation'
  BY <1>1, <1>10 DEF IInv, Invocation, Idle
<1>12. Observer'
  BY <1>1, <1>6, <1>10 DEF IInv, Observer, Idle
<1>13. HostStates'  BY <1>1, <1>10 DEF IInv, HostStates, Idle
<1>14. RunningIsWatched'
  <2>1. CASE a = "cli"  BY <1>1, <2>1 DEF IInv, RunningIsWatched, Idle
  <2>2. CASE a = "watch"
    <3>1. SUFFICES ASSUME state = "running" PROVE q # <<>>
      BY <1>1, <2>2 DEF RunningIsWatched, Idle
    <3>2. p # <<"completed">>  BY <2>2, <3>1 DEF IInv, Observer
    <3>3. QED  BY <1>1, <1>3, <1>5, <3>1, <3>2
  <2>3. QED  BY <2>1, <2>2
<1>15. QED
  BY <1>1, <1>7, <1>9, <1>11, <1>12, <1>13, <1>14 DEF IInv, SubmittedOnce

\* Their writes: an outcome, and of no task that is still early.
LEMMA WriteReport ==
    ASSUME IInv, NEW a \in {"watch", "cli"}, Write(a)
    PROVE  IInv'
<1> DEFINE p == plan[a]
           q == plan'[a]
<1>1. /\ TypeOK'
      /\ UNCHANGED <<host, declared, invoked, submits, watching>>
      /\ plan'["rpc"] = plan["rpc"] /\ plan'["disp"] = plan["disp"]
      /\ \A b \in {"watch", "cli"} : b # a => plan'[b] = plan[b]
      /\ p # <<>> /\ a \in checked
      /\ q = Tail(p) /\ state' = Head(p)
      /\ checked' \subseteq checked
  BY WriteEffect DEF Elsewhere, inputs, invocation, Actors
<1>2. p \in Reporting  BY DEF IInv, Plans
<1>3. \/ /\ p = <<"export_check", "completed">> /\ Head(p) = "export_check"
         /\ Tail(p) = <<"completed">>
      \/ p = <<"completed">> /\ Head(p) = "completed" /\ Tail(p) = <<>>
      \/ p = <<"failed">> /\ Head(p) = "failed" /\ Tail(p) = <<>>
  BY <1>1, <1>2, ReportTail
<1>4. q \in Reporting  BY <1>1, <1>3, NewPlans DEF Reporting
<1>5. state' \in {"export_check", "completed", "failed"}  BY <1>1, <1>3
<1>6. state \notin Early  BY <1>1 DEF IInv, EarlyStates
<1>7. plan["rpc"] \notin Queueing  BY <1>6 DEF IInv, EarlyStates
<1>8. Plans'  BY <1>1, <1>4 DEF IInv, Plans
<1>9. EarlyStates'  BY <1>1, <1>5, <1>7 DEF EarlyStates, Early
<1>10. a = "watch" => submits # 0 /\ ~watching
         /\ plan["disp"] \notin Attending \union Starting /\ host = "up"
  BY <1>1 DEF IInv, Invocation, Observer, HostStates, Idle, TypeOK
<1>11. Invocation'
  BY <1>1, <1>5, <1>10 DEF IInv, Invocation, Idle, Early
<1>12. Observer'  BY <1>1, <1>5, <1>10 DEF IInv, Observer, Idle
<1>13. HostStates'  BY <1>1, <1>5, <1>10 DEF IInv, HostStates, Idle
<1>14. RunningIsWatched'  BY <1>5 DEF RunningIsWatched
<1>15. QED
  BY <1>1, <1>8, <1>9, <1>11, <1>12, <1>13, <1>14 DEF IInv, SubmittedOnce

-----------------------------------------------------------------------------
(* The coordinator's calls                                                   *)

\* A call that gives the event loop a plan, and changes nothing but inputs.
LEMMA CallEffect ==
    ASSUME IInv, Serving, Known,
           UNCHANGED <<host, state, declared, checked, invoked, submits, watching, proc,
                       resultFile>>,
           unread' \in BOOLEAN,
           question' \in {"none", "pending", "answered"}, manifest' \in BOOLEAN,
           offered' \subseteq declared, complete' \subseteq offered', workspace' \subseteq declared,
           \/ plan' = plan
           \/ state \in Early /\ Plan("rpc", <<"queued">>)
           \/ Plan("rpc", <<"cancelled">>)
           \/ Plan("rpc", <<"cancel_requested">>)
    PROVE  IInv'
<1>t. TypeOK /\ "rpc" \in Actors  BY DEF IInv, Actors
<1>p. plan \in [Actors -> Seq(States \union Calls)]  BY <1>t DEF TypeOK
<1>1. /\ host = "up" /\ plan["rpc"] = <<>> /\ state # "absent"  BY DEF Serving, Idle, Known
<1>2. "rpc" \notin checked  BY <1>t, <1>1, NotChecked DEF Idle
<1>3. /\ plan'["disp"] = plan["disp"] /\ plan'["watch"] = plan["watch"]
      /\ plan'["cli"] = plan["cli"]
      /\ plan'["rpc"] \in {<<>>, <<"queued">>, <<"cancelled">>, <<"cancel_requested">>}
      /\ plan'["rpc"] = <<"queued">> => state \in Early
  <2>1. \A r : Plan("rpc", r) => /\ plan'["rpc"] = r
                                 /\ \A b \in {"disp", "watch", "cli"} : plan'[b] = plan[b]
    BY <1>p DEF Plan, Actors
  <2>2. <<"cancelled">> # <<"queued">> /\ <<"cancel_requested">> # <<"queued">>
        /\ <<>> # <<"queued">>
    OBVIOUS
  <2>3. QED  BY <1>1, <2>1, <2>2
<1>4. /\ plan' \in [Actors -> Seq(States \union Calls)]
      /\ checked \subseteq {b \in Actors : plan'[b] # <<>> /\ Head(plan'[b]) \in States}
  <2>1. CASE plan' = plan  BY <1>t, <2>1 DEF TypeOK
  <2>2. CASE \E r \in {<<"queued">>, <<"cancelled">>, <<"cancel_requested">>} : Plan("rpc", r)
    <3>1. PICK r \in {<<"queued">>, <<"cancelled">>, <<"cancel_requested">>} : Plan("rpc", r)
      BY <2>2
    <3>2. r \in Seq(States \union Calls)  BY <3>1, NewPlans, PlanTypes
    <3>3. QED  BY <1>t, <1>2, <3>1, <3>2, NewPlanType
  <2>3. QED  BY <2>1, <2>2
<1>5. TypeOK'
  BY <1>t, <1>4 DEF TypeOK
<1>6. /\ plan'["rpc"] \in RpcPlans
      /\ plan'["rpc"] \in Queueing => plan'["rpc"] = <<"queued">>
  BY <1>3, NewPlans DEF Queueing
<1>7. Plans'  BY <1>3, <1>6 DEF IInv, Plans
<1>8. EarlyStates'  BY <1>1, <1>3, <1>6 DEF IInv, EarlyStates
<1>9. Invocation' /\ Observer' /\ HostStates'
  BY <1>1, <1>3 DEF IInv, Invocation, Observer, HostStates, Idle
<1>10. SubmittedOnce' /\ RunningIsWatched'
  BY <1>3 DEF IInv, SubmittedOnce, RunningIsWatched, Idle
<1>11. QED  BY <1>5, <1>7, <1>8, <1>9, <1>10 DEF IInv

\* An offer adds an artifact, and may find the inputs complete.
LEMMA ArtifactOfferStep ==
    ASSUME IInv, NEW a, NEW same \in BOOLEAN, ArtifactOffer(a, same)
    PROVE  IInv'
<1>t. TypeOK  BY DEF IInv
<1>1. /\ Serving /\ Known /\ a \in declared
      /\ offered' = offered \union {a}
      /\ complete' \subseteq offered'
      /\ UNCHANGED <<host, state, declared, manifest, question, checked, invoked, submits,
                     watching, proc, resultFile, unread>>
  BY <1>t DEF ArtifactOffer, invocation, output, TypeOK
<1>2. /\ workspace' \in {workspace, offered}
      /\ plan' = plan \/ (state \in Early /\ Plan("rpc", <<"queued">>))
  BY DEF ArtifactOffer, InputsMayBeReady, InputsReady, Early
<1>3. offered' \subseteq declared /\ workspace' \subseteq declared
  BY <1>t, <1>1, <1>2 DEF TypeOK
<1>4. QED  BY <1>t, <1>1, <1>2, <1>3, CallEffect DEF TypeOK

\* A batch completes an artifact or not, and may find the inputs complete.
LEMMA ArtifactPutStep ==
    ASSUME IInv, NEW a, NEW whole \in BOOLEAN, ArtifactPut(a, whole)
    PROVE  IInv'
<1>t. TypeOK  BY DEF IInv
<1>1. /\ Serving /\ Known /\ a \in offered
      /\ complete' \subseteq offered
      /\ UNCHANGED <<host, state, declared, manifest, offered, question, checked, invoked,
                     submits, watching, proc, resultFile, unread>>
  BY <1>t DEF ArtifactPut, invocation, output, TypeOK
<1>2. /\ workspace' \in {workspace, offered}
      /\ plan' = plan \/ (state \in Early /\ Plan("rpc", <<"queued">>))
  BY DEF ArtifactPut, InputsMayBeReady, InputsReady, Early
<1>3. offered' \subseteq declared /\ workspace' \subseteq declared
  BY <1>t, <1>1, <1>2 DEF TypeOK
<1>4. QED  BY <1>t, <1>1, <1>2, <1>3, CallEffect DEF TypeOK

\* A task has been asked about only when it exists.
LEMMA OtherCallsStep ==
    IInv /\ (InputSubmit \/ AgentNote \/ CancelRequest) => IInv'
<1> SUFFICES ASSUME IInv, InputSubmit \/ AgentNote \/ CancelRequest PROVE IInv'  OBVIOUS
<1>t. TypeOK  BY DEF IInv
<1>1. CASE InputSubmit
  <2>1. /\ Serving /\ question # "none" /\ question' = "answered"
        /\ plan' = plan \/ (state \in Early /\ Plan("rpc", <<"queued">>))
        /\ UNCHANGED <<host, state, declared, manifest, offered, complete, workspace, checked,
                       invoked, submits, watching, proc, resultFile, unread>>
    BY <1>1 DEF InputSubmit, invocation, output, Early
  <2>2. Known  BY <2>1 DEF Known, IInv, EarlyStates
  <2>3. QED  BY <1>t, <2>1, <2>2, CallEffect DEF TypeOK
<1>2. CASE AgentNote
  BY <1>t, <1>2, CallEffect DEF AgentNote, inputs, actors, invocation, TypeOK
<1>3. CASE CancelRequest
  BY <1>t, <1>3, CallEffect DEF CancelRequest, inputs, invocation, output, TypeOK
<1>4. QED  BY <1>1, <1>2, <1>3

\* A submission writes the row of a task that nobody works on yet.
LEMMA TaskSubmitStep ==
    ASSUME IInv, NEW d \in Manifests, TaskSubmit(d)
    PROVE  IInv'
<1> DEFINE r == IF d = {} THEN <<"queued">> ELSE <<"MANIFEST", "waiting_inputs">>
<1>t. TypeOK /\ "rpc" \in Actors  BY DEF IInv, Actors
<1>p. plan \in [Actors -> Seq(States \union Calls)]  BY <1>t DEF TypeOK
<1>1. /\ host = "up" /\ state = "absent" /\ state' = "received" /\ declared' = d
      /\ \A a \in Actors : plan[a] = <<>>
      /\ declared = {} /\ Plan("rpc", r)
      /\ UNCHANGED <<host, manifest, offered, complete, workspace, question, checked,
                     invoked, submits, watching, proc, resultFile, unread>>
  BY DEF TaskSubmit, Serving, Known, invocation, output, IInv, EarlyStates, Idle
<1>2. r \in Queueing /\ r \in RpcPlans  BY DEF Queueing, RpcPlans
<1>3. plan' = [plan EXCEPT !["rpc"] = r]  BY <1>1 DEF Plan
<1> HIDE DEF r
<1>4. /\ plan'["disp"] = <<>> /\ plan'["watch"] = <<>> /\ plan'["cli"] = <<>>
      /\ plan'["rpc"] = r
  BY <1>p, <1>1, <1>3 DEF Actors
<1>5. TypeOK'
  <2>1. "rpc" \notin checked  BY <1>t, <1>1, NotChecked DEF Idle
  <2>2. r \in Seq(States \union Calls)  BY <1>2, PlanTypes
  <2>3. /\ plan' \in [Actors -> Seq(States \union Calls)]
        /\ checked \subseteq {b \in Actors : plan'[b] # <<>> /\ Head(plan'[b]) \in States}
    BY <1>t, <1>1, <2>1, <2>2, NewPlanType
  <2>4. "received" \in States  BY DEF States, BeforeExecution
  <2>5. QED  BY <1>t, <1>1, <2>3, <2>4 DEF TypeOK
<1>6. Plans'  BY <1>2, <1>4, NewPlans DEF Plans
<1>7. EarlyStates'
  BY <1>1, <1>4, DispKinds DEF IInv, EarlyStates, Early
<1>8. Invocation' /\ Observer' /\ HostStates'
  BY <1>1, <1>4, DispKinds DEF IInv, Invocation, Observer, HostStates, Idle, Early
<1>9. SubmittedOnce' /\ RunningIsWatched'
  BY <1>1 DEF IInv, SubmittedOnce, RunningIsWatched
<1>10. QED  BY <1>5, <1>6, <1>7, <1>8, <1>9 DEF IInv

\* The manifest follows the row, before the first transition.
LEMMA RecordManifestStep == IInv /\ RecordManifest => IInv'
<1> SUFFICES ASSUME IInv, RecordManifest PROVE IInv'  OBVIOUS
<1> DEFINE p == plan["rpc"]
<1>t. TypeOK /\ "rpc" \in Actors  BY DEF IInv, Actors
<1>p. plan \in [Actors -> Seq(States \union Calls)]  BY <1>t DEF TypeOK
<1>1. /\ p # <<>> /\ Head(p) = "MANIFEST" /\ manifest' = TRUE
      /\ plan' = [plan EXCEPT !["rpc"] = Tail(p)]
      /\ UNCHANGED <<host, state, declared, offered, complete, workspace, question, checked,
                     invoked, submits, watching, proc, resultFile, unread>>
  BY DEF RecordManifest, At, Idle, Plan, invocation, output
<1>2. p = <<"MANIFEST", "waiting_inputs">> /\ Tail(p) = <<"waiting_inputs">>
  <2>1. p \in RpcPlans  BY DEF IInv, Plans
  <2>2. p = <<"MANIFEST", "waiting_inputs">>  BY <1>1, <2>1, RpcTail
  <2>3. QED  BY <2>2, TwoSteps
<1>3. /\ plan'["disp"] = plan["disp"] /\ plan'["watch"] = plan["watch"]
      /\ plan'["cli"] = plan["cli"] /\ plan'["rpc"] = <<"waiting_inputs">>
  BY <1>p, <1>1, <1>2 DEF Actors
<1>4. state \in Early /\ host = "up" /\ state # "absent"
  BY <1>1, <1>2 DEF IInv, EarlyStates, HostStates, Idle, Queueing, Actors, TypeOK
<1>5. TypeOK'
  <2>1. "rpc" \notin checked
    BY <1>t, <1>1, NotChecked DEF At, Idle, Calls
  <2>2. <<"waiting_inputs">> \in Seq(States \union Calls)
    BY PlanTypes DEF RpcPlans, Queueing
  <2>3. /\ plan' \in [Actors -> Seq(States \union Calls)]
        /\ checked \subseteq {b \in Actors : plan'[b] # <<>> /\ Head(plan'[b]) \in States}
    BY <1>t, <1>1, <1>2, <2>1, <2>2, NewPlanType DEF Plan
  <2>4. QED  BY <1>t, <1>1, <2>3 DEF TypeOK
<1>6. Plans'  BY <1>3 DEF IInv, Plans, RpcPlans, Queueing
<1>7. EarlyStates'  BY <1>1, <1>3, <1>4 DEF IInv, EarlyStates
<1>8. Invocation' /\ Observer' /\ HostStates'
  BY <1>1, <1>3, <1>4 DEF IInv, Invocation, Observer, HostStates, Idle
<1>9. SubmittedOnce' /\ RunningIsWatched'
  BY <1>1, <1>3 DEF IInv, SubmittedOnce, RunningIsWatched, Idle
<1>10. QED  BY <1>5, <1>6, <1>7, <1>8, <1>9 DEF IInv

-----------------------------------------------------------------------------
(* The dispatcher and the watcher                                            *)

\* A thread that comes to a new plan, other state being as it is.
LEMMA ThreadTypes ==
    ASSUME TypeOK, NEW a \in Actors, Idle(a) \/ \E c \in Calls : At(a, c),
           NEW p \in RpcPlans \union DispPlans \union Reporting, Plan(a, p),
           UNCHANGED <<state, inputs, checked, unread>>,
           host' \in {"down", "starting", "up"},
           invoked' \in BOOLEAN, submits' \in 0..2, watching' \in BOOLEAN,
           proc' \in {"none", "running", "ok", "fail"},
           resultFile' \in {"none", "completed", "failed"}
    PROVE  /\ TypeOK'
           /\ plan'[a] = p
           /\ \A b \in Actors \ {a} : plan'[b] = plan[b]
<1>1. a \notin checked  BY NotChecked
<1>2. p \in Seq(States \union Calls)  BY PlanTypes
<1>3. /\ plan' \in [Actors -> Seq(States \union Calls)]
      /\ checked \subseteq {b \in Actors : plan'[b] # <<>> /\ Head(plan'[b]) \in States}
  BY <1>1, <1>2, NewPlanType
<1>4. TypeOK'  BY <1>3 DEF TypeOK, inputs
<1>5. QED  BY <1>4 DEF TypeOK, Plan

\* A claim takes a queued task, which the adapter has not had.
LEMMA ClaimStep == IInv /\ Claim => IInv'
<1> SUFFICES ASSUME IInv, Claim PROVE IInv'  OBVIOUS
<1> DEFINE r == <<"dispatching", "SUBMIT">>
<1>1. /\ host = "up" /\ Idle("disp") /\ state = "queued" /\ invoked' = TRUE
      /\ Plan("disp", r)
      /\ UNCHANGED <<host, state, inputs, checked, submits, watching, proc, output>>
  BY DEF Claim, Claimable
<1>2. r \in DispPlans /\ r \in HandingOver  BY NewPlans, DispKinds
<1> HIDE DEF r
<1>3. /\ TypeOK' /\ plan'["disp"] = r
      /\ plan'["rpc"] = plan["rpc"] /\ plan'["watch"] = plan["watch"]
      /\ plan'["cli"] = plan["cli"] /\ declared' = declared
  BY <1>1, <1>2, ThreadTypes DEF IInv, TypeOK, output, Actors, inputs
<1>4. submits = 0 /\ state \notin Early
  BY <1>1 DEF IInv, Invocation, Early
<1>5. Plans'  BY <1>2, <1>3 DEF IInv, Plans
<1>6. EarlyStates'
  BY <1>1, <1>3, <1>4 DEF IInv, EarlyStates, r, Early
<1>7. Invocation' /\ Observer' /\ HostStates'
  BY <1>1, <1>2, <1>3, <1>4, DispKinds DEF IInv, Invocation, Observer, HostStates, Idle
<1>8. SubmittedOnce' /\ RunningIsWatched'
  BY <1>1 DEF IInv, SubmittedOnce, RunningIsWatched
<1>9. QED  BY <1>3, <1>5, <1>6, <1>7, <1>8 DEF IInv

\* The adapter gets the task: it had never had it.
LEMMA SubmitStep ==
    ASSUME IInv, NEW r \in {<<"running", "waiting_local_operator">>, <<"running", "WATCH">>,
                            <<"execution_unknown">>},
           At("disp", "SUBMIT"), Plan("disp", r),
           submits' = (IF submits < 2 THEN submits + 1 ELSE submits),
           proc' \in {"none", "running", "ok", "fail"},
           UNCHANGED <<host, state, inputs, checked, invoked, watching, output>>
    PROVE  IInv'
<1> DEFINE p == plan["disp"]
<1>1. p \in DispPlans /\ p # <<>> /\ Head(p) = "SUBMIT"
  BY DEF IInv, Plans, At, Idle
<1>2. p = <<"SUBMIT">>  BY <1>1, DispTail
<1>3. /\ submits = 0 /\ submits' = 1 /\ ~watching /\ Idle("watch")
      /\ p \notin Recovering /\ p # <<"dispatching", "SUBMIT">>
  BY <1>2, DispKinds DEF IInv, Invocation
<1>4. host = "up" /\ state \notin Early \union {"queued"}
  BY <1>2, <1>3, DispKinds DEF IInv, EarlyStates, HostStates, TypeOK, Idle, Recovering
<1>5. /\ r \in DispPlans /\ r # <<>> /\ r \notin HandingOver
  BY NewPlans, DispKinds
<1>6. /\ TypeOK' /\ plan'["disp"] = r
      /\ plan'["rpc"] = plan["rpc"] /\ plan'["watch"] = plan["watch"]
      /\ plan'["cli"] = plan["cli"] /\ declared' = declared
  BY <1>3, <1>5, ThreadTypes DEF IInv, TypeOK, output, Actors, inputs, Calls
<1>7. Plans'  BY <1>5, <1>6 DEF IInv, Plans
<1>8. EarlyStates'
  BY <1>4, <1>6 DEF IInv, EarlyStates, Early
<1>9. Invocation' /\ Observer' /\ HostStates'
  BY <1>3, <1>4, <1>5, <1>6 DEF IInv, Invocation, Observer, HostStates, Idle
<1>10. SubmittedOnce' /\ RunningIsWatched'
  BY <1>3, <1>5, <1>6 DEF SubmittedOnce, RunningIsWatched, Idle
<1>11. QED  BY <1>6, <1>7, <1>8, <1>9, <1>10 DEF IInv

\* The dispatcher: claim, submit, its failure, and the new watcher.
LEMMA DispatcherStep == IInv /\ Dispatcher => IInv'
<1> SUFFICES ASSUME IInv, Dispatcher PROVE IInv'  OBVIOUS
<1>t. TypeOK  BY DEF IInv
<1>1. CASE Claim  BY <1>1, ClaimStep
<1>2. CASE \E attended \in BOOLEAN : Submit(attended)
  BY <1>t, <1>2, SubmitStep DEF Submit, Started, TypeOK
<1>3. CASE SubmitRaises
  BY <1>t, <1>3, SubmitStep DEF SubmitRaises, Started, TypeOK
<1>4. CASE StartWatcher
  <2> DEFINE p == plan["disp"]
  <2>1. /\ At("disp", "WATCH") /\ watching' = TRUE /\ Plan("disp", <<>>)
        /\ UNCHANGED <<host, state, inputs, checked, invoked, submits, proc, output>>
    BY <1>4 DEF StartWatcher
  <2>2. p \in DispPlans /\ p # <<>> /\ Head(p) = "WATCH"
    BY <2>1 DEF IInv, Plans, At, Idle
  <2>3. p = <<"WATCH">>  BY <2>2, DispTail
  <2>4. submits # 0 /\ Idle("watch") /\ p \notin Recovering
    BY <2>3, DispKinds DEF IInv, Invocation, Observer
  <2>5. host = "up" /\ state \notin Early \union {"queued"}
    BY <2>3, <2>4, DispKinds DEF IInv, Invocation, HostStates, TypeOK, Idle, Recovering
  <2>6. /\ TypeOK' /\ plan'["disp"] = <<>>
        /\ plan'["rpc"] = plan["rpc"] /\ plan'["watch"] = plan["watch"]
        /\ plan'["cli"] = plan["cli"] /\ declared' = declared
    BY <1>t, <2>1, NewPlans, ThreadTypes DEF TypeOK, output, Actors, inputs, Calls
  <2>7. Plans'  BY <2>6, NewPlans DEF IInv, Plans
  <2>8. EarlyStates'
    BY <2>1, <2>5, <2>6 DEF IInv, EarlyStates, Early
  <2>9. Invocation' /\ Observer' /\ HostStates'
    BY <2>1, <2>4, <2>5, <2>6, DispKinds DEF IInv, Invocation, Observer, HostStates, Idle
  <2>10. SubmittedOnce' /\ RunningIsWatched'
    BY <2>1 DEF IInv, SubmittedOnce, RunningIsWatched
  <2>11. QED  BY <2>6, <2>7, <2>8, <2>9, <2>10 DEF IInv
<1>5. QED  BY <1>1, <1>2, <1>3, <1>4 DEF Dispatcher

\* What touches neither the state nor a plan nor a thread.
LEMMA QuietStep ==
    ASSUME IInv, TypeOK',
           UNCHANGED <<host, state, declared, actors, invoked, submits, watching>>,
           state = "absent" => question' = "none"
    PROVE  IInv'
<1>1. Plans' /\ EarlyStates'
  BY DEF IInv, Plans, EarlyStates, Idle, actors
<1>2. Invocation' /\ Observer' /\ HostStates'
  BY DEF IInv, Invocation, Observer, HostStates, Idle, actors
<1>3. SubmittedOnce' /\ RunningIsWatched'
  BY DEF IInv, SubmittedOnce, RunningIsWatched, Idle, actors
<1>4. QED  BY <1>1, <1>2, <1>3 DEF IInv

\* The watcher ends, resumes the worker, or reports its outcome.
LEMMA WatcherStep == IInv /\ Watcher => IInv'
<1> SUFFICES ASSUME IInv, Watcher PROVE IInv'  OBVIOUS
<1>t. TypeOK  BY DEF IInv
<1>0. watching /\ plan["watch"] = <<>> /\ submits # 0 /\ host = "up"
      /\ plan["disp"] \notin Attending \union Starting
  BY DEF Watcher, WatchDone, Resume, Finalize, Exited, IInv, Observer, Invocation, HostStates,
         Idle
<1>1. CASE WatchDone
  <2>1. /\ state \in Terminal /\ watching' = FALSE
        /\ UNCHANGED <<host, state, inputs, actors, invoked, submits, proc, output>>
    BY <1>1 DEF WatchDone
  <2>2. state # "running"  BY <2>1 DEF Terminal
  <2>3. TypeOK'
    <3>1. /\ watching' \in BOOLEAN
          /\ UNCHANGED <<host, state, declared, manifest, offered, complete, workspace,
                        question, plan, checked, invoked, submits, proc, resultFile, unread>>
      BY <2>1 DEF inputs, actors, output
    <3>2. QED  BY <1>t, <3>1, SMT DEF TypeOK
  <2>4. Plans' /\ EarlyStates'
    BY <2>1 DEF IInv, Plans, EarlyStates, Idle, actors, inputs
  <2>5. Invocation' /\ Observer' /\ HostStates'
    BY <2>1 DEF IInv, Invocation, Observer, HostStates, Idle, actors
  <2>6. SubmittedOnce' /\ RunningIsWatched'
    BY <2>1, <2>2 DEF IInv, SubmittedOnce, RunningIsWatched
  <2>7. QED  BY <2>3, <2>4, <2>5, <2>6 DEF IInv
<1>2. CASE Resume
  <2>1. TypeOK'  BY <1>t, <1>2 DEF Resume, TypeOK, inputs, actors
  <2>2. QED
    BY <1>2, <2>1, QuietStep DEF Resume, inputs, IInv, EarlyStates
<1>3. CASE Finalize
  <2>1. PICK r \in Reporting \ {<<>>} : Plan("watch", r)
    BY <1>t, <1>3, NewPlans DEF Finalize, TypeOK
  <2>2. /\ watching' = FALSE /\ state \notin Terminal
        /\ UNCHANGED <<host, state, inputs, checked, invoked, submits, proc, output>>
    BY <1>3 DEF Finalize
  <2>3. /\ TypeOK' /\ plan'["watch"] = r
        /\ plan'["rpc"] = plan["rpc"] /\ plan'["disp"] = plan["disp"]
        /\ plan'["cli"] = plan["cli"] /\ declared' = declared
    <3>1. /\ "watch" \in Actors /\ Idle("watch") /\ unread' = unread
          /\ r \in RpcPlans \union DispPlans \union Reporting
      BY <1>0, <2>2 DEF Actors, Idle, output
    <3>2. /\ host' \in {"down", "starting", "up"} /\ invoked' \in BOOLEAN
          /\ submits' \in 0..2 /\ watching' \in BOOLEAN
          /\ proc' \in {"none", "running", "ok", "fail"}
          /\ resultFile' \in {"none", "completed", "failed"}
      BY <1>t, <2>2 DEF TypeOK, output
    <3>3. /\ TypeOK' /\ plan'["watch"] = r
          /\ \A b \in Actors \ {"watch"} : plan'[b] = plan[b]
      BY <1>t, <2>1, <2>2, <3>1, <3>2, ThreadTypes
    <3>4. QED  BY <2>2, <3>3 DEF Actors, inputs
  <2>4. r # <<"completed">>
    BY <1>t, <1>3, <2>1, <2>3, OutcomeStarts DEF Finalize, TypeOK, Plan, Actors
  <2>5. Plans'  BY <2>3 DEF IInv, Plans
  <2>6. EarlyStates'
    <3>1. state \notin Early \union {"queued"}  BY <1>0 DEF IInv, Invocation
    <3>2. QED  BY <2>2, <2>3, <3>1 DEF IInv, EarlyStates, Early
  <2>7. Invocation' /\ Observer' /\ HostStates'
    BY <1>0, <2>2, <2>3, <2>4 DEF IInv, Invocation, Observer, HostStates, Idle
  <2>8. SubmittedOnce' /\ RunningIsWatched'
    BY <2>1, <2>2, <2>3 DEF IInv, SubmittedOnce, RunningIsWatched, Idle
  <2>9. QED  BY <2>3, <2>5, <2>6, <2>7, <2>8 DEF IInv
<1>4. QED  BY <1>1, <1>2, <1>3 DEF Watcher

-----------------------------------------------------------------------------
(* The worker, and the host's crash and restart                              *)

\* The worker's exit and the command line.
LEMMA WorkerStep == IInv /\ Worker => IInv'
<1> SUFFICES ASSUME IInv, Worker PROVE IInv'  OBVIOUS
<1>t. TypeOK  BY DEF IInv
<1>1. CASE \E c \in {"ok", "fail"} : WorkerExit(c)
  <2>1. TypeOK'  BY <1>t, <1>1 DEF WorkerExit, TypeOK, inputs, actors, output
  <2>2. QED  BY <1>1, <2>1, QuietStep DEF WorkerExit, inputs, IInv, EarlyStates
<1>2. CASE WorkerAsk
  <2>1. TypeOK'  BY <1>t, <1>2 DEF WorkerAsk, TypeOK, actors, invocation, output
  <2>2. QED
    BY <1>2, <2>1, QuietStep DEF WorkerAsk, CliReady, Known, invocation
<1>3. CASE WorkerInbox
  <2>1. TypeOK'
    <3>1. /\ unread' \in BOOLEAN
          /\ UNCHANGED <<host, state, declared, manifest, offered, complete, workspace,
                        question, plan, checked, invoked, submits, watching, proc, resultFile>>
      BY <1>3 DEF WorkerInbox, inputs, actors, invocation
    <3>2. QED  BY <1>t, <3>1, SMT DEF TypeOK
  <2>2. QED
    BY <1>3, <2>1, QuietStep, ZenonT(60) DEF WorkerInbox, CliReady, Known, invocation, inputs
<1>4. CASE \E r \in {"completed", "failed"} : WorkerFinish(r)
  <2>1. PICK r \in {"completed", "failed"} : WorkerFinish(r)  BY <1>4
  <2>2. /\ state # "absent" /\ plan["cli"] = <<>> /\ resultFile' = r
        /\ Plan("cli", Outcome(r))
        /\ UNCHANGED <<host, state, inputs, checked, invoked, submits, watching, proc, unread>>
    BY <2>1 DEF WorkerFinish, CliReady, Known, Idle, invocation
  <2>3. Outcome(r) \in Reporting  BY <2>1, NewPlans
  <2>4. /\ host' \in {"down", "starting", "up"} /\ invoked' \in BOOLEAN
        /\ submits' \in 0..2 /\ watching' \in BOOLEAN
        /\ proc' \in {"none", "running", "ok", "fail"}
        /\ resultFile' \in {"none", "completed", "failed"}
    BY <1>t, <2>1, <2>2 DEF TypeOK
  <2>5. "cli" \in Actors /\ Idle("cli")  BY <2>2 DEF Actors, Idle
  <2>6. /\ TypeOK' /\ plan'["cli"] = Outcome(r)
        /\ \A b \in Actors \ {"cli"} : plan'[b] = plan[b]
    BY <1>t, <2>2, <2>3, <2>4, <2>5, ThreadTypes
  <2>7. /\ plan'["rpc"] = plan["rpc"] /\ plan'["disp"] = plan["disp"]
        /\ plan'["watch"] = plan["watch"] /\ declared' = declared /\ question' = question
    BY <2>2, <2>6 DEF Actors, inputs
  <2>8. Plans' /\ EarlyStates'
    BY <2>2, <2>3, <2>6, <2>7 DEF IInv, Plans, EarlyStates
  <2>9. Invocation' /\ Observer' /\ HostStates'
    BY <2>2, <2>7 DEF IInv, Invocation, Observer, HostStates, Idle
  <2>10. SubmittedOnce' /\ RunningIsWatched'
    BY <2>2, <2>7 DEF IInv, SubmittedOnce, RunningIsWatched, Idle
  <2>11. QED  BY <2>6, <2>8, <2>9, <2>10 DEF IInv
<1>5. QED  BY <1>1, <1>2, <1>3, <1>4 DEF Worker

\* The threads and the event loop are gone; the command line goes on.
LEMMA CrashStep == IInv /\ Crash => IInv'
<1> SUFFICES ASSUME IInv, Crash PROVE IInv'  OBVIOUS
<1>t. TypeOK  BY DEF IInv
<1>1. /\ host' = "down" /\ watching' = FALSE
      /\ plan' = [a \in Actors |-> IF a = "cli" THEN plan[a] ELSE <<>>]
      /\ checked' = checked \intersect {"cli"}
      /\ UNCHANGED <<state, inputs, invoked, submits, proc, output>>
  BY DEF Crash
<1>2. /\ plan'["rpc"] = <<>> /\ plan'["disp"] = <<>> /\ plan'["watch"] = <<>>
      /\ plan'["cli"] = plan["cli"]
  BY <1>1 DEF Actors
<1>3. TypeOK'
  <2>1. plan' \in [Actors -> Seq(States \union Calls)]
    BY <1>t, <1>1 DEF TypeOK
  <2>2. checked' \subseteq {a \in Actors : plan'[a] # <<>> /\ Head(plan'[a]) \in States}
    BY <1>t, <1>1, <1>2 DEF TypeOK
  <2>3. QED  BY <1>t, <1>1, <2>1, <2>2 DEF TypeOK, inputs, output
<1>4. Plans'  BY <1>2, NewPlans DEF IInv, Plans
<1>5. <<>> \notin Queueing /\ <<>> \in Recovering /\ <<>> \notin HandingOver
      /\ <<>> \notin Attending \union Starting /\ <<>> # <<"completed">>
  BY DEF Queueing, Recovering, HandingOver, Attending, Starting
<1>6. EarlyStates'
  <2>1. state = "absent" => /\ declared' = {} /\ question' = "none"
                            /\ \A a \in Actors : plan'[a] = <<>>
    BY <1>1 DEF IInv, EarlyStates, Idle, inputs
  <2>2. QED  BY <1>1, <1>2, <1>5, <2>1 DEF IInv, EarlyStates, Idle
<1>7. Invocation' /\ Observer' /\ HostStates'
  BY <1>1, <1>2, <1>5 DEF IInv, Invocation, Observer, HostStates, Idle
<1>8. SubmittedOnce' /\ RunningIsWatched'
  BY <1>1 DEF IInv, SubmittedOnce, RunningIsWatched
<1>9. QED  BY <1>3, <1>4, <1>6, <1>7, <1>8 DEF IInv

\* The restart takes every interrupted task for one that may have started.
LEMMA RestartStep == IInv /\ Restart => IInv'
<1> SUFFICES ASSUME IInv, Restart PROVE IInv'  OBVIOUS
<1> DEFINE r == IF state \in Interrupted THEN <<"execution_unknown">> ELSE <<>>
<1>t. TypeOK  BY DEF IInv
<1>1. /\ host = "down" /\ host' = "starting"
      /\ Plan("disp", IF state \in Interrupted THEN <<Verdict>> ELSE <<>>)
      /\ UNCHANGED <<state, inputs, checked, invoked, submits, watching, proc, output>>
  BY DEF Restart, invocation
<1>2. state \in Interrupted => Verdict = "execution_unknown"
  BY DEF Verdict, IInv, Invocation
<1>3. Plan("disp", r)  BY <1>1, <1>2
<1>4. /\ r \in Recovering /\ r \in DispPlans /\ r \notin HandingOver
      /\ r \notin Attending \union Starting
      /\ state = "running" => r = <<"execution_unknown">>
  BY NewPlans, DispKinds DEF Interrupted
<1>5. /\ plan["rpc"] = <<>> /\ plan["watch"] = <<>> /\ Idle("disp") /\ ~watching
  BY <1>1 DEF IInv, HostStates, Idle
<1>6. state = "absent" => r = <<>>  BY DEF Interrupted
<1> HIDE DEF r
<1>7. /\ host' \in {"down", "starting", "up"} /\ invoked' \in BOOLEAN
      /\ submits' \in 0..2 /\ watching' \in BOOLEAN
      /\ proc' \in {"none", "running", "ok", "fail"}
      /\ resultFile' \in {"none", "completed", "failed"} /\ unread' = unread
  BY <1>t, <1>1 DEF TypeOK, output
<1>8. /\ TypeOK' /\ plan'["disp"] = r
      /\ \A b \in Actors \ {"disp"} : plan'[b] = plan[b]
  BY <1>t, <1>1, <1>3, <1>4, <1>5, <1>7, ThreadTypes DEF Actors
<1>9. /\ plan'["rpc"] = <<>> /\ plan'["watch"] = <<>> /\ plan'["cli"] = plan["cli"]
      /\ declared' = declared /\ question' = question
  BY <1>1, <1>5, <1>8 DEF Actors, inputs
<1>10. Plans'  BY <1>4, <1>8, <1>9, NewPlans DEF IInv, Plans
<1>11. EarlyStates'
  <2>1. state = "absent" => \A a \in Actors : plan'[a] = <<>>
    BY <1>6, <1>8 DEF IInv, EarlyStates, Idle
  <2>2. QED
    BY <1>1, <1>4, <1>5, <1>8, <1>9, <2>1 DEF IInv, EarlyStates, Idle
<1>12. Invocation' /\ Observer' /\ HostStates'
  BY <1>1, <1>4, <1>5, <1>8, <1>9 DEF IInv, Invocation, Observer, HostStates, Idle
<1>13. SubmittedOnce' /\ RunningIsWatched'
  BY <1>1 DEF IInv, SubmittedOnce, RunningIsWatched
<1>14. QED  BY <1>8, <1>10, <1>11, <1>12, <1>13 DEF IInv

\* The recovery has left no running task when the host starts to serve.
LEMMA ServeStep == IInv /\ Serve => IInv'
<1> SUFFICES ASSUME IInv, Serve PROVE IInv'  OBVIOUS
<1>t. TypeOK  BY DEF IInv
<1>1. /\ host = "starting" /\ plan["disp"] = <<>> /\ host' = "up"
      /\ UNCHANGED <<state, inputs, actors, invocation, output>>
  BY DEF Serve, Idle
<1>2. state # "running"  BY <1>1, DispKinds DEF IInv, HostStates
<1>3. TypeOK'  BY <1>t, <1>1 DEF TypeOK, inputs, actors, invocation, output
<1>4. Plans' /\ EarlyStates'
  BY <1>1 DEF IInv, Plans, EarlyStates, Idle, actors, inputs
<1>5. Invocation' /\ Observer' /\ HostStates'
  BY <1>1 DEF IInv, Invocation, Observer, HostStates, Idle, actors, invocation
<1>6. SubmittedOnce' /\ RunningIsWatched'
  BY <1>1, <1>2 DEF IInv, SubmittedOnce, RunningIsWatched, invocation
<1>7. QED  BY <1>3, <1>4, <1>5, <1>6 DEF IInv

-----------------------------------------------------------------------------
\* The coordinator's calls keep the invariant.
LEMMA CoordinatorStep == IInv /\ Coordinator => IInv'
BY TaskSubmitStep, RecordManifestStep, ArtifactOfferStep, ArtifactPutStep, OtherCallsStep
   DEF Coordinator

\* TaskStore.transition keeps the invariant, whoever calls it.
LEMMA TransitionStep ==
    ASSUME IInv, NEW a \in Actors, Check(a) \/ Write(a)
    PROVE  IInv'
<1>1. CASE a = "rpc"  BY <1>1, CheckRpc, WriteRpc
<1>2. CASE a = "disp"  BY <1>2, CheckDisp, WriteDisp
<1>3. CASE a \in {"watch", "cli"}  BY <1>3, CheckReport, WriteReport
<1>4. QED  BY <1>1, <1>2, <1>3 DEF Actors

\* Every step keeps the invariant.
LEMMA NextIInv == IInv /\ [Next]_vars => IInv'
<1> SUFFICES ASSUME IInv, [Next]_vars PROVE IInv'  OBVIOUS
<1>1. CASE UNCHANGED vars
  <2>1. TypeOK'
    BY <1>1 DEF vars, IInv, TypeOK, inputs, actors, invocation, output
  <2>2. QED
    BY <1>1, <2>1, QuietStep DEF vars, inputs, actors, invocation, IInv, EarlyStates
<1>2. CASE Next
  BY <1>2, TransitionStep, CoordinatorStep, DispatcherStep, WatcherStep, WorkerStep,
     CrashStep, RestartStep, ServeStep DEF Next
<1>3. QED  BY <1>1, <1>2

\* The inductive invariant of the ledger, its threads and processes holds always.
THEOREM Invariance == Spec => []IInv
BY InitIInv, NextIInv, PTL DEF Spec

\* Every variable of the task keeps its type.
THEOREM TypeCorrect == Spec => []TypeOK
<1>1. IInv => TypeOK  BY DEF IInv
<1>2. QED  BY <1>1, Invariance, PTL

\* _try_dispatch gives the adapter a task at most once, over any number of
\* crashes and restarts of the host at any point.
THEOREM GivenOnce == Spec => []SubmittedOnce
<1>1. IInv => SubmittedOnce  BY DEF IInv
<1>2. QED  BY <1>1, Invariance, PTL

\* A running task always has a watcher, or a thread that is about to start one or
\* to end its running state, while the host serves.
THEOREM RunningHasWatcher == Spec => []RunningIsWatched
<1>1. IInv => RunningIsWatched  BY DEF IInv
<1>2. QED  BY <1>1, Invariance, PTL

-----------------------------------------------------------------------------
(* What is executed has its inputs                                           *)

\* The inputs are there, or one of the two ways is open that the code leaves.
Ready == declared \subseteq workspace \/ ~manifest \/ question = "answered"

\* The event loop's plans that do not queue the task.
Withheld == {<<>>, <<"cancelled">>, <<"MANIFEST", "waiting_inputs">>, <<"waiting_inputs">>}

\* A task that is not ready has not been queued: it is early, or was cancelled
\* while it was, and no actor is about to queue it or to take it up.
Ungiven ==
    ~Ready => /\ state \in Early \union Terminal
              /\ state \in Terminal => checked = {}
              /\ plan["rpc"] \in Withheld
              /\ plan["disp"] \in Recovering
              /\ submits = 0

\* A step that leaves the state and the plans that count keeps the task back.
LEMMA StillUngiven ==
    ASSUME Ungiven, ~Ready, UNCHANGED <<state, submits>>, checked' \subseteq checked,
           plan'["rpc"] \in Withheld, plan'["disp"] \in Recovering
    PROVE  Ungiven'
BY DEF Ungiven

\* The plans by which a task is kept back: none of them ends in queued.
LEMMA WithheldTail ==
    ASSUME NEW p \in Withheld, p # <<>>, Head(p) \in States
    PROVE  Tail(p) = <<>> /\ Head(p) \in {"cancelled", "waiting_inputs"}
<1>1. p \in RpcPlans  BY NewPlans DEF Withheld, RpcPlans, Queueing
<1>2. p # <<"MANIFEST", "waiting_inputs">>
  <2>1. Head(<<"MANIFEST", "waiting_inputs">>) = "MANIFEST"  BY TwoSteps
  <2>2. "MANIFEST" \notin States  BY DEF States, Terminal, BeforeExecution
  <2>3. QED  BY <2>1, <2>2
<1>3. PICK s \in {"cancelled", "waiting_inputs"} : p = <<s>>  BY <1>2 DEF Withheld
<1>4. QED  BY <1>3, OneStep

\* No edge leaves a terminal state.
LEMMA NoEdgeFromTerminal == \A s \in Terminal : s \in States /\ Edges[s] = {}
BY DEF Edges, Terminal, States, BeforeExecution

\* Transitions: the event loop cancels a task that is kept back or lets it wait;
\* the other actors are refused.
LEMMA UngivenTransition ==
    ASSUME IInv, IInv', Ungiven, NEW a \in Actors, Check(a) \/ Write(a)
    PROVE  Ungiven'
<1> SUFFICES ASSUME ~Ready' PROVE Ungiven'  BY DEF Ungiven
<1>1. Elsewhere(a)  BY CheckEffect, WriteEffect
<1>2. ~Ready /\ submits' = submits
  BY <1>1 DEF Elsewhere, Ready, inputs, invocation
<1>3. /\ state \in Early \union Terminal /\ plan["rpc"] \in Withheld
      /\ plan["disp"] \in Recovering /\ submits = 0
      /\ state \in Terminal => checked = {}
      /\ state \in Early => checked \subseteq {"rpc"}
  BY <1>2 DEF Ungiven, IInv, EarlyStates
<1>w. <<>> \in Withheld /\ <<>> \in Recovering  BY DEF Withheld, Recovering
<1>4. CASE Check(a)
  <2>1. /\ state' = state /\ plan[a] # <<>> /\ Head(plan[a]) \in States
        /\ plan'[a] \in {plan[a], Tail(plan[a]), <<>>}
        /\ \/ checked' = checked
           \/ checked' = checked \union {a} /\ Head(plan[a]) \in Edges[state]
    BY <1>4, CheckEffect
  <2>2. state \in Terminal => checked' = {}
    BY <1>3, <2>1, NoEdgeFromTerminal
  <2>3. plan'["rpc"] \in Withheld
    <3>1. CASE a = "rpc"
      <4>1. Tail(plan["rpc"]) = <<>>  BY <1>3, <2>1, <3>1, WithheldTail
      <4>2. QED  BY <1>3, <1>w, <2>1, <3>1, <4>1
    <3>2. CASE a # "rpc"  BY <1>1, <1>3, <3>2 DEF Elsewhere, Actors
    <3>3. QED  BY <3>1, <3>2
  <2>4. plan'["disp"] \in Recovering
    <3>1. CASE a = "disp"
      <4>1. plan["disp"] = <<"execution_unknown">>  BY <1>3, <2>1, <3>1 DEF Recovering
      <4>2. Tail(plan["disp"]) = <<>>  BY <4>1, OneStep
      <4>3. QED  BY <1>3, <1>w, <2>1, <3>1, <4>2
    <3>2. CASE a # "disp"  BY <1>1, <1>3, <3>2 DEF Elsewhere, Actors
    <3>3. QED  BY <3>1, <3>2
  <2>5. QED  BY <1>2, <1>3, <2>1, <2>2, <2>3, <2>4 DEF Ungiven
<1>5. CASE Write(a)
  <2>1. /\ a \in checked /\ checked' = checked \ {a}
        /\ plan[a] # <<>> /\ Head(plan[a]) \in States
        /\ state' = Head(plan[a]) /\ plan'[a] = Tail(plan[a])
    BY <1>5, WriteEffect
  <2>2. a = "rpc" /\ checked' = {}  BY <1>3, <2>1
  <2>3. plan'["rpc"] = <<>> /\ state' \in {"cancelled", "waiting_inputs"}
    BY <1>3, <2>1, <2>2, WithheldTail
  <2>4. plan'["disp"] = plan["disp"]  BY <1>1, <2>2 DEF Elsewhere, Actors
  <2>5. state' \in Early \union Terminal  BY <2>3 DEF Early, Terminal
  <2>6. QED  BY <1>2, <1>3, <1>w, <2>2, <2>3, <2>4, <2>5 DEF Ungiven
<1>6. QED  BY <1>4, <1>5

\* The coordinator's calls: the manifest is recorded before the task is queued, a
\* task with a manifest is queued for its inputs only when they are unpacked, and
\* one that waits can be cancelled.
LEMMA UngivenCoordinator ==
    ASSUME IInv, Ungiven, Coordinator
    PROVE  Ungiven'
<1> SUFFICES ASSUME ~Ready' PROVE Ungiven'  BY DEF Ungiven
<1>t. TypeOK /\ "rpc" \in Actors /\ "disp" \in Actors  BY DEF IInv, Actors
<1>p. plan \in [Actors -> Seq(States \union Calls)]  BY <1>t DEF TypeOK
<1>w. /\ {<<>>, <<"cancelled">>, <<"MANIFEST", "waiting_inputs">>, <<"waiting_inputs">>}
            \subseteq Withheld
      /\ <<>> \in Recovering
  BY DEF Withheld, Recovering
<1>1. CASE \E d \in Manifests : TaskSubmit(d)
  <2>1. PICK d \in Manifests : TaskSubmit(d)  BY <1>1
  <2>2. /\ state = "absent" /\ state' = "received" /\ declared' = d
        /\ UNCHANGED <<manifest, workspace, question, submits>>
    BY <2>1 DEF TaskSubmit, Known, invocation
  <2>3. d # {}  BY <2>2 DEF Ready
  <2>4. Plan("rpc", <<"MANIFEST", "waiting_inputs">>)  BY <2>1, <2>3 DEF TaskSubmit
  <2>5. plan'["rpc"] = <<"MANIFEST", "waiting_inputs">> /\ plan'["disp"] = <<>>
    BY <1>t, <1>p, <2>2, <2>4 DEF Plan, IInv, EarlyStates, Idle
  <2>6. submits = 0 /\ state' \in Early /\ state' \notin Terminal
    BY <2>2 DEF IInv, Invocation, Early, Terminal
  <2>7. QED  BY <1>w, <2>2, <2>5, <2>6 DEF Ungiven
<1>2. CASE RecordManifest
  <2>1. /\ At("rpc", "MANIFEST") /\ Plan("rpc", Tail(plan["rpc"]))
        /\ state' = state /\ submits' = submits
    BY <1>2 DEF RecordManifest, invocation
  <2>2. plan["rpc"] = <<"MANIFEST", "waiting_inputs">>
    BY <2>1, RpcTail DEF At, Idle, IInv, Plans
  <2>3. plan'["rpc"] = <<"waiting_inputs">> /\ plan'["disp"] = plan["disp"]
    <3>1. Tail(plan["rpc"]) = <<"waiting_inputs">>  BY <2>2, TwoSteps
    <3>2. QED  BY <1>t, <1>p, <2>1, <3>1 DEF Plan
  <2>4. state \in Early  BY <2>2 DEF IInv, EarlyStates, Queueing
  <2>5. submits = 0 /\ plan["disp"] \in Recovering /\ state \notin Terminal
    BY <2>4 DEF IInv, EarlyStates, Invocation, Early, Terminal
  <2>6. QED  BY <1>w, <2>1, <2>3, <2>4, <2>5 DEF Ungiven
<1>3. ASSUME UNCHANGED <<declared, manifest, state, checked, submits>>,
             workspace' = workspace \/ (manifest => declared \subseteq workspace'),
             question = "answered" => question' = "answered",
             \/ plan' = plan
             \/ plan["rpc"] = <<>> /\ Plan("rpc", <<"cancelled">>) /\ ~Ready
             \/ Ready'
      PROVE  Ungiven'
  <2>1. ~Ready  BY <1>3 DEF Ready
  <2>2. plan["rpc"] \in Withheld /\ plan["disp"] \in Recovering  BY <2>1 DEF Ungiven
  <2>3. plan'["rpc"] \in Withheld /\ plan'["disp"] \in Recovering
    BY <1>t, <1>p, <1>w, <1>3, <2>2 DEF Plan
  <2>4. QED  BY <1>3, <2>1, <2>3, StillUngiven
<1>4. CASE \E a \in Artifacts, b \in BOOLEAN : ArtifactOffer(a, b) \/ ArtifactPut(a, b)
  <2>1. /\ UNCHANGED <<declared, manifest, state, checked, submits, question>>
        /\ \/ plan' = plan /\ workspace' = workspace
           \/ manifest => declared \subseteq workspace'
    <3>1. \E off, com : \/ UNCHANGED <<workspace, plan>>
                        \/ InputsMayBeReady(off, com)
      BY <1>4 DEF ArtifactOffer, ArtifactPut
    <3>2. QED
      BY <1>4, <3>1 DEF ArtifactOffer, ArtifactPut, InputsMayBeReady, InputsReady, invocation
  <2>2. (manifest => declared \subseteq workspace') => Ready'  BY <2>1 DEF Ready
  <2>3. QED  BY <1>3, <2>1, <2>2
<1>5. CASE InputSubmit
  <2>1. question' = "answered"  BY <1>5 DEF InputSubmit
  <2>2. QED  BY <2>1 DEF Ready
<1>6. CASE AgentNote
  BY <1>3, <1>6 DEF AgentNote, inputs, actors, invocation
<1>7. CASE CancelRequest
  <2>1. /\ plan["rpc"] = <<>> /\ state # "absent" /\ state \notin Terminal
        /\ Plan("rpc", <<IF state \in BeforeExecution THEN "cancelled" ELSE "cancel_requested">>)
        /\ UNCHANGED <<state, declared, manifest, workspace, question, checked, submits>>
    BY <1>7 DEF CancelRequest, Serving, Known, Idle, inputs, invocation
  <2>2. ~Ready  BY <2>1 DEF Ready
  <2>3. state \in BeforeExecution
    BY <2>1, <2>2 DEF Ungiven, Early, BeforeExecution
  <2>4. QED  BY <1>3, <2>1, <2>2, <2>3
<1>8. QED  BY <1>1, <1>2, <1>4, <1>5, <1>6, <1>7 DEF Coordinator

\* The threads, the worker and the host: nobody claims a task that is kept back,
\* so nobody submits it, and a recovery passes over it.
LEMMA UngivenThreads ==
    ASSUME IInv, Ungiven, Dispatcher \/ Watcher \/ Worker \/ Crash \/ Restart \/ Serve
    PROVE  Ungiven'
<1> SUFFICES ASSUME ~Ready' PROVE Ungiven'  BY DEF Ungiven
<1>t. TypeOK /\ "rpc" \in Actors /\ "disp" \in Actors  BY DEF IInv, Actors
<1>p. plan \in [Actors -> Seq(States \union Calls)]  BY <1>t DEF TypeOK
<1>w. <<>> \in Withheld /\ <<>> \in Recovering  BY DEF Withheld, Recovering
<1>1. /\ UNCHANGED <<declared, manifest, workspace, state>>
      /\ question = "answered" => question' = "answered"
  BY DEF Dispatcher, Claim, Submit, SubmitRaises, StartWatcher, Watcher, WatchDone, Resume,
         Finalize, Worker, WorkerExit, WorkerFinish, WorkerAsk, WorkerInbox, Crash, Restart,
         Serve, inputs
<1>2. ~Ready  BY <1>1 DEF Ready
<1>3. /\ state \in Early \union Terminal /\ plan["rpc"] \in Withheld
      /\ plan["disp"] \in Recovering
  BY <1>2 DEF Ungiven
<1>4. ~Dispatcher
  <2>1. state # "queued"  BY <1>3 DEF Early, Terminal
  <2>2. ~At("disp", "SUBMIT") /\ ~At("disp", "WATCH")
    <3>1. Head(<<"execution_unknown">>) = "execution_unknown"  BY OneStep
    <3>2. QED  BY <1>3, <3>1 DEF At, Idle, Recovering
  <2>3. QED
    BY <2>1, <2>2 DEF Dispatcher, Claim, Claimable, Submit, SubmitRaises, StartWatcher
<1>5. CASE Watcher \/ Worker \/ Serve
  <2>1. submits' = submits /\ checked' = checked
    BY <1>5 DEF Watcher, WatchDone, Resume, Finalize, Worker, WorkerExit, WorkerFinish,
                WorkerAsk, WorkerInbox, Serve, invocation, actors
  <2>2. \/ plan' = plan
        \/ \E a \in {"watch", "cli"} : \E q : plan' = [plan EXCEPT ![a] = q]
    BY <1>5 DEF Watcher, WatchDone, Resume, Finalize, Worker, WorkerExit, WorkerFinish,
                WorkerAsk, WorkerInbox, Serve, actors, Plan
  <2>3. plan'["rpc"] = plan["rpc"] /\ plan'["disp"] = plan["disp"]
    BY <1>t, <1>p, <2>2
  <2>4. QED  BY <1>1, <1>2, <1>3, <2>1, <2>3, StillUngiven
<1>6. CASE Crash
  <2>1. /\ plan'["rpc"] = <<>> /\ plan'["disp"] = <<>> /\ submits' = submits
        /\ checked' \subseteq checked
    BY <1>t, <1>6 DEF Crash
  <2>2. QED  BY <1>1, <1>2, <1>w, <2>1, StillUngiven
<1>7. CASE Restart
  <2>1. state \notin Interrupted  BY <1>3 DEF Early, Terminal, Interrupted
  <2>2. Plan("disp", <<>>) /\ submits' = submits /\ checked' = checked
    BY <1>7, <2>1 DEF Restart, invocation
  <2>3. plan'["disp"] = <<>> /\ plan'["rpc"] = plan["rpc"]
    BY <1>t, <1>p, <2>2 DEF Plan
  <2>4. QED  BY <1>1, <1>2, <1>3, <1>w, <2>2, <2>3, StillUngiven
<1>8. QED  BY <1>4, <1>5, <1>6, <1>7

\* The dispatcher is never given a task whose manifest is recorded and whose inputs
\* are not unpacked, unless the answer to a question queued it.
THEOREM WorkHasInputs == Spec => []ExecutedWithInputs
<1>1. Init => Ungiven
  BY DEF Init, Ungiven, Ready
<1>2. IInv /\ Ungiven /\ [Next]_vars => Ungiven'
  <2> SUFFICES ASSUME IInv, Ungiven, [Next]_vars PROVE Ungiven'  OBVIOUS
  <2>1. CASE UNCHANGED vars
    <3>1. UNCHANGED <<state, checked, plan, submits, declared, workspace, manifest, question>>
      BY <2>1 DEF vars, inputs, actors, invocation
    <3>2. QED  BY <3>1 DEF Ungiven, Ready
  <2>2. CASE Next
    <3>1. IInv'  BY <2>2, NextIInv
    <3>2. QED
      BY <2>2, <3>1, UngivenTransition, UngivenCoordinator, UngivenThreads DEF Next
  <2>3. QED  BY <2>1, <2>2
<1>3. Ungiven => ExecutedWithInputs
  BY DEF Ungiven, Ready, ExecutedWithInputs
<1>4. QED  BY <1>1, <1>2, <1>3, Invariance, PTL DEF Spec
-----------------------------------------------------------------------------
(* The sessions: what travels and what is kept.                             *)
Session == [post : 1..MaxPosts, guest : Guests \union {None}, nonce : Nat]
Upward ==
    [kind : {"init", "finish"}] \union [kind : {"session"}, session : Session \union {None}]
    \union [kind : {"ready"}, session : Session]
Downward == [kind : {"challenge", "ok", "reject", "reattached"}] \union [kind : {"proof"}, post : 1..MaxPosts]

Invitation == [status : {"none", "active", "consumed", "expired"}, by : Session \union {None}, node : Nat]
Command ==
    [pc : {"idle", "join", "admission", "session", "proved", "open"},
     nonce : 0..MaxDials, post : 0..MaxPosts, session : Session \union {None}]
Service ==
    [pc : {"gone", "queued", "init", "challenged", "admitted", "ready", "rpc"},
     guest : Guests \union {None}, post : 0..MaxPosts, session : Session \union {None}]
Line == [up : Upward \union {None}, down : Downward \union {None}]
HostTypes ==
    /\ server \in [post : 1..MaxPosts, node : Nat]
    /\ posts \in [1..MaxPosts -> Invitation]
    /\ serve \in [Sessions!Connections -> Service]
    /\ bindings \in [Guests -> Session \union {None}] /\ bound \subseteq Session
GuestTypes ==
    /\ dials \in 0..MaxDials
    /\ call \in [Guests -> Command]
    /\ cache \in [Guests -> [node : Nat, session : Session] \union {None}]
    /\ wire \in [Sessions!Connections -> Line]

(* The server hands out its invitations one after the other.                *)
InTurn == \E k \in 1..MaxPosts : \A p \in 1..MaxPosts : posts[p].status # "none" <=> p <= k

(* The server took the invitation of s for s, and that does not change.     *)
Taken(s) == s \in Session /\ posts[s.post].status = "consumed" /\ posts[s.post].by = s

(* A guest says ready for a session that the server took, the host binds    *)
(* that one, and it serves only sessions it has bound.                      *)
TakenFirst ==
    /\ \A g \in Guests : call[g].pc = "proved" => Taken(call[g].session) /\ call[g].session.post = call[g].post
    /\ \A n \in Sessions!Connections :
          wire[n].up # None /\ wire[n].up.kind = "ready" => Taken(wire[n].up.session)
    /\ \A s \in bound : Taken(s)
BoundFirst ==
    /\ \A g \in Guests : bindings[g] # None => bindings[g] \in bound
    /\ \A n \in Sessions!Connections : /\ serve[n].pc # "gone" => serve[n].guest \in Guests
                                       /\ serve[n].pc = "rpc" => serve[n].session \in bound

SessionInv == HostTypes /\ GuestTypes /\ InTurn /\ TakenFirst /\ BoundFirst

\* The server never forgets for whom it took an invitation.
LEMMA TakenStays ==
    ASSUME HostTypes, NEW s, Taken(s),
           \/ posts' = posts
           \/ \E p \in 1..MaxPosts : \E x : posts[p].status # "consumed" /\ posts' = [posts EXCEPT ![p] = x]
    PROVE  Taken(s)'
BY DEF HostTypes, Taken, Session

\* A new invitation is the next one.
LEMMA NextInvitation ==
    ASSUME HostTypes, InTurn, Sessions!Published < MaxPosts, NEW node \in Nat, posts' = Sessions!Invite(node)
    PROVE  /\ Sessions!Published + 1 \in 1..MaxPosts
           /\ posts' = [posts EXCEPT ![Sessions!Published + 1] = [status |-> "active", by |-> None, node |-> node]]
           /\ posts[Sessions!Published + 1].status = "none"
           /\ posts' \in [1..MaxPosts -> Invitation]
           /\ InTurn'
<1>1. MaxPosts \in Nat  BY SessionsAssumption
<1>2. PICK k \in 1..MaxPosts : \A p \in 1..MaxPosts : posts[p].status # "none" <=> p <= k  BY DEF InTurn
<1>3. {p \in DOMAIN posts : posts[p].status # "none"} = 1..k  BY <1>1, <1>2 DEF HostTypes
<1>4. Sessions!Published = k
  <2>1. Cardinality(1..k) = k  BY <1>1, <1>2, FS_Interval
  <2>2. Sessions!Published = Cardinality({p \in DOMAIN posts : posts[p].status # "none"})
    BY DEF Sessions!Published, Sessions!Cardinality, Cardinality
  <2>3. QED  BY <1>3, <2>1, <2>2
<1>5. k + 1 \in 1..MaxPosts /\ posts[k + 1].status = "none"  BY <1>1, <1>2, <1>4
<1>6. posts' = [posts EXCEPT ![k + 1] = [status |-> "active", by |-> None, node |-> node]]
  <2>1. posts' = [posts EXCEPT ![k + 1] = [status |-> "active", by |-> None, node |-> node]]
    BY <1>4 DEF Sessions!Invite
  <2>2. QED  BY <2>1
<1>7. posts' \in [1..MaxPosts -> Invitation]
  <2>1. [status |-> "active", by |-> None, node |-> node] \in Invitation  BY DEF Invitation
  <2>2. QED  BY <1>5, <1>6, <2>1 DEF HostTypes
<1>8. \A p \in 1..MaxPosts : posts'[p].status # "none" <=> p <= k + 1
  BY <1>1, <1>2, <1>5, <1>6 DEF HostTypes
<1>9. InTurn'  BY SMTT(30), <1>5, <1>8 DEF InTurn
<1>10. QED  BY <1>4, <1>5, <1>6, <1>7, <1>9

\* The records of the guests' commands that the steps write.
LEMMA CommandRecords ==
    /\ Sessions!Idle \in Command
    /\ \A q \in {"idle", "join"} : [Sessions!Idle EXCEPT !.pc = q] \in Command
    /\ \A c \in Command : \A q \in {"session", "proved", "open"} : [c EXCEPT !.pc = q] \in Command
    /\ \A c \in Command : \A k \in 0..MaxDials :
          [c EXCEPT !.nonce = k] \in Command /\ [c EXCEPT !.nonce = k].pc = c.pc
    /\ \A s \in Session : LET c == [Sessions!Idle EXCEPT !.pc = "admission", !.session = s] IN
          c \in Command /\ c.pc = "admission" /\ c.nonce = 0
    /\ \A p \in 1..MaxPosts : LET c == [Sessions!Idle EXCEPT !.pc = "admission", !.post = p] IN
          c \in Command /\ c.pc = "admission" /\ c.nonce = 0
<1>1. MaxPosts \in Nat /\ MaxDials \in Nat  BY SessionsAssumption
<1>2. Sessions!Idle \in Command  BY <1>1 DEF Sessions!Idle, Command
<1>3. \A q \in {"idle", "join"} : [Sessions!Idle EXCEPT !.pc = q] \in Command
  BY <1>1 DEF Sessions!Idle, Command
<1>4. \A c \in Command : \A q \in {"session", "proved", "open"} : [c EXCEPT !.pc = q] \in Command
  BY DEF Command
<1>5. ASSUME NEW c \in Command, NEW k \in 0..MaxDials
      PROVE  [c EXCEPT !.nonce = k] \in Command /\ [c EXCEPT !.nonce = k].pc = c.pc
  BY DEF Command
<1>i. Sessions!Idle.nonce = 0  BY DEF Sessions!Idle
<1>6. ASSUME NEW s \in Session
      PROVE  LET c == [Sessions!Idle EXCEPT !.pc = "admission", !.session = s] IN
             c \in Command /\ c.pc = "admission" /\ c.nonce = 0
  <2>1. [Sessions!Idle EXCEPT !.pc = "admission"] \in Command  BY <1>2 DEF Command
  <2>2. QED  BY <1>2, <1>i, <2>1 DEF Command
<1>7. ASSUME NEW p \in 1..MaxPosts
      PROVE  LET c == [Sessions!Idle EXCEPT !.pc = "admission", !.post = p] IN
             c \in Command /\ c.pc = "admission" /\ c.nonce = 0
  <2>1. [Sessions!Idle EXCEPT !.pc = "admission"] \in Command  BY <1>2 DEF Command
  <2>2. p \in 0..MaxPosts  BY <1>1
  <2>3. QED  BY <1>2, <1>i, <2>1, <2>2 DEF Command
<1>8. QED  BY <1>2, <1>3, <1>4, <1>5, <1>6, <1>7

\* The records of the connections at the host that the steps write.
LEMMA ServiceRecords ==
    /\ Sessions!Gone \in Service /\ Sessions!Gone.pc = "gone"
    /\ \A g \in Guests : LET s == [Sessions!Gone EXCEPT !.pc = "queued", !.guest = g] IN
          s \in Service /\ s.pc = "queued" /\ s.guest = g
<1>1. MaxPosts \in Nat  BY SessionsAssumption
<1>2. Sessions!Gone \in Service /\ Sessions!Gone.pc = "gone"  BY <1>1 DEF Sessions!Gone, Service
<1>3. ASSUME NEW g \in Guests
      PROVE  LET s == [Sessions!Gone EXCEPT !.pc = "queued", !.guest = g] IN
             s \in Service /\ s.pc = "queued" /\ s.guest = g
  <2>1. [Sessions!Gone EXCEPT !.pc = "queued"] \in Service  BY <1>2 DEF Service
  <2>2. QED  BY <1>2, <2>1 DEF Service
<1>4. QED  BY <1>2, <1>3

\* The lines between the two that the steps write.
LEMMA LineRecords ==
    /\ Sessions!Quiet \in Line /\ Sessions!Quiet.up = None
    /\ \A m \in Upward : [up |-> m, down |-> None] \in Line
    /\ \A m \in Downward : [up |-> None, down |-> m] \in Line
<1>1. Sessions!Quiet \in Line /\ Sessions!Quiet.up = None  BY DEF Sessions!Quiet, Line
<1>2. \A m \in Upward : [up |-> m, down |-> None] \in Line  BY DEF Line
<1>3. \A m \in Downward : [up |-> None, down |-> m] \in Line  BY DEF Line
<1>4. QED  BY <1>1, <1>2, <1>3

\* At the start there is one invitation, and nobody has come.
LEMMA SessionsStart == Sessions!Init => SessionInv
<1> SUFFICES ASSUME Sessions!Init PROVE SessionInv  OBVIOUS
<1>1. MaxPosts \in Nat \ {0} /\ MaxDials \in Nat  BY SessionsAssumption
<1>2. HostTypes
  <2>1. Sessions!Blank \in Invitation  BY DEF Sessions!Blank, Invitation
  <2>2. [Sessions!Blank EXCEPT !.status = "active"] \in Invitation  BY <2>1 DEF Invitation
  <2>3. posts \in [1..MaxPosts -> Invitation]  BY <2>1, <2>2 DEF Sessions!Init
  <2>4. serve \in [Sessions!Connections -> Service]  BY ServiceRecords DEF Sessions!Init
  <2>5. server \in [post : 1..MaxPosts, node : Nat]  BY <1>1 DEF Sessions!Init
  <2>6. QED  BY <2>3, <2>4, <2>5 DEF Sessions!Init, HostTypes
<1>3. GuestTypes
  <2>1. call \in [Guests -> Command]  BY CommandRecords DEF Sessions!Init
  <2>2. wire \in [Sessions!Connections -> Line]  BY LineRecords DEF Sessions!Init
  <2>3. QED  BY SMTT(30), <1>1, <2>1, <2>2 DEF Sessions!Init, GuestTypes
<1>4. InTurn
  <2>1. \A p \in 1..MaxPosts : posts[p].status # "none" <=> p <= 1
    BY <1>1 DEF Sessions!Init, Sessions!Blank
  <2>2. QED  BY <1>1, <2>1 DEF InTurn
<1>5. TakenFirst /\ BoundFirst
  BY DEF Sessions!Init, TakenFirst, BoundFirst, Sessions!Idle, Sessions!Quiet, Sessions!Gone
<1>6. QED  BY <1>2, <1>3, <1>4, <1>5 DEF SessionInv

\* A guest takes the invitation that its session names, which is the one of the
\* proof that the host sent.
LEMMA SubmitKeeps ==
    ASSUME SessionInv, NEW g \in Guests, Sessions!Submit(g)
    PROVE  SessionInv'
<1>t. HostTypes /\ GuestTypes /\ InTurn /\ TakenFirst /\ BoundFirst  BY DEF SessionInv
<1>a. MaxPosts \in Nat \ {0} /\ MaxDials \in Nat  BY SMTT(30), SessionsAssumption
<1>p. PICK p, s : /\ p = call[g].post /\ s = Sessions!Session(call[g].post, g, call[g].nonce)
                  /\ posts' = [posts EXCEPT ![s.post].status = "consumed", ![s.post].by = s]
                  /\ call' = [call EXCEPT ![g].pc = "proved", ![g].session = s]
  <2> WITNESS call[g].post, Sessions!Session(call[g].post, g, call[g].nonce)
  <2> QED  BY ZenonT(30) DEF Sessions!Submit
<1>1. /\ UNCHANGED <<server, bindings, bound, serve, cache, dials>> /\ posts[p].status = "active"
      /\ posts' = [posts EXCEPT ![p].status = "consumed", ![p].by = s]
      /\ call' = [call EXCEPT ![g].pc = "proved", ![g].session = s]
      /\ wire' = [wire EXCEPT ![call[g].nonce] = Sessions!Quiet]
  <2>1. s.post = p  BY SMTT(30), <1>p DEF Sessions!Session
  <2>2. /\ UNCHANGED <<server, bindings, bound, serve, cache, dials>> /\ posts[p].status = "active"
        /\ wire' = [wire EXCEPT ![call[g].nonce] = Sessions!Quiet]
    BY ZenonT(30), <1>p DEF Sessions!Submit
  <2>3. QED  BY <1>p, <2>1, <2>2
<1>2. p \in 1..MaxPosts
  <2>1. call[g].nonce \in Sessions!Connections
    <3>1. call[g].nonce \in 0..MaxDials  BY SMTT(30), <1>t DEF GuestTypes, Command
    <3>2. call[g].nonce # 0  BY SMTT(30) DEF Sessions!Submit, Sessions!Hears
    <3>3. QED  BY <1>a, <3>1, <3>2 DEF Sessions!Connections
  <2>2. wire[call[g].nonce].down \in Downward /\ wire[call[g].nonce].down.kind = "proof"
    <3>1. wire[call[g].nonce] \in Line  BY <1>t, <2>1 DEF GuestTypes
    <3>2. QED  BY <3>1 DEF Sessions!Submit, Sessions!Hears, Line
  <2>3. wire[call[g].nonce].down.post \in 1..MaxPosts  BY <2>2 DEF Downward
  <2>4. QED  BY <1>p, <2>3 DEF Sessions!Submit
<1>3. s \in Session
  <2>1. call[g].nonce \in Nat  BY <1>t, <1>a DEF GuestTypes, Command
  <2>2. QED  BY <1>p, <1>2, <2>1 DEF Session, Sessions!Session
<1>s. call[g].post = p /\ s.post = p  BY <1>p DEF Sessions!Session
<1>4. posts' = [posts EXCEPT ![p] = [posts[p] EXCEPT !.status = "consumed", !.by = s]]
  BY <1>t, <1>1, <1>2 DEF HostTypes
<1>5. HostTypes'
  <2>1. [posts[p] EXCEPT !.status = "consumed", !.by = s] \in Invitation
    <3>1. posts[p] \in Invitation  BY <1>t, <1>2 DEF HostTypes
    <3>2. [posts[p] EXCEPT !.status = "consumed"] \in Invitation  BY <3>1 DEF Invitation
    <3>3. QED  BY <1>3, <3>2 DEF Invitation
  <2>2. posts' \in [1..MaxPosts -> Invitation]  BY <1>t, <1>2, <1>4, <2>1 DEF HostTypes
  <2>3. QED  BY <1>t, <1>1, <2>2 DEF HostTypes
<1>c. /\ call' = [call EXCEPT ![g] = [call[g] EXCEPT !.pc = "proved", !.session = s]]
      /\ [call[g] EXCEPT !.pc = "proved", !.session = s] \in Command
      /\ [call[g] EXCEPT !.pc = "proved", !.session = s].session = s
      /\ [call[g] EXCEPT !.pc = "proved", !.session = s].post = p
  <2>1. call[g] \in Command  BY <1>t DEF GuestTypes
  <2>2. call' = [call EXCEPT ![g] = [call[g] EXCEPT !.pc = "proved", !.session = s]]
    BY <1>t, <1>1 DEF GuestTypes
  <2>3. QED  BY <1>3, <1>s, <2>1, <2>2 DEF Command
<1>6. GuestTypes'
  <2>1. call' \in [Guests -> Command]  BY <1>t, <1>c DEF GuestTypes
  <2>2. wire' \in [Sessions!Connections -> Line]  BY <1>t, <1>1, LineRecords DEF GuestTypes
  <2>3. QED  BY <1>t, <1>1, <2>1, <2>2 DEF GuestTypes
<1>7. InTurn'
  <2>1. \A q \in 1..MaxPosts : posts'[q].status # "none" <=> posts[q].status # "none"
    BY <1>t, <1>1, <1>2, <1>4 DEF HostTypes, Invitation
  <2>2. QED  BY <1>t, <2>1 DEF InTurn
<1>8. \A x : Taken(x) => Taken(x)'  BY <1>t, <1>1, <1>2, <1>4, TakenStays
<1>9. Taken(s)'
  <2>1. posts'[p].status = "consumed" /\ posts'[p].by = s
    <3>1. posts[p] \in Invitation  BY <1>t, <1>2 DEF HostTypes
    <3>2. posts'[p] = [posts[p] EXCEPT !.status = "consumed", !.by = s]  BY <1>t, <1>2, <1>4 DEF HostTypes
    <3>3. DOMAIN posts[p] = {"status", "by", "node"}  BY <3>1 DEF Invitation
    <3>4. QED  BY <3>2, <3>3
  <2>2. QED  BY <1>3, <1>s, <2>1 DEF Taken
<1>10. TakenFirst'
  <2>1. \A h \in Guests : call'[h] = call[h] \/ (call'[h].session = s /\ call'[h].post = p)
    BY <1>t, <1>c DEF GuestTypes
  <2>2. \A n \in Sessions!Connections : wire'[n] = wire[n] \/ wire'[n].up = None
    BY <1>t, <1>1, LineRecords DEF GuestTypes
  <2>3. bound' = bound  BY <1>1
  <2> USE DEF TakenFirst
  <2>4. \A h \in Guests : (call[h].pc = "proved" =>
          Taken(call[h].session) /\ call[h].session.post = call[h].post)'
    <3> SUFFICES ASSUME NEW h \in Guests, call'[h].pc = "proved"
                 PROVE  (Taken(call[h].session) /\ call[h].session.post = call[h].post)'
      OBVIOUS
    <3>1. CASE call'[h] = call[h]
      <4>1. Taken(call[h].session) /\ call[h].session.post = call[h].post  BY <1>t, <3>1
      <4>2. QED  BY <1>8, <3>1, <4>1
    <3>2. CASE call'[h].session = s /\ call'[h].post = p  BY <1>9, <1>s, <3>2
    <3>3. QED  BY <2>1, <3>1, <3>2
  <2>5. \A n \in Sessions!Connections :
          (wire[n].up # None /\ wire[n].up.kind = "ready" => Taken(wire[n].up.session))'
    BY <1>t, <1>8, <2>2
  <2>6. (\A x \in bound : Taken(x))'  BY <1>t, <1>8, <2>3
  <2>7. QED  BY <2>4, <2>5, <2>6
<1>11. BoundFirst'
  <2>1. UNCHANGED <<bindings, bound, serve>>  BY <1>1
  <2>2. QED  BY <1>t, <2>1 DEF BoundFirst
<1>12. QED  BY <1>5, <1>6, <1>7, <1>10, <1>11 DEF SessionInv

\* What the guests do: their commands never make the host serve anyone, and a
\* session becomes one when the server has taken its proof.
LEMMA GuestsKeep ==
    ASSUME SessionInv, NEW g \in Guests,
           \/ Sessions!Reattach(g) \/ Sessions!Join(g) \/ Sessions!Finish(g) \/ Sessions!SessionInit(g)
           \/ Sessions!Reattached(g) \/ Sessions!Submit(g) \/ Sessions!Rejected(g) \/ Sessions!Ready(g)
           \/ Sessions!HangUp(g) \/ Sessions!Break(g)
    PROVE  SessionInv'
<1>t. HostTypes /\ GuestTypes /\ InTurn /\ TakenFirst /\ BoundFirst  BY DEF SessionInv
<1>a. MaxPosts \in Nat \ {0} /\ MaxDials \in Nat  BY SessionsAssumption
<1>k. ASSUME UNCHANGED <<posts, server, bindings, bound, serve>>, GuestTypes',
             \A h \in Guests : call'[h].pc = "proved" => call'[h] = call[h],
             \A n \in Sessions!Connections :
                wire'[n].up = wire[n].up \/ wire'[n].up = None \/ wire'[n].up.kind # "ready"
      PROVE  SessionInv'
  <2>1. HostTypes'  BY <1>t, <1>k DEF HostTypes
  <2>2. InTurn'  BY <1>t, <1>k DEF InTurn
  <2>3. \A s : Taken(s) => Taken(s)'  BY <1>t, <1>k, TakenStays
  <2>4. TakenFirst'  BY <1>t, <1>k, <2>3 DEF TakenFirst
  <2>5. BoundFirst'  BY <1>t, <1>k DEF BoundFirst
  <2>6. QED  BY <1>k, <2>1, <2>2, <2>4, <2>5 DEF SessionInv
<1>d. ASSUME NEW node \in Nat, NEW as, Sessions!Dial(g, node, as), as.pc = "admission", as.nonce = 0,
             as \in Command
      PROVE  SessionInv'
  <2>1. UNCHANGED <<posts, server, bindings, bound, cache>> /\ dials' = dials + 1 /\ dials + 1 \in 1..MaxDials
    BY <1>t, <1>a, <1>d DEF Sessions!Dial, GuestTypes
  <2>2. CASE node = server.node
    <3>1. /\ call' = [call EXCEPT ![g] = [as EXCEPT !.nonce = dials + 1]]
          /\ serve' = [serve EXCEPT ![dials + 1] = [Sessions!Gone EXCEPT !.pc = "queued", !.guest = g]]
          /\ wire' = [wire EXCEPT ![dials + 1] = [Sessions!Quiet EXCEPT !.up = [kind |-> "init"]]]
      BY <1>d, <2>2 DEF Sessions!Dial
    <3>c. [as EXCEPT !.nonce = dials + 1] \in Command /\ [as EXCEPT !.nonce = dials + 1].pc = "admission"
      <4>1. dials + 1 \in 0..MaxDials  BY <1>a, <2>1
      <4>2. QED  BY <1>d, <4>1, CommandRecords
    <3>s. /\ [Sessions!Gone EXCEPT !.pc = "queued", !.guest = g] \in Service
          /\ [Sessions!Gone EXCEPT !.pc = "queued", !.guest = g].pc = "queued"
          /\ [Sessions!Gone EXCEPT !.pc = "queued", !.guest = g].guest = g
      BY ServiceRecords
    <3>w. /\ [Sessions!Quiet EXCEPT !.up = [kind |-> "init"]] \in Line
          /\ [Sessions!Quiet EXCEPT !.up = [kind |-> "init"]].up.kind = "init"
      BY DEF Sessions!Quiet, Line, Upward
    <3>2. GuestTypes'
      <4>1. dials' \in 0..MaxDials  BY <2>1
      <4>2. call' \in [Guests -> Command]  BY <1>t, <3>1, <3>c DEF GuestTypes
      <4>3. wire' \in [Sessions!Connections -> Line]  BY <1>t, <3>1, <3>w DEF GuestTypes
      <4>4. QED  BY <1>t, <2>1, <4>1, <4>2, <4>3 DEF GuestTypes
    <3>3. HostTypes'
      <4>1. serve' \in [Sessions!Connections -> Service]  BY <1>t, <3>1, <3>s DEF HostTypes
      <4>2. QED  BY <1>t, <2>1, <4>1 DEF HostTypes
    <3>4. InTurn'  BY <1>t, <2>1 DEF InTurn
    <3>5. \A s : Taken(s) => Taken(s)'  BY <1>t, <2>1, TakenStays
    <3>6. TakenFirst'
      <4>1. \A h \in Guests : call'[h].pc = "proved" => call'[h] = call[h]
        BY <1>t, <3>1, <3>c DEF GuestTypes
      <4>2. \A n \in Sessions!Connections : wire'[n] = wire[n] \/ wire'[n].up.kind = "init"
        BY <1>t, <3>1, <3>w DEF GuestTypes
      <4>3. QED  BY <1>t, <2>1, <3>5, <4>1, <4>2 DEF TakenFirst
    <3>7. BoundFirst'
      <4>1. \A n \in Sessions!Connections : serve'[n] = serve[n] \/ (serve'[n].pc = "queued" /\ serve'[n].guest = g)
        BY <1>t, <3>1, <3>s DEF HostTypes
      <4>2. QED  BY <1>t, <2>1, <4>1 DEF BoundFirst
    <3>8. QED  BY <3>2, <3>3, <3>4, <3>6, <3>7 DEF SessionInv
  <2>3. CASE node # server.node
    <3>1. /\ UNCHANGED <<serve, wire>>
          /\ call' = [call EXCEPT ![g] = IF as.session = None THEN Sessions!Idle
                                         ELSE [Sessions!Idle EXCEPT !.pc = "join"]]
      BY <1>d, <2>3 DEF Sessions!Dial
    <3>2. GuestTypes'
      <4>1. \A c \in Command : [call EXCEPT ![g] = c] \in [Guests -> Command]  BY <1>t DEF GuestTypes
      <4>i. Sessions!Idle \in Command /\ [Sessions!Idle EXCEPT !.pc = "join"] \in Command  BY CommandRecords
      <4>2. call' \in [Guests -> Command]
        <5>1. CASE as.session = None
          <6>1. call' = [call EXCEPT ![g] = Sessions!Idle]  BY <3>1, <5>1
          <6>2. QED  BY <4>1, <4>i, <6>1
        <5>2. CASE as.session # None
          <6>1. call' = [call EXCEPT ![g] = [Sessions!Idle EXCEPT !.pc = "join"]]  BY <3>1, <5>2
          <6>2. QED  BY <4>1, <4>i, <6>1
        <5>3. QED  BY <5>1, <5>2
      <4>3. dials' \in 0..MaxDials  BY <2>1
      <4>4. QED  BY <1>t, <2>1, <3>1, <4>2, <4>3 DEF GuestTypes
    <3>3. \A h \in Guests : call'[h].pc = "proved" => call'[h] = call[h]
      BY <1>t, <3>1 DEF GuestTypes, Sessions!Idle
    <3>4. QED  BY <1>k, <2>1, <3>1, <3>2, <3>3
  <2>4. QED  BY <2>2, <2>3
<1>1. CASE Sessions!Reattach(g)
  <2>1. cache[g] \in [node : Nat, session : Session]  BY <1>t, <1>1 DEF Sessions!Reattach, GuestTypes
  <2>2. Sessions!Dial(g, cache[g].node, [Sessions!Idle EXCEPT !.pc = "admission", !.session = cache[g].session])
    BY <1>1 DEF Sessions!Reattach
  <2> DEFINE as == [Sessions!Idle EXCEPT !.pc = "admission", !.session = cache[g].session]
  <2>3. as \in Command /\ as.pc = "admission" /\ as.nonce = 0  BY <2>1, CommandRecords
  <2> HIDE DEF as
  <2>4. Sessions!Dial(g, cache[g].node, as) /\ cache[g].node \in Nat  BY <2>1, <2>2 DEF as
  <2>5. QED  BY <1>d, <2>3, <2>4
<1>2. CASE Sessions!Join(g)
  <2>1. PICK p \in 1..MaxPosts :
            Sessions!Dial(g, posts[p].node, [Sessions!Idle EXCEPT !.pc = "admission", !.post = p])
    BY <1>t, <1>2 DEF Sessions!Join, HostTypes
  <2> DEFINE as == [Sessions!Idle EXCEPT !.pc = "admission", !.post = p]
  <2>2. as \in Command /\ as.pc = "admission" /\ as.nonce = 0  BY CommandRecords
  <2> HIDE DEF as
  <2>3. Sessions!Dial(g, posts[p].node, as) /\ posts[p].node \in Nat  BY <1>t, <2>1 DEF as, HostTypes, Invitation
  <2>4. QED  BY <1>d, <2>2, <2>3
<1>3. CASE Sessions!Finish(g) \/ Sessions!SessionInit(g) \/ Sessions!Reattached(g)
  <2>1. /\ UNCHANGED <<posts, server, bindings, bound, serve, cache, dials>>
        /\ call' = call \/ \E q \in {"session", "open"} : call' = [call EXCEPT ![g] = [call[g] EXCEPT !.pc = q]]
    BY <1>3 DEF Sessions!Finish, Sessions!SessionInit, Sessions!Reattached
  <2>2. PICK x \in Line : wire' = [wire EXCEPT ![call[g].nonce] = x] /\ (x.up = None \/ x.up.kind # "ready")
    <3>1. call[g].session \in Session \union {None}  BY <1>t DEF GuestTypes, Command
    <3>2. [kind |-> "finish"] \in Upward /\ [kind |-> "session", session |-> call[g].session] \in Upward
      BY <3>1 DEF Upward
    <3>w. \A m \in Upward : m.kind # "ready" => \E x \in Line : x = [up |-> m, down |-> None] /\ x.up.kind # "ready"
      BY LineRecords
    <3>3. CASE Sessions!Finish(g)
      <4>1. wire' = [wire EXCEPT ![call[g].nonce] = [up |-> [kind |-> "finish"], down |-> None]]
        BY <3>3 DEF Sessions!Finish, Sessions!Says
      <4>2. QED  BY <3>2, <3>w, <4>1
    <3>4. CASE Sessions!SessionInit(g)
      <4>1. wire' = [wire EXCEPT ![call[g].nonce] =
                        [up |-> [kind |-> "session", session |-> call[g].session], down |-> None]]
        BY <3>4 DEF Sessions!SessionInit, Sessions!Says
      <4>2. QED  BY <3>2, <3>w, <4>1
    <3>5. CASE Sessions!Reattached(g)  BY <3>5, LineRecords DEF Sessions!Reattached
    <3>6. QED  BY <1>3, <3>3, <3>4, <3>5
  <2>3. GuestTypes'
    <3>1. call' \in [Guests -> Command]
      <4>1. call[g] \in Command  BY <1>t DEF GuestTypes
      <4>2. call' = call \/ \E c \in Command : call' = [call EXCEPT ![g] = c]  BY <2>1, <4>1, CommandRecords
      <4>3. QED  BY <1>t, <4>2 DEF GuestTypes
    <3>2. wire' \in [Sessions!Connections -> Line]  BY <1>t, <2>2 DEF GuestTypes
    <3>3. QED  BY <1>t, <2>1, <3>1, <3>2 DEF GuestTypes
  <2>4. \A h \in Guests : call'[h].pc = "proved" => call'[h] = call[h]
    BY <1>t, <2>1 DEF GuestTypes, Command
  <2>5. \A n \in Sessions!Connections :
            wire'[n].up = wire[n].up \/ wire'[n].up = None \/ wire'[n].up.kind # "ready"
    BY <1>t, <2>2 DEF GuestTypes
  <2>6. QED  BY <1>k, <2>1, <2>3, <2>4, <2>5
<1>4. CASE Sessions!Submit(g)  BY <1>4, SubmitKeeps
<1>5. CASE Sessions!Rejected(g) \/ Sessions!HangUp(g) \/ Sessions!Break(g)
  <2>1. UNCHANGED <<posts, server, bindings, bound, serve, cache, dials>>
    BY <1>5 DEF Sessions!Rejected, Sessions!HangUp, Sessions!Break
  <2>2. /\ wire' = wire \/ wire' = [wire EXCEPT ![call[g].nonce] = Sessions!Quiet]
        /\ \E q \in {"idle", "join"} : call' = [call EXCEPT ![g] = [Sessions!Idle EXCEPT !.pc = q]]
    BY <1>5 DEF Sessions!Rejected, Sessions!HangUp, Sessions!Break, Sessions!Failed, Sessions!Idle
  <2>3. GuestTypes'
    <3>1. call' \in [Guests -> Command]
      <4>1. PICK c \in Command : call' = [call EXCEPT ![g] = c]  BY <2>2, CommandRecords
      <4>2. QED  BY <1>t, <4>1 DEF GuestTypes
    <3>2. wire' \in [Sessions!Connections -> Line]  BY <1>t, <2>2, LineRecords DEF GuestTypes
    <3>3. QED  BY <1>t, <2>1, <3>1, <3>2 DEF GuestTypes
  <2>4. \A h \in Guests : call'[h].pc = "proved" => call'[h] = call[h]
    BY <1>t, <2>2 DEF GuestTypes, Sessions!Idle
  <2>5. \A n \in Sessions!Connections : wire'[n].up = wire[n].up \/ wire'[n].up = None
    BY <1>t, <2>2 DEF GuestTypes, Sessions!Quiet
  <2>6. QED  BY <1>k, <2>1, <2>3, <2>4, <2>5
<1>6. CASE Sessions!Ready(g)
  <2>1. /\ UNCHANGED <<posts, server, bindings, bound, serve, dials>> /\ call[g].pc = "proved"
        /\ call' = [call EXCEPT ![g].pc = "open"]
        /\ cache' = [cache EXCEPT ![g] = [node |-> posts[call[g].post].node, session |-> call[g].session]]
        /\ wire' = [wire EXCEPT ![call[g].nonce] =
                       [up |-> [kind |-> "ready", session |-> call[g].session], down |-> None]]
    BY <1>6 DEF Sessions!Ready, Sessions!Says
  <2>2. Taken(call[g].session) /\ call[g].session.post = call[g].post  BY <1>t, <2>1 DEF TakenFirst
  <2>3. call[g].session \in Session /\ call[g].post \in 1..MaxPosts  BY <2>2 DEF Taken, Session
  <2>w. [kind |-> "ready", session |-> call[g].session] \in Upward  BY <2>3 DEF Upward
  <2>4. GuestTypes'
    <3>1. call' \in [Guests -> Command]
      <4>1. call' = [call EXCEPT ![g] = [call[g] EXCEPT !.pc = "open"]]  BY <1>t, <2>1 DEF GuestTypes
      <4>2. QED  BY <1>t, <4>1, CommandRecords DEF GuestTypes
    <3>2. wire' \in [Sessions!Connections -> Line]  BY <1>t, <2>1, <2>w, LineRecords DEF GuestTypes
    <3>3. posts[call[g].post].node \in Nat  BY <1>t, <2>3 DEF HostTypes, Invitation
    <3>4. cache' \in [Guests -> [node : Nat, session : Session] \union {None}]
      BY <1>t, <2>1, <2>3, <3>3 DEF GuestTypes
    <3>5. QED  BY <1>t, <2>1, <3>1, <3>2, <3>4 DEF GuestTypes
  <2>5. HostTypes'  BY <1>t, <2>1 DEF HostTypes
  <2>6. InTurn'  BY <1>t, <2>1 DEF InTurn
  <2>7. \A x : Taken(x) => Taken(x)'  BY <1>t, <2>1, TakenStays
  <2>8. TakenFirst'
    <3>1. \A h \in Guests : call'[h].pc = "proved" => call'[h] = call[h]
      BY <1>t, <2>1 DEF GuestTypes, Command
    <3>2. \A n \in Sessions!Connections : wire'[n] = wire[n] \/ wire'[n].up.session = call[g].session
      BY <1>t, <2>1 DEF GuestTypes
    <3>3. QED  BY <1>t, <2>1, <2>2, <2>7, <3>1, <3>2 DEF TakenFirst
  <2>9. BoundFirst'
    <3>1. UNCHANGED <<bindings, bound, serve>>  BY <2>1
    <3>2. QED  BY <1>t, <3>1 DEF BoundFirst
  <2>10. QED  BY <2>4, <2>5, <2>6, <2>8, <2>9 DEF SessionInv
<1>7. QED  BY <1>1, <1>2, <1>3, <1>4, <1>5, <1>6

\* What the host does: it binds the session for which the server took its
\* invitation, and serves one it has bound.
LEMMA HostKeeps ==
    ASSUME SessionInv, NEW n \in Sessions!Connections, Sessions!Handler(n)
    PROVE  SessionInv'
<1>t. HostTypes /\ GuestTypes /\ InTurn /\ TakenFirst /\ BoundFirst  BY DEF SessionInv
<1>a. MaxPosts \in Nat \ {0} /\ MaxDials \in Nat  BY SessionsAssumption
<1>k. ASSUME UNCHANGED <<posts, server, bindings, bound, call, cache, dials>>,
             serve' \in [Sessions!Connections ->
                    Service],
             \A m \in Sessions!Connections : /\ serve'[m].pc # "gone" => serve'[m].guest \in Guests
                                             /\ serve'[m].pc = "rpc" => serve'[m].session \in bound,
             \/ wire' = wire
             \/ \E x \in Downward : wire' = [wire EXCEPT ![n] = [up |-> None, down |-> x]]
      PROVE  SessionInv'
  <2>1. HostTypes'  BY <1>t, <1>k DEF HostTypes
  <2>2. GuestTypes'
    <3>1. wire' \in [Sessions!Connections -> Line]  BY <1>t, <1>k, LineRecords DEF GuestTypes
    <3>2. QED  BY <1>t, <1>k, <3>1 DEF GuestTypes
  <2>3. InTurn'  BY <1>t, <1>k DEF InTurn
  <2>4. \A s : Taken(s) => Taken(s)'  BY <1>t, <1>k, TakenStays
  <2>5. \A m \in Sessions!Connections : wire'[m].up = wire[m].up \/ wire'[m].up = None
    BY <1>t, <1>k DEF GuestTypes
  <2>6. TakenFirst'  BY <1>t, <1>k, <2>4, <2>5 DEF TakenFirst
  <2>7. BoundFirst'  BY <1>t, <1>k DEF BoundFirst
  <2>8. QED  BY <2>1, <2>2, <2>3, <2>6, <2>7 DEF SessionInv
<1>s. ASSUME UNCHANGED <<posts, server, bindings, bound, call, cache, dials>>, NEW x \in Service,
             serve' = [serve EXCEPT ![n] = x],
             x.pc # "gone" => x.guest \in Guests, x.pc = "rpc" => x.session \in bound,
             wire' = wire \/ \E y \in Downward : wire' = [wire EXCEPT ![n] = [up |-> None, down |-> y]]
      PROVE  SessionInv'
  <2>1. serve' \in [Sessions!Connections -> Service]  BY <1>t, <1>s DEF HostTypes
  <2>2. \A m \in Sessions!Connections : serve'[m] = serve[m] \/ serve'[m] = x  BY <1>t, <1>s DEF HostTypes
  <2>3. \A m \in Sessions!Connections : /\ serve'[m].pc # "gone" => serve'[m].guest \in Guests
                                        /\ serve'[m].pc = "rpc" => serve'[m].session \in bound
    BY <1>t, <1>s, <2>2 DEF BoundFirst
  <2>4. QED  BY <1>k, <1>s, <2>1, <2>3
<1>q. serve[n] \in Service  BY <1>t DEF HostTypes
<1>g. serve[n].guest \in Guests
  <2>1. serve[n].pc # "gone"
    BY DEF Sessions!Handler, Sessions!Acquire, Sessions!Challenge, Sessions!Admit, Sessions!Timeout,
           Sessions!Attach, Sessions!Prove, Sessions!Bind, Sessions!Close
  <2>2. QED  BY <1>t, <2>1 DEF BoundFirst
<1>1. CASE Sessions!Acquire(n) \/ Sessions!Close(n)
  <2>1. UNCHANGED <<posts, server, bindings, bound, call, wire, cache, dials>>
    BY <1>1 DEF Sessions!Acquire, Sessions!Close
  <2>2. \E x \in Service : serve' = [serve EXCEPT ![n] = x] /\ x.pc # "rpc" /\ (x.pc # "gone" => x.guest \in Guests)
    <3>1. [serve[n] EXCEPT !.pc = "init"] \in Service /\ [serve[n] EXCEPT !.pc = "init"].pc # "rpc"
      BY <1>q DEF Service
    <3>g. [serve[n] EXCEPT !.pc = "init"].guest \in Guests  BY <1>q, <1>g DEF Service
    <3>2. Sessions!Gone \in Service /\ Sessions!Gone.pc = "gone"  BY ServiceRecords
    <3>3. QED  BY <1>1, <3>1, <3>g, <3>2 DEF Sessions!Acquire, Sessions!Close
  <2>3. QED  BY <1>s, <2>1, <2>2
<1>2. CASE Sessions!Challenge(n) \/ Sessions!Admit(n) \/ Sessions!Timeout(n)
  <2>1. UNCHANGED <<posts, server, bindings, bound, call, cache, dials>>
    BY <1>2 DEF Sessions!Challenge, Sessions!Admit, Sessions!Timeout
  <2>2. \E y \in Downward : wire' = [wire EXCEPT ![n] = [up |-> None, down |-> y]]
    <3>1. \A k \in {"challenge", "reject", "ok"} : [kind |-> k] \in Downward  BY DEF Downward
    <3>2. \E k \in {"challenge", "reject", "ok"} : Sessions!Answers(n, [kind |-> k])
      BY <1>2 DEF Sessions!Challenge, Sessions!Admit, Sessions!Timeout
    <3>3. QED  BY <3>1, <3>2 DEF Sessions!Answers
  <2>3. \E x \in Service : serve' = [serve EXCEPT ![n] = x] /\ x.pc # "rpc" /\ (x.pc # "gone" => x.guest \in Guests)
    <3>1. \A q \in {"challenged", "admitted"} :
            [serve[n] EXCEPT !.pc = q] \in Service /\ [serve[n] EXCEPT !.pc = q].pc # "rpc"
      BY <1>q DEF Service
    <3>g. \A q \in {"challenged", "admitted"} : [serve[n] EXCEPT !.pc = q].guest \in Guests
      BY <1>q, <1>g DEF Service
    <3>2. Sessions!Gone \in Service /\ Sessions!Gone.pc = "gone"  BY ServiceRecords
    <3>3. \/ serve' = [serve EXCEPT ![n] = Sessions!Gone]
          \/ \E q \in {"challenged", "admitted"} : serve' = [serve EXCEPT ![n] = [serve[n] EXCEPT !.pc = q]]
      BY <1>2 DEF Sessions!Challenge, Sessions!Admit, Sessions!Timeout
    <3>4. QED  BY <3>1, <3>g, <3>2, <3>3
  <2>4. QED  BY <1>s, <2>1, <2>2, <2>3
<1>3. CASE Sessions!Attach(n)
  <2>s. PICK s : s = wire[n].up.session  OBVIOUS
  <2>1. /\ UNCHANGED <<posts, server, bindings, bound, call, cache, dials>>
        /\ wire[n].up # None /\ wire[n].up.kind = "session" /\ s # None
        /\ \/ /\ bindings[serve[n].guest] = s
              /\ serve' = [serve EXCEPT ![n].pc = "rpc", ![n].session = s]
           \/ serve' = [serve EXCEPT ![n] = Sessions!Gone]
        /\ \E k \in {"reattached", "reject"} :
              wire' = [wire EXCEPT ![n] = [up |-> None, down |-> [kind |-> k]]]
    BY <1>3, <2>s DEF Sessions!Attach, Sessions!Answers, Sessions!Asked
  <2>2. \E x \in Downward : wire' = [wire EXCEPT ![n] = [up |-> None, down |-> x]]
    <3>1. \A k \in {"reattached", "reject"} : [kind |-> k] \in Downward  BY DEF Downward
    <3>2. QED  BY <2>1, <3>1
  <2>3. s \in Session
    <3>1. wire[n] \in Line  BY <1>t DEF GuestTypes
    <3>2. wire[n].up \in Upward  BY <2>1, <3>1 DEF Line
    <3>3. QED  BY <2>s, <2>1, <3>2 DEF Upward
  <2>4. CASE serve' = [serve EXCEPT ![n] = Sessions!Gone]
    <3>1. Sessions!Gone \in Service /\ Sessions!Gone.pc = "gone"  BY ServiceRecords
    <3>2. QED  BY <1>s, <2>1, <2>2, <2>4, <3>1
  <2>5. CASE /\ bindings[serve[n].guest] = s
             /\ serve' = [serve EXCEPT ![n].pc = "rpc", ![n].session = s]
    <3>1. s \in bound
      <4>1. s # None /\ bindings[serve[n].guest] = s  BY <2>1, <2>5
      <4>2. QED  BY <1>t, <1>g, <4>1 DEF BoundFirst
    <3>2. serve' = [serve EXCEPT ![n] = [[serve[n] EXCEPT !.pc = "rpc"] EXCEPT !.session = s]]
      BY <1>t, <2>5 DEF HostTypes
    <3>3. [[serve[n] EXCEPT !.pc = "rpc"] EXCEPT !.session = s] \in Service  BY <1>q, <2>3 DEF Service
    <3>4. /\ [[serve[n] EXCEPT !.pc = "rpc"] EXCEPT !.session = s].session = s
          /\ [[serve[n] EXCEPT !.pc = "rpc"] EXCEPT !.session = s].guest \in Guests
      BY <1>q, <1>g DEF Service
    <3>5. QED  BY <1>s, <2>1, <2>2, <3>1, <3>2, <3>3, <3>4
  <2>6. QED  BY <2>1, <2>4, <2>5
<1>4. CASE Sessions!Prove(n)
  <2>1. /\ UNCHANGED <<posts, server, bindings, bound, call, cache, dials>>
        /\ wire' = [wire EXCEPT ![n] = [up |-> None, down |-> [kind |-> "proof", post |-> server.post]]]
        /\ serve' = [serve EXCEPT ![n].pc = "ready", ![n].post = server.post]
    BY <1>4 DEF Sessions!Prove, Sessions!Answers
  <2>2. server.post \in 1..MaxPosts  BY <1>t DEF HostTypes
  <2>3. [kind |-> "proof", post |-> server.post] \in Downward  BY <2>2 DEF Downward
  <2>4. serve' = [serve EXCEPT ![n] = [[serve[n] EXCEPT !.pc = "ready"] EXCEPT !.post = server.post]]
    BY <1>t, <2>1 DEF HostTypes
  <2>5. server.post \in 0..MaxPosts  BY <1>a, <2>2
  <2>6. /\ [[serve[n] EXCEPT !.pc = "ready"] EXCEPT !.post = server.post] \in Service
        /\ [[serve[n] EXCEPT !.pc = "ready"] EXCEPT !.post = server.post].pc = "ready"
        /\ [[serve[n] EXCEPT !.pc = "ready"] EXCEPT !.post = server.post].guest \in Guests
    BY <1>q, <1>g, <2>5 DEF Service
  <2>7. QED  BY <1>s, <2>1, <2>3, <2>4, <2>6
<1>5. CASE Sessions!Bind(n)
  <2>s. PICK s : s = Sessions!Session(serve[n].post, serve[n].guest, n)  OBVIOUS
  <2>1. /\ UNCHANGED <<call, cache, dials>> /\ wire[n].up # None /\ wire[n].up.kind = "ready"
        /\ wire[n].up.session = s
        /\ bindings' = [bindings EXCEPT ![serve[n].guest] = s] /\ bound' = bound \union {s}
        /\ serve' = [serve EXCEPT ![n].pc = "rpc", ![n].session = s]
        /\ wire' = [wire EXCEPT ![n] = Sessions!Quiet]
    BY <1>5, <2>s DEF Sessions!Bind, Sessions!Asked
  <2>2. \/ /\ Sessions!Published < MaxPosts /\ posts' = Sessions!Invite(server.node)
           /\ server' = [server EXCEPT !.post = Sessions!Published + 1]
        \/ UNCHANGED <<posts, server>>
    BY <1>5 DEF Sessions!Bind
  <2>3. Taken(s) /\ s \in Session  BY <1>t, <2>1 DEF TakenFirst, Taken
  <2>4. /\ \A x : Taken(x) => Taken(x)'
        /\ server' \in [post : 1..MaxPosts, node : Nat]
        /\ posts' \in [1..MaxPosts -> Invitation]
        /\ InTurn'
    <3>1. CASE UNCHANGED <<posts, server>>
      <4>1. \A x : Taken(x) => Taken(x)'  BY <1>t, <3>1, TakenStays
      <4>2. QED  BY <1>t, <3>1, <4>1 DEF HostTypes, InTurn
    <3>2. CASE /\ Sessions!Published < MaxPosts /\ posts' = Sessions!Invite(server.node)
               /\ server' = [server EXCEPT !.post = Sessions!Published + 1]
      <4>1. server.node \in Nat  BY <1>t DEF HostTypes
      <4>2. /\ Sessions!Published + 1 \in 1..MaxPosts /\ posts[Sessions!Published + 1].status = "none"
            /\ posts' = [posts EXCEPT ![Sessions!Published + 1] =
                            [status |-> "active", by |-> None, node |-> server.node]]
            /\ posts' \in [1..MaxPosts -> Invitation]
            /\ InTurn'
        BY <1>t, <3>2, <4>1, NextInvitation
      <4>3. \A x : Taken(x) => Taken(x)'  BY <1>t, <4>2, TakenStays
      <4>4. QED  BY <1>t, <3>2, <4>2, <4>3 DEF HostTypes
    <3>3. QED  BY <2>2, <3>1, <3>2
  <2>x. PICK x \in Service : serve' = [serve EXCEPT ![n] = x] /\ x.session = s /\ x.guest \in Guests
    <3>1. serve' = [serve EXCEPT ![n] = [[serve[n] EXCEPT !.pc = "rpc"] EXCEPT !.session = s]]
      BY <1>t, <2>1 DEF HostTypes
    <3>2. [[serve[n] EXCEPT !.pc = "rpc"] EXCEPT !.session = s] \in Service  BY <1>q, <2>3 DEF Service
    <3>3. /\ [[serve[n] EXCEPT !.pc = "rpc"] EXCEPT !.session = s].session = s
          /\ [[serve[n] EXCEPT !.pc = "rpc"] EXCEPT !.session = s].guest \in Guests
      BY <1>q, <1>g DEF Service
    <3>4. QED  BY <3>1, <3>2, <3>3
  <2>5. HostTypes'
    <3>1. serve' \in [Sessions!Connections -> Service]  BY <1>t, <2>x DEF HostTypes
    <3>2. bindings' \in [Guests -> Session \union {None}] /\ bound' \subseteq Session
      BY <1>t, <2>1, <2>3 DEF HostTypes
    <3>3. QED  BY <2>4, <3>1, <3>2 DEF HostTypes
  <2>6. GuestTypes'
    <3>1. wire' \in [Sessions!Connections -> Line]  BY <1>t, <2>1, LineRecords DEF GuestTypes
    <3>2. QED  BY <1>t, <2>1, <3>1 DEF GuestTypes
  <2>7. TakenFirst'
    <3>1. \A m \in Sessions!Connections : wire'[m] = wire[m] \/ wire'[m].up = None
      BY <1>t, <2>1, LineRecords DEF GuestTypes
    <3>2. call' = call /\ bound' = bound \union {s}  BY <2>1
    <3>3. QED  BY <1>t, <2>3, <2>4, <3>1, <3>2 DEF TakenFirst
  <2>8. BoundFirst'
    <3>1. \A m \in Sessions!Connections :
            serve'[m] = serve[m] \/ (serve'[m].session = s /\ serve'[m].guest \in Guests)
      BY <1>t, <2>x DEF HostTypes
    <3>2. \A g \in Guests : bindings'[g] = bindings[g] \/ bindings'[g] = s  BY <1>t, <2>1 DEF HostTypes
    <3>3. bound' = bound \union {s}  BY <2>1
    <3>4. QED  BY <1>t, <3>1, <3>2, <3>3 DEF BoundFirst
  <2>9. QED  BY <2>4, <2>5, <2>6, <2>7, <2>8 DEF SessionInv
<1>6. QED  BY <1>1, <1>2, <1>3, <1>4, <1>5 DEF Sessions!Handler

\* A restart keeps what the host had bound; an invitation runs out untaken.
LEMMA RestartKeeps == SessionInv /\ Sessions!Restart => SessionInv'
<1> SUFFICES ASSUME SessionInv, Sessions!Restart PROVE SessionInv'  OBVIOUS
<1>t. HostTypes /\ GuestTypes /\ InTurn /\ TakenFirst /\ BoundFirst  BY DEF SessionInv
<1>a. MaxPosts \in Nat \ {0} /\ MaxDials \in Nat  BY SessionsAssumption
<1>1. /\ UNCHANGED <<bindings, bound, cache, dials>> /\ Sessions!Published < MaxPosts
      /\ server' = [post |-> Sessions!Published + 1, node |-> server.node + 1]
      /\ posts' = Sessions!Invite(server.node + 1)
      /\ serve' = [n \in Sessions!Connections |-> Sessions!Gone]
      /\ wire' = [n \in Sessions!Connections |-> Sessions!Quiet]
      /\ call' = [g \in Guests |-> IF call[g].nonce = 0 THEN call[g]
                                 ELSE IF call[g].pc \in {"proved", "open"} THEN Sessions!Idle
                                 ELSE Sessions!Failed(g)]
  BY DEF Sessions!Restart
<1>2. server.node + 1 \in Nat  BY <1>t DEF HostTypes
<1>3. /\ Sessions!Published + 1 \in 1..MaxPosts /\ posts[Sessions!Published + 1].status = "none"
      /\ posts' = [posts EXCEPT ![Sessions!Published + 1] =
                      [status |-> "active", by |-> None, node |-> server.node + 1]]
      /\ posts' \in [1..MaxPosts -> Invitation]
      /\ InTurn'
  BY <1>t, <1>1, <1>2, NextInvitation
<1>4. \A x : Taken(x) => Taken(x)'  BY <1>t, <1>3, TakenStays
<1>5. HostTypes'
  <2>1. serve' \in [Sessions!Connections -> Service]  BY <1>1, ServiceRecords
  <2>2. server' \in [post : 1..MaxPosts, node : Nat]  BY <1>1, <1>2, <1>3
  <2>3. QED  BY <1>t, <1>1, <1>3, <2>1, <2>2 DEF HostTypes
<1>6. \A g \in Guests : \/ call'[g] = call[g]
                        \/ \E q \in {"idle", "join"} : call'[g] = [Sessions!Idle EXCEPT !.pc = q]
  BY <1>1 DEF Sessions!Failed, Sessions!Idle
<1>7. GuestTypes'
  <2>1. call' \in [Guests -> Command]
    <3>1. ASSUME NEW g \in Guests PROVE call'[g] \in Command
      <4>1. call[g] \in Command  BY <1>t DEF GuestTypes
      <4>2. \A q \in {"idle", "join"} : [Sessions!Idle EXCEPT !.pc = q] \in Command  BY CommandRecords
      <4>3. QED  BY <1>6, <4>1, <4>2
    <3>2. QED  BY <1>1, <3>1
  <2>2. wire' \in [Sessions!Connections -> Line]  BY <1>1, LineRecords
  <2>3. QED  BY <1>t, <1>1, <2>1, <2>2 DEF GuestTypes
<1>8. TakenFirst'
  <2>1. \A g \in Guests : call'[g].pc = "proved" => call'[g] = call[g]
    BY <1>6 DEF Sessions!Idle
  <2>2. \A n \in Sessions!Connections : wire'[n].up = None  BY <1>1, LineRecords
  <2>3. QED  BY <1>t, <1>1, <1>4, <2>1, <2>2 DEF TakenFirst
<1>9. BoundFirst'
  <2>1. \A n \in Sessions!Connections : serve'[n].pc = "gone"  BY <1>1, ServiceRecords
  <2>2. QED  BY <1>t, <1>1, <2>1 DEF BoundFirst
<1>10. QED  BY <1>3, <1>5, <1>7, <1>8, <1>9 DEF SessionInv

LEMMA ExpireKeeps == SessionInv /\ Sessions!Expire => SessionInv'
<1> SUFFICES ASSUME SessionInv, Sessions!Expire PROVE SessionInv'  OBVIOUS
<1>t. HostTypes /\ GuestTypes /\ InTurn /\ TakenFirst /\ BoundFirst  BY DEF SessionInv
<1>1. UNCHANGED <<server, bindings, bound, call, serve, wire, cache, dials>>  BY DEF Sessions!Expire
<1>2. PICK p \in 1..MaxPosts :
        posts[p].status = "active" /\ posts' = [posts EXCEPT ![p] = [posts[p] EXCEPT !.status = "expired"]]
  BY <1>t DEF Sessions!Expire, HostTypes
<1>3. HostTypes'
  <2>1. posts[p] \in Invitation  BY <1>t DEF HostTypes
  <2>2. [posts[p] EXCEPT !.status = "expired"] \in Invitation  BY <2>1 DEF Invitation
  <2>3. posts' \in [1..MaxPosts -> Invitation]  BY <1>t, <1>2, <2>2 DEF HostTypes
  <2>4. QED  BY <1>t, <1>1, <2>3 DEF HostTypes
<1>4. GuestTypes'  BY <1>t, <1>1 DEF GuestTypes
<1>5. InTurn'
  <2>1. \A q \in 1..MaxPosts : posts'[q].status # "none" <=> posts[q].status # "none"
    BY <1>t, <1>2 DEF HostTypes, Invitation
  <2>2. QED  BY <1>t, <2>1 DEF InTurn
<1>6. \A x : Taken(x) => Taken(x)'  BY <1>t, <1>2, TakenStays
<1>7. TakenFirst'  BY <1>t, <1>1, <1>6 DEF TakenFirst
<1>8. BoundFirst'  BY <1>t, <1>1 DEF BoundFirst
<1>9. QED  BY <1>3, <1>4, <1>5, <1>7, <1>8 DEF SessionInv

\* A step of the task or of the files leaves the sessions alone.
LEMMA SessionsStand == SessionInv /\ UNCHANGED session => SessionInv'
<1> SUFFICES ASSUME SessionInv, UNCHANGED session PROVE SessionInv'  OBVIOUS
<1>t. HostTypes /\ GuestTypes /\ InTurn /\ TakenFirst /\ BoundFirst  BY DEF SessionInv
<1>1. UNCHANGED <<posts, server, bindings, bound, call, serve, wire, cache, dials>>  BY DEF session
<1>2. HostTypes' /\ GuestTypes' /\ InTurn'
  BY <1>t, <1>1 DEF HostTypes, GuestTypes, InTurn
<1>3. \A x : Taken(x) => Taken(x)'  BY <1>t, <1>1, TakenStays
<1>4. TakenFirst' /\ BoundFirst'  BY <1>t, <1>1, <1>3 DEF TakenFirst, BoundFirst
<1>5. QED  BY <1>2, <1>4 DEF SessionInv

\* Whom the host serves is on a session that it bound and for which the server
\* took the invitation, over broken connections, renewals and restarts
\* (_session_ready and _session_handshake of host_app.py).
THEOREM SessionsHold == MCSpec => []SessionsAreReal
<1>1. MCInit => SessionInv  BY SessionsStart DEF MCInit
<1>2. SessionInv /\ [MCNext]_<<part, vars, transfer, session>> => SessionInv'
  <2> SUFFICES ASSUME SessionInv, [MCNext]_<<part, vars, transfer, session>> PROVE SessionInv'  OBVIOUS
  <2>1. CASE Sessions!Next
    BY <2>1, GuestsKeep, HostKeeps, RestartKeeps, ExpireKeeps DEF Sessions!Next
  <2>2. CASE UNCHANGED session  BY <2>2, SessionsStand
  <2>3. QED  BY <2>1, <2>2 DEF MCNext
<1>3. SessionInv => SessionsAreReal
  <2> SUFFICES ASSUME SessionInv PROVE Sessions!TypeOK /\ Sessions!SessionsAreReal  BY DEF SessionsAreReal
  <2>1. Sessions!TypeOK
    <3>1. server.post \in DOMAIN posts  BY DEF SessionInv, HostTypes
    <3>2. \A n \in Sessions!Connections : serve[n] \in Service  BY DEF SessionInv, HostTypes
    <3>3. QED  BY <3>1, <3>2 DEF Service, Sessions!TypeOK
  <2>2. Sessions!SessionsAreReal
    BY DEF SessionInv, TakenFirst, BoundFirst, Taken, Sessions!SessionsAreReal
  <2>3. QED  BY <2>1, <2>2
<1>4. QED  BY <1>1, <1>2, <1>3, PTL DEF MCSpec
-----------------------------------------------------------------------------
\* The names of files, their places, the chunks that are sent.
Names == DOMAIN Chunks
Place == Names \X Nat
Chunk == Names \X Nat \X BOOLEAN
Reading == {"good", "bad", "odd"}
Piece == Names \X Nat \X Reading
\* What is sent of a page.
PageChunks(p) == {c \in Piece : c[1] \in Files!ToSet(Pages[p]) /\ c[2] \in Files!All(c[1])}

\* A command asks for a page, and sends chunks of its files.
PutRequest == [call : {"put"}, chunks : Seq(Piece)]
Request == {Nothing} \union {[call |-> "offer"]} \union PutRequest
ArtifactState == {"none", "partial", "complete", "verified_failed"}
UploadReply == {Nothing} \union [state : ArtifactState, received : SUBSET Place, complete : SUBSET Names]
UploadPc == {"idle", "asking", "answered", "done", "failed"}
Uploading == [pc : UploadPc, page : Nat, request : Request, reply : UploadReply]

UploadTypes ==
    /\ upload \in [Commands -> Uploading]
    /\ artifact \in [DOMAIN Pages -> [state : ArtifactState, received : SUBSET Place]]
AskedBy(u) ==
    u.pc \in {"asking", "answered"} =>
        /\ u.page \in DOMAIN Pages
        /\ u.pc = "asking" =>
             \/ u.request = [call |-> "offer"]
             \/ u.request \in PutRequest /\ u.request.chunks \in Seq(PageChunks(u.page))
Asked == \A c \in Commands : AskedBy(upload[c])
\* What the guest reads of its files.
ReadTypes == \A f \in Files!Inputs : local[f].reads \in Seq(Reading)
\* A page that is complete is on the disk as it was declared, but for what a
\* batch has left there that was not finished.
CompleteIsStaged ==
    \A p \in DOMAIN Pages : artifact[p].state = "complete" =>
        \A f \in Files!ToSet(Pages[p]) : Files!Kept(staged, f)
UploadInv == UploadTypes /\ ReadTypes /\ Asked /\ CompleteIsStaged /\ Files!WorkerGetsTheInputs

\* What a pull is told, and what it writes: of each file the next chunks.
Wanted == Files!ToSet(Results)
PullPc == {"idle", "asking", "answered", "done", "mismatch", "failed"}
PullReply == [chunks : Seq(Chunk), cursor : [Wanted -> Nat], done : BOOLEAN]
PullTypes ==
    /\ pull \in [pc : PullPc, cursor : [Wanted -> Nat], reply : {Nothing} \union PullReply]
    /\ published \in [Wanted -> BOOLEAN]
    /\ DOMAIN target = Wanted
InOrder(r, cursor) ==
    /\ r \in PullReply
    /\ \A k \in DOMAIN r.chunks : r.chunks[k][1] \in Wanted /\ (published[r.chunks[k][1]] => r.chunks[k][3])
    /\ \A f \in Wanted :
           /\ cursor[f] <= r.cursor[f] /\ r.cursor[f] <= Chunks[f]
           /\ r.done => r.cursor[f] = Chunks[f]
           /\ \A i \in Nat : (\E k \in DOMAIN r.chunks : r.chunks[k][1] = f /\ r.chunks[k][2] = i)
                             <=> i \in (cursor[f] + 1)..r.cursor[f]
Below ==
    \A f \in Wanted :
        /\ pull.cursor[f] <= Chunks[f]
        /\ \A i \in DOMAIN target[f] : i \in Nat /\ i >= 1 /\ (i <= Chunks[f] \/ i <= Before[f])
        /\ published[f] => \A i \in 1..pull.cursor[f] : i \in DOMAIN target[f] /\ target[f][i]
PullInv ==
    /\ PullTypes /\ Below /\ Files!PullFindsTheResults
    /\ pull.pc = "answered" => InOrder(pull.reply, pull.cursor)

FilesInv == UploadInv /\ PullInv
-----------------------------------------------------------------------------
\* What holds of 0 and passes from a number to the next holds up to n.
LEMMA UpTo ==
    ASSUME NEW n \in Nat, NEW S, 0 \in S, \A k \in 0..(n - 1) : k \in S => k + 1 \in S
    PROVE  0..n \subseteq S
<1> SUFFICES ASSUME NEW T, T = (0..n) \ S, T # {} PROVE FALSE  OBVIOUS
<1>1. IsWellFoundedOn(OpToRel(<, Nat), Nat)  BY NatLessThanWellFounded
<1>2. T \in SUBSET Nat  OBVIOUS
<1>3. PICK m \in T : \A y \in T : ~(<<y, m>> \in OpToRel(<, Nat))  BY <1>1, <1>2, WFMin, Zenon
<1>4. m # 0 /\ m - 1 \in 0..(n - 1) /\ m - 1 + 1 = m  OBVIOUS
<1>5. m - 1 \notin T
  <2>1. <<m - 1, m>> \in Nat \X Nat /\ m - 1 < m  BY <1>4
  <2>2. <<m - 1, m>> \in OpToRel(<, Nat)  BY <2>1 DEF OpToRel
  <2>3. QED  BY <1>3, <2>2
<1>6. m - 1 \in S  BY <1>4, <1>5
<1>7. QED  BY <1>4, <1>6

\* Every set of numbers has a least one.
LEMMA Least ==
    ASSUME NEW T \in SUBSET Nat, NEW x \in T
    PROVE  \E m \in T : \A y \in T : m <= y
<1>1. IsWellFoundedOn(OpToRel(<, Nat), Nat)  BY NatLessThanWellFounded
<1>2. PICK m \in T : \A y \in T : ~(<<y, m>> \in OpToRel(<, Nat))  BY <1>1, WFMin, Zenon
<1>3. ASSUME NEW y \in T PROVE m <= y
  <2>1. y < m => <<y, m>> \in OpToRel(<, Nat)  BY DEF OpToRel
  <2>2. ~(y < m)  BY <1>2, <2>1, Zenon
  <2>3. QED  BY <2>2
<1>4. QED  BY <1>3

\* A function whose values are defined one from the other, f[s] in D[s], exists.
Steps(n, D, U, base, g) ==
    /\ n \in Nat /\ base \in D[0] /\ \A s \in 0..n : D[s] \subseteq U
    /\ \A s \in 1..n : \A d \in D[s - 1] : g[<<s, d>>] \in D[s]
Stepwise(n, U, base, g, f) ==
    f \in [0..n -> U] /\ f = [s \in 0..n |-> IF s = 0 THEN base ELSE g[<<s, f[s - 1]>>]]

LEMMA StepByStep ==
    ASSUME NEW n, NEW D, NEW U, NEW base, NEW g, Steps(n, D, U, base, g)
    PROVE  \E f : Stepwise(n, U, base, g, f)
<1>n. n \in Nat /\ base \in D[0] /\ \A s \in 0..n : D[s] \subseteq U  BY DEF Steps
<1>g. \A s \in 1..n : \A d \in D[s - 1] : g[<<s, d>>] \in D[s]  BY DEF Steps
<1> USE <1>n, <1>g
<1> DEFINE Up(k, f) == f[0] = base /\ f[k] \in D[k] /\ \A s \in 1..k : f[s] = g[<<s, f[s - 1]>>]
           S == {k \in 0..n : \E f \in [0..k -> U] : Up(k, f)}
<1>1. 0 \in S
  <2>1. PICK f : f = [s \in 0..0 |-> base]  OBVIOUS
  <2>2. base \in U  OBVIOUS
  <2>3. f \in [0..0 -> U] /\ Up(0, f)  BY <2>1, <2>2
  <2>4. QED  BY <2>3
<1>2. ASSUME NEW k \in 0..(n - 1), k \in S PROVE k + 1 \in S
  <2>1. PICK f \in [0..k -> U] : Up(k, f)  BY <1>2
  <2>v. PICK v : v = g[<<k + 1, f[k]>>]  OBVIOUS
  <2>2. v \in D[k + 1] /\ v \in U
    <3>1. k + 1 \in 1..n /\ k + 1 - 1 = k /\ k + 1 \in 0..n  OBVIOUS
    <3>2. v \in D[k + 1]  BY <2>1, <2>v, <3>1
    <3>3. QED  BY <3>1, <3>2
  <2>3. PICK h : h = [s \in 0..(k + 1) |-> IF s = k + 1 THEN v ELSE f[s]]  OBVIOUS
  <2>4. \A s \in 0..(k + 1) : s = k + 1 \/ s \in 0..k  OBVIOUS
  <2>5. h \in [0..(k + 1) -> U]  BY <2>2, <2>3, <2>4
  <2>6. \A s \in 0..k : s \in 0..(k + 1) /\ s # k + 1  OBVIOUS
  <2>7. h[k + 1] = v /\ \A s \in 0..k : h[s] = f[s]  BY <2>3, <2>6
  <2>8. Up(k + 1, h)
    <3>1. h[0] = base  BY <2>1, <2>7
    <3>2. ASSUME NEW s \in 1..(k + 1) PROVE h[s] = g[<<s, h[s - 1]>>]
      <4>1. s - 1 \in 0..k /\ h[s - 1] = f[s - 1]  BY <2>7
      <4>2. CASE s = k + 1  BY <2>v, <2>7, <4>1, <4>2
      <4>3. CASE s # k + 1
        <5>1. s \in 1..k /\ s \in 0..k  BY <4>3
        <5>2. QED  BY <2>1, <2>7, <4>1, <5>1
      <4>4. QED  BY <4>2, <4>3
    <3>3. QED  BY <2>2, <2>7, <3>1, <3>2
  <2>9. k + 1 \in 0..n  OBVIOUS
  <2>10. QED  BY <2>5, <2>8, <2>9
<1>3. n \in S
  <2> HIDE DEF S
  <2>1. 0..n \subseteq S  BY <1>1, <1>2, UpTo
  <2>2. QED  BY <2>1
<1>4. PICK f \in [0..n -> U] : Up(n, f)  BY <1>3
<1>5. f = [s \in 0..n |-> IF s = 0 THEN base ELSE g[<<s, f[s - 1]>>]]
  <2>1. \A s \in 0..n : f[s] = IF s = 0 THEN base ELSE g[<<s, f[s - 1]>>]
    <3>1. \A s \in 0..n : s = 0 \/ s \in 1..n  OBVIOUS
    <3>2. QED  BY <1>4, <3>1
  <2>2. QED  BY <2>1
<1>6. QED  BY <1>4, <1>5, Zenon DEF Stepwise

\* And every such function has f[s] in D[s].
LEMMA Climb ==
    ASSUME NEW n \in Nat, NEW D, NEW f, f[0] \in D[0], \A s \in 1..n : f[s - 1] \in D[s - 1] => f[s] \in D[s]
    PROVE  \A s \in 0..n : f[s] \in D[s]
<1> DEFINE S == {k \in 0..n : f[k] \in D[k]}
<1>1. 0 \in S  OBVIOUS
<1>2. ASSUME NEW k \in 0..(n - 1), k \in S PROVE k + 1 \in S
  <2>1. k + 1 \in 1..n /\ k + 1 - 1 = k /\ k + 1 \in 0..n  OBVIOUS
  <2>2. QED  BY <1>2, <2>1
<1>3. 0..n \subseteq S
  <2> HIDE DEF S
  <2>1. QED  BY <1>1, <1>2, UpTo
<1>4. QED  BY <1>3

\* The concatenation of sequences, one after the other.
LEMMA Flattened ==
    ASSUME NEW S, NEW n \in Nat, NEW blocks \in [1..n -> Seq(S)]
    PROVE  \E F \in [0..n -> Seq(S)] :
               /\ F[0] = <<>> /\ \A k \in 1..n : F[k] = F[k - 1] \o blocks[k]
               /\ Files!FlattenSeq(blocks) = F[n]
<1>1. PICK F \in [0..n -> Seq(S)] : F[0] = <<>> /\ \A k \in 1..n : F[k] = F[k - 1] \o blocks[k]
  <2>1. PICK D : D = [k \in 0..n |-> Seq(S)]  OBVIOUS
  <2>2. PICK g : g = [x \in (1..n) \X Seq(S) |-> x[2] \o blocks[x[1]]]  OBVIOUS
  <2>3. ASSUME NEW k \in 1..n, NEW d \in Seq(S)
        PROVE  g[<<k, d>>] = d \o blocks[k] /\ d \o blocks[k] \in Seq(S)
    BY <2>2, ConcatProperties
  <2>4. Steps(n, D, Seq(S), <<>>, g)
    <3>1. <<>> \in Seq(S)  BY EmptySeq
    <3>2. \A k \in 0..n : D[k] = Seq(S)  BY <2>1
    <3>3. \A k \in 1..n : k \in 0..n /\ k - 1 \in 0..n  OBVIOUS
    <3>4. ASSUME NEW k \in 1..n, NEW d \in D[k - 1] PROVE g[<<k, d>>] \in D[k]
      <4>1. k \in 0..n /\ k - 1 \in 0..n  BY <3>3
      <4>2. D[k] = Seq(S) /\ D[k - 1] = Seq(S)  BY <3>2, <4>1
      <4>3. QED  BY <2>3, <4>2
    <3>5. <<>> \in D[0] /\ \A k \in 0..n : D[k] \subseteq Seq(S)
      <4>1. 0 \in 0..n  OBVIOUS
      <4>2. QED  BY <3>1, <3>2, <4>1
    <3>6. QED  BY <3>4, <3>5 DEF Steps
  <2>5. PICK F : Stepwise(n, Seq(S), <<>>, g, F)  BY <2>4, StepByStep, Zenon
  <2>6. F \in [0..n -> Seq(S)] /\ F = [s \in 0..n |-> IF s = 0 THEN <<>> ELSE g[<<s, F[s - 1]>>]]
    BY <2>5 DEF Stepwise
  <2>7. ASSUME NEW k \in 1..n PROVE F[k] = F[k - 1] \o blocks[k]
    <3>1. k \in 0..n /\ k # 0 /\ k - 1 \in 0..n  OBVIOUS
    <3>2. F[k - 1] \in Seq(S)  BY <2>6, <3>1
    <3>3. F[k] = g[<<k, F[k - 1]>>]  BY <2>6, <3>1
    <3>4. QED  BY <2>3, <3>2, <3>3
  <2>8. F[0] = <<>>  BY <2>6
  <2>9. QED  BY <2>6, <2>7, <2>8
<1>2. blocks \in Seq(Seq(S)) /\ Len(blocks) = n  BY LenProperties
<1>3. CASE n = 0
  <2>1. blocks = <<>>  BY <1>2, <1>3, EmptySeq
  <2>2. Files!FlattenSeq(blocks) = <<>>  BY <1>2, <1>3, <2>1 DEF Files!FlattenSeq
  <2>3. QED  BY <1>1, <1>3, <2>2
<1>4. CASE n # 0
  <2>1. PICK f : f = [i \in 1..n |-> F[i]]  OBVIOUS
  <2>2. f = [i \in 1..n |-> IF i = 1 THEN blocks[i] ELSE f[i - 1] \o blocks[i]]
    <3>1. ASSUME NEW i \in 1..n PROVE f[i] = IF i = 1 THEN blocks[i] ELSE f[i - 1] \o blocks[i]
      <4>1. CASE i = 1
        <5>1. 1 \in 1..n /\ 1 - 1 = 0  BY <4>1
        <5>2. F[1] = <<>> \o blocks[1] /\ blocks[1] \in Seq(S)  BY <1>1, <5>1
        <5>3. F[1] = blocks[1]  BY <5>2, ConcatEmptySeq
        <5>4. QED  BY <2>1, <4>1, <5>3
      <4>2. CASE i # 1
        <5>1. i - 1 \in 1..n  BY <4>2
        <5>2. QED  BY <1>1, <2>1, <4>2, <5>1
      <4>3. QED  BY <4>1, <4>2
    <3>2. QED  BY <2>1, <3>1
  <2>3. PICK h : h = CHOOSE x : x = [i \in 1..n |-> IF i = 1 THEN blocks[i] ELSE x[i - 1] \o blocks[i]]  OBVIOUS
  <2>4. h = [i \in 1..n |-> IF i = 1 THEN blocks[i] ELSE h[i - 1] \o blocks[i]]  BY <2>2, <2>3, Zenon
  <2>5. h[n] = F[n]
    <3> DEFINE T == {k \in 0..n : k = 0 \/ h[k] = F[k]}
    <3>1. 0 \in T  OBVIOUS
    <3>2. ASSUME NEW k \in 0..(n - 1), k \in T PROVE k + 1 \in T
      <4>1. k + 1 \in 1..n /\ k + 1 - 1 = k /\ (k + 1 = 1 <=> k = 0)  OBVIOUS
      <4> DEFINE i == k + 1
      <4>2. h[i] = IF k = 0 THEN blocks[i] ELSE h[k] \o blocks[i]
        <5>1. h[i] = IF i = 1 THEN blocks[i] ELSE h[i - 1] \o blocks[i]
          <6> HIDE DEF i
          <6>1. QED  BY <2>4, <4>1, Zenon DEF i
        <5>2. QED  BY <4>1, <5>1
      <4>3. f[k + 1] = IF k = 0 THEN blocks[k + 1] ELSE F[k] \o blocks[k + 1]
        <5>1. k # 0 => k \in 1..n /\ f[k] = F[k]  BY <2>1
        <5>2. f[i] = IF i = 1 THEN blocks[i] ELSE f[i - 1] \o blocks[i]
          <6> HIDE DEF i
          <6>1. QED  BY <2>2, <4>1, Zenon DEF i
        <5>3. QED  BY <4>1, <5>1, <5>2
      <4>4. f[k + 1] = F[k + 1]  BY <2>1, <4>1
      <4>5. k = 0 \/ h[k] = F[k]  BY <3>2
      <4>6. h[k + 1] = F[k + 1]  BY <4>2, <4>3, <4>4, <4>5
      <4>7. QED  BY <4>1, <4>6
    <3>3. n \in T
      <4> HIDE DEF T
      <4>1. 0..n \subseteq T  BY <3>1, <3>2, UpTo
      <4>2. QED  BY <4>1
    <3>4. QED  BY <1>4, <3>3
  <2>6. Files!FlattenSeq(blocks) = h[n]  BY <1>2, <1>4, <2>3 DEF Files!FlattenSeq
  <2>7. QED  BY <1>1, <2>5, <2>6
<1>5. QED  BY <1>3, <1>4

LEMMA FlattenedIn ==
    ASSUME NEW S, NEW n \in Nat, NEW blocks \in [1..n -> Seq(S)]
    PROVE  Files!FlattenSeq(blocks) \in Seq(S)
<1>1. \E F \in [0..n -> Seq(S)] :
          /\ F[0] = <<>> /\ \A k \in 1..n : F[k] = F[k - 1] \o blocks[k]
          /\ Files!FlattenSeq(blocks) = F[n]
  BY Flattened, Zenon
<1>2. n \in 0..n  OBVIOUS
<1>3. QED  BY <1>1, <1>2

LEMMA InputsAre == ASSUME NEW f \in Files!Inputs PROVE f \in Names /\ Chunks[f] \in Nat
<1>1. PICK p \in DOMAIN Pages : f \in Files!ToSet(Pages[p])  BY DEF Files!Inputs
<1>2. Pages[p] \in Seq(Names)  BY FilesAssumption DEF Names
<1>3. f \in Names  BY <1>1, <1>2, ElementOfSeq, LenProperties DEF Files!ToSet
<1>4. QED  BY <1>3, FilesAssumption DEF Names

\* What is missing of a page is chunks of its files.
LEMMA MissingOf ==
    ASSUME ReadTypes, NEW p \in DOMAIN Pages, NEW have
    PROVE  Files!Missing(p, have) \in Seq(PageChunks(p))
<1>1. Pages[p] \in Seq(Names)  BY FilesAssumption DEF Names
<1>2. PICK S : S = PageChunks(p)  OBVIOUS
<1>3. PICK n : n \in Nat /\ n = Len(Pages[p]) /\ DOMAIN Pages[p] = 1..n  BY <1>1, LenProperties
<1> DEFINE Passed(f, i) == i > Len(local[f].reads) \/ <<f, i>> \in have
           Own(f) == [i \in Files!All(f) |-> IF Passed(f, i) THEN <<>> ELSE <<<<f, i, local[f].reads[i]>>>>]
<1>4. ASSUME NEW k \in 1..n PROVE Files!FlattenSeq(Own(Pages[p][k])) \in Seq(S)
  <2>1. PICK f : f = Pages[p][k]  OBVIOUS
  <2>2. f \in Names /\ f \in Files!ToSet(Pages[p])
    BY <1>1, <1>3, <2>1, ElementOfSeq DEF Files!ToSet
  <2>3. Chunks[f] \in Nat  BY <2>2, FilesAssumption DEF Names
  <2>4. Files!All(f) = 1..Chunks[f]  BY DEF Files!All
  <2>r. local[f].reads \in Seq(Reading)  BY <2>2 DEF ReadTypes, Files!Inputs
  <2>5. ASSUME NEW i \in 1..Chunks[f] PROVE (IF Passed(f, i) THEN <<>> ELSE <<<<f, i, local[f].reads[i]>>>>) \in Seq(S)
    <3>1. CASE Passed(f, i)  BY <3>1, EmptySeq
    <3>2. CASE ~Passed(f, i)
      <4>1. PICK t : t = local[f].reads  OBVIOUS
      <4>2. i \in 1..Len(t)  BY <2>3, <2>r, <3>2, <4>1, LenProperties
      <4>3. t[i] \in Reading  BY <2>r, <4>1, <4>2, ElementOfSeq
      <4>4. PICK x : x = t[i] /\ x \in Reading  BY <4>3
      <4>5. <<f, i, x>> \in Piece /\ i \in Files!All(f)  BY <2>2, <2>3, <2>4, <4>4 DEF Piece
      <4>6. <<f, i, x>> \in S  BY <1>2, <2>2, <4>5 DEF PageChunks
      <4>7. <<<<f, i, x>>>> \in Seq(S)  BY <4>6
      <4>8. QED  BY <3>2, <4>1, <4>4, <4>7
    <3>3. QED  BY <3>1, <3>2
  <2>6. Own(f) \in [1..Chunks[f] -> Seq(S)]
    <3> HIDE DEF Passed
    <3>1. QED  BY <2>4, <2>5
  <2>7. QED
    <3> HIDE DEF Own
    <3>1. QED  BY <2>1, <2>3, <2>6, FlattenedIn, Zenon
<1>5. PICK blocks : blocks = [k \in 1..n |-> Files!FlattenSeq(Own(Pages[p][k]))]  OBVIOUS
<1>6. blocks \in [1..n -> Seq(S)]  BY <1>4, <1>5
<1>7. Files!Missing(p, have) = Files!FlattenSeq(blocks)  BY <1>3, <1>5 DEF Files!Missing
<1>8. Files!FlattenSeq(blocks) \in Seq(S)  BY <1>3, <1>6, FlattenedIn, Zenon
<1>9. QED  BY <1>2, <1>7, <1>8

-----------------------------------------------------------------------------
(* The inputs.                                                               *)
\* One command takes a step.
LEMMA OneCommand ==
    ASSUME UploadTypes, Asked, NEW c \in Commands, NEW u \in Uploading, AskedBy(u),
           upload' = [upload EXCEPT ![c] = u]
    PROVE  upload' \in [Commands -> Uploading] /\ Asked'
<1>1. upload \in [Commands -> Uploading]  BY DEF UploadTypes
<1>2. upload' \in [Commands -> Uploading]  BY <1>1
<1>3. ASSUME NEW d \in Commands PROVE AskedBy(upload'[d])
  <2>1. CASE d = c
    <3>1. upload'[d] = u  BY <1>1, <2>1
    <3>2. QED  BY <3>1
  <2>2. CASE d # c
    <3>1. upload'[d] = upload[d]  BY <1>1, <2>2
    <3>2. QED  BY <3>1 DEF Asked
  <2>3. QED  BY <2>1, <2>2
<1>4. QED
  <2>1. (\A d \in Commands : AskedBy(upload[d]))'  BY <1>3 DEF AskedBy
  <2>2. QED  BY <1>2, <2>1 DEF Asked

LEMMA PagesAre == Len(Pages) \in Nat /\ DOMAIN Pages = 1..Len(Pages)
BY FilesAssumption, LenProperties

LEMMA OfferingIs ==
    ASSUME NEW page \in Nat \ {0}
    PROVE  Files!Offering(page) \in Uploading /\ AskedBy(Files!Offering(page))
<1>1. CASE page > Len(Pages)
  <2>1. Files!Offering(page) = [pc |-> "done", page |-> 0, request |-> Nothing, reply |-> Nothing]
    BY <1>1 DEF Files!Offering, Files!Idle
  <2>2. QED  BY <2>1 DEF Uploading, UploadPc, Request, UploadReply, AskedBy
<1>2. CASE ~(page > Len(Pages))
  <2>1. Files!Offering(page) = [pc |-> "asking", page |-> page, request |-> [call |-> "offer"], reply |-> Nothing]
    BY <1>2 DEF Files!Offering
  <2>2. page \in DOMAIN Pages  BY <1>2, PagesAre
  <2>3. QED  BY <2>1, <2>2 DEF Uploading, UploadPc, Request, UploadReply, AskedBy
<1>3. QED  BY <1>1, <1>2

LEMMA FailedIs == Files!Failed \in Uploading /\ AskedBy(Files!Failed)
<1>1. Files!Failed = [pc |-> "failed", page |-> 0, request |-> Nothing, reply |-> Nothing]
  BY DEF Files!Failed, Files!Idle
<1>2. QED  BY <1>1 DEF Uploading, UploadPc, Request, UploadReply, AskedBy

LEMMA BatchOf ==
    ASSUME Batch \in Nat, NEW n \in Nat
    PROVE  Files!Min({Batch, n}) \in 0..n /\ (Files!Min({Batch, n}) = n \/ Files!Min({Batch, n}) = Batch)
<1>1. \E x \in {Batch, n} : \A y \in {Batch, n} : x <= y  OBVIOUS
<1>2. PICK m : m = Files!Min({Batch, n})  OBVIOUS
<1>3. m \in {Batch, n} /\ \A y \in {Batch, n} : m <= y  BY <1>1, <1>2 DEF Files!Min
<1>4. QED  BY <1>2, <1>3

\* The beginning of what is sent of a page.
LEMMA PartOf ==
    ASSUME NEW p, NEW t \in Seq(PageChunks(p)), NEW n \in 0..Len(t)
    PROVE  SubSeq(t, 1, n) \in Seq(PageChunks(p))
<1>1. \A k \in 1..n : t[k] \in PageChunks(p)  BY ElementOfSeq, LenProperties
<1>2. n \in Nat  BY LenProperties
<1>3. QED  BY <1>1, <1>2, SubSeqProperties

LEMMA PuttingIs ==
    ASSUME ReadTypes, NEW page \in DOMAIN Pages, NEW have
    PROVE  Files!Putting(page, have) \in Uploading /\ AskedBy(Files!Putting(page, have))
<1>1. PICK m : m = Files!Missing(page, have)  OBVIOUS
<1>2. m \in Seq(PageChunks(page))  BY <1>1, MissingOf
<1>3. page \in Nat /\ page + 1 \in Nat \ {0}  BY PagesAre
<1>4. CASE m = <<>>
  <2>1. Files!Putting(page, have) = Files!Offering(page + 1)  BY <1>1, <1>4 DEF Files!Putting
  <2>2. QED  BY <1>3, <2>1, OfferingIs
<1>5. CASE m # <<>>
  <2>1. PICK n : n = Files!Min({Batch, Len(m)})  OBVIOUS
  <2>2. n \in 0..Len(m)
    <3>1. Len(m) \in Nat /\ Batch \in Nat  BY <1>2, LenProperties, FilesAssumption
    <3>2. QED  BY <2>1, <3>1, BatchOf
  <2>3. PICK b : b = SubSeq(m, 1, n)  OBVIOUS
  <2>4. b \in Seq(PageChunks(page))  BY <1>2, <2>2, <2>3, PartOf
  <2>5. b \in Seq(Piece)
    <3>1. PageChunks(page) \subseteq Piece  BY DEF PageChunks
    <3>2. QED  BY <2>4, <3>1, SeqMonotonic
  <2>6. Files!Putting(page, have) =
            [pc |-> "asking", page |-> page, reply |-> Nothing, request |-> [call |-> "put", chunks |-> b]]
    BY <1>1, <1>5, <2>1, <2>3 DEF Files!Putting
  <2>7. QED  BY <1>3, <2>4, <2>5, <2>6 DEF Uploading, UploadPc, Request, PutRequest, UploadReply, AskedBy
<1>6. QED  BY <1>4, <1>5

LEMMA StartUploadKeeps ==
    ASSUME UploadInv, NEW c \in Commands, Files!StartUpload(c) PROVE UploadInv'
<1>1. upload' = [upload EXCEPT ![c] = Files!Offering(1)] /\ UNCHANGED <<local, artifact, staged, queued>>
  BY DEF Files!StartUpload
<1>2. Files!Offering(1) \in Uploading /\ AskedBy(Files!Offering(1))  BY OfferingIs
<1>3. upload' \in [Commands -> Uploading] /\ Asked'  BY <1>1, <1>2, OneCommand DEF UploadInv
<1>4. QED
  BY <1>1, <1>3 DEF UploadInv, UploadTypes, ReadTypes, CompleteIsStaged, Files!WorkerGetsTheInputs, Files!Kept

LEMMA AnsweredKeeps ==
    ASSUME UploadInv, NEW c \in Commands, Files!Answered(c) PROVE UploadInv'
<1>1. UploadTypes /\ ReadTypes /\ Asked /\ UNCHANGED <<local, artifact, staged, queued>> /\ upload[c].pc = "answered"
  BY DEF UploadInv, Files!Answered
<1>2. upload[c].page \in DOMAIN Pages /\ upload[c].page + 1 \in Nat \ {0}
  <2>1. upload[c].page \in DOMAIN Pages  BY <1>1 DEF Asked, AskedBy
  <2>2. QED  BY <2>1, PagesAre
<1>3. PICK u : /\ upload' = [upload EXCEPT ![c] = u]
               /\ \/ u = Files!Failed
                  \/ u = Files!Offering(upload[c].page + 1)
                  \/ u = Files!Putting(upload[c].page, upload[c].reply.received)
  BY Zenon DEF Files!Answered
<1>4. u \in Uploading /\ AskedBy(u)
  <2>1. CASE u = Files!Failed  BY <2>1, FailedIs, Zenon
  <2>2. CASE u = Files!Offering(upload[c].page + 1)  BY <1>2, <2>2, OfferingIs, Zenon
  <2>3. CASE u = Files!Putting(upload[c].page, upload[c].reply.received)  BY <1>1, <1>2, <2>3, PuttingIs, Zenon
  <2>4. QED  BY <1>3, <2>1, <2>2, <2>3
<1>5. upload' \in [Commands -> Uploading] /\ Asked'  BY <1>1, <1>3, <1>4, OneCommand
<1>6. QED
  BY <1>1, <1>5 DEF UploadInv, UploadTypes, ReadTypes, CompleteIsStaged, Files!WorkerGetsTheInputs, Files!Kept

LEMMA DropKeeps ==
    ASSUME UploadInv, NEW c \in Commands, Files!Drop(c) PROVE UploadInv'
<1>1. upload' = [upload EXCEPT ![c] = Files!Failed] /\ UNCHANGED <<local, artifact, staged, queued>>
  BY DEF Files!Drop
<1>2. upload' \in [Commands -> Uploading] /\ Asked'  BY <1>1, FailedIs, OneCommand DEF UploadInv
<1>3. QED
  BY <1>1, <1>2 DEF UploadInv, UploadTypes, ReadTypes, CompleteIsStaged, Files!WorkerGetsTheInputs, Files!Kept

\* An answer of the host.
LEMMA ReplyIs ==
    ASSUME UploadTypes, Asked, NEW c \in Commands, upload[c].pc = "asking",
           NEW s \in ArtifactState, NEW received \in SUBSET Place, NEW whole \in SUBSET Names,
           Files!Reply(c, s, received, whole)
    PROVE  upload' \in [Commands -> Uploading] /\ Asked'
<1>1. PICK r : r = [state |-> s, received |-> received, complete |-> whole]  OBVIOUS
<1>2. r \in UploadReply  BY <1>1 DEF UploadReply
<1>3. upload[c] \in Uploading /\ upload[c].page \in DOMAIN Pages  BY DEF UploadTypes, Asked, AskedBy
<1>4. PICK u : u = [pc |-> "answered", page |-> upload[c].page, request |-> Nothing, reply |-> r]  OBVIOUS
<1>5. upload' = [upload EXCEPT ![c] = u]
  <2>1. upload' = [upload EXCEPT ![c].pc = "answered", ![c].request = Nothing, ![c].reply = r]
    BY <1>1 DEF Files!Reply
  <2>2. PICK A, D, E : A = UploadPc /\ D = Request /\ E = UploadReply  OBVIOUS
  <2>3. PICK w : w = upload /\ w \in [Commands -> [pc : A, page : Nat, request : D, reply : E]]
    BY <2>2 DEF UploadTypes, Uploading
  <2>4. PICK v : v = [w EXCEPT ![c].pc = "answered", ![c].request = Nothing, ![c].reply = r]  OBVIOUS
  <2>5. v[c] = u
    <3>1. w[c] \in [pc : A, page : Nat, request : D, reply : E]  BY <2>3
    <3>2. v[c] = [[[w[c] EXCEPT !.pc = "answered"] EXCEPT !.request = Nothing] EXCEPT !.reply = r]  BY <2>3, <2>4
    <3>3. QED  BY <1>4, <2>3, <3>1, <3>2
  <2>6. DOMAIN v = Commands /\ \A d \in Commands : d # c => v[d] = w[d]  BY <2>3, <2>4
  <2>7. v = [w EXCEPT ![c] = u]
    <3>1. v = [d \in Commands |-> v[d]]  BY <2>4, <2>6
    <3>2. QED  BY <2>3, <2>5, <2>6, <3>1
  <2>8. QED  BY <2>1, <2>3, <2>4, <2>7
<1>6. AskedBy(u)  BY <1>3, <1>4 DEF AskedBy
<1>7. u \in Uploading  BY <1>2, <1>3, <1>4 DEF Uploading, UploadPc, Request
<1>8. QED  BY <1>5, <1>6, <1>7, OneCommand

\* The inputs are unpacked when every page is complete, from the disk.
LEMMA ReadyIs ==
    ASSUME Files!WorkerGetsTheInputs, NEW disk, NEW table,
           \A p \in DOMAIN Pages : table[p].state = "complete" => \A f \in Files!ToSet(Pages[p]) : Files!Kept(disk, f)
    PROVE  Files!Ready(disk, table) # Nothing => \A f \in Files!Inputs : Files!Kept(Files!Ready(disk, table), f)
<1>1. CASE queued = Nothing /\ \A p \in DOMAIN Pages : table[p].state = "complete"
  <2>1. Files!Ready(disk, table) = disk  BY <1>1 DEF Files!Ready
  <2>2. \A f \in Files!Inputs : Files!Kept(disk, f)  BY <1>1 DEF Files!Inputs
  <2>3. QED  BY <2>1, <2>2
<1>2. CASE ~(queued = Nothing /\ \A p \in DOMAIN Pages : table[p].state = "complete")
  <2>1. Files!Ready(disk, table) = queued  BY <1>2 DEF Files!Ready
  <2>2. QED  BY <2>1 DEF Files!WorkerGetsTheInputs
<1>3. QED  BY <1>1, <1>2

LEMMA OfferKeeps ==
    ASSUME UploadInv, NEW c \in Commands, Files!Offer(c) PROVE UploadInv'
<1>1. UploadTypes /\ ReadTypes /\ Asked /\ CompleteIsStaged /\ Files!WorkerGetsTheInputs /\ UNCHANGED <<local, staged>>
  BY DEF UploadInv, Files!Offer
<1>2. PICK p, a : p = upload[c].page /\ a = artifact[p]  OBVIOUS
<1>3. upload[c].pc = "asking" /\ p \in DOMAIN Pages  BY <1>1, <1>2 DEF Files!Offer, Asked, AskedBy
<1>4. a \in [state : ArtifactState, received : SUBSET Place]  BY <1>1, <1>2, <1>3 DEF UploadTypes
<1>5. CASE a.state \in {"partial", "complete"}
  <2>1. PICK whole : whole = {f \in Files!ToSet(Pages[p]) : Chunks[f] <= Files!Cardinality(Files!Has(a.received, f))}
    OBVIOUS
  <2>2. /\ Files!Reply(c, a.state, a.received, whole) /\ UNCHANGED artifact
        /\ queued' = IF a.state = "complete" THEN Files!Ready(staged, artifact) ELSE queued
    BY <1>2, <1>5, <2>1 DEF Files!Offer
  <2>3. whole \in SUBSET Names
    <3>1. Pages[p] \in Seq(Names)  BY <1>3, FilesAssumption DEF Names
    <3>2. Files!ToSet(Pages[p]) \subseteq Names  BY <3>1, ElementOfSeq, LenProperties DEF Files!ToSet
    <3>3. QED  BY <2>1, <3>2
  <2>4. upload' \in [Commands -> Uploading] /\ Asked'  BY <1>1, <1>3, <1>4, <2>2, <2>3, ReplyIs
  <2>5. CompleteIsStaged'  BY <1>1, <2>2 DEF CompleteIsStaged, Files!Kept
  <2>6. Files!WorkerGetsTheInputs'
    <3>1. Files!Ready(staged, artifact) # Nothing =>
              \A f \in Files!Inputs : Files!Kept(Files!Ready(staged, artifact), f)
      BY <1>1, ReadyIs DEF CompleteIsStaged
    <3>2. QED  BY <1>1, <2>2, <3>1 DEF Files!WorkerGetsTheInputs, Files!Kept
  <2>7. QED  BY <1>1, <2>2, <2>4, <2>5, <2>6 DEF UploadInv, UploadTypes, ReadTypes
<1>6. CASE a.state \notin {"partial", "complete"}
  <2>1. /\ artifact' = [artifact EXCEPT ![p] = [state |-> "partial", received |-> {}]]
        /\ Files!Reply(c, "partial", {}, {}) /\ UNCHANGED queued
    BY <1>2, <1>6 DEF Files!Offer
  <2>2. "partial" \in ArtifactState /\ {} \in SUBSET Place /\ {} \in SUBSET Names  BY DEF ArtifactState
  <2>3. upload' \in [Commands -> Uploading] /\ Asked'  BY <1>1, <1>3, <2>1, <2>2, ReplyIs
  <2>4. /\ artifact' \in [DOMAIN Pages -> [state : ArtifactState, received : SUBSET Place]]
        /\ artifact'[p].state = "partial"
        /\ \A q \in DOMAIN Pages : q # p => artifact'[q] = artifact[q]
    <3>1. artifact \in [DOMAIN Pages -> [state : ArtifactState, received : SUBSET Place]]  BY <1>1 DEF UploadTypes
    <3>2. [state |-> "partial", received |-> {}] \in [state : ArtifactState, received : SUBSET Place]  BY <2>2
    <3>3. QED  BY <1>3, <2>1, <3>1, <3>2
  <2>5. CompleteIsStaged'
    <3>1. \A q \in DOMAIN Pages : artifact'[q].state = "complete" => artifact[q].state = "complete"  BY <2>4
    <3>2. QED  BY <1>1, <3>1 DEF CompleteIsStaged, Files!Kept
  <2>6. QED  BY <1>1, <2>1, <2>3, <2>4, <2>5 DEF UploadInv, UploadTypes, ReadTypes, Files!WorkerGetsTheInputs, Files!Kept
<1>7. QED  BY <1>5, <1>6

\* A chunk of a file of another page leaves a file as it is.
LEMMA OthersStay ==
    ASSUME NEW disk, NEW chunks, NEW other, NEW f \in Files!Inputs, Files!Kept(disk, f),
           \A d \in Files!ToSet(chunks) : d[1] # f
    PROVE  Files!Kept(Files!Written(disk, chunks, other), f)
<1>1. {c[2] : c \in {d \in Files!ToSet(chunks) : d[1] = f}} = {}  OBVIOUS
<1>2. ~\E c \in Files!ToSet(chunks) : c[1] = f  OBVIOUS
<1>3. Files!Written(disk, chunks, other)[f] = [i \in DOMAIN disk[f] |-> disk[f][i]]
  BY <1>1, <1>2 DEF Files!Written
<1>4. QED  BY <1>3 DEF Files!Kept

\* What a batch brings that is not finished leaves a page as it is kept.
LEMMA StrayIs ==
    ASSUME NEW disk, NEW chunks, NEW f \in Files!Inputs, Files!Kept(disk, f),
           \A d \in Files!ToSet(chunks) : d[1] = f => d[2] \in Files!All(f)
    PROVE  Files!Kept(Files!Written(disk, chunks, "stray"), f)
<1>1. PICK W : W = {c[2] : c \in {d \in Files!ToSet(chunks) : d[1] = f}}  OBVIOUS
<1>2. W \subseteq Files!All(f)  BY <1>1
<1>3. PICK g : g = Files!Written(disk, chunks, "stray")[f]  OBVIOUS
<1>4. g = [i \in DOMAIN disk[f] \union W |->
              IF ~\E c \in Files!ToSet(chunks) : c[1] = f /\ c[2] = i THEN disk[f][i]
              ELSE IF <<f, i, "good">> \in Files!ToSet(chunks) THEN "good" ELSE "stray"]
  BY <1>1, <1>3 DEF Files!Written
<1>5. DOMAIN disk[f] = Files!All(f) /\ \A i \in Files!All(f) : disk[f][i] \in {"good", "stray"}  BY DEF Files!Kept
<1>6. DOMAIN g = Files!All(f)  BY <1>2, <1>4, <1>5
<1>7. \A i \in Files!All(f) : g[i] \in {"good", "stray"}  BY <1>2, <1>4, <1>5
<1>8. QED  BY <1>3, <1>6, <1>7 DEF Files!Kept

LEMMA StrayKeeps ==
    ASSUME CompleteIsStaged, NEW p \in DOMAIN Pages, NEW t \in Seq(PageChunks(p)),
           staged' = Files!Written(staged, t, "stray"), UNCHANGED artifact
    PROVE  CompleteIsStaged'
<1>1. ASSUME NEW q \in DOMAIN Pages, artifact[q].state = "complete", NEW f \in Files!ToSet(Pages[q])
      PROVE  Files!Kept(staged', f)
  <2>1. Files!Kept(staged, f) /\ f \in Files!Inputs  BY <1>1 DEF CompleteIsStaged, Files!Inputs
  <2>2. ASSUME NEW d \in Files!ToSet(t), d[1] = f PROVE d[2] \in Files!All(f)
    <3>1. d \in PageChunks(p)  BY <2>2, ElementOfSeq, LenProperties DEF Files!ToSet
    <3>2. QED  BY <2>2, <3>1 DEF PageChunks
  <2>3. QED  BY <2>1, <2>2, StrayIs
<1>2. QED  BY <1>1 DEF CompleteIsStaged, Files!Kept

\* The chunks of a batch are of the page, and so are those which are taken.
LEMMA PutsOf ==
    ASSUME UploadTypes, Asked, NEW c \in Commands, Files!Puts(c)
    PROVE  /\ upload[c].pc = "asking" /\ upload[c].page \in DOMAIN Pages
           /\ upload[c].request.chunks \in Seq(PageChunks(upload[c].page))
           /\ upload[c].request.chunks \in Seq(Piece)
<1>1. upload[c].pc = "asking" /\ upload[c].request.call = "put"  BY Zenon DEF Files!Puts
<1>2. /\ upload[c].page \in DOMAIN Pages
      /\ \/ upload[c].request = [call |-> "offer"]
         \/ upload[c].request \in PutRequest /\ upload[c].request.chunks \in Seq(PageChunks(upload[c].page))
  BY <1>1 DEF Asked, AskedBy
<1>3. upload[c].request # [call |-> "offer"]  BY <1>1
<1>4. upload[c].request \in PutRequest => upload[c].request.chunks \in Seq(Piece)  BY DEF PutRequest
<1>5. QED  BY SMTT(30), <1>1, <1>2, <1>3, <1>4

LEMMA ValidOf ==
    ASSUME NEW p, NEW t \in Seq(PageChunks(p))
    PROVE  Files!Valid(t) \in Seq(PageChunks(p)) /\ Len(Files!Valid(t)) <= Len(t)
<1>1. PICK odd : odd = {k \in DOMAIN t : t[k][3] = "odd"}  OBVIOUS
<1>2. DOMAIN t = 1..Len(t) /\ Len(t) \in Nat  BY LenProperties
<1>3. CASE odd = {}
  <2>1. Files!Valid(t) = t  BY <1>1, <1>3 DEF Files!Valid
  <2>2. QED  BY <1>2, <2>1
<1>4. CASE odd # {}
  <2>1. PICK k : k \in odd  BY <1>4
  <2>2. odd \in SUBSET Nat  BY <1>1, <1>2
  <2>3. \E m \in odd : \A y \in odd : m <= y  BY <2>1, <2>2, Least
  <2>4. PICK m : m = Files!Min(odd)  OBVIOUS
  <2>5. m \in odd  BY <2>3, <2>4 DEF Files!Min
  <2>6. m - 1 \in 0..Len(t)  BY <1>1, <1>2, <2>5
  <2>7. Files!Valid(t) = SubSeq(t, 1, m - 1)  BY <1>1, <1>4, <2>4 DEF Files!Valid
  <2>8. Len(SubSeq(t, 1, m - 1)) = m - 1
    <3>1. \A i \in 1..(m - 1) : t[i] \in PageChunks(p)  BY <1>2, <2>6, ElementOfSeq
    <3>2. m - 1 \in Nat  BY <2>6
    <3>3. QED  BY <3>1, <3>2, SubSeqProperties
  <2>9. QED  BY <1>2, <2>6, <2>7, <2>8, PartOf
<1>5. QED  BY <1>3, <1>4

LEMMA PutKeeps ==
    ASSUME UploadInv, NEW c \in Commands, Files!Put(c) PROVE UploadInv'
<1>1. UploadTypes /\ ReadTypes /\ Asked /\ CompleteIsStaged /\ Files!WorkerGetsTheInputs
  BY DEF UploadInv
<1>2. PICK p, chunks : p = upload[c].page /\ chunks = upload[c].request.chunks  BY Zenon
<1>3. /\ upload[c].pc = "asking" /\ p \in DOMAIN Pages
      /\ chunks \in Seq(Piece) /\ chunks \in Seq(PageChunks(p))
  <2>1. Files!Puts(c)  BY DEF Files!Put
  <2>2. QED  BY <1>1, <1>2, <2>1, PutsOf
<1>4. PICK disk, received, files :
          /\ disk = Files!Written(staged, chunks, "bad") /\ files = Files!ToSet(Pages[p])
          /\ received = artifact[p].received \union {<<x[1], x[2]>> : x \in Files!ToSet(chunks)}
  OBVIOUS
<1>5. PICK verdict : verdict = Files!Judged(artifact[p], disk, files, received)  OBVIOUS
<1>6. PICK table : table = [artifact EXCEPT ![p] = [state |-> verdict.state, received |-> received]]  OBVIOUS
<1>7. /\ staged' = disk /\ artifact' = table
      /\ queued' = IF verdict.state = "complete" THEN Files!Ready(disk, table) ELSE queued
      /\ Files!Reply(c, verdict.state, received, verdict.complete) /\ UNCHANGED local
  BY <1>2, <1>4, <1>5, <1>6 DEF Files!Put
<1>8. received \in SUBSET Place
  <2>1. artifact[p].received \in SUBSET Place  BY <1>1, <1>3 DEF UploadTypes
  <2>2. ASSUME NEW x \in Files!ToSet(chunks) PROVE <<x[1], x[2]>> \in Place
    <3>1. x \in Piece  BY <1>3, <2>2, ElementOfSeq, LenProperties DEF Files!ToSet
    <3>2. QED  BY <3>1 DEF Piece, Place
  <2>3. QED  BY <1>4, <2>1, <2>2
<1>9. files \in SUBSET Names
  <2>1. Pages[p] \in Seq(Names)  BY <1>3, FilesAssumption DEF Names
  <2>2. QED  BY <1>4, <2>1, ElementOfSeq, LenProperties DEF Files!ToSet
<1>10. /\ verdict.state \in ArtifactState /\ verdict.complete \in SUBSET Names
       /\ verdict.state = "complete" => \A f \in files : Files!Verified(disk, f)
  <2>1. PICK arrived : arrived = {f \in files : Files!Cardinality(Files!Has(received, f)) >= Chunks[f]}  OBVIOUS
  <2>2. PICK done : done = {f \in arrived : Files!Verified(disk, f)}  OBVIOUS
  <2>3. verdict = [state |-> IF arrived # done THEN "verified_failed" ELSE IF done = files THEN "complete" ELSE "partial",
                   complete |-> done]
    BY <1>5, <2>1, <2>2 DEF Files!Judged
  <2>4. QED  BY <1>9, <2>1, <2>2, <2>3 DEF ArtifactState
<1>11. upload' \in [Commands -> Uploading] /\ Asked'  BY <1>1, <1>3, <1>7, <1>8, <1>10, ReplyIs
<1>12. /\ table \in [DOMAIN Pages -> [state : ArtifactState, received : SUBSET Place]]
       /\ table[p].state = verdict.state
       /\ \A q \in DOMAIN Pages : q # p => table[q] = artifact[q]
  <2>1. artifact \in [DOMAIN Pages -> [state : ArtifactState, received : SUBSET Place]]  BY <1>1 DEF UploadTypes
  <2>2. [state |-> verdict.state, received |-> received] \in [state : ArtifactState, received : SUBSET Place]
    BY <1>8, <1>10
  <2>3. QED  BY <1>3, <1>6, <2>1, <2>2
<1>13. ASSUME NEW q \in DOMAIN Pages, table[q].state = "complete", NEW f \in Files!ToSet(Pages[q])
       PROVE  Files!Kept(disk, f)
  <2>1. CASE q = p
    <3>1. Files!Verified(disk, f)  BY <1>4, <1>10, <1>12, <1>13, <2>1
    <3>2. QED  BY <3>1 DEF Files!Verified, Files!Kept
  <2>2. CASE q # p
    <3>1. Files!Kept(staged, f)  BY <1>1, <1>12, <1>13, <2>2 DEF CompleteIsStaged
    <3>2. ASSUME NEW d \in Files!ToSet(chunks) PROVE d[1] # f
      <4>0. d \in PageChunks(p)  BY <1>3, ElementOfSeq, LenProperties DEF Files!ToSet
      <4>1. d[1] \in Files!ToSet(Pages[p])  BY <4>0 DEF PageChunks
      <4>2. QED  BY <1>3, <2>2, <4>1, FilesAssumption DEF Files!ToSet
    <3>3. f \in Files!Inputs  BY DEF Files!Inputs
    <3>4. QED  BY <1>4, <3>1, <3>2, <3>3, OthersStay
  <2>3. QED  BY <2>1, <2>2
<1>14. CompleteIsStaged'  BY <1>7, <1>13 DEF CompleteIsStaged, Files!Kept
<1>15. Files!WorkerGetsTheInputs'
  <2>1. Files!Ready(disk, table) # Nothing => \A f \in Files!Inputs : Files!Kept(Files!Ready(disk, table), f)
    BY <1>1, <1>13, ReadyIs
  <2>2. QED  BY <1>1, <1>7, <2>1 DEF Files!WorkerGetsTheInputs, Files!Kept
<1>16. QED  BY <1>1, <1>7, <1>11, <1>12, <1>14, <1>15 DEF UploadInv, UploadTypes, ReadTypes

LEMMA RefuseKeeps ==
    ASSUME UploadInv, NEW c \in Commands, Files!Refuse(c) PROVE UploadInv'
<1>1. UploadTypes /\ ReadTypes /\ Asked /\ CompleteIsStaged /\ Files!WorkerGetsTheInputs
  BY DEF UploadInv
<1>2. Files!Puts(c) /\ upload' = [upload EXCEPT ![c] = Files!Failed] /\ UNCHANGED <<local, artifact, queued>>
  BY DEF Files!Refuse
<1>3. PICK t : t = Files!Valid(upload[c].request.chunks)  OBVIOUS
<1>4. upload[c].page \in DOMAIN Pages /\ t \in Seq(PageChunks(upload[c].page))  BY <1>1, <1>2, <1>3, PutsOf, ValidOf
<1>5. staged' = Files!Written(staged, t, "stray")  BY <1>3 DEF Files!Refuse
<1>6. CompleteIsStaged'  BY <1>1, <1>2, <1>4, <1>5, StrayKeeps
<1>7. upload' \in [Commands -> Uploading] /\ Asked'  BY <1>1, <1>2, FailedIs, OneCommand
<1>8. QED
  BY <1>1, <1>2, <1>6, <1>7 DEF UploadInv, UploadTypes, ReadTypes, Files!WorkerGetsTheInputs, Files!Kept

LEMMA HostEndsKeeps ==
    ASSUME UploadInv, NEW c \in Commands, Files!HostEnds(c) PROVE UploadInv'
<1>1. UploadTypes /\ ReadTypes /\ Asked /\ CompleteIsStaged /\ Files!WorkerGetsTheInputs
  BY DEF UploadInv
<1>2. /\ Files!Puts(c) /\ UNCHANGED <<local, artifact, queued>>
      /\ upload' = [d \in Commands |-> IF upload[d].pc \in {"asking", "answered"} THEN Files!Failed ELSE upload[d]]
  BY DEF Files!HostEnds
<1>3. PICK chunks : chunks = upload[c].request.chunks  OBVIOUS
<1>4. upload[c].page \in DOMAIN Pages /\ chunks \in Seq(PageChunks(upload[c].page))
  BY <1>1, <1>2, <1>3, PutsOf
<1>5. PICK n \in DOMAIN Files!Valid(chunks) : staged' = Files!Written(staged, SubSeq(chunks, 1, n), "stray")
  BY <1>3 DEF Files!HostEnds
<1>6. SubSeq(chunks, 1, n) \in Seq(PageChunks(upload[c].page))
  <2>1. Files!Valid(chunks) \in Seq(PageChunks(upload[c].page)) /\ Len(Files!Valid(chunks)) <= Len(chunks)
    BY <1>4, ValidOf
  <2>2. n \in 0..Len(chunks)
    <3>1. n \in 1..Len(Files!Valid(chunks)) /\ Len(Files!Valid(chunks)) \in Nat /\ Len(chunks) \in Nat
      BY <1>4, <2>1, LenProperties
    <3>2. QED  BY <2>1, <3>1
  <2>3. QED  BY <1>4, <2>2, PartOf
<1>7. CompleteIsStaged'  BY <1>1, <1>2, <1>4, <1>5, <1>6, StrayKeeps
<1>8. \A d \in Commands : upload'[d] \in Uploading /\ AskedBy(upload'[d])
  <2> TAKE d \in Commands
  <2>1. upload'[d] = Files!Failed \/ upload'[d] = upload[d]  BY <1>2
  <2>2. upload[d] \in Uploading /\ AskedBy(upload[d])  BY <1>1 DEF UploadTypes, Asked
  <2>3. CASE upload'[d] = Files!Failed  BY <2>3, FailedIs
  <2>4. CASE upload'[d] = upload[d]  BY <2>2, <2>4
  <2>5. QED  BY <2>1, <2>3, <2>4
<1>9. upload' \in [Commands -> Uploading] /\ Asked'
  <2>1. (\A d \in Commands : AskedBy(upload[d]))'  BY <1>8 DEF AskedBy
  <2>2. QED  BY <1>2, <1>8, <2>1 DEF Asked
<1>10. QED
  BY <1>1, <1>2, <1>7, <1>9 DEF UploadInv, UploadTypes, ReadTypes, Files!WorkerGetsTheInputs, Files!Kept

LEMMA EditKeeps ==
    ASSUME UploadInv, NEW f \in Files!Inputs, Files!Edit(f) PROVE UploadInv'
<1>1. UNCHANGED <<upload, artifact, staged, queued>>  BY DEF Files!Edit
<1>2. PICK as \in {Files!Declared(f)} \union [intact : {FALSE}, reads : Files!Readings(f)] :
          local' = [local EXCEPT ![f] = as]
  BY DEF Files!Edit
<1>3. as.reads \in Seq(Reading)
  <2>1. CASE as = Files!Declared(f)
    <3>1. Chunks[f] \in Nat  BY InputsAre
    <3>2. as.reads = [i \in 1..Chunks[f] |-> "good"]  BY <2>1 DEF Files!Declared, Files!All
    <3>3. QED  BY <3>1, <3>2 DEF Reading
  <2>2. CASE as \in [intact : {FALSE}, reads : Files!Readings(f)]
    <3>1. PICK n \in 0..Chunks[f] : as.reads \in [1..n -> {"good", "bad", "odd"}]  BY <2>2 DEF Files!Readings
    <3>2. n \in Nat  BY InputsAre
    <3>3. \A t \in [1..n -> Reading] : t \in Seq(Reading)  BY <3>2
    <3>4. QED  BY <3>1, <3>3 DEF Reading
  <2>3. QED  BY <1>2, <2>1, <2>2
<1>4. ReadTypes'
  <2>1. ASSUME NEW g \in Files!Inputs PROVE local'[g].reads \in Seq(Reading)
    <3>1. local[g].reads \in Seq(Reading)  BY DEF UploadInv, ReadTypes
    <3>2. CASE g # f  BY <1>2, <3>1, <3>2
    <3>3. CASE g = f /\ f \in DOMAIN local  BY <1>2, <1>3, <3>3
    <3>4. CASE g = f /\ f \notin DOMAIN local  BY <1>2, <3>1, <3>4
    <3>5. QED  BY <3>2, <3>3, <3>4
  <2>2. QED  BY <2>1 DEF ReadTypes
<1>5. QED
  BY <1>1, <1>4 DEF UploadInv, UploadTypes, Asked, AskedBy, CompleteIsStaged, Files!WorkerGetsTheInputs, Files!Kept

LEMMA UploadStands == UploadInv /\ UNCHANGED <<local, upload, artifact, staged, queued>> => UploadInv'
BY DEF UploadInv, UploadTypes, ReadTypes, Asked, AskedBy, CompleteIsStaged, Files!WorkerGetsTheInputs, Files!Kept

-----------------------------------------------------------------------------
(* The results: a reply has, of each file, the chunks that follow the cursor. *)
Sent(f, i) == <<f, i, published[f]>>
Placed(t, n, cursor) ==
    \A q \in 1..n : \E f \in Wanted : \E i \in (cursor[f] + 1)..Chunks[f] :
        t[q] = Sent(f, i) /\ \A h \in (cursor[f] + 1)..i : \E r \in 1..q : t[r] = Sent(f, h)
Ordered(t, cursor) == t \in Seq(Chunk) /\ Placed(t, Len(t), cursor)
Whole(t, k, cursor) ==
    \A m \in 1..k : \A i \in (cursor[Results[m]] + 1)..Chunks[Results[m]] :
        \E q \in 1..Len(t) : t[q] = Sent(Results[m], i)
Cursors == {c \in [Wanted -> Nat] : \A f \in Wanted : c[f] <= Chunks[f]}

LEMMA WantedIs == /\ Len(Results) \in Nat /\ DOMAIN Results = 1..Len(Results)
                  /\ Wanted = {Results[k] : k \in 1..Len(Results)}
                  /\ \A f \in Wanted : f \in Names /\ Chunks[f] \in Nat
<1>1. Results \in Seq(Names)  BY FilesAssumption DEF Names
<1>2. Len(Results) \in Nat /\ DOMAIN Results = 1..Len(Results)  BY <1>1, LenProperties
<1>3. Wanted = {Results[k] : k \in 1..Len(Results)}  BY <1>2 DEF Wanted, Files!ToSet
<1>4. \A k \in 1..Len(Results) : Results[k] \in Names  BY <1>1, ElementOfSeq
<1>5. \A f \in Names : Chunks[f] \in Nat  BY FilesAssumption DEF Names
<1>6. QED  BY <1>2, <1>3, <1>4, <1>5

\* A sequence and what is appended to it.
Joined(S, t, n, b) ==
    /\ Len(t) \in Nat /\ b \in Seq(S) /\ t \o b \in Seq(S) /\ Len(t \o b) = Len(t) + n
    /\ \A q \in 1..Len(t) : q \in 1..(Len(t) + n) /\ (t \o b)[q] = t[q]
    /\ \A j \in 1..n : Len(t) + j \in 1..(Len(t) + n) /\ (t \o b)[Len(t) + j] = b[j]
LEMMA Appended ==
    ASSUME NEW S, NEW t \in Seq(S), NEW n \in Nat, NEW b \in [1..n -> S]
    PROVE  Joined(S, t, n, b)
<1>1. Len(t) \in Nat /\ b \in Seq(S) /\ Len(b) = n  BY LenProperties
<1>2. /\ t \o b \in Seq(S) /\ Len(t \o b) = Len(t) + n
      /\ \A i \in 1..(Len(t) + n) : (t \o b)[i] = IF i <= Len(t) THEN t[i] ELSE b[i - Len(t)]
  BY <1>1, ConcatProperties
<1>3. \A q \in 1..Len(t) : q \in 1..(Len(t) + n) /\ q <= Len(t)  BY <1>1
<1>4. \A j \in 1..n : Len(t) + j \in 1..(Len(t) + n) /\ ~(Len(t) + j <= Len(t)) /\ Len(t) + j - Len(t) = j
  BY <1>1
<1>5. QED  BY <1>1, <1>2, <1>3, <1>4 DEF Joined

\* What lies between two numbers.
LEMMA Between ==
    ASSUME NEW a \in Nat, NEW z \in Nat, a <= z, NEW n, n = z - a
    PROVE  /\ n \in Nat /\ a + n = z
           /\ \A j \in 1..n : a + j \in (a + 1)..z /\ a + j \in Nat
           /\ \A i \in (a + 1)..z : i - a \in 1..n /\ a + (i - a) = i
OBVIOUS

\* One file more.
LEMMA OneFileMore ==
    ASSUME NEW cursor \in Cursors, published \in [Wanted -> BOOLEAN], NEW k \in 1..Len(Results), NEW t,
           Ordered(t, cursor), Whole(t, k - 1, cursor),
           NEW b, b = [j \in 1..(Chunks[Results[k]] - cursor[Results[k]]) |-> Sent(Results[k], cursor[Results[k]] + j)]
    PROVE  b \in Seq(Chunk) /\ Ordered(t \o b, cursor) /\ Whole(t \o b, k, cursor)
<1>1. PICK f, a, z, n : f = Results[k] /\ a = cursor[f] /\ z = Chunks[f] /\ n = z - a  OBVIOUS
<1>2. f \in Wanted /\ f \in Names /\ a \in Nat /\ z \in Nat /\ a <= z /\ published[f] \in BOOLEAN
  BY <1>1, WantedIs DEF Cursors
<1>3. n \in Nat /\ \A j \in 1..n : a + j \in (a + 1)..z /\ a + j \in Nat
  <2>1. a \in Nat /\ z \in Nat /\ a <= z /\ n = z - a  BY <1>1, <1>2
  <2>2. QED  BY <2>1, Between, Zenon
<1>4. b \in [1..n -> Chunk] /\ \A j \in 1..n : b[j] = Sent(f, a + j)
  <2>1. b = [j \in 1..n |-> Sent(f, a + j)]  BY <1>1
  <2>2. \A j \in 1..n : Sent(f, a + j) \in Chunk  BY <1>2, <1>3 DEF Sent, Chunk
  <2>3. QED  BY <2>1, <2>2
<1>5. t \in Seq(Chunk)  BY DEF Ordered
<1>6. PICK u, L : u = t \o b /\ L = Len(t)  OBVIOUS
<1>7. /\ L \in Nat /\ b \in Seq(Chunk) /\ u \in Seq(Chunk) /\ Len(u) = L + n
      /\ \A q \in 1..L : q \in 1..(L + n) /\ u[q] = t[q]
      /\ \A j \in 1..n : L + j \in 1..(L + n) /\ u[L + j] = b[j]
  <2>1. n \in Nat /\ b \in [1..n -> Chunk]  BY <1>3, <1>4
  <2>2. Joined(Chunk, t, n, b)  BY <1>5, <2>1, Appended, Zenon
  <2>3. QED  BY <1>6, <2>2, Zenon DEF Joined
<1>8. Ordered(u, cursor)
  <2>1. ASSUME NEW q \in 1..(L + n)
        PROVE  \E g \in Wanted : \E i \in (cursor[g] + 1)..Chunks[g] :
                   u[q] = Sent(g, i) /\ \A h \in (cursor[g] + 1)..i : \E r \in 1..q : u[r] = Sent(g, h)
    <3>1. CASE q \in 1..L
      <4>1. PICK g \in Wanted : \E i \in (cursor[g] + 1)..Chunks[g] :
                t[q] = Sent(g, i) /\ \A h \in (cursor[g] + 1)..i : \E r \in 1..q : t[r] = Sent(g, h)
        BY <1>6, <3>1 DEF Ordered, Placed
      <4>2. PICK i \in (cursor[g] + 1)..Chunks[g] :
                t[q] = Sent(g, i) /\ \A h \in (cursor[g] + 1)..i : \E r \in 1..q : t[r] = Sent(g, h)
        BY <4>1
      <4>3. u[q] = Sent(g, i)  BY <1>7, <3>1, <4>2
      <4>4. ASSUME NEW h \in (cursor[g] + 1)..i PROVE \E r \in 1..q : u[r] = Sent(g, h)
        <5>1. PICK r \in 1..q : t[r] = Sent(g, h)  BY <4>2
        <5>2. r \in 1..L
          <6>1. \A x \in 1..q : x \in 1..L
            <7> HIDE <1>7
            <7>1. L \in Nat  BY <1>7
            <7>2. QED  BY <3>1, <7>1
          <6>2. QED  BY <6>1
        <5>3. QED  BY <1>7, <5>1, <5>2
      <4>5. QED  BY <4>3, <4>4
    <3>2. CASE q \notin 1..L
      <4>1. L \in Nat  BY <1>7
      <4>2. PICK j \in 1..n : q = L + j
        <5>1. q - L \in 1..n /\ q = L + (q - L)  BY <1>3, <3>2, <4>1
        <5>2. QED  BY <5>1
      <4>3. a + j \in (cursor[f] + 1)..Chunks[f]  BY <1>1, <1>3
      <4>4. u[q] = Sent(f, a + j)  BY <1>4, <1>7, <4>2
      <4>5. ASSUME NEW h \in (a + 1)..(a + j) PROVE \E r \in 1..q : u[r] = Sent(f, h)
        <5>1. PICK d : d = h - a  OBVIOUS
        <5>2. d \in 1..n /\ d \in 1..j /\ a + d = h  BY <1>2, <1>3, <5>1
        <5>3. L + d \in 1..q  BY <4>1, <4>2, <5>2
        <5>4. u[L + d] = Sent(f, h)  BY <1>4, <1>7, <5>2
        <5>5. QED  BY <5>3, <5>4
      <4>6. QED  BY <1>1, <1>2, <4>3, <4>4, <4>5
    <3>3. QED  BY <3>1, <3>2
  <2>2. Len(u) = L + n /\ u \in Seq(Chunk)  BY <1>7
  <2>3. Placed(u, L + n, cursor)  BY <2>1, Zenon DEF Placed
  <2>4. QED  BY <2>2, <2>3, Zenon DEF Ordered
<1>9. Whole(u, k, cursor)
  <2>1. ASSUME NEW m \in 1..k, NEW i \in (cursor[Results[m]] + 1)..Chunks[Results[m]]
        PROVE  \E q \in 1..(L + n) : u[q] = Sent(Results[m], i)
    <3>1. CASE m = k
      <4>1. PICK j : j = i - a  OBVIOUS
      <4>2. i \in (a + 1)..z  BY <1>1, <3>1
      <4>3. j \in 1..n /\ a + j = i
        <5>1. a \in Nat /\ z \in Nat /\ a <= z /\ n = z - a  BY <1>1, <1>2
        <5>2. i - a \in 1..n /\ a + (i - a) = i  BY <4>2, <5>1, Between, Zenon
        <5>3. QED  BY <4>1, <5>2
      <4>4. u[L + j] = Sent(f, i) /\ L + j \in 1..(L + n)  BY <1>4, <1>7, <4>3
      <4>5. QED  BY <1>1, <3>1, <4>4
    <3>2. CASE m # k
      <4>1. m \in 1..(k - 1)  BY <3>2, WantedIs
      <4>2. PICK q \in 1..L : t[q] = Sent(Results[m], i)  BY <1>6, <4>1 DEF Whole
      <4>3. QED  BY <1>7, <4>2
    <3>3. QED  BY <3>1, <3>2
  <2>2. QED  BY <1>7, <2>1 DEF Whole
<1>10. QED  BY <1>6, <1>7, <1>8, <1>9


\* A batch is the beginning of what follows.
LEMMA Beginning ==
    ASSUME NEW cursor, NEW t, Ordered(t, cursor), NEW n \in 0..Len(t)
    PROVE  Ordered(SubSeq(t, 1, n), cursor)
<1>1. t \in Seq(Chunk) /\ Len(t) \in Nat  BY LenProperties DEF Ordered
<1>2. n \in Nat /\ \A q \in 1..n : q \in 1..Len(t) /\ \A r \in 1..q : r \in 1..n  BY <1>1
<1>3. PICK b : b = SubSeq(t, 1, n)  OBVIOUS
<1>4. b \in Seq(Chunk) /\ Len(b) = n /\ \A k \in 1..n : b[k] = t[k]
  <2>1. \A k \in 1..n : t[k] \in Chunk  BY <1>1, <1>2, ElementOfSeq
  <2>2. QED  BY <1>2, <1>3, <2>1, SubSeqProperties
<1>5. ASSUME NEW q \in 1..n
      PROVE  \E f \in Wanted : \E i \in (cursor[f] + 1)..Chunks[f] :
                 b[q] = Sent(f, i) /\ \A h \in (cursor[f] + 1)..i : \E r \in 1..q : b[r] = Sent(f, h)
  <2>1. PICK f \in Wanted : \E i \in (cursor[f] + 1)..Chunks[f] :
            t[q] = Sent(f, i) /\ \A h \in (cursor[f] + 1)..i : \E r \in 1..q : t[r] = Sent(f, h)
    BY <1>2 DEF Ordered, Placed
  <2>2. PICK i \in (cursor[f] + 1)..Chunks[f] :
            t[q] = Sent(f, i) /\ \A h \in (cursor[f] + 1)..i : \E r \in 1..q : t[r] = Sent(f, h)
    BY <2>1
  <2>3. b[q] = Sent(f, i) /\ \A h \in (cursor[f] + 1)..i : \E r \in 1..q : b[r] = Sent(f, h)
    BY <1>2, <1>4, <2>2
  <2>4. QED  BY <2>3
<1>6. Len(b) = n /\ b \in Seq(Chunk)  BY <1>4
<1>7. Placed(b, n, cursor)  BY <1>5, Zenon DEF Placed
<1>8. QED  BY <1>3, <1>6, <1>7, Zenon DEF Ordered

LEMMA SameCardinality == \A S : Files!Cardinality(S) = Cardinality(S)
BY DEF Files!Cardinality, Cardinality, Files!IsFiniteSet, IsFiniteSet

\* Of each file, the n chunks after the cursor.
Follows(t, cursor, f, n) ==
    /\ cursor[f] + n <= Chunks[f]
    /\ \A i \in Nat : (\E q \in 1..Len(t) : t[q][1] = f /\ t[q][2] = i) <=> i \in (cursor[f] + 1)..(cursor[f] + n)
    /\ Files!Cardinality({c \in Files!ToSet(t) : c[1] = f}) = n

LEMMA CountOf ==
    ASSUME NEW cursor \in Cursors, NEW t, Ordered(t, cursor), NEW f \in Wanted
    PROVE  \E n \in Nat : Follows(t, cursor, f, n)
<1>1. PICK a, z : a = cursor[f] /\ z = Chunks[f]  OBVIOUS
<1>2. a \in Nat /\ z \in Nat /\ a <= z  BY <1>1, WantedIs DEF Cursors
<1>3. t \in Seq(Chunk) /\ Len(t) \in Nat /\ DOMAIN t = 1..Len(t)  BY LenProperties DEF Ordered
<1>4. PICK S : S = Files!ToSet(t)  OBVIOUS
<1>5. S = {t[q] : q \in 1..Len(t)}  BY <1>3, <1>4 DEF Files!ToSet
<1>6. ASSUME NEW c \in S, c[1] = f
      PROVE  \E i \in (a + 1)..z : c = Sent(f, i) /\ \A h \in (a + 1)..i : Sent(f, h) \in S
  <2>1. PICK q \in 1..Len(t) : c = t[q]  BY <1>5
  <2>2. PICK g \in Wanted : \E i \in (cursor[g] + 1)..Chunks[g] :
            t[q] = Sent(g, i) /\ \A h \in (cursor[g] + 1)..i : \E r \in 1..q : t[r] = Sent(g, h)
    BY DEF Ordered, Placed
  <2>3. PICK i \in (cursor[g] + 1)..Chunks[g] :
            t[q] = Sent(g, i) /\ \A h \in (cursor[g] + 1)..i : \E r \in 1..q : t[r] = Sent(g, h)
    BY <2>2
  <2>4. g = f
    <3>1. Sent(g, i)[1] = g  BY DEF Sent
    <3>2. QED  BY <1>6, <2>1, <2>3, <3>1
  <2>5. \A r \in 1..q : r \in 1..Len(t)  BY <1>3
  <2>6. \A h \in (a + 1)..i : Sent(f, h) \in S  BY <1>1, <1>5, <2>3, <2>4, <2>5
  <2>7. QED  BY <1>1, <2>1, <2>3, <2>4, <2>6
<1>7. PICK T : T = {k \in Nat : Sent(f, a + k + 1) \notin S}  OBVIOUS
<1>8. PICK d : d = z - a  OBVIOUS
<1>9. d \in Nat /\ a + d = z  BY <1>2, <1>8
<1>10. d \in T
  <2>1. ASSUME Sent(f, a + d + 1) \in S PROVE FALSE
    <3>1. Sent(f, a + d + 1)[1] = f  BY DEF Sent
    <3>2. PICK i \in (a + 1)..z : Sent(f, a + d + 1) = Sent(f, i)  BY <1>6, <2>1, <3>1
    <3>3. a + d + 1 = i  BY <3>2 DEF Sent
    <3>4. QED  BY <1>2, <1>9, <3>3
  <2>2. QED  BY <1>7, <1>9, <2>1
<1>11. PICK n \in T : \A y \in T : n <= y
  <2>1. T \in SUBSET Nat  BY <1>7
  <2>2. QED  BY <1>10, <2>1, Least, Zenon
<1>12. n \in Nat /\ n <= d /\ a + n <= z  BY <1>2, <1>7, <1>9, <1>10, <1>11
<1>13. \A j \in 1..n : Sent(f, a + j) \in S
  <2>1. ASSUME NEW j \in 1..n PROVE Sent(f, a + j) \in S
    <3>1. j - 1 \in Nat /\ ~(n <= j - 1) /\ a + (j - 1) + 1 = a + j  BY <1>2, <1>12
    <3>2. j - 1 \notin T  BY <1>11, <3>1
    <3>3. QED  BY <1>7, <3>1, <3>2
  <2>2. QED  BY <2>1
<1>14. ASSUME NEW c \in S, c[1] = f PROVE \E j \in 1..n : c = Sent(f, a + j)
  <2>1. PICK i \in (a + 1)..z : c = Sent(f, i) /\ \A h \in (a + 1)..i : Sent(f, h) \in S  BY <1>6, <1>14
  <2>2. i <= a + n
    <3>1. SUFFICES ASSUME ~(i <= a + n) PROVE FALSE  OBVIOUS
    <3>2. a + n + 1 \in (a + 1)..i  BY <1>2, <1>12, <3>1
    <3>3. Sent(f, a + n + 1) \in S  BY <2>1, <3>2
    <3>4. QED  BY <1>7, <1>11, <3>3
  <2>3. i - a \in 1..n /\ a + (i - a) = i  BY <1>2, <1>12, <2>2
  <2>4. QED  BY <2>1, <2>3
<1>15. ASSUME NEW i \in Nat
       PROVE  (\E q \in 1..Len(t) : t[q][1] = f /\ t[q][2] = i) <=> i \in (a + 1)..(a + n)
  <2>1. ASSUME NEW q \in 1..Len(t), t[q][1] = f, t[q][2] = i PROVE i \in (a + 1)..(a + n)
    <3>1. t[q] \in S  BY <1>5
    <3>2. PICK j \in 1..n : t[q] = Sent(f, a + j)  BY <1>14, <2>1, <3>1
    <3>3. i = a + j  BY <2>1, <3>2 DEF Sent
    <3>4. QED  BY <1>2, <1>12, <3>3
  <2>2. ASSUME i \in (a + 1)..(a + n) PROVE \E q \in 1..Len(t) : t[q][1] = f /\ t[q][2] = i
    <3>1. i - a \in 1..n /\ a + (i - a) = i  BY <1>2, <1>12, <2>2
    <3>2. Sent(f, i) \in S  BY <1>13, <3>1
    <3>3. PICK q \in 1..Len(t) : t[q] = Sent(f, i)  BY <1>5, <3>2
    <3>4. t[q][1] = f /\ t[q][2] = i  BY <3>3 DEF Sent
    <3>5. QED  BY <3>4
  <2>3. QED  BY <2>1, <2>2
<1>16. Files!Cardinality({c \in S : c[1] = f}) = n
  <2>1. PICK C : C = {c \in S : c[1] = f}  OBVIOUS
  <2>2. PICK F : F = [j \in 1..n |-> Sent(f, a + j)]  OBVIOUS
  <2>3. F \in [1..n -> C]
    <3>1. \A j \in 1..n : Sent(f, a + j) \in C  BY <1>13, <2>1 DEF Sent
    <3>2. QED  BY <2>2, <3>1
  <2>4. \A c \in C : \E j \in 1..n : F[j] = c  BY <1>14, <2>1, <2>2
  <2>5. \A j, k \in 1..n : F[j] = F[k] => j = k
    <3>1. ASSUME NEW j \in 1..n, NEW k \in 1..n, F[j] = F[k] PROVE j = k
      <4>1. Sent(f, a + j) = Sent(f, a + k)  BY <2>2, <3>1
      <4>2. a + j = a + k  BY <4>1 DEF Sent
      <4>3. QED  BY <1>2, <1>12, <4>2
    <3>2. QED  BY <3>1
  <2>6. ExistsBijection(1..n, C)
    <3>1. F \in Bijection(1..n, C)  BY <2>3, <2>4, <2>5 DEF Bijection, Injection, Surjection, IsInjective
    <3>2. QED  BY <3>1 DEF ExistsBijection
  <2>7. Cardinality(C) = n  BY <1>12, <2>6, FS_CountingElements
  <2>8. QED  BY <2>1, <2>7, SameCardinality
<1>17. QED  BY <1>1, <1>4, <1>12, <1>15, <1>16 DEF Follows

\* Of a file whose chunks are all there, everything follows.
LEMMA AllFollow ==
    ASSUME NEW cursor \in Cursors, NEW t, Whole(t, Len(Results), cursor),
           NEW f \in Wanted, NEW n \in Nat, Follows(t, cursor, f, n)
    PROVE  cursor[f] + n = Chunks[f]
<1>1. PICK a, z : a = cursor[f] /\ z = Chunks[f]  OBVIOUS
<1>2. a \in Nat /\ z \in Nat /\ a + n <= z  BY <1>1, WantedIs DEF Cursors, Follows
<1>3. PICK m \in 1..Len(Results) : f = Results[m]  BY WantedIs
<1>4. SUFFICES ASSUME a + n # z PROVE FALSE  BY <1>1
<1>5. a + n + 1 \in (a + 1)..z /\ a + n + 1 \in Nat /\ a + n + 1 \notin (a + 1)..(a + n)
  <2>1. a + n < z  BY <1>2, <1>4
  <2>2. QED  BY <1>2, <2>1
<1>6. PICK q \in 1..Len(t) : t[q] = Sent(f, a + n + 1)  BY <1>1, <1>3, <1>5 DEF Whole
<1>7. t[q][1] = f /\ t[q][2] = a + n + 1  BY <1>6 DEF Sent
<1>8. QED  BY <1>1, <1>5, <1>7 DEF Follows


\* All the chunks that follow the cursor, file by file.
Following(cursor) ==
    Files!FlattenSeq([k \in DOMAIN Results |->
        [j \in 1..(Chunks[Results[k]] - cursor[Results[k]]) |-> Sent(Results[k], cursor[Results[k]] + j)]])

LEMMA FollowingIs ==
    ASSUME NEW cursor \in Cursors, published \in [Wanted -> BOOLEAN]
    PROVE  Ordered(Following(cursor), cursor) /\ Whole(Following(cursor), Len(Results), cursor)
<1>1. PICK n : n \in Nat /\ n = Len(Results) /\ DOMAIN Results = 1..n  BY WantedIs
<1>2. PICK blocks : blocks = [k \in 1..n |->
          [j \in 1..(Chunks[Results[k]] - cursor[Results[k]]) |-> Sent(Results[k], cursor[Results[k]] + j)]]
  OBVIOUS
<1>3. Following(cursor) = Files!FlattenSeq(blocks)  BY <1>1, <1>2 DEF Following
<1>4. ASSUME NEW k \in 1..n, NEW t, Ordered(t, cursor), Whole(t, k - 1, cursor)
      PROVE  blocks[k] \in Seq(Chunk) /\ Ordered(t \o blocks[k], cursor) /\ Whole(t \o blocks[k], k, cursor)
  <2>1. blocks[k] = [j \in 1..(Chunks[Results[k]] - cursor[Results[k]]) |-> Sent(Results[k], cursor[Results[k]] + j)]
    BY <1>2
  <2>2. k \in 1..Len(Results)  BY <1>1
  <2>3. QED  BY <1>4, <2>1, <2>2, OneFileMore, Zenon
<1>5. blocks \in [1..n -> Seq(Chunk)]
  <2>1. ASSUME NEW k \in 1..n PROVE blocks[k] \in Seq(Chunk)
    <3>1. PICK f, a, z : f = Results[k] /\ a = cursor[f] /\ z = Chunks[f]  OBVIOUS
    <3>2. f \in Wanted /\ f \in Names /\ a \in Nat /\ z \in Nat /\ published[f] \in BOOLEAN
      BY <1>1, <3>1, WantedIs DEF Cursors
    <3>3. blocks[k] = [j \in 1..(z - a) |-> Sent(f, a + j)]  BY <1>2, <3>1
    <3>4. \A j \in 1..(z - a) : Sent(f, a + j) \in Chunk  BY <3>2 DEF Sent, Chunk
    <3>5. PICK l \in Nat : 1..(z - a) = 1..l
      <4>1. a <= z  BY <3>1, <3>2 DEF Cursors
      <4>2. z - a \in Nat  BY <3>2, <4>1
      <4>3. QED  BY <4>2
    <3>6. PICK b : b = [j \in 1..l |-> Sent(f, a + j)]  OBVIOUS
    <3>7. b = blocks[k] /\ b \in [1..l -> Chunk]  BY <3>3, <3>4, <3>5, <3>6
    <3>8. b \in Seq(Chunk)  BY <3>7
    <3>9. QED  BY <3>7, <3>8
  <2>2. QED  BY <1>2, <2>1
<1>6. PICK F \in [0..n -> Seq(Chunk)] :
          /\ F[0] = <<>> /\ \A k \in 1..n : F[k] = F[k - 1] \o blocks[k]
          /\ Files!FlattenSeq(blocks) = F[n]
  <2>1. n \in Nat  BY <1>1
  <2>2. \E F \in [0..n -> Seq(Chunk)] :
            /\ F[0] = <<>> /\ \A k \in 1..n : F[k] = F[k - 1] \o blocks[k]
            /\ Files!FlattenSeq(blocks) = F[n]
    BY <1>5, <2>1, Flattened, ZenonT(30)
  <2>3. QED  BY <2>2, Zenon
<1>7. PICK D : D = [k \in 0..n |-> {t \in Seq(Chunk) : Ordered(t, cursor) /\ Whole(t, k, cursor)}]  OBVIOUS
<1>8. F[0] \in D[0]
  <2>1. <<>> \in Seq(Chunk) /\ Len(<<>>) = 0 /\ 0 \in 0..n  BY <1>1, EmptySeq
  <2>2. Ordered(<<>>, cursor) /\ Whole(<<>>, 0, cursor)  BY <2>1 DEF Ordered, Placed, Whole
  <2>3. QED  BY <1>6, <1>7, <2>1, <2>2
<1>9. ASSUME NEW k \in 1..n, F[k - 1] \in D[k - 1] PROVE F[k] \in D[k]
  <2>1. k - 1 \in 0..n /\ k \in 0..n  BY <1>1
  <2>2. Ordered(F[k - 1], cursor) /\ Whole(F[k - 1], k - 1, cursor)  BY <1>7, <1>9, <2>1
  <2>3. F[k] = F[k - 1] \o blocks[k] /\ F[k] \in Seq(Chunk)  BY <1>6, <2>1
  <2>4. Ordered(F[k], cursor) /\ Whole(F[k], k, cursor)
    <3>1. PICK t : t = F[k - 1]  OBVIOUS
    <3>2. Ordered(t \o blocks[k], cursor) /\ Whole(t \o blocks[k], k, cursor)  BY <1>4, <2>2, <3>1, Zenon
    <3>3. QED  BY <2>3, <3>1, <3>2, Zenon
  <2>5. QED  BY <1>7, <2>1, <2>3, <2>4
<1>10. F[n] \in D[n]
  <2>1. \A k \in 0..n : F[k] \in D[k]  BY <1>1, <1>8, <1>9, Climb, Zenon
  <2>2. n \in 0..n  BY <1>1
  <2>3. QED  BY <2>1, <2>2, Zenon
<1>11. n \in 0..n  BY <1>1
<1>12. Ordered(F[n], cursor) /\ Whole(F[n], n, cursor)  BY <1>7, <1>10, <1>11
<1>13. QED  BY <1>1, <1>3, <1>6, <1>12, Zenon

\* What a pull is answered.
LEMMA ServedIs ==
    ASSUME NEW cursor \in Cursors, published \in [Wanted -> BOOLEAN]
    PROVE  InOrder(Files!Served(cursor), cursor)
<1>1. PICK all : all = Following(cursor)  OBVIOUS
<1>2. Ordered(all, cursor) /\ Whole(all, Len(Results), cursor)  BY <1>1, FollowingIs, Zenon
<1>3. PICK batch : batch = SubSeq(all, 1, Files!Min({Batch, Len(all)}))  OBVIOUS
<1>4. Ordered(batch, cursor)
  <2>1. Batch \in Nat /\ Len(all) \in Nat  BY <1>2, LenProperties, FilesAssumption DEF Ordered
  <2>2. Files!Min({Batch, Len(all)}) \in 0..Len(all)  BY <2>1, BatchOf
  <2>3. QED  BY <1>2, <1>3, <2>2, Beginning
<1>5. PICK r : r = Files!Served(cursor)  OBVIOUS
<1>6. r = [chunks |-> batch,
           cursor |-> [f \in Wanted |-> cursor[f] + Files!Cardinality({c \in Files!ToSet(batch) : c[1] = f})],
           done |-> batch = all]
  <2>1. \A k \in DOMAIN Results : Chunks[Results[k]] - cursor[Results[k]] = Chunks[Results[k]] - cursor[Results[k]]
    OBVIOUS
  <2>2. QED  BY <1>1, <1>3, <1>5 DEF Files!Served, Following, Sent, Wanted
<1>7. ASSUME NEW f \in Wanted
      PROVE  /\ r.cursor[f] \in Nat /\ Follows(batch, cursor, f, r.cursor[f] - cursor[f])
             /\ cursor[f] \in Nat /\ cursor[f] <= r.cursor[f]
             /\ r.done => r.cursor[f] = Chunks[f]
  <2>1. PICK n \in Nat : Follows(batch, cursor, f, n)  BY <1>4, CountOf
  <2>2. cursor[f] \in Nat  BY DEF Cursors
  <2>3. r.cursor[f] = cursor[f] + n  BY <1>6, <2>1 DEF Follows
  <2>4. r.cursor[f] - cursor[f] = n /\ r.cursor[f] \in Nat /\ cursor[f] <= r.cursor[f]  BY <2>2, <2>3
  <2>5. ASSUME r.done PROVE cursor[f] + n = Chunks[f]
    <3>1. batch = all  BY <1>6, <2>5
    <3>2. QED  BY <1>2, <2>1, <3>1, AllFollow
  <2>6. QED  BY <2>1, <2>2, <2>3, <2>4, <2>5
<1>8. batch \in Seq(Chunk) /\ DOMAIN batch = 1..Len(batch)  BY <1>4, LenProperties DEF Ordered
<1>9. r \in PullReply
  <2>1. r.cursor = [f \in Wanted |-> cursor[f] + Files!Cardinality({c \in Files!ToSet(batch) : c[1] = f})]  BY <1>6
  <2>2. r.cursor \in [Wanted -> Nat]  BY <1>7, <2>1
  <2>3. PICK b : b = (batch = all)  OBVIOUS
  <2>4. b \in BOOLEAN /\ r = [chunks |-> batch, cursor |-> r.cursor, done |-> b]  BY <1>6, <2>3
  <2>5. QED  BY <1>8, <2>2, <2>4 DEF PullReply
<1>10. \A k \in DOMAIN batch : batch[k][1] \in Wanted /\ (published[batch[k][1]] => batch[k][3])
  <2>1. ASSUME NEW k \in 1..Len(batch) PROVE batch[k][1] \in Wanted /\ (published[batch[k][1]] => batch[k][3])
    <3>1. PICK g \in Wanted : \E i \in (cursor[g] + 1)..Chunks[g] : batch[k] = Sent(g, i)  BY <1>4 DEF Ordered, Placed
    <3>2. PICK i : batch[k] = Sent(g, i)  BY <3>1
    <3>3. QED  BY <3>2 DEF Sent
  <2>2. QED  BY <1>8, <2>1
<1>11. ASSUME NEW f \in Wanted
       PROVE  /\ cursor[f] <= r.cursor[f] /\ r.cursor[f] <= Chunks[f]
              /\ r.done => r.cursor[f] = Chunks[f]
              /\ \A i \in Nat : (\E k \in DOMAIN batch : batch[k][1] = f /\ batch[k][2] = i)
                                <=> i \in (cursor[f] + 1)..r.cursor[f]
  <2>1. PICK n : n = r.cursor[f] - cursor[f]  OBVIOUS
  <2>2. cursor[f] + n = r.cursor[f]  BY <1>7, <2>1
  <2>3. Follows(batch, cursor, f, n)  BY <1>7, <2>1
  <2>4. QED  BY <1>7, <1>8, <2>2, <2>3 DEF Follows
<1>12. r.chunks = batch  BY <1>6
<1>13. InOrder(r, cursor)  BY <1>9, <1>10, <1>11, <1>12 DEF InOrder
<1>14. QED  BY <1>5, <1>13


\* What the guest has of a file after a reply.
LEMMA LandedIs ==
    ASSUME DOMAIN target = Wanted, published \in [Wanted -> BOOLEAN], NEW cursor \in Cursors,
           NEW r, InOrder(r, cursor), NEW f \in Wanted, NEW L, L = Files!Landed(target, r.chunks)[f]
    PROVE  /\ DOMAIN L = DOMAIN target[f] \union ((cursor[f] + 1)..r.cursor[f])
           /\ \A i \in DOMAIN target[f] : i \notin (cursor[f] + 1)..r.cursor[f] => L[i] = target[f][i]
           /\ published[f] => \A i \in (cursor[f] + 1)..r.cursor[f] : L[i]
<1>1. r.chunks \in Seq(Chunk) /\ DOMAIN r.chunks = 1..Len(r.chunks)
  BY LenProperties DEF InOrder, PullReply
<1>2. PICK S : S = Files!ToSet(r.chunks)  OBVIOUS
<1>3. S = {r.chunks[k] : k \in DOMAIN r.chunks} /\ S \subseteq Chunk
  BY <1>1, <1>2, ElementOfSeq DEF Files!ToSet
<1>4. cursor[f] \in Nat /\ r.cursor[f] \in Nat  BY DEF Cursors, InOrder, PullReply
<1>5. PICK N : N = (cursor[f] + 1)..r.cursor[f]  OBVIOUS
<1>6. \A i \in Nat : (\E c \in S : c[1] = f /\ c[2] = i) <=> i \in N
  <2>1. \A i \in Nat : (\E k \in DOMAIN r.chunks : r.chunks[k][1] = f /\ r.chunks[k][2] = i) <=> i \in N
    BY <1>5 DEF InOrder
  <2>2. QED  BY <1>3, <2>1
<1>7. {c[2] : c \in {d \in S : d[1] = f}} = N
  <2>1. \A c \in S : c[2] \in Nat  BY <1>3 DEF Chunk
  <2>2. N \subseteq Nat  BY <1>4, <1>5
  <2>3. QED  BY <1>6, <2>1, <2>2
<1>8. L = [i \in DOMAIN target[f] \union N |->
              IF \E c \in S : c[1] = f /\ c[2] = i
              THEN (CHOOSE c \in S : c[1] = f /\ c[2] = i)[3] ELSE target[f][i]]
  BY <1>2, <1>7 DEF Files!Landed, Wanted
<1>9. DOMAIN L = DOMAIN target[f] \union N  BY <1>8
<1>10. ASSUME NEW i \in DOMAIN target[f], i \notin N PROVE L[i] = target[f][i]
  <2>1. ~\E c \in S : c[1] = f /\ c[2] = i  BY <1>7, <1>10
  <2>2. QED  BY <1>8, <2>1
<1>11. ASSUME published[f], NEW i \in N PROVE L[i]
  <2>1. \E c \in S : c[1] = f /\ c[2] = i  BY <1>4, <1>5, <1>6
  <2>2. PICK x : x = CHOOSE c \in S : c[1] = f /\ c[2] = i  OBVIOUS
  <2>3. x \in S /\ x[1] = f /\ x[2] = i  BY <2>1, <2>2, Zenon
  <2>4. \A k \in DOMAIN r.chunks : published[r.chunks[k][1]] => r.chunks[k][3]  BY DEF InOrder
  <2>5. x[3] /\ x[3] \in BOOLEAN  BY <1>3, <1>11, <2>3, <2>4 DEF Chunk
  <2>6. L[i] = x[3]  BY <1>8, <2>1, <2>2
  <2>7. QED  BY <2>5, <2>6
<1>12. QED  BY <1>5, <1>9, <1>10, <1>11

LEMMA CursorIs == PullInv => pull.cursor \in Cursors /\ published \in [Wanted -> BOOLEAN] /\ DOMAIN target = Wanted
BY DEF PullInv, PullTypes, Below, Cursors

LEMMA UnaskedIs ==
    ASSUME PullInv, NEW pc \in {"asking", "failed"}, pull' = [Files!Unasked EXCEPT !.pc = pc],
           UNCHANGED <<published, target>>
    PROVE  PullInv'
<1>1. PICK zero : zero = [f \in Wanted |-> 0]  OBVIOUS
<1>2. pull' = [pc |-> pc, cursor |-> zero, reply |-> Nothing]  BY <1>1 DEF Files!Unasked, Wanted
<1>3. zero \in [Wanted -> Nat] /\ \A f \in Wanted : zero[f] = 0  BY <1>1
<1>4. PullTypes'
  <2>1. pc \in PullPc  BY DEF PullPc
  <2>2. pull' \in [pc : PullPc, cursor : [Wanted -> Nat], reply : {Nothing} \union PullReply]
    <3>1. PICK new : new = [pc |-> pc, cursor |-> zero, reply |-> Nothing]  OBVIOUS
    <3>2. new \in [pc : PullPc, cursor : [Wanted -> Nat], reply : {Nothing} \union PullReply]
      <4> PICK Z, R : Z = [Wanted -> Nat] /\ R = {Nothing} \union PullReply  OBVIOUS
      <4>1. zero \in Z /\ Nothing \in R  BY <1>3
      <4>2. QED  BY <2>1, <3>1, <4>1
    <3>3. QED  BY <1>2, <3>1, <3>2
  <2>3. published \in [Wanted -> BOOLEAN] /\ DOMAIN target = Wanted  BY DEF PullInv, PullTypes
  <2>4. published' = published /\ target' = target  OBVIOUS
  <2>5. QED  BY <2>2, <2>3, <2>4, Zenon DEF PullTypes
<1>5. Below'  BY <1>2, <1>3, WantedIs DEF PullInv, Below
<1>6. pull'.pc # "mismatch" /\ pull'.pc # "answered"  BY <1>2
<1>7. QED  BY <1>4, <1>5, <1>6 DEF PullInv, Files!PullFindsTheResults

LEMMA PullKeeps == ASSUME PullInv, Files!Pull PROVE PullInv'
<1>1. PICK r : r = Files!Served(pull.cursor)  OBVIOUS
<1>2. pull' = [pull EXCEPT !.pc = "answered", !.reply = r] /\ UNCHANGED <<published, target>>
  BY <1>1 DEF Files!Pull
<1>3. InOrder(r, pull.cursor)  BY <1>1, CursorIs, ServedIs
<1>4. pull' = [pc |-> "answered", cursor |-> pull.cursor, reply |-> r]  BY <1>2 DEF PullInv, PullTypes
<1>5. PullTypes'  BY <1>2, <1>3, <1>4 DEF PullInv, PullTypes, PullPc, InOrder
<1>6. Below'  BY <1>2, <1>4 DEF PullInv, Below
<1>7. InOrder(pull.reply, pull.cursor)'
  <2>1. pull'.reply = r /\ pull'.cursor = pull.cursor /\ published' = published  BY <1>2, <1>4
  <2>2. QED  BY <1>3, <2>1 DEF InOrder
<1>8. QED  BY <1>4, <1>5, <1>6, <1>7 DEF PullInv, Files!PullFindsTheResults

LEMMA PulledKeeps == ASSUME PullInv, Files!Pulled PROVE PullInv'
<1>1. PICK r, cursor : r = pull.reply /\ cursor = pull.cursor  OBVIOUS
<1>2. InOrder(r, cursor) /\ published' = published  BY <1>1 DEF PullInv, Files!Pulled
<1>3. cursor \in Cursors /\ published \in [Wanted -> BOOLEAN] /\ DOMAIN target = Wanted  BY <1>1, CursorIs
<1>4. PICK pc : pc = IF ~r.done THEN "asking" ELSE IF Files!Exact(target') THEN "done" ELSE "mismatch"  OBVIOUS
<1>5. pull' = [pc |-> pc, cursor |-> r.cursor, reply |-> Nothing] /\ target' = Files!Landed(target, r.chunks)
  <2>1. pull' = [pull EXCEPT !.cursor = r.cursor, !.reply = Nothing, !.pc = pc]  BY <1>1, <1>4 DEF Files!Pulled
  <2>2. target' = Files!Landed(target, r.chunks)  BY <1>1 DEF Files!Pulled
  <2>3. QED  BY <2>1, <2>2 DEF PullInv, PullTypes
<1>6. DOMAIN target' = Wanted  BY <1>5 DEF Files!Landed, Wanted
<1>7. r.cursor \in [Wanted -> Nat] /\ \A f \in Wanted : r.cursor[f] <= Chunks[f] /\ cursor[f] <= r.cursor[f]
  BY <1>2 DEF InOrder, PullReply
<1>8. PullTypes'
  <2>1. pc \in PullPc  BY <1>4 DEF PullPc
  <2>2. QED  BY <1>2, <1>3, <1>5, <1>6, <1>7, <2>1 DEF PullTypes
<1>9. ASSUME NEW f \in Wanted
      PROVE  /\ DOMAIN target'[f] = DOMAIN target[f] \union ((cursor[f] + 1)..r.cursor[f])
             /\ \A i \in DOMAIN target[f] : i \notin (cursor[f] + 1)..r.cursor[f] => target'[f][i] = target[f][i]
             /\ published[f] => \A i \in (cursor[f] + 1)..r.cursor[f] : target'[f][i]
  BY <1>2, <1>3, <1>5, LandedIs
<1>10. ASSUME NEW f \in Wanted
       PROVE  /\ \A i \in DOMAIN target'[f] : i \in Nat /\ i >= 1 /\ (i <= Chunks[f] \/ i <= Before[f])
              /\ published[f] => \A i \in 1..r.cursor[f] : i \in DOMAIN target'[f] /\ target'[f][i]
  <2>1. PICK a, z, n : a = cursor[f] /\ z = r.cursor[f] /\ n = Chunks[f]  OBVIOUS
  <2>2. a \in Nat /\ z \in Nat /\ n \in Nat /\ a <= z /\ z <= n  BY <1>3, <1>7, <2>1, WantedIs DEF Cursors
  <2>3. /\ \A i \in DOMAIN target[f] : i \in Nat /\ i >= 1 /\ (i <= n \/ i <= Before[f])
        /\ published[f] => \A i \in 1..a : i \in DOMAIN target[f] /\ target[f][i]
    BY <1>1, <2>1 DEF PullInv, Below
  <2>4. \A i \in (a + 1)..z : i \in Nat /\ i >= 1 /\ i <= n  BY <2>2
  <2>5. \A i \in DOMAIN target'[f] : i \in Nat /\ i >= 1 /\ (i <= n \/ i <= Before[f])
    BY <1>9, <2>1, <2>3, <2>4
  <2>6. ASSUME published[f], NEW i \in 1..z PROVE i \in DOMAIN target'[f] /\ target'[f][i]
    <3>1. CASE i \in (a + 1)..z  BY <1>9, <2>1, <2>6, <3>1
    <3>2. CASE i \notin (a + 1)..z
      <4>1. i \in 1..a  BY <2>2, <3>2
      <4>2. i \in DOMAIN target[f] /\ target[f][i]  BY <2>3, <2>6, <4>1
      <4>3. QED  BY <1>9, <2>1, <3>2, <4>2
    <3>3. QED  BY <3>1, <3>2
  <2>7. QED  BY <2>1, <2>5, <2>6
<1>11. Below'  BY <1>2, <1>5, <1>7, <1>10 DEF Below
<1>12. Files!PullFindsTheResults'
  <2>1. SUFFICES ASSUME pc = "mismatch", \A f \in Wanted : published[f] /\ ~(Before[f] > Chunks[f]) PROVE FALSE
    BY <1>2, <1>5 DEF Files!PullFindsTheResults, Wanted
  <2>2. r.done /\ ~Files!Exact(target')  BY <1>4, <2>1
  <2>3. ASSUME NEW f \in Wanted
        PROVE  DOMAIN target'[f] = Files!All(f) /\ \A i \in Files!All(f) : target'[f][i]
    <3>1. r.cursor[f] = Chunks[f]  BY <1>2, <2>2 DEF InOrder
    <3>2. Chunks[f] \in Nat /\ Before[f] \in Nat  BY WantedIs, FilesAssumption
    <3>3. Before[f] <= Chunks[f]  BY <2>1, <3>2
    <3>4. \A i \in DOMAIN target'[f] : i \in 1..Chunks[f]  BY <1>10, <3>2, <3>3
    <3>5. \A i \in 1..Chunks[f] : i \in DOMAIN target'[f] /\ target'[f][i]  BY <1>10, <2>1, <3>1
    <3>6. QED  BY <3>4, <3>5 DEF Files!All
  <2>4. QED  BY <2>2, <2>3 DEF Files!Exact, Wanted
<1>13. pull'.pc # "answered"  BY <1>4, <1>5
<1>14. QED  BY <1>8, <1>11, <1>12, <1>13 DEF PullInv

LEMMA PublishKeeps == ASSUME PullInv, NEW f \in Wanted, Files!Publish(f) PROVE PullInv'
<1>1. published' = [published EXCEPT ![f] = FALSE] /\ UNCHANGED <<pull, target>>  BY DEF Files!Publish
<1>2. published' \in [Wanted -> BOOLEAN] /\ \A g \in Wanted : published'[g] => published[g]
  BY <1>1 DEF PullInv, PullTypes
<1>3. PullTypes'  BY <1>1, <1>2 DEF PullInv, PullTypes
<1>4. Below'  BY <1>1, <1>2 DEF PullInv, Below
<1>5. Files!PullFindsTheResults'
  BY <1>1, <1>2 DEF PullInv, Files!PullFindsTheResults, Wanted
<1>6. InOrder(pull.reply, pull.cursor) => InOrder(pull.reply, pull.cursor)'
  <2>1. ASSUME InOrder(pull.reply, pull.cursor), NEW k \in DOMAIN pull.reply.chunks
        PROVE  pull.reply.chunks[k][1] \in Wanted /\ (published'[pull.reply.chunks[k][1]] => pull.reply.chunks[k][3])
    BY <1>2, <2>1 DEF InOrder
  <2>2. QED  BY <1>1, <2>1 DEF InOrder
<1>7. QED  BY <1>1, <1>3, <1>4, <1>5, <1>6 DEF PullInv

LEMMA PullStands == PullInv /\ UNCHANGED <<pull, published, target>> => PullInv'
BY DEF PullInv, PullTypes, Below, InOrder, Files!PullFindsTheResults


-----------------------------------------------------------------------------
(* The files.                                                                *)
LEMMA FilesStart == Files!Init => FilesInv
<1> SUFFICES ASSUME Files!Init PROVE FilesInv  OBVIOUS
<1>1. UploadTypes
  <2>1. Files!Idle \in Uploading  BY DEF Files!Idle, Uploading, UploadPc, Request, UploadReply
  <2>2. [state |-> "none", received |-> {}] \in [state : ArtifactState, received : SUBSET Place]
    BY DEF ArtifactState
  <2>3. upload \in [Commands -> Uploading]  BY <2>1 DEF Files!Init
  <2>4. artifact \in [DOMAIN Pages -> [state : ArtifactState, received : SUBSET Place]]  BY <2>2 DEF Files!Init
  <2>5. QED  BY <2>3, <2>4 DEF UploadTypes
<1>2. Asked  BY DEF Files!Init, Files!Idle, Asked, AskedBy
<1>r. ReadTypes
  <2>1. ASSUME NEW f \in Files!Inputs PROVE local[f].reads \in Seq(Reading)
    <3>1. Chunks[f] \in Nat  BY InputsAre
    <3>2. local[f].reads = [i \in 1..Chunks[f] |-> "good"]  BY DEF Files!Init, Files!Declared, Files!All
    <3>3. QED  BY <3>1, <3>2 DEF Reading
  <2>2. QED  BY <2>1 DEF ReadTypes
<1>3. CompleteIsStaged /\ Files!WorkerGetsTheInputs
  BY DEF Files!Init, CompleteIsStaged, Files!WorkerGetsTheInputs
<1>4. PICK zero : zero = [f \in Wanted |-> 0]  OBVIOUS
<1>5. pull = [pc |-> "idle", cursor |-> zero, reply |-> Nothing]
  BY <1>4 DEF Files!Init, Files!Unasked, Wanted
<1>6. zero \in [Wanted -> Nat] /\ \A f \in Wanted : zero[f] = 0  BY <1>4
<1>7. published = [f \in Wanted |-> TRUE] /\ target = [f \in Wanted |-> [i \in 1..Before[f] |-> FALSE]]
  BY DEF Files!Init, Wanted
<1>8. PullTypes
  <2>1. "idle" \in PullPc  BY DEF PullPc
  <2>2. PICK Z, R : Z = [Wanted -> Nat] /\ R = {Nothing} \union PullReply  OBVIOUS
  <2>3. zero \in Z /\ Nothing \in R  BY <1>6, <2>2
  <2>4. pull \in [pc : PullPc, cursor : Z, reply : R]  BY <1>5, <2>1, <2>3
  <2>5. published \in [Wanted -> BOOLEAN] /\ DOMAIN target = Wanted  BY <1>7
  <2>6. QED  BY <2>2, <2>4, <2>5 DEF PullTypes
<1>9. Below
  <2>1. ASSUME NEW f \in Wanted
        PROVE  /\ pull.cursor[f] = 0 /\ Chunks[f] \in Nat
               /\ \A i \in DOMAIN target[f] : i \in Nat /\ i >= 1 /\ i <= Before[f]
    <3>1. Chunks[f] \in Nat /\ Before[f] \in Nat  BY WantedIs, FilesAssumption
    <3>2. DOMAIN target[f] = 1..Before[f]  BY <1>7
    <3>3. QED  BY <1>5, <1>6, <3>1, <3>2
  <2>2. QED  BY <2>1 DEF Below
<1>10. pull.pc = "idle"  BY <1>5
<1>11. QED
  BY <1>1, <1>2, <1>r, <1>3, <1>8, <1>9, <1>10 DEF FilesInv, UploadInv, PullInv, Files!PullFindsTheResults

LEMMA FilesKeep == ASSUME FilesInv, Files!Next PROVE FilesInv'
<1>1. UploadInv /\ PullInv  BY DEF FilesInv
<1>2. ASSUME NEW c \in Commands,
             \/ Files!StartUpload(c) \/ Files!Answered(c) \/ Files!Drop(c) \/ Files!Offer(c)
             \/ Files!Put(c) \/ Files!Refuse(c)
      PROVE  UploadInv' /\ PullInv'
  <2>1. UNCHANGED <<pull, published, target>>
    BY <1>2 DEF Files!StartUpload, Files!Answered, Files!Drop, Files!Offer, Files!Put, Files!Refuse
  <2>2. UploadInv'
    BY <1>1, <1>2, StartUploadKeeps, AnsweredKeeps, DropKeeps, OfferKeeps, PutKeeps, RefuseKeeps
  <2>3. PullInv'  BY <1>1, <2>1, PullStands, Zenon
  <2>4. QED  BY <2>2, <2>3
<1>3. ASSUME NEW f \in Files!Inputs, Files!Edit(f) PROVE UploadInv' /\ PullInv'
  <2>1. UNCHANGED <<pull, published, target>>  BY <1>3 DEF Files!Edit
  <2>2. QED  BY <1>1, <1>3, <2>1, EditKeeps, PullStands
<1>4. ASSUME Files!StartPull \/ Files!PullDrops PROVE PullInv'
  <2>1. CASE Files!StartPull  BY <1>1, <2>1, UnaskedIs DEF Files!StartPull
  <2>2. CASE Files!PullDrops  BY <1>1, <2>2, UnaskedIs DEF Files!PullDrops
  <2>3. QED  BY <1>4, <2>1, <2>2
<1>5. ASSUME Files!StartPull \/ Files!Pull \/ Files!Pulled \/ Files!PullDrops PROVE UploadInv' /\ PullInv'
  <2>1. UNCHANGED <<local, upload, artifact, staged, queued>>
    BY <1>5 DEF Files!StartPull, Files!Pull, Files!Pulled, Files!PullDrops
  <2>2. PullInv'  BY <1>1, <1>4, <1>5, PullKeeps, PulledKeeps
  <2>3. QED  BY <1>1, <2>1, <2>2, UploadStands
<1>6. ASSUME NEW f \in Wanted, Files!Publish(f) PROVE UploadInv' /\ PullInv'
  <2>1. UNCHANGED <<local, upload, artifact, staged, queued>>  BY <1>6 DEF Files!Publish
  <2>2. QED  BY <1>1, <1>6, <2>1, UploadStands, PublishKeeps
<1>7. ASSUME NEW c \in Commands, Files!HostEnds(c) PROVE UploadInv' /\ PullInv'
  <2>1. UploadInv'  BY <1>1, <1>7, HostEndsKeeps
  <2>2. UNCHANGED <<published, target>>  BY <1>7 DEF Files!HostEnds
  <2>3. CASE pull.pc \in {"asking", "answered"}
    <3>1. pull' = [Files!Unasked EXCEPT !.pc = "failed"]  BY <1>7, <2>3 DEF Files!HostEnds
    <3>2. PullInv'  BY <1>1, <2>2, <3>1, UnaskedIs
    <3>3. QED  BY <2>1, <3>2
  <2>4. CASE pull.pc \notin {"asking", "answered"}
    <3>1. UNCHANGED <<pull, published, target>>  BY <1>7, <2>2, <2>4 DEF Files!HostEnds
    <3>2. QED  BY <1>1, <2>1, <3>1, PullStands
  <2>5. QED  BY <2>3, <2>4
<1>8. QED  BY <1>2, <1>3, <1>5, <1>6, <1>7 DEF Files!Next, FilesInv, Wanted

\* What the runs check of the files holds in every behaviour.
THEOREM FilesSound == MCSpec => []FilesArrive
<1>1. MCInit => FilesInv  BY FilesStart DEF MCInit
<1>2. FilesInv /\ [MCNext]_<<part, vars, transfer, session>> => FilesInv'
  <2> SUFFICES ASSUME FilesInv, [MCNext]_<<part, vars, transfer, session>> PROVE FilesInv'  OBVIOUS
  <2>1. CASE Files!Next  BY <2>1, FilesKeep
  <2>2. CASE UNCHANGED transfer
    <3>1. UNCHANGED <<local, upload, artifact, staged, queued>> /\ UNCHANGED <<pull, published, target>>
      BY <2>2 DEF transfer
    <3>2. QED  BY <3>1, UploadStands, PullStands DEF FilesInv
  <2>3. QED  BY <2>1, <2>2 DEF MCNext
<1>3. FilesInv => FilesArrive
  <2> SUFFICES ASSUME FilesInv PROVE Files!TypeOK /\ Files!WorkerGetsTheInputs /\ Files!PullFindsTheResults
    BY DEF FilesArrive
  <2>1. \A p \in DOMAIN Pages : artifact[p].state \in ArtifactState
    BY DEF FilesInv, UploadInv, UploadTypes
  <2>2. \A c \in Commands : upload[c].pc \in UploadPc  BY DEF FilesInv, UploadInv, UploadTypes, Uploading
  <2>3. Files!TypeOK  BY <2>1, <2>2 DEF Files!TypeOK, ArtifactState, UploadPc
  <2>4. QED  BY <2>3 DEF FilesInv, UploadInv, PullInv
<1>4. QED  BY <1>1, <1>2, <1>3, PTL DEF MCSpec
=============================================================================
