-------------------------- MODULE PublishingProofs --------------------------
(***************************************************************************)
(* What is published and how it goes out, for every value of the           *)
(* constants.  First SendQueue: its types; that an activity                *)
(* is acknowledged at most once, and posted a bounded number of times, as  *)
(* long as no run is cut short with its work half done or outlives its     *)
(* lock; and that it implements Delivery, whatever happens.  Then Content: *)
(* its types, and the agreement of counters and rows.                      *)
(***************************************************************************)
EXTENDS SendQueue, Content, TLAPS, FiniteSetTheorems, SequenceTheorems

\* The number of a new task or row is a free one.
LEMMA NewNumber ==
  ASSUME Number \ InUse # {}
  PROVE  NewNo \in Number /\ NewNo \notin InUse
  BY DEF NewNo

\* A new task is well typed.
LEMMA NewTaskType ==
  ASSUME TypeOK, NEW to \in Instance, NEW acts \in SUBSET Activity,
         NEW retries \in Nat, NewTask(to, acts, retries)
  PROVE  tasks' \subseteq Task
  BY NewNumber DEF NewTask, TypeOK, Task, Letter

\* Blame only names reasons.
LEMMA BlameType ==
  ASSUME TypeOK, NEW acts, NEW reason \in Reason, Blame(acts, reason)
  PROVE  why' \in [Activity -> Reason]
  BY DEF Blame, TypeOK

-----------------------------------------------------------------------------
LEMMA InitType == Init => TypeOK
  BY SendQueueAssumption
  DEF Init, TypeOK, Health, Answer, Free, Reason

LEMMA SendType ==
  ASSUME TypeOK, NEW a \in Activity, Send(a)
  PROVE  TypeOK'
<1>1. To[a] \in Instance
  BY SendQueueAssumption
<1>2. tasks' \subseteq Task
  <2>1. CASE a \in Batched
    BY <2>1 DEF Send, TypeOK
  <2>2. CASE a \notin Batched
    BY <1>1, <2>2, NewTaskType DEF Send
  <2> QED  BY <2>1, <2>2
<1> QED  BY <1>2 DEF Send, TypeOK, env, run, session, net

LEMMA WorkType ==
  ASSUME TypeOK, NEW t \in tasks, Work(t)
  PROVE  TypeOK'
<1> USE DEF net, env, session, run
<1>1. t \in Task
  BY DEF TypeOK
<1>2. posted' \in [Activity -> Nat] \/ UNCHANGED posted
  BY DEF TypeOK, Work, Accepted, GivenUp, ToldGone, Failed, Requeue, Attempt,
         Tally
<1>3. CASE Accepted(t)
  BY <1>2, <1>3 DEF Accepted, Attempt, TypeOK, Tally
<1>4. CASE ToldGone(t)
  <2>1. why' \in [Activity -> Reason]
    BY <1>4, BlameType DEF ToldGone, Reason
  <2>2. health' \in [Instance -> Health]
    BY <1>4 DEF ToldGone, TypeOK, Health
  <2> QED  BY <1>2, <1>4, <2>1, <2>2 DEF ToldGone, Attempt, TypeOK
<1>5. CASE Failed(t)
  <2>1. [t EXCEPT !.stage = "failed"] \in Task
    BY <1>1 DEF Task, Letter
  <2> QED  BY <1>2, <1>5, <2>1 DEF Failed, Attempt, TypeOK
<1>6. CASE Requeue(t)
  <2>1. Queued(t) \in Row
    BY <1>1, <1>6, NewNumber DEF Requeue, Queued, Task, Row, Letter
  <2> QED  BY <1>6, <2>1 DEF Requeue, TypeOK
<1>7. ASSUME NEW reason \in {"refused", "unreachable"}, GivenUp(t, reason)
      PROVE  TypeOK'
  <2>1. why' \in [Activity -> Reason]
    BY <1>7, BlameType DEF GivenUp, Reason
  <2> QED  BY <1>2, <1>7, <2>1 DEF GivenUp, Attempt, TypeOK
<1> QED  BY <1>3, <1>4, <1>5, <1>6, <1>7 DEF Work

\* What the run does with one row.
LEMMA DealType ==
  ASSUME TypeOK, NEW c \in Runner, NEW r \in rows[c], DealWith(c, r)
  PROVE  /\ r \in Row
         /\ rows' \in [Runner -> SUBSET Row]
         /\ memo' \in [Instance -> [online : Answer, gone : Answer]]
<1>1. r \in Row
  BY DEF TypeOK
<1>2. Online(r.to) \in Answer /\ Gone(r.to) \in Answer
  BY <1>1 DEF TypeOK, Online, Gone, YesNo, Answer, Row, Letter
<1>3. memo' \in [Instance -> [online : Answer, gone : Answer]]
  BY <1>1, <1>2 DEF DealWith, TypeOK, Row, Letter
<1> QED  BY <1>1, <1>3 DEF DealWith, TypeOK

LEMMA RowType ==
  ASSUME TypeOK, NEW c \in Runner, NEW r \in rows[c],
         SendAgain(c, r) \/ Exhausted(c, r) \/ DropGone(c, r) \/ LeaveDormant(c, r)
  PROVE  TypeOK'
<1> USE DEF net, env, session, run
<1>1. DealWith(c, r)
  BY DEF SendAgain, Exhausted, DropGone, LeaveDormant
<1>2. /\ r \in Row
      /\ rows' \in [Runner -> SUBSET Row]
      /\ memo' \in [Instance -> [online : Answer, gone : Answer]]
  BY <1>1, DealType
<1>3. drop' \in [Runner -> SUBSET Number]
  BY <1>2 DEF SendAgain, Exhausted, DropGone, LeaveDormant, Handled, TypeOK,
              Row, Letter
<1>4. why' \in [Activity -> Reason]
  <2>1. CASE Exhausted(c, r) \/ DropGone(c, r)
    BY <2>1, BlameType DEF Exhausted, DropGone, Reason
  <2>2. CASE SendAgain(c, r) \/ LeaveDormant(c, r)
    BY <2>2 DEF SendAgain, LeaveDormant, TypeOK
  <2> QED  BY <2>1, <2>2
<1>5. tasks' \subseteq Task
  <2>1. CASE SendAgain(c, r)
    BY <1>2, <2>1, NewTaskType DEF SendAgain, Row, Letter
  <2>2. CASE Exhausted(c, r) \/ DropGone(c, r) \/ LeaveDormant(c, r)
    BY <2>2 DEF Exhausted, DropGone, LeaveDormant, TypeOK
  <2> QED  BY <2>1, <2>2
<1> QED  BY <1>1, <1>2, <1>3, <1>4, <1>5 DEF DealWith, TypeOK

LEMMA RunnerType ==
  ASSUME TypeOK, NEW c \in Runner, Start(c) \/ RunOn(c)
  PROVE  TypeOK'
<1> USE DEF net, env, session, run, Goto
<1>1. CASE Start(c)
  BY <1>1 DEF Start, TypeOK
<1>2. CASE ReadQueue(c)
  BY <1>2 DEF ReadQueue, TypeOK
<1>3. CASE DeleteHandled(c)
  BY <1>3 DEF DeleteHandled, QueueLeft, TypeOK
<1>4. CASE ReadBatches(c)
  BY <1>4, SendQueueAssumption DEF ReadBatches, TypeOK
<1>5. ASSUME NEW i \in dests[c], SendBatch(c, i)
      PROVE  TypeOK'
  <2>1. i \in Instance
    BY DEF TypeOK
  <2>2. tasks' \subseteq Task
    BY <1>5, <2>1, NewTaskType DEF SendBatch, TypeOK
  <2> QED  BY <1>5, <2>2 DEF SendBatch, TypeOK
<1>6. CASE DeleteBatch(c)
  BY <1>6 DEF DeleteBatch, BatchLeft, TypeOK
<1>7. CASE Finish(c)
  BY <1>7 DEF Finish, TypeOK
<1> QED  BY <1>1, <1>2, <1>3, <1>4, <1>5, <1>6, <1>7, RowType DEF RunOn

LEMMA AroundType ==
  ASSUME TypeOK,
         \/ \E t \in tasks : TaskLost(t)
         \/ \E c \in Runner : RunLost(c)
         \/ \E r \in queue : GrowOld(r)
         \/ \E i \in Instance : Forget(i) \/ ChangeHealth(i)
         \/ Cleanup
         \/ Expire
  PROVE  TypeOK'
<1> USE DEF net, env, session, run, Goto
<1>1. ASSUME NEW t \in tasks, TaskLost(t)  PROVE TypeOK'
  <2>1. why' \in [Activity -> Reason]
    BY <1>1, BlameType DEF TaskLost, Reason
  <2> QED  BY <1>1, <2>1 DEF TaskLost, TypeOK
<1>2. ASSUME NEW c \in Runner, RunLost(c)  PROVE TypeOK'
  BY <1>2 DEF RunLost, TypeOK
<1>3. ASSUME NEW r \in queue, GrowOld(r)  PROVE TypeOK'
  <2>1. \A s \in {"due", "old"} : [r EXCEPT !.stage = s] \in Row
    BY DEF TypeOK, Row, Letter
  <2> QED  BY <1>3, <2>1 DEF GrowOld, TypeOK
<1>4. ASSUME NEW i \in Instance, Forget(i)  PROVE TypeOK'
  BY <1>4 DEF Forget, TypeOK, Answer
<1>5. ASSUME NEW i \in Instance, ChangeHealth(i)  PROVE TypeOK'
  BY <1>5 DEF ChangeHealth, TypeOK
<1>6. CASE Cleanup
  <2>1. why' \in [Activity -> Reason]
    BY <1>6, BlameType DEF Cleanup, Reason
  <2> QED  BY <1>6, <2>1 DEF Cleanup, TypeOK
<1>7. CASE Expire
  BY <1>7 DEF Expire, TypeOK
<1> QED  BY <1>1, <1>2, <1>3, <1>4, <1>5, <1>6, <1>7

LEMMA NextType == TypeOK /\ [Next]_vars => TypeOK'
<1> SUFFICES ASSUME TypeOK, [Next]_vars  PROVE TypeOK'
  OBVIOUS
<1>1. CASE UNCHANGED vars
  BY <1>1 DEF vars, net, env, session, run, TypeOK
<1> QED  BY <1>1, SendType, WorkType, RunnerType, AroundType DEF Next

\* Every variable of the queue keeps its type, for any number of activities,
\* instances, runners, crashes and changes.
THEOREM TypeCorrect == Spec => []TypeOK
  BY InitType, NextType, PTL DEF Spec

-----------------------------------------------------------------------------
(***************************************************************************)
(* ReceivedOnce is not inductive by itself.  What keeps an activity        *)
(* from being sent twice is that at every moment at most one number, of a  *)
(* task or of a row, can still bring it to its instance (OneCopy), which   *)
(* in turn needs that the numbers tell the letters apart (Named) and that  *)
(* only one run has rows and batches in its hands (Alone).                 *)
(***************************************************************************)
\* The rows that a run has not yet sent, and those of the queue that none has.
InHand == UNION {rows[c] : c \in Runner}
Ready  == {q \in queue : \A c \in Runner : q.no \notin drop[c]}

\* A task or row number n may still bring activity a to its instance.
Carries(n, a) == \E l \in tasks \cup Ready \cup InHand : l.no = n /\ a \in l.acts
Waits(a) == a \in batch /\ \A c \in Runner : a \notin packed[c]

\* Only the holder of the lock runs, and what it holds it holds in its step.
Alone ==
  \A c \in Runner :
    /\ pc[c] # "idle" => lock = c
    /\ pc[c] # "sending" => rows[c] = {} /\ drop[c] = {}
    /\ pc[c] # "batched" => packed[c] = {}

\* A number names one letter; a row read from the queue may have aged there.
Named ==
  /\ \A l, m \in tasks \cup queue : l.no = m.no => l = m
  /\ \A c \in Runner : \A r \in rows[c] :
       /\ r.no \notin drop[c]
       /\ \A q \in queue : q.no = r.no => q.acts = r.acts
       /\ \A s \in rows[c] : s.no = r.no => s = r
  /\ \A c \in Runner : \A t \in tasks :
       /\ t.no \notin drop[c]
       /\ \A r \in rows[c] : r.no # t.no

\* An activity is in the batch, or carried by one number, or neither.
OneCopy ==
  \A a \in Activity :
    /\ \A m, n \in Number : Carries(m, a) /\ Carries(n, a) => m = n
    /\ Waits(a) => received[a] = 0 /\ \A n \in Number : ~Carries(n, a)
    /\ received[a] <= 1
    /\ received[a] = 1 => \A n \in Number : ~Carries(n, a)
    /\ a \notin sent => a \notin batch /\ received[a] = 0
                          /\ \A n \in Number : ~Carries(n, a)

Tidy == Alone /\ Named /\ OneCopy
OnceInv == Spared => Tidy

-----------------------------------------------------------------------------
\* A number that is free names nothing.
LEMMA FreeNumber ==
  ASSUME NEW n, n \notin InUse
  PROVE  /\ \A l \in tasks \cup queue : l.no # n
         /\ \A c \in Runner : n \notin drop[c] /\ \A r \in rows[c] : r.no # n
  BY DEF InUse

\* Where nothing new is carried or waits, OneCopy remains.
LEMMA Fewer ==
  ASSUME OneCopy, received' = received, sent \subseteq sent',
         batch' \subseteq batch,
         \A a \in Activity : Waits(a)' => Waits(a),
         \A a \in Activity, n \in Number : Carries(n, a)' => Carries(n, a)
  PROVE  OneCopy'
  BY DEF OneCopy

\* And where the number k takes over some activities from what had them.
LEMMA HandedOver ==
  ASSUME OneCopy, received' = received, sent \subseteq sent',
         batch' \subseteq batch, NEW k \in Number, NEW acts \in SUBSET Activity,
         \A a \in acts : received[a] = 0 /\ a \in sent',
         \A a \in Activity : Waits(a)' => Waits(a) /\ a \notin acts,
         \A a \in Activity, n \in Number :
           Carries(n, a)' =>
             \/ Carries(n, a) /\ a \notin acts
             \/ n = k /\ a \in acts
  PROVE  OneCopy'
  BY DEF OneCopy

\* Where letters only disappear, numbers still tell them apart.
LEMMA FewerNamed ==
  ASSUME Named, tasks' \subseteq tasks, queue' \subseteq queue,
         \A c \in Runner : rows'[c] \subseteq rows[c] /\ drop'[c] \subseteq drop[c]
  PROVE  Named'
  BY DEF Named

\* What is carried is on its way: sent, and not yet acknowledged.
LEMMA CarriedOnce ==
  ASSUME TypeOK, OneCopy, NEW a \in Activity, NEW n \in Number, Carries(n, a)
  PROVE  received[a] = 0 /\ a \in sent /\ ~Waits(a)
<1>1. received[a] \in Nat
  BY DEF TypeOK
<1> QED  BY <1>1 DEF OneCopy

\* A new task is one letter with a number that nothing else bears.
LEMMA NewTaskLetter ==
  ASSUME NEW to, NEW acts, NEW retries, NewTask(to, acts, retries)
  PROVE  /\ \E l : tasks' = tasks \cup {l} /\ l.no = NewNo /\ l.acts = acts
         /\ NewNo \in Number
         /\ \A l \in tasks \cup queue : l.no # NewNo
         /\ \A c \in Runner : NewNo \notin drop[c] /\ \A r \in rows[c] : r.no # NewNo
<1> DEFINE new == [no |-> NewNo, to |-> to, acts |-> acts,
                   retries |-> retries, stage |-> "waiting"]
<1>1. tasks' = tasks \cup {new} /\ new.no = NewNo /\ new.acts = acts
  BY DEF NewTask
<1>2. NewNo \in Number /\ NewNo \notin InUse
  BY NewNumber DEF NewTask
<1> HIDE DEF new
<1>3. \E l : tasks' = tasks \cup {l} /\ l.no = NewNo /\ l.acts = acts
  BY <1>1
<1> QED  BY <1>2, <1>3, FreeNumber

LEMMA NewTaskNamed ==
  ASSUME Named, NEW to, NEW acts, NEW retries, NewTask(to, acts, retries),
         queue' = queue, rows' = rows, drop' = drop
  PROVE  Named'
<1>1. PICK l : tasks' = tasks \cup {l} /\ l.no = NewNo
  BY NewTaskLetter
<1>2. \A k, m \in tasks' \cup queue' : k.no = m.no => k = m
  BY <1>1, NewTaskLetter DEF Named
<1>3. \A c \in Runner : \A t \in tasks' :
        /\ t.no \notin drop'[c]
        /\ \A r \in rows'[c] : r.no # t.no
  BY <1>1, NewTaskLetter DEF Named
<1> QED  BY <1>2, <1>3 DEF Named

LEMMA SendTidy ==
  ASSUME TypeOK, Tidy, NEW a \in Activity, Send(a)
  PROVE  Tidy'
<1> USE DEF Tidy, env, run, session, net
<1>1. Alone'
  BY DEF Send, Alone
<1>2. CASE a \in Batched
  <2>1. tasks' = tasks /\ queue' = queue /\ rows' = rows /\ drop' = drop
        /\ received' = received /\ sent' = sent \cup {a} /\ batch' = batch \cup {a}
        /\ packed' = packed /\ a \notin sent
    BY <1>2 DEF Send
  <2>2. Named'
    BY <2>1 DEF Named
  <2>3. \A b, n : Carries(n, b)' = Carries(n, b)
    BY <2>1 DEF Carries, Ready, InHand
  <2>4. \A b \in Activity : Waits(b)' => Waits(b) \/ b = a
    BY <2>1 DEF Waits
  <2> QED  BY <1>1, <2>1, <2>2, <2>3, <2>4 DEF OneCopy
<1>3. CASE a \notin Batched
  <2>1. queue' = queue /\ rows' = rows /\ drop' = drop /\ received' = received
        /\ sent' = sent \cup {a} /\ batch' = batch /\ packed' = packed
        /\ a \notin sent /\ NewTask(To[a], {a}, 0)
    BY <1>3 DEF Send
  <2>2. NewNo \in Number /\ NewNo \notin InUse
    BY <2>1, NewNumber DEF NewTask
  <2>3. PICK l : tasks' = tasks \cup {l} /\ l.no = NewNo /\ l.acts = {a}
    BY <2>1, NewTaskLetter
  <2>4. Named'
    BY <2>1, NewTaskNamed
  <2>5. \A b \in Activity, n \in Number :
          Carries(n, b)' =>
            \/ Carries(n, b) /\ b \notin {a}
            \/ n = NewNo /\ b \in {a}
    BY <2>1, <2>3 DEF Carries, Ready, InHand, OneCopy
  <2>6. received[a] = 0 /\ a \notin batch
    BY <2>1 DEF OneCopy
  <2>7. \A b \in Activity : Waits(b)' => Waits(b) /\ b \notin {a}
    BY <2>1, <2>6 DEF Waits
  <2>8. OneCopy'
    BY <2>1, <2>2, <2>5, <2>6, <2>7, HandedOver
  <2> QED  BY <1>1, <2>4, <2>8
<1> QED  BY <1>2, <1>3

\* Nothing else bears the number of a task.
LEMMA TaskNumber ==
  ASSUME TypeOK, Named, NEW t \in tasks,
         NEW l \in (tasks \ {t}) \cup Ready \cup InHand
  PROVE  l.no # t.no
<1>1. \A q \in queue : q # t
  BY DEF TypeOK, Task, Row, Letter
<1>2. CASE l \in (tasks \ {t}) \cup Ready
  BY <1>1, <1>2 DEF Named, Ready
<1>3. CASE l \in InHand
  BY <1>3 DEF Named, InHand
<1> QED  BY <1>2, <1>3

\* An attempt that is acknowledged ends the only letter with its activities.
LEMMA AcceptedTidy ==
  ASSUME TypeOK, Tidy, NEW t \in tasks, Accepted(t)
  PROVE  Tidy'
<1>1. tasks' = tasks \ {t} /\ queue' = queue /\ rows' = rows /\ drop' = drop
      /\ batch' = batch /\ packed' = packed /\ sent' = sent /\ pc' = pc /\ lock' = lock
  BY DEF Accepted, Attempt, run, session
<1>2. \A a \in Activity :
        received'[a] = IF a \in t.acts THEN received[a] + 1 ELSE received[a]
  BY DEF Accepted, Tally
<1>3. Alone' /\ Named'
  BY <1>1, FewerNamed DEF Tidy, Alone
<1>4. t.no \in Number /\ \A a \in t.acts : a \in Activity /\ Carries(t.no, a)
  BY DEF TypeOK, Task, Letter, Carries
<1>5. \A a \in t.acts : received[a] = 0 /\ a \in sent /\ ~Waits(a)
  BY <1>4, CarriedOnce DEF Tidy
<1>6. \A a \in Activity, n \in Number : Carries(n, a)' => Carries(n, a) /\ n # t.no
  <2>1. Ready' = Ready /\ InHand' = InHand
    BY <1>1 DEF Ready, InHand
  <2> QED  BY <1>1, <2>1, TaskNumber DEF Carries, Tidy
<1>7. \A a \in Activity : Waits(a)' => Waits(a)
  BY <1>1 DEF Waits
<1>8. \A a \in t.acts, n \in Number : ~Carries(n, a)'
  BY <1>4, <1>6 DEF Tidy, OneCopy
<1>9. OneCopy'
  <2>1. ASSUME NEW a \in t.acts
        PROVE  received'[a] = 1 /\ a \in sent' /\ ~Waits(a)'
    BY <1>1, <1>2, <1>4, <1>5, <1>7
  <2>2. ASSUME NEW a \in Activity, a \notin t.acts
        PROVE  received'[a] = received[a]
    BY <1>2, <2>2
  <2> QED  BY <1>1, <1>6, <1>7, <1>8, <2>1, <2>2 DEF Tidy, OneCopy
<1> QED  BY <1>3, <1>9 DEF Tidy

\* The other ends of an attempt leave less than there was.
LEMMA EndedTidy ==
  ASSUME Tidy, NEW t \in tasks,
         \/ \E reason \in {"refused", "unreachable"} : GivenUp(t, reason)
         \/ ToldGone(t)
         \/ TaskLost(t)
  PROVE  Tidy'
<1>1. tasks' \subseteq tasks /\ queue' \subseteq queue /\ rows' = rows /\ drop' = drop
      /\ batch' = batch /\ packed' = packed /\ sent' = sent /\ pc' = pc /\ lock' = lock
      /\ received' = received
  BY DEF GivenUp, ToldGone, TaskLost, Attempt, run, session, net
<1>2. Alone' /\ Named'
  BY <1>1, FewerNamed DEF Tidy, Alone
<1>3. \A a \in Activity, n \in Number : Carries(n, a)' => Carries(n, a)
  BY <1>1 DEF Carries, Ready, InHand
<1>4. \A a \in Activity : Waits(a)' => Waits(a)
  BY <1>1 DEF Waits
<1> QED  BY <1>1, <1>2, <1>3, <1>4, Fewer DEF Tidy

LEMMA FailedTidy ==
  ASSUME TypeOK, Tidy, NEW t \in tasks, Failed(t)
  PROVE  Tidy'
<1>1. PICK u : tasks' = (tasks \ {t}) \cup {u} /\ u.no = t.no /\ u.acts = t.acts
  <2>1. LET u == [t EXCEPT !.stage = "failed"]
        IN  u.no = t.no /\ u.acts = t.acts
    BY DEF TypeOK, Task, Letter
  <2> QED  BY <2>1 DEF Failed
<1>2. queue' = queue /\ rows' = rows /\ drop' = drop /\ batch' = batch
      /\ packed' = packed /\ sent' = sent /\ pc' = pc /\ lock' = lock
      /\ received' = received
  BY DEF Failed, Attempt, run, session
<1>3. Alone' /\ Named'
  <2>1. \A l, m \in tasks' \cup queue' : l.no = m.no => l = m
    <3>1. \A l \in (tasks \ {t}) \cup queue : l.no # t.no
      <4>1. \A q \in queue : q # t
        BY DEF TypeOK, Task, Row, Letter
      <4> QED  BY <4>1 DEF Tidy, Named
    <3> QED  BY <1>1, <1>2, <3>1 DEF Tidy, Named
  <2>2. \A c \in Runner : \A k \in tasks' :
          /\ k.no \notin drop'[c]
          /\ \A r \in rows'[c] : r.no # k.no
    BY <1>1, <1>2 DEF Tidy, Named
  <2> QED  BY <1>2, <2>1, <2>2 DEF Tidy, Alone, Named
<1>4. \A a \in Activity, n \in Number : Carries(n, a)' => Carries(n, a)
  BY <1>1, <1>2 DEF Carries, Ready, InHand
<1>5. \A a \in Activity : Waits(a)' => Waits(a)
  BY <1>2 DEF Waits
<1> QED  BY <1>2, <1>3, <1>4, <1>5, Fewer DEF Tidy

\* The row takes over what the failed task carried.
LEMMA RequeueTidy ==
  ASSUME TypeOK, Tidy, NEW t \in tasks, Requeue(t)
  PROVE  Tidy'
<1>1. PICK q : queue' = queue \cup {q} /\ q.no = NewNo /\ q.acts = t.acts
  <2>1. Queued(t).no = NewNo /\ Queued(t).acts = t.acts
    BY DEF TypeOK, Task, Letter, Queued
  <2> QED  BY <2>1 DEF Requeue
<1>2. tasks' = tasks \ {t} /\ rows' = rows /\ drop' = drop /\ batch' = batch
      /\ packed' = packed /\ sent' = sent /\ pc' = pc /\ lock' = lock
      /\ received' = received
  BY DEF Requeue, run, session, net
<1>3. NewNo \in Number /\ NewNo \notin InUse
  BY NewNumber DEF Requeue
<1>4. /\ \A l \in tasks \cup queue : l.no # NewNo
      /\ \A c \in Runner : NewNo \notin drop[c] /\ \A r \in rows[c] : r.no # NewNo
  BY <1>3, FreeNumber
<1>5. Alone'
  BY <1>2 DEF Tidy, Alone
<1>6. Named'
  <2>1. \A l, m \in tasks' \cup queue' : l.no = m.no => l = m
    BY <1>1, <1>2, <1>4 DEF Tidy, Named
  <2>2. \A c \in Runner : \A r \in rows'[c] :
          \A k \in queue' : k.no = r.no => k.acts = r.acts
    BY <1>1, <1>2, <1>4 DEF Tidy, Named
  <2> QED  BY <1>2, <2>1, <2>2 DEF Tidy, Named
<1>7. t.no \in Number /\ \A a \in t.acts : a \in Activity /\ Carries(t.no, a)
  BY DEF TypeOK, Task, Letter, Carries
<1>8. \A a \in t.acts : received[a] = 0 /\ a \in sent /\ ~Waits(a)
  BY <1>7, CarriedOnce DEF Tidy
<1>9. \A a \in Activity, n \in Number :
        Carries(n, a)' => \/ Carries(n, a) /\ n # t.no
                          \/ n = NewNo /\ a \in t.acts
  <2>1. Ready' \subseteq Ready \cup {q} /\ InHand' = InHand
    BY <1>1, <1>2 DEF Ready, InHand
  <2> QED  BY <1>1, <1>2, <2>1, TaskNumber DEF Carries, Tidy
<1>10. \A a \in Activity, n \in Number : Carries(n, a) /\ n # t.no => a \notin t.acts
  BY <1>7 DEF Tidy, OneCopy
<1>11. \A a \in Activity : Waits(a)' => Waits(a) /\ a \notin t.acts
  BY <1>2, <1>8 DEF Waits
<1>12. t.acts \in SUBSET Activity
  BY <1>7
<1>13. OneCopy'
  BY <1>2, <1>3, <1>8, <1>9, <1>10, <1>11, <1>12, HandedOver DEF Tidy
<1> QED  BY <1>5, <1>6, <1>13 DEF Tidy

\* While a run is under way the others hold nothing.
LEMMA OthersIdle ==
  ASSUME Alone, NEW c \in Runner, pc[c] # "idle",
         NEW d \in Runner, d # c
  PROVE  pc[d] = "idle" /\ rows[d] = {} /\ drop[d] = {} /\ packed[d] = {}
  BY DEF Alone

\* The steps of a run that move nothing from where it is.
LEMMA StillTidy ==
  ASSUME Tidy, NEW c \in Runner, TypeOK,
         Start(c) \/ ReadBatches(c) \/ Finish(c)
  PROVE  Tidy'
<1>1. tasks' = tasks /\ queue' = queue /\ rows' = rows /\ drop' = drop
      /\ batch' = batch /\ packed' = packed /\ sent' = sent /\ received' = received
  BY DEF Start, ReadBatches, Finish, session, net
<1>2. Alone'
  <2>1. CASE Start(c)
    <3>1. lock = Free /\ \A d \in Runner : d # Free
      BY <2>1, SendQueueAssumption DEF Start, Unlocked, Free
    <3> QED  BY <2>1, <3>1 DEF Tidy, Alone, Start, session, Goto, TypeOK
  <2>2. CASE ReadBatches(c)
    BY <2>2 DEF Tidy, Alone, ReadBatches, Goto, TypeOK
  <2>3. CASE Finish(c)
    BY <2>3 DEF Tidy, Alone, Finish, session, Goto, TypeOK
  <2> QED  BY <2>1, <2>2, <2>3
<1>3. Named'
  BY <1>1, FewerNamed DEF Tidy
<1>4. \A a \in Activity, n \in Number : Carries(n, a)' => Carries(n, a)
  BY <1>1 DEF Carries, Ready, InHand
<1>5. \A a \in Activity : Waits(a)' => Waits(a)
  BY <1>1 DEF Waits
<1> QED  BY <1>1, <1>2, <1>3, <1>4, <1>5, Fewer DEF Tidy

\* The rows it reads are rows of the queue, none of them deleted by halves.
LEMMA ReadQueueTidy ==
  ASSUME TypeOK, Tidy, NEW c \in Runner, ReadQueue(c)
  PROVE  Tidy'
<1>1. tasks' = tasks /\ queue' = queue /\ drop' = drop /\ batch' = batch
      /\ packed' = packed /\ sent' = sent /\ received' = received /\ lock' = lock
  BY DEF ReadQueue, net
<1>2. rows'[c] \subseteq queue /\ \A d \in Runner : d # c => rows'[d] = {}
  <2>1. \A d \in Runner : d # c => rows[d] = {}
    BY OthersIdle DEF ReadQueue, Tidy
  <2> QED  BY <2>1 DEF ReadQueue, TypeOK
<1>3. \A d \in Runner : drop[d] = {}
  BY OthersIdle DEF ReadQueue, Tidy, Alone
<1>4. Alone'
  BY <1>1, <1>2 DEF ReadQueue, Tidy, Alone, Goto, TypeOK
<1>5. Named'
  <2>1. \A t \in tasks, q \in queue : t.no # q.no
    <3>1. \A t \in tasks, q \in queue : t # q
      BY DEF TypeOK, Task, Row, Letter
    <3> QED  BY <3>1 DEF Tidy, Named
  <2>2. \A d \in Runner : \A r \in rows'[d] : r \in queue
    BY <1>2
  <2>3. \A d \in Runner : \A r \in rows'[d] :
          /\ r.no \notin drop'[d]
          /\ \A q \in queue' : q.no = r.no => q.acts = r.acts
          /\ \A s \in rows'[d] : s.no = r.no => s = r
    BY <1>1, <1>3, <2>2 DEF Tidy, Named
  <2>4. \A d \in Runner : \A t \in tasks' :
          /\ t.no \notin drop'[d]
          /\ \A r \in rows'[d] : r.no # t.no
    BY <1>1, <1>3, <2>1, <2>2
  <2> QED  BY <1>1, <2>3, <2>4 DEF Tidy, Named
<1>6. \A a \in Activity, n \in Number : Carries(n, a)' => Carries(n, a)
  <2>1. Ready' = Ready /\ InHand' \subseteq Ready
    BY <1>1, <1>2, <1>3 DEF Ready, InHand
  <2> QED  BY <1>1, <2>1 DEF Carries
<1>7. \A a \in Activity : Waits(a)' => Waits(a)
  BY <1>1 DEF Waits
<1> QED  BY <1>1, <1>4, <1>5, <1>6, <1>7, Fewer DEF Tidy

\* A row leaves the hands of the run; unless it is left to be read again, its
\* number is put down for deletion and no longer carries anything.
LEMMA DealRows ==
  ASSUME TypeOK, Tidy, NEW c \in Runner, NEW r \in rows[c], DealWith(c, r),
         Handled(c, r) \/ drop' = drop
  PROVE  /\ Alone'
         /\ r \in Row
         /\ rows'[c] = rows[c] \ {r} /\ \A d \in Runner : d # c => rows'[d] = {}
         /\ \A d \in Runner : d # c => drop'[d] = {} /\ drop[d] = {}
         /\ drop[c] \subseteq drop'[c] /\ drop'[c] \subseteq drop[c] \cup {r.no}
         /\ Handled(c, r) => r.no \in drop'[c]
         /\ \A l \in (tasks \cup InHand') : l.no # r.no
         /\ queue' = queue /\ batch' = batch /\ sent' = sent /\ received' = received
         /\ packed' = packed
<1>1. pc[c] = "sending" /\ r \in rows[c] /\ r \in Row
  BY DEF DealWith, TypeOK
<1>2. \A d \in Runner : d # c => rows[d] = {} /\ drop[d] = {}
  BY <1>1, OthersIdle DEF Tidy
<1>3. rows'[c] = rows[c] \ {r} /\ \A d \in Runner : d # c => rows'[d] = {}
  BY <1>2 DEF DealWith, TypeOK
<1>4. /\ \A d \in Runner : d # c => drop'[d] = {}
      /\ drop[c] \subseteq drop'[c] /\ drop'[c] \subseteq drop[c] \cup {r.no}
      /\ Handled(c, r) => r.no \in drop'[c]
  BY <1>2 DEF Handled, TypeOK
<1>5. queue' = queue /\ batch' = batch /\ sent' = sent /\ received' = received
      /\ packed' = packed /\ pc' = pc /\ lock' = lock
  BY DEF DealWith, net
<1>6. Alone'
  BY <1>1, <1>3, <1>4, <1>5 DEF Tidy, Alone
<1>7. \A l \in (tasks \cup InHand') : l.no # r.no
  BY <1>1, <1>3 DEF InHand, Tidy, Named
<1> QED  BY <1>1, <1>2, <1>3, <1>4, <1>5, <1>6, <1>7

LEMMA DropTidy ==
  ASSUME TypeOK, Tidy, NEW c \in Runner, NEW r \in rows[c],
         Exhausted(c, r) \/ DropGone(c, r) \/ LeaveDormant(c, r)
  PROVE  Tidy'
<1>1. DealWith(c, r) /\ tasks' = tasks /\ (Handled(c, r) \/ drop' = drop)
  BY DEF Exhausted, DropGone, LeaveDormant
<1>2. /\ Alone'
      /\ rows'[c] = rows[c] \ {r} /\ \A d \in Runner : d # c => rows'[d] = {}
      /\ \A d \in Runner : d # c => drop'[d] = {} /\ drop[d] = {}
      /\ drop[c] \subseteq drop'[c] /\ drop'[c] \subseteq drop[c] \cup {r.no}
      /\ \A l \in (tasks \cup InHand') : l.no # r.no
      /\ queue' = queue /\ batch' = batch /\ sent' = sent /\ received' = received
      /\ packed' = packed
  BY <1>1, DealRows
<1>3. Named'
  <2>1. \A d \in Runner : \A s \in rows'[d] :
          /\ s.no \notin drop'[d]
          /\ \A q \in queue' : q.no = s.no => q.acts = s.acts
          /\ \A u \in rows'[d] : u.no = s.no => u = s
    BY <1>2 DEF Tidy, Named, InHand
  <2>2. \A d \in Runner : \A t \in tasks' :
          /\ t.no \notin drop'[d]
          /\ \A s \in rows'[d] : s.no # t.no
    BY <1>1, <1>2 DEF Tidy, Named
  <2> QED  BY <1>1, <1>2, <2>1, <2>2 DEF Tidy, Named
<1>4. \A a \in Activity, n \in Number : Carries(n, a)' => Carries(n, a)
  <2>1. Ready' \subseteq Ready /\ InHand' \subseteq InHand
    BY <1>2 DEF Ready, InHand
  <2> QED  BY <1>1, <2>1 DEF Carries
<1>5. \A a \in Activity : Waits(a)' => Waits(a)
  BY <1>2 DEF Waits
<1> QED  BY <1>2, <1>3, <1>4, <1>5, Fewer DEF Tidy

\* The new task takes over what the row carried.
LEMMA SendAgainTidy ==
  ASSUME TypeOK, Tidy, NEW c \in Runner, NEW r \in rows[c], SendAgain(c, r)
  PROVE  Tidy'
<1>1. DealWith(c, r) /\ Handled(c, r) /\ NewTask(r.to, r.acts, r.retries + 1)
  BY DEF SendAgain
<1>2. /\ Alone' /\ r \in Row
      /\ rows'[c] = rows[c] \ {r} /\ \A d \in Runner : d # c => rows'[d] = {}
      /\ \A d \in Runner : d # c => drop'[d] = {} /\ drop[d] = {}
      /\ drop[c] \subseteq drop'[c] /\ drop'[c] \subseteq drop[c] \cup {r.no}
      /\ r.no \in drop'[c]
      /\ \A l \in (tasks \cup InHand') : l.no # r.no
      /\ queue' = queue /\ batch' = batch /\ sent' = sent /\ received' = received
      /\ packed' = packed
  BY <1>1, DealRows
<1>3. PICK l : tasks' = tasks \cup {l} /\ l.no = NewNo /\ l.acts = r.acts
  BY <1>1, NewTaskLetter
<1>4. /\ NewNo \in Number
      /\ \A k \in tasks \cup queue : k.no # NewNo
      /\ \A d \in Runner : NewNo \notin drop[d] /\ \A s \in rows[d] : s.no # NewNo
  BY <1>1, NewTaskLetter
<1>5. Named'
  <2>1. \A k, m \in tasks' \cup queue' : k.no = m.no => k = m
    BY <1>2, <1>3, <1>4 DEF Tidy, Named
  <2>2. \A d \in Runner : \A s \in rows'[d] :
          /\ s.no \notin drop'[d]
          /\ \A q \in queue' : q.no = s.no => q.acts = s.acts
          /\ \A u \in rows'[d] : u.no = s.no => u = s
    BY <1>2 DEF Tidy, Named, InHand
  <2>3. \A d \in Runner : \A t \in tasks' :
          /\ t.no \notin drop'[d]
          /\ \A s \in rows'[d] : s.no # t.no
    BY <1>2, <1>3, <1>4 DEF Tidy, Named
  <2> QED  BY <2>1, <2>2, <2>3 DEF Named
<1>6. r.no \in Number /\ \A a \in r.acts : a \in Activity /\ Carries(r.no, a)
  BY <1>2 DEF Row, Letter, Carries, InHand
<1>7. \A a \in r.acts : received[a] = 0 /\ a \in sent /\ ~Waits(a)
  BY <1>6, CarriedOnce DEF Tidy
<1>8. \A a \in Activity, n \in Number :
        Carries(n, a)' => \/ Carries(n, a) /\ n # r.no
                          \/ n = NewNo /\ a \in r.acts
  <2>1. Ready' \subseteq Ready /\ InHand' \subseteq InHand
    BY <1>2 DEF Ready, InHand
  <2>2. \A q \in Ready' : q.no # r.no
    BY <1>2 DEF Ready
  <2> QED  BY <1>2, <1>3, <2>1, <2>2 DEF Carries
<1>9. \A a \in Activity, n \in Number : Carries(n, a) /\ n # r.no => a \notin r.acts
  BY <1>6 DEF Tidy, OneCopy
<1>10. \A a \in Activity : Waits(a)' => Waits(a) /\ a \notin r.acts
  BY <1>2, <1>7 DEF Waits
<1>11. r.acts \in SUBSET Activity
  BY <1>6
<1>12. OneCopy'
  BY <1>2, <1>4, <1>7, <1>8, <1>9, <1>10, <1>11, HandedOver DEF Tidy
<1> QED  BY <1>2, <1>5, <1>12 DEF Tidy

\* What is deleted was no longer ready to be sent.
LEMMA DeleteHandledTidy ==
  ASSUME TypeOK, Tidy, NEW c \in Runner, DeleteHandled(c)
  PROVE  Tidy'
<1>1. tasks' = tasks /\ rows' = rows /\ batch' = batch /\ packed' = packed
      /\ sent' = sent /\ received' = received /\ lock' = lock /\ queue' = QueueLeft(c)
  BY DEF DeleteHandled, net
<1>2. \A d \in Runner : drop'[d] = {}
  <2>1. \A d \in Runner : d # c => drop[d] = {}
    BY OthersIdle DEF DeleteHandled, Tidy
  <2> QED  BY <2>1 DEF DeleteHandled, TypeOK
<1>3. Alone'
  BY <1>1, <1>2 DEF DeleteHandled, Tidy, Alone, Goto, TypeOK
<1>4. Named'
  BY <1>1, <1>2, FewerNamed DEF QueueLeft, Tidy
<1>5. \A a \in Activity, n \in Number : Carries(n, a)' => Carries(n, a)
  <2>1. \A d \in Runner : d # c => drop[d] = {}
    BY OthersIdle DEF DeleteHandled, Tidy
  <2>2. Ready' \subseteq Ready /\ InHand' = InHand
    BY <1>1, <2>1 DEF Ready, InHand, QueueLeft
  <2> QED  BY <1>1, <2>2 DEF Carries
<1>6. \A a \in Activity : Waits(a)' => Waits(a)
  BY <1>1 DEF Waits
<1> QED  BY <1>1, <1>3, <1>4, <1>5, <1>6, Fewer DEF Tidy

\* The new task takes over what waited in the batch.
LEMMA SendBatchTidy ==
  ASSUME TypeOK, Tidy, NEW c \in Runner, NEW i \in dests[c], SendBatch(c, i)
  PROVE  Tidy'
<1> DEFINE acts == {a \in batch : To[a] = i}
<1>1. NewTask(i, acts, 0) /\ queue' = queue /\ rows' = rows /\ drop' = drop
      /\ batch' = batch /\ sent' = sent /\ received' = received /\ lock' = lock
      /\ packed' = [packed EXCEPT ![c] = acts]
  BY DEF SendBatch, net
<1>2. acts \in SUBSET Activity /\ acts \subseteq batch
  BY DEF TypeOK
<1> HIDE DEF acts
<1>3. PICK l : tasks' = tasks \cup {l} /\ l.no = NewNo /\ l.acts = acts
  BY <1>1, NewTaskLetter
<1>4. NewNo \in Number
  BY <1>1, NewTaskLetter
<1>5. Alone'
  BY <1>1 DEF SendBatch, Tidy, Alone, Goto, TypeOK
<1>6. Named'
  BY <1>1, NewTaskNamed DEF Tidy
<1>7. \A d \in Runner : packed[d] = {}
  BY OthersIdle DEF SendBatch, Tidy, Alone
<1>8. \A a \in acts : Waits(a) /\ received[a] = 0 /\ a \in sent'
  BY <1>1, <1>2, <1>7 DEF Waits, Tidy, OneCopy
<1>9. \A a \in Activity, n \in Number :
        Carries(n, a)' => \/ Carries(n, a) /\ a \notin acts
                          \/ n = NewNo /\ a \in acts
  <2>1. Ready' = Ready /\ InHand' = InHand
    BY <1>1 DEF Ready, InHand
  <2>2. \A a \in acts, n \in Number : ~Carries(n, a)
    BY <1>2, <1>8 DEF Tidy, OneCopy
  <2> QED  BY <1>2, <1>3, <2>1, <2>2 DEF Carries
<1>10. \A a \in Activity : Waits(a)' => Waits(a) /\ a \notin acts
  <2>1. packed'[c] = acts
    BY <1>1 DEF TypeOK
  <2> QED  BY <1>1, <1>7, <2>1 DEF Waits
<1>11. OneCopy'
  BY <1>1, <1>2, <1>4, <1>8, <1>9, <1>10, HandedOver DEF Tidy
<1> QED  BY <1>5, <1>6, <1>11 DEF Tidy

LEMMA DeleteBatchTidy ==
  ASSUME TypeOK, Tidy, NEW c \in Runner, DeleteBatch(c)
  PROVE  Tidy'
<1>1. tasks' = tasks /\ queue' = queue /\ rows' = rows /\ drop' = drop
      /\ batch' = batch \ packed[c] /\ sent' = sent /\ received' = received
      /\ lock' = lock /\ packed' = [packed EXCEPT ![c] = {}]
  BY DEF DeleteBatch, BatchLeft, net
<1>2. Alone'
  BY <1>1 DEF DeleteBatch, Tidy, Alone, Goto, TypeOK
<1>3. Named'
  BY <1>1, FewerNamed DEF Tidy
<1>4. \A a \in Activity, n \in Number : Carries(n, a)' => Carries(n, a)
  BY <1>1 DEF Carries, Ready, InHand
<1>5. \A a \in Activity : Waits(a)' => Waits(a)
  BY <1>1 DEF Waits, TypeOK
<1> QED  BY <1>1, <1>2, <1>3, <1>4, <1>5, Fewer DEF Tidy

\* A run that is cut short while nothing is half done leaves nothing behind.
LEMMA RunLostTidy ==
  ASSUME TypeOK, Tidy, Spared', NEW c \in Runner, RunLost(c)
  PROVE  Tidy'
<1>1. tasks' = tasks /\ queue' = queue /\ batch' = batch /\ sent' = sent
      /\ received' = received
  BY DEF RunLost, net
<1>2. drop[c] = {} /\ packed[c] = {}
  BY DEF RunLost, Spared, Tidy, Alone
<1>3. /\ rows'[c] = {} /\ \A d \in Runner : d # c => rows'[d] = rows[d]
      /\ drop' = drop /\ packed' = packed
  BY <1>2 DEF RunLost, TypeOK
<1>4. Alone'
  <2>1. \A d \in Runner : d # c => pc[d] = "idle" /\ pc'[d] = "idle"
    BY OthersIdle DEF RunLost, Goto, Tidy, TypeOK
  <2>2. pc'[c] = "idle"
    BY DEF RunLost, Goto, TypeOK
  <2> QED  BY <1>2, <1>3, <2>1, <2>2 DEF Tidy, Alone
<1>5. Named'
  BY <1>1, <1>3, FewerNamed DEF Tidy
<1>6. \A a \in Activity, n \in Number : Carries(n, a)' => Carries(n, a)
  BY <1>1, <1>3 DEF Carries, Ready, InHand
<1>7. \A a \in Activity : Waits(a)' => Waits(a)
  BY <1>1, <1>3 DEF Waits
<1> QED  BY <1>1, <1>4, <1>5, <1>6, <1>7, Fewer DEF Tidy

LEMMA GrowOldTidy ==
  ASSUME TypeOK, Tidy, NEW r \in queue, GrowOld(r)
  PROVE  Tidy'
<1>1. PICK q : queue' = (queue \ {r}) \cup {q} /\ q.no = r.no /\ q.acts = r.acts
  <2>1. \A s : LET q == [r EXCEPT !.stage = s] IN q.no = r.no /\ q.acts = r.acts
    BY DEF TypeOK, Row, Letter
  <2> QED  BY <2>1 DEF GrowOld
<1>2. tasks' = tasks /\ rows' = rows /\ drop' = drop /\ batch' = batch
      /\ packed' = packed /\ sent' = sent /\ pc' = pc /\ lock' = lock
      /\ received' = received
  BY DEF GrowOld, run, session, net
<1>3. Alone'
  BY <1>2 DEF Tidy, Alone
<1>4. Named'
  <2>1. \A l \in tasks \cup (queue \ {r}) : l.no # r.no
    <3>1. \A t \in tasks : t # r
      BY DEF TypeOK, Task, Row, Letter
    <3> QED  BY <3>1 DEF Tidy, Named
  <2>2. \A l, m \in tasks' \cup queue' : l.no = m.no => l = m
    BY <1>1, <1>2, <2>1 DEF Tidy, Named
  <2>3. \A c \in Runner : \A s \in rows'[c] :
          \A k \in queue' : k.no = s.no => k.acts = s.acts
    BY <1>1, <1>2 DEF Tidy, Named
  <2> QED  BY <1>2, <2>2, <2>3 DEF Tidy, Named
<1>5. \A a \in Activity, n \in Number : Carries(n, a)' => Carries(n, a)
  BY <1>1, <1>2 DEF Carries, Ready, InHand
<1>6. \A a \in Activity : Waits(a)' => Waits(a)
  BY <1>2 DEF Waits
<1> QED  BY <1>2, <1>3, <1>4, <1>5, <1>6, Fewer DEF Tidy

\* Neither health nor its memo, nor the cleanup, nor the end of a lock whose
\* holder is no more adds a letter or a holder.
LEMMA AroundTidy ==
  ASSUME TypeOK, Tidy, Spared',
         \/ \E i \in Instance : Forget(i) \/ ChangeHealth(i)
         \/ Cleanup
         \/ Expire
  PROVE  Tidy'
<1>1. tasks' = tasks /\ queue' \subseteq queue /\ rows' = rows /\ drop' = drop
      /\ batch' = batch /\ packed' = packed /\ sent' = sent /\ pc' = pc
      /\ received' = received
  BY DEF Forget, ChangeHealth, Cleanup, Expire, run, session, net
<1>2. lock' = lock \/ lock \notin Runner
  BY DEF Forget, ChangeHealth, Cleanup, Expire, Spared
<1>3. Alone'
  BY <1>1, <1>2 DEF Tidy, Alone
<1>4. Named'
  BY <1>1, FewerNamed DEF Tidy
<1>5. \A a \in Activity, n \in Number : Carries(n, a)' => Carries(n, a)
  BY <1>1 DEF Carries, Ready, InHand
<1>6. \A a \in Activity : Waits(a)' => Waits(a)
  BY <1>1 DEF Waits
<1> QED  BY <1>1, <1>3, <1>4, <1>5, <1>6, Fewer DEF Tidy

-----------------------------------------------------------------------------
\* A mishap is never forgotten.
LEMMA SoundBefore == [Next]_vars /\ Spared' => Spared
<1> SUFFICES ASSUME [Next]_vars, Spared'  PROVE mishaps = {}
  BY DEF Spared
<1> USE DEF Spared
<1>1. CASE UNCHANGED vars
  BY <1>1 DEF vars
<1>2. ASSUME NEW a \in Activity, Send(a)  PROVE mishaps = {}
  BY <1>2 DEF Send
<1>3. ASSUME NEW t \in tasks, Work(t) \/ TaskLost(t)  PROVE mishaps = {}
  BY <1>3 DEF Work, Accepted, GivenUp, ToldGone, Failed, Requeue, Attempt,
              TaskLost
<1>4. ASSUME NEW c \in Runner, Start(c) \/ RunOn(c) \/ RunLost(c)
      PROVE  mishaps = {}
  <2>1. CASE Start(c) \/ RunLost(c)
    BY <2>1 DEF Start, RunLost
  <2>2. CASE RunOn(c)
    BY <2>2 DEF RunOn, ReadQueue, SendAgain, Exhausted, DropGone, LeaveDormant,
                DealWith, DeleteHandled, ReadBatches, SendBatch, DeleteBatch,
                Finish
  <2> QED  BY <1>4, <2>1, <2>2
<1>5. CASE \/ \E r \in queue : GrowOld(r)
           \/ \E i \in Instance : Forget(i) \/ ChangeHealth(i)
           \/ Cleanup
           \/ Expire
  BY <1>5 DEF GrowOld, Forget, ChangeHealth, Cleanup, Expire
<1> QED  BY <1>1, <1>2, <1>3, <1>4, <1>5 DEF Next

LEMMA InitTidy == Init => Tidy
  BY DEF Init, Tidy, Alone, Named, OneCopy, Carries, Waits, Ready, InHand

LEMMA NextOnce == TypeOK /\ OnceInv /\ [Next]_vars => OnceInv'
<1> SUFFICES ASSUME TypeOK, Tidy, Spared', [Next]_vars  PROVE Tidy'
  BY SoundBefore DEF OnceInv
<1>1. CASE UNCHANGED vars
  BY <1>1 DEF vars, net, run, session, Tidy, Alone, Named, OneCopy, Carries,
              Waits, Ready, InHand
<1>2. ASSUME NEW a \in Activity, Send(a)  PROVE Tidy'
  BY <1>2, SendTidy
<1>3. ASSUME NEW t \in tasks, Work(t) \/ TaskLost(t)  PROVE Tidy'
  BY <1>3, AcceptedTidy, EndedTidy, FailedTidy, RequeueTidy DEF Work
<1>4. ASSUME NEW c \in Runner, Start(c) \/ RunOn(c) \/ RunLost(c)
      PROVE  Tidy'
  <2>1. CASE Start(c) \/ ReadBatches(c) \/ Finish(c)
    BY <2>1, StillTidy
  <2>2. CASE ReadQueue(c) \/ DeleteHandled(c) \/ DeleteBatch(c)
    BY <2>2, ReadQueueTidy, DeleteHandledTidy, DeleteBatchTidy
  <2>3. ASSUME NEW r \in rows[c],
               \/ SendAgain(c, r) \/ Exhausted(c, r)
               \/ DropGone(c, r) \/ LeaveDormant(c, r)
        PROVE  Tidy'
    BY <2>3, SendAgainTidy, DropTidy
  <2>4. ASSUME NEW i \in dests[c], SendBatch(c, i)  PROVE Tidy'
    BY <2>4, SendBatchTidy
  <2>5. CASE RunLost(c)
    BY <2>5, RunLostTidy
  <2> QED  BY <1>4, <2>1, <2>2, <2>3, <2>4, <2>5 DEF RunOn
<1>5. ASSUME NEW r \in queue, GrowOld(r)  PROVE Tidy'
  BY <1>5, GrowOldTidy
<1>6. CASE \/ \E i \in Instance : Forget(i) \/ ChangeHealth(i)
           \/ Cleanup
           \/ Expire
  BY <1>6, AroundTidy
<1> QED  BY <1>1, <1>2, <1>3, <1>4, <1>5, <1>6 DEF Next

\* However many runs, failures and changes of health there are: as long as no
\* run was cut short with rows handed over and not deleted, and none outlived
\* its lock, no activity is acknowledged twice.
THEOREM AcknowledgedOnce == Spec => []ReceivedOnce
<1>1. Init => OnceInv
  BY InitTidy DEF OnceInv
<1>2. OnceInv => ReceivedOnce
  BY DEF OnceInv, Tidy, OneCopy, ReceivedOnce, Spared
<1> QED  BY <1>1, <1>2, TypeCorrect, NextOnce, PTL DEF Spec

-----------------------------------------------------------------------------
(***************************************************************************)
(* How often an activity is posted: a letter bears in its retries how often *)
(* its activities were posted, and the command send-queue lets no letter   *)
(* through whose retries are more than MaxRetries.  That each posting      *)
(* counts for one letter only needs OnceInv, and so its assumption that    *)
(* there were no mishaps.                                                  *)
(***************************************************************************)
\* What may still be sent.
Tray == tasks \cup Ready \cup InHand

\* How often the activities of a letter were posted, at most.
Rank(l) == IF l.stage = "waiting" THEN l.retries ELSE l.retries + 1

Ranked ==
  /\ \A l \in Tray : /\ l.retries <= MaxRetries + 1
                     /\ \A a \in l.acts : posted[a] <= Rank(l)
  /\ \A a \in Activity : /\ Waits(a) => posted[a] = 0
                         /\ a \notin sent => posted[a] = 0
                         /\ posted[a] <= MaxRetries + 2

BoundInv == Spared => Ranked

-----------------------------------------------------------------------------
LEMMA TrayType == TypeOK => Tray \subseteq Task \cup Row
  BY DEF TypeOK, Tray, Ready, InHand

\* Letters that are replaced by such that bear as much keep it so.
LEMMA SameRank ==
  ASSUME TypeOK, Ranked, posted' = posted, sent \subseteq sent',
         \A a \in Activity : Waits(a)' => Waits(a),
         \A l \in Tray' : \E k \in Tray :
           l.acts = k.acts /\ l.retries = k.retries /\ Rank(k) <= Rank(l)
  PROVE  Ranked'
<1>1. \A k \in Tray : k.acts \in SUBSET Activity /\ Rank(k) \in Nat
  BY TrayType DEF Task, Row, Letter, Rank
<1>2. \A a \in Activity : posted[a] \in Nat
  BY DEF TypeOK
<1>3. \A l \in Tray' : /\ l.retries <= MaxRetries + 1
                       /\ \A a \in l.acts : posted'[a] <= Rank(l)
  <2> SUFFICES ASSUME NEW l \in Tray'
               PROVE  /\ l.retries <= MaxRetries + 1
                      /\ \A a \in l.acts : posted'[a] <= Rank(l)
    OBVIOUS
  <2>1. PICK k \in Tray :
          l.acts = k.acts /\ l.retries = k.retries /\ Rank(k) <= Rank(l)
    OBVIOUS
  <2>2. Rank(l) \in Nat
    <3>1. k.retries \in Nat
      BY TrayType DEF Task, Row, Letter
    <3> QED  BY <2>1, <3>1 DEF Rank
  <2> QED  BY <1>1, <1>2, <2>1, <2>2 DEF Ranked
<1> QED  BY <1>3 DEF Ranked

\* The same where letters only disappear.
LEMMA FewerRanked ==
  ASSUME TypeOK, Ranked, posted' = posted, sent \subseteq sent', Tray' \subseteq Tray,
         \A a \in Activity : Waits(a)' => Waits(a)
  PROVE  Ranked'
<1>1. \A l \in Tray : Rank(l) <= Rank(l)
  BY TrayType DEF Task, Row, Letter, Rank
<1> QED  BY <1>1, SameRank

LEMMA SendRanked ==
  ASSUME TypeOK, Ranked, NEW a \in Activity, Send(a)
  PROVE  Ranked'
<1>1. a \notin sent /\ sent' = sent \cup {a} /\ queue' = queue /\ rows' = rows
      /\ drop' = drop /\ packed' = packed /\ posted' = posted
  BY DEF Send, run, session, net
<1>2. Ready' = Ready /\ InHand' = InHand
  BY <1>1 DEF Ready, InHand
<1>3. posted[a] = 0
  BY <1>1 DEF Ranked
<1>4. /\ batch' \subseteq batch \cup {a}
      /\ \A l \in tasks' : \/ l \in tasks
                           \/ l.acts = {a} /\ l.retries = 0 /\ l.stage = "waiting"
  <2>1. CASE a \in Batched
    BY <2>1 DEF Send
  <2>2. CASE a \notin Batched
    BY <2>2 DEF Send, NewTask
  <2> QED  BY <2>1, <2>2
<1>5. \A b \in Activity : Waits(b)' => Waits(b) \/ b = a
  BY <1>1, <1>4 DEF Waits
<1>6. \A l \in Tray' : /\ l.retries <= MaxRetries + 1
                       /\ \A b \in l.acts : posted'[b] <= Rank(l)
  <2> SUFFICES ASSUME NEW l \in Tray'
               PROVE  /\ l.retries <= MaxRetries + 1
                      /\ \A b \in l.acts : posted'[b] <= Rank(l)
    OBVIOUS
  <2>1. CASE l \in Tray
    BY <1>1, <2>1 DEF Ranked
  <2>2. CASE l.acts = {a} /\ l.retries = 0 /\ l.stage = "waiting"
    BY <1>1, <1>3, <2>2, SendQueueAssumption DEF Rank
  <2> QED  BY <1>2, <1>4, <2>1, <2>2 DEF Tray
<1> QED  BY <1>1, <1>3, <1>5, <1>6 DEF Ranked

\* A waiting task posts: it was the only letter with its activities, so none
\* of what is left but its own failed copy bears them.
LEMMA AttemptRanked ==
  ASSUME TypeOK, Named, OneCopy, Ranked, NEW t \in tasks, Attempt(t),
         tasks' \subseteq (tasks \ {t}) \cup {[t EXCEPT !.stage = "failed"]},
         queue' \subseteq queue
  PROVE  Ranked'
<1>1. sent' = sent /\ batch' = batch /\ packed' = packed /\ rows' = rows
      /\ drop' = drop /\ t.stage = "waiting"
  BY DEF Attempt, run, session
<1>2. \A a \in Activity :
        /\ posted[a] \in Nat
        /\ posted'[a] = IF a \in t.acts THEN posted[a] + 1 ELSE posted[a]
  BY DEF Attempt, Tally, TypeOK
<1>3. t \in Task /\ t.retries \in Nat /\ t.no \in Number /\ t.acts \subseteq Activity
  BY DEF TypeOK, Task, Letter
<1>4. t.retries <= MaxRetries + 1 /\ \A a \in t.acts : posted[a] <= t.retries
  BY <1>1 DEF Ranked, Tray, Rank
<1>5. \A a \in t.acts : Carries(t.no, a) /\ a \in sent /\ ~Waits(a)
  <2>1. \A a \in t.acts : Carries(t.no, a)
    BY DEF Carries
  <2> QED  BY <1>3, <2>1, CarriedOnce
<1>6. \A l \in (tasks \ {t}) \cup Ready \cup InHand : l.acts \cap t.acts = {}
  <2> SUFFICES ASSUME NEW l \in (tasks \ {t}) \cup Ready \cup InHand,
                      NEW a \in l.acts, a \in t.acts
               PROVE  FALSE
    OBVIOUS
  <2>1. l.no # t.no
    BY TaskNumber
  <2>2. l.no \in Number
    BY TrayType DEF Tray, Task, Row, Letter
  <2>3. Carries(l.no, a)
    BY DEF Carries
  <2> QED  BY <1>3, <1>5, <2>1, <2>2, <2>3 DEF OneCopy
<1> DEFINE u == [t EXCEPT !.stage = "failed"]
<1>7. u.acts = t.acts /\ u.retries = t.retries /\ u.stage = "failed"
  BY <1>3 DEF Task, Letter
<1>8. \A l \in Tray' : l = u \/ l \in (tasks \ {t}) \cup Ready \cup InHand
  BY <1>1 DEF Tray, Ready, InHand
<1> HIDE DEF u
<1>9. \A l \in Tray' : /\ l.retries <= MaxRetries + 1
                       /\ \A a \in l.acts : posted'[a] <= Rank(l)
  <2> SUFFICES ASSUME NEW l \in Tray'
               PROVE  /\ l.retries <= MaxRetries + 1
                      /\ \A a \in l.acts : posted'[a] <= Rank(l)
    OBVIOUS
  <2>1. CASE l = u
    BY <1>2, <1>3, <1>4, <1>7, <2>1 DEF Rank
  <2>2. CASE l \in (tasks \ {t}) \cup Ready \cup InHand
    <3>1. l \in Tray /\ l.acts \subseteq Activity
      BY <2>2, TrayType DEF Tray, Task, Row, Letter
    <3> QED  BY <1>2, <1>6, <2>2, <3>1 DEF Ranked
  <2> QED  BY <1>8, <2>1, <2>2
<1>10. \A a \in Activity : Waits(a)' => Waits(a)
  BY <1>1 DEF Waits
<1>11. \A a \in Activity : /\ Waits(a)' => posted'[a] = 0
                           /\ a \notin sent' => posted'[a] = 0
                           /\ posted'[a] <= MaxRetries + 2
  BY <1>1, <1>2, <1>3, <1>4, <1>5, <1>10, SendQueueAssumption DEF Ranked
<1> QED  BY <1>9, <1>11 DEF Ranked

LEMMA WorkRanked ==
  ASSUME TypeOK, Tidy, Ranked, NEW t \in tasks, Work(t) \/ TaskLost(t)
  PROVE  Ranked'
<1> USE DEF Tidy
<1>1. CASE Accepted(t) \/ ToldGone(t) \/ Failed(t)
           \/ \E reason \in {"refused", "unreachable"} : GivenUp(t, reason)
  BY <1>1, AttemptRanked DEF Accepted, ToldGone, Failed, GivenUp
<1>2. CASE Requeue(t)
  <2>1. tasks' = tasks \ {t} /\ rows' = rows /\ drop' = drop /\ batch' = batch
        /\ packed' = packed /\ sent' = sent /\ posted' = posted
        /\ t.stage = "failed" /\ queue' = queue \cup {Queued(t)}
    BY <1>2 DEF Requeue, run, session, net
  <2>2. LET q == Queued(t)
        IN  q.acts = t.acts /\ q.retries = t.retries /\ q.stage = "fresh"
    BY DEF TypeOK, Task, Letter, Queued
  <2>3. t.retries \in Nat
    BY DEF TypeOK, Task, Letter
  <2>4. Rank(t) <= Rank(Queued(t))
    BY <2>1, <2>2, <2>3 DEF Rank
  <2>5. \A l \in Tray' : l \in Tray \/ l = Queued(t)
    BY <2>1 DEF Tray, Ready, InHand
  <2>6. \A l \in Tray : Rank(l) <= Rank(l)
    BY TrayType DEF Task, Row, Letter, Rank
  <2>7. t \in Tray
    BY DEF Tray
  <2>8. \A l \in Tray' : \E k \in Tray :
          l.acts = k.acts /\ l.retries = k.retries /\ Rank(k) <= Rank(l)
    BY <2>2, <2>4, <2>5, <2>6, <2>7
  <2>9. \A a \in Activity : Waits(a)' => Waits(a)
    BY <2>1 DEF Waits
  <2> QED  BY <2>1, <2>8, <2>9, SameRank
<1>3. CASE TaskLost(t)
  <2>1. tasks' = tasks \ {t} /\ queue' = queue /\ rows' = rows /\ drop' = drop
        /\ batch' = batch /\ packed' = packed /\ sent' = sent /\ posted' = posted
    BY <1>3 DEF TaskLost, run, session, net
  <2> QED  BY <2>1, FewerRanked DEF Tray, Ready, InHand, Waits
<1> QED  BY <1>1, <1>2, <1>3 DEF Work

\* The rows of a run; one that is sent again has one more retry than before.
LEMMA RowRanked ==
  ASSUME TypeOK, Tidy, Ranked, NEW c \in Runner, NEW r \in rows[c],
         SendAgain(c, r) \/ Exhausted(c, r) \/ DropGone(c, r) \/ LeaveDormant(c, r)
  PROVE  Ranked'
<1>1. DealWith(c, r) /\ (Handled(c, r) \/ drop' = drop)
  BY DEF SendAgain, Exhausted, DropGone, LeaveDormant
<1>2. /\ r \in Row /\ r \in Tray
      /\ rows'[c] = rows[c] \ {r} /\ \A d \in Runner : d # c => rows'[d] = {}
      /\ \A d \in Runner : d # c => drop'[d] = {} /\ drop[d] = {}
      /\ drop[c] \subseteq drop'[c]
      /\ queue' = queue /\ batch' = batch /\ sent' = sent /\ packed' = packed
  BY <1>1, DealRows DEF Tray, InHand
<1>3. posted' = posted
  BY <1>1 DEF DealWith, net
<1>4. Ready' \subseteq Ready /\ InHand' \subseteq InHand
  BY <1>2 DEF Ready, InHand
<1>5. \A a \in Activity : Waits(a)' => Waits(a)
  BY <1>2 DEF Waits
<1>6. CASE SendAgain(c, r)
  <2> DEFINE l == [no |-> NewNo, to |-> r.to, acts |-> r.acts,
                   retries |-> r.retries + 1, stage |-> "waiting"]
  <2>1. tasks' = tasks \cup {l} /\ r.retries <= MaxRetries
    BY <1>6 DEF SendAgain, NewTask, MayRetry
  <2>2. l.acts = r.acts /\ l.retries = r.retries + 1 /\ l.stage = "waiting"
    OBVIOUS
  <2> HIDE DEF l
  <2>3. r.stage # "waiting" /\ r.retries \in Nat
    BY <1>2 DEF Row, Letter
  <2>4. l.retries <= MaxRetries + 1 /\ \A a \in l.acts : posted'[a] <= Rank(l)
    BY <1>2, <1>3, <2>1, <2>2, <2>3, SendQueueAssumption DEF Ranked, Rank
  <2>5. \A k \in Tray' : k \in Tray \/ k = l
    BY <1>4, <2>1 DEF Tray
  <2> QED  BY <1>2, <1>3, <1>5, <2>4, <2>5 DEF Ranked
<1>7. CASE Exhausted(c, r) \/ DropGone(c, r) \/ LeaveDormant(c, r)
  <2>1. tasks' = tasks
    BY <1>7 DEF Exhausted, DropGone, LeaveDormant
  <2>2. Tray' \subseteq Tray
    BY <1>4, <2>1 DEF Tray
  <2> QED  BY <1>2, <1>3, <1>5, <2>2, FewerRanked
<1> QED  BY <1>6, <1>7

LEMMA RunnerRanked ==
  ASSUME TypeOK, Tidy, Ranked, Spared', NEW c \in Runner,
         Start(c) \/ RunOn(c) \/ RunLost(c)
  PROVE  Ranked'
<1>1. CASE Start(c) \/ ReadBatches(c) \/ Finish(c)
  <2>1. sent' = sent /\ batch' = batch /\ packed' = packed /\ queue' = queue
        /\ tasks' = tasks /\ rows' = rows /\ drop' = drop /\ posted' = posted
    BY <1>1 DEF Start, ReadBatches, Finish, session, net
  <2> QED  BY <2>1, FewerRanked DEF Tray, Ready, InHand, Waits
<1>2. CASE ReadQueue(c)
  <2>1. sent' = sent /\ batch' = batch /\ packed' = packed /\ queue' = queue
        /\ tasks' = tasks /\ drop' = drop /\ posted' = posted
        /\ \A d \in Runner : rows'[d] \subseteq rows[d] \cup queue
    BY <1>2 DEF ReadQueue, net, TypeOK
  <2>2. \A d \in Runner : drop[d] = {}
    BY <1>2, OthersIdle DEF ReadQueue, Tidy, Alone
  <2>3. Ready = queue /\ Ready' = queue
    BY <2>1, <2>2 DEF Ready
  <2>4. Tray' \subseteq Tray
    BY <2>1, <2>3 DEF Tray, InHand
  <2> QED  BY <2>1, <2>4, FewerRanked DEF Waits
<1>3. CASE DeleteHandled(c)
  <2>1. sent' = sent /\ batch' = batch /\ packed' = packed /\ queue' = QueueLeft(c)
        /\ tasks' = tasks /\ rows' = rows /\ posted' = posted
        /\ \A d \in Runner : d # c => drop'[d] = drop[d]
    BY <1>3 DEF DeleteHandled, net, TypeOK
  <2>2. Ready' \subseteq Ready
    BY <2>1 DEF Ready, QueueLeft
  <2> QED  BY <2>1, <2>2, FewerRanked DEF Tray, InHand, Waits
<1>4. ASSUME NEW i \in dests[c], SendBatch(c, i)
      PROVE  Ranked'
  <2> DEFINE acts == {a \in batch : To[a] = i}
  <2> DEFINE l == [no |-> NewNo, to |-> i, acts |-> acts, retries |-> 0,
                   stage |-> "waiting"]
  <2>1. tasks' = tasks \cup {l} /\ sent' = sent /\ batch' = batch /\ queue' = queue
        /\ rows' = rows /\ drop' = drop /\ posted' = posted
        /\ \A d \in Runner : d # c => packed'[d] = packed[d]
    BY <1>4 DEF SendBatch, NewTask, net, TypeOK
  <2>2. l.acts = acts /\ l.retries = 0 /\ l.stage = "waiting" /\ acts \subseteq batch
    OBVIOUS
  <2> HIDE DEF l, acts
  <2>3. \A d \in Runner : packed[d] = {}
    BY <1>4, OthersIdle DEF SendBatch, Tidy, Alone
  <2>4. \A a \in acts : a \in Activity /\ posted[a] = 0
    BY <2>2, <2>3 DEF Waits, Ranked, TypeOK
  <2>5. l.retries <= MaxRetries + 1 /\ \A a \in l.acts : posted'[a] <= Rank(l)
    BY <2>1, <2>2, <2>4, SendQueueAssumption DEF Rank
  <2>6. \A k \in Tray' : k \in Tray \/ k = l
    BY <2>1 DEF Tray, Ready, InHand
  <2>7. \A a \in Activity : Waits(a)' => Waits(a)
    BY <2>1, <2>3 DEF Waits
  <2> QED  BY <2>1, <2>5, <2>6, <2>7 DEF Ranked
<1>5. CASE DeleteBatch(c)
  <2>1. sent' = sent /\ queue' = queue /\ tasks' = tasks /\ rows' = rows
        /\ drop' = drop /\ posted' = posted /\ batch' = batch \ packed[c]
        /\ \A d \in Runner : d # c => packed'[d] = packed[d]
    BY <1>5 DEF DeleteBatch, BatchLeft, net, TypeOK
  <2>2. \A a \in Activity : Waits(a)' => Waits(a)
    BY <2>1 DEF Waits
  <2> QED  BY <2>1, <2>2, FewerRanked DEF Tray, Ready, InHand
<1>6. CASE RunLost(c)
  <2>1. drop[c] = {} /\ packed[c] = {}
    BY <1>6 DEF RunLost, Spared, Tidy, Alone
  <2>2. sent' = sent /\ batch' = batch /\ queue' = queue /\ tasks' = tasks
        /\ posted' = posted /\ drop' = drop /\ packed' = packed
        /\ \A d \in Runner : rows'[d] \subseteq rows[d]
    BY <1>6, <2>1 DEF RunLost, net, TypeOK
  <2>3. Tray' \subseteq Tray
    BY <2>2 DEF Tray, Ready, InHand
  <2> QED  BY <2>2, <2>3, FewerRanked DEF Waits
<1> QED  BY <1>1, <1>2, <1>3, <1>4, <1>5, <1>6, RowRanked DEF RunOn

LEMMA AroundRanked ==
  ASSUME TypeOK, Ranked,
         \/ \E r \in queue : GrowOld(r)
         \/ \E i \in Instance : Forget(i) \/ ChangeHealth(i)
         \/ Cleanup
         \/ Expire
  PROVE  Ranked'
<1>1. sent' = sent /\ batch' = batch /\ packed' = packed /\ tasks' = tasks
      /\ rows' = rows /\ drop' = drop /\ posted' = posted
  BY DEF GrowOld, Forget, ChangeHealth, Cleanup, Expire, run, session, net
<1>2. InHand' = InHand /\ \A a \in Activity : Waits(a)' => Waits(a)
  BY <1>1 DEF InHand, Waits
<1>3. ASSUME NEW r \in queue, GrowOld(r)  PROVE Ranked'
  <2>1. PICK s \in {"due", "old"} :
          queue' = (queue \ {r}) \cup {[r EXCEPT !.stage = s]}
    BY <1>3 DEF GrowOld
  <2> DEFINE q == [r EXCEPT !.stage = s]
  <2>2. q.no = r.no /\ q.acts = r.acts /\ q.retries = r.retries /\ q.stage # "waiting"
    BY DEF TypeOK, Row, Letter
  <2>3. r.stage # "waiting" /\ r.retries \in Nat
    BY DEF TypeOK, Row, Letter
  <2> HIDE DEF q
  <2>4. \A l \in Tray' : l \in Tray \/ (l = q /\ r \in Tray)
    BY <1>1, <1>2, <2>1, <2>2 DEF Tray, Ready, q
  <2>5. Rank(r) <= Rank(q)
    BY <2>2, <2>3 DEF Rank
  <2>6. \A l \in Tray : Rank(l) <= Rank(l)
    BY TrayType DEF Task, Row, Letter, Rank
  <2>7. \A l \in Tray' : \E k \in Tray :
          l.acts = k.acts /\ l.retries = k.retries /\ Rank(k) <= Rank(l)
    BY <2>2, <2>4, <2>5, <2>6
  <2> QED  BY <1>1, <1>2, <2>7, SameRank
<1>4. CASE Cleanup \/ Expire \/ \E i \in Instance : Forget(i) \/ ChangeHealth(i)
  <2>1. queue' \subseteq queue
    BY <1>4 DEF Cleanup, Expire, Forget, ChangeHealth
  <2>2. Tray' \subseteq Tray
    BY <1>1, <1>2, <2>1 DEF Tray, Ready
  <2> QED  BY <1>1, <1>2, <2>2, FewerRanked
<1> QED  BY <1>3, <1>4

-----------------------------------------------------------------------------
LEMMA NextBound == TypeOK /\ OnceInv /\ BoundInv /\ [Next]_vars => BoundInv'
<1> SUFFICES ASSUME TypeOK, Tidy, Ranked, Spared', [Next]_vars  PROVE Ranked'
  BY SoundBefore DEF OnceInv, BoundInv
<1>1. CASE UNCHANGED vars
  BY <1>1 DEF vars, net, run, session, Ranked, Tray, Waits, Ready, InHand
<1>2. CASE Next
  BY <1>2, SendRanked, WorkRanked, RunnerRanked, AroundRanked DEF Next
<1> QED  BY <1>1, <1>2

\* Whatever its instance answers, an activity is posted at most MaxRetries + 2
\* times, unless a run was cut short with its work half done or outlived its
\* lock.
THEOREM BoundedPosts == Spec => []PostsBounded
<1>1. Init => BoundInv
  BY SendQueueAssumption DEF Init, BoundInv, Ranked, Tray, Ready, InHand
<1>2. BoundInv => PostsBounded
  BY DEF BoundInv, Ranked, PostsBounded
<1>3. Spec => []OnceInv
  <2>1. Init => OnceInv
    BY InitTidy DEF OnceInv
  <2> QED  BY <2>1, TypeCorrect, NextOnce, PTL DEF Spec
<1> QED  BY <1>1, <1>2, <1>3, TypeCorrect, NextBound, PTL DEF Spec

-----------------------------------------------------------------------------
(***************************************************************************)
(* SendQueue implements Delivery.  The invariant behind it: an activity    *)
(* that was sent and is neither acknowledged nor given up for a reason is  *)
(* alive, that is, in a task, or in a row that no run is about to delete,  *)
(* or in the batch and not about to be deleted from it.  Unlike OnceInv it *)
(* needs no assumption about mishaps: a crash, an error or a second run at *)
(* the same time may repeat an activity, and loses one only for a reason   *)
(* that is put down.                                                       *)
(***************************************************************************)
\* Activity a is in the batch or in a letter, wherever that is.
Held == tasks \cup queue \cup InHand
Somewhere(a) == a \in batch \/ \E l \in Held : a \in l.acts

Alive(a) == Waits(a) \/ \E l \in tasks \cup Ready : a \in l.acts

\* Only what was sent is anywhere.
Told ==
  \A a \in Activity :
    /\ Somewhere(a) => a \in sent
    /\ received[a] > 0 => a \in sent
    /\ \A c \in Runner : a \in packed[c] => a \in sent

\* A row that was read still stands for the row of the queue it was.
SameRow ==
  \A q \in queue : \A r \in queue \cup InHand : r.no = q.no => r.acts = q.acts

Kept == \A a \in sent : received[a] > 0 \/ why[a] # "none" \/ Alive(a)

PromiseInv == Told /\ SameRow /\ Kept

\* What any step may do, seen from outside.
Moves ==
  /\ sent \subseteq sent'
  /\ \A a \in Activity :
       /\ Somewhere(a)' => Somewhere(a) \/ a \notin sent
       /\ received'[a] > 0 => received[a] > 0 \/ Somewhere(a)
       /\ received[a] > 0 => received'[a] > 0
       /\ why[a] # "none" => why'[a] # "none"
       /\ a \in sent' /\ a \notin sent => Somewhere(a)'

-----------------------------------------------------------------------------
\* A reason that is put down, or was, stays.
LEMMA BlameKept ==
  ASSUME TypeOK, NEW acts, NEW reason \in Reason, reason # "none",
         Blame(acts, reason)
  PROVE  \A a \in Activity :
           /\ why[a] # "none" => why'[a] # "none"
           /\ a \in acts => received[a] > 0 \/ why'[a] # "none"
  BY DEF Blame, TypeOK

\* A step after which nothing is anywhere that was not, and what is no longer
\* alive is acknowledged or blamed, is one of those.
LEMMA Onward ==
  ASSUME Told, Kept, sent' = sent, sent \subseteq Activity,
         \A a \in Activity :
           /\ Somewhere(a)' => Somewhere(a)
           /\ received'[a] > 0 => received[a] > 0 \/ Somewhere(a)
           /\ received[a] > 0 => received'[a] > 0
           /\ why[a] # "none" => why'[a] # "none"
           /\ \A c \in Runner : a \in packed'[c] => a \in packed[c] \/ Somewhere(a)
           /\ Alive(a) => Alive(a)' \/ why'[a] # "none" \/ received'[a] > 0
  PROVE  Moves /\ Told' /\ Kept'
  BY DEF Moves, Told, Kept

\* The same where the letters are only passed on or dropped: nothing is
\* acknowledged, nothing is taken from or put in a batch.
LEMMA PassedOn ==
  ASSUME Told, Kept, sent \subseteq Activity,
         sent' = sent, batch' = batch, packed' = packed, received' = received,
         \A a \in Activity :
           /\ \A l \in Held' : a \in l.acts => \E k \in Held : a \in k.acts
           /\ why[a] # "none" => why'[a] # "none"
           /\ \A l \in tasks \cup Ready : a \in l.acts =>
                \/ \E k \in tasks' \cup Ready' : a \in k.acts
                \/ why'[a] # "none" \/ received[a] > 0
  PROVE  Moves /\ Told' /\ Kept'
<1>1. \A a \in Activity : Somewhere(a)' => Somewhere(a)
  BY DEF Somewhere
<1>2. \A a : Waits(a) => Waits(a)'
  BY DEF Waits
<1>3. \A a \in Activity :
        Alive(a) => Alive(a)' \/ why'[a] # "none" \/ received'[a] > 0
  BY <1>2 DEF Alive
<1> QED  BY <1>1, <1>3, Onward

\* Rows keep standing for their rows where none is new.
LEMMA SameRowKept ==
  ASSUME SameRow, queue' \subseteq queue,
         \A c \in Runner : rows'[c] \subseteq rows[c] \cup queue
  PROVE  SameRow'
<1>1. InHand' \subseteq InHand \cup queue
  BY DEF InHand
<1> QED  BY <1>1 DEF SameRow

-----------------------------------------------------------------------------
LEMMA SendMoves ==
  ASSUME TypeOK, PromiseInv, NEW a \in Activity, Send(a)
  PROVE  Moves /\ PromiseInv'
<1>1. a \notin sent /\ sent' = sent \cup {a} /\ queue' = queue /\ rows' = rows
      /\ drop' = drop /\ packed' = packed /\ received' = received /\ why' = why
  BY DEF Send, run, session, net
<1>2. Ready' = Ready /\ InHand' = InHand
  BY <1>1 DEF Ready, InHand
<1>3. received[a] = 0 /\ a \notin batch /\ \A c \in Runner : a \notin packed[c]
  BY <1>1 DEF PromiseInv, Told, Somewhere, TypeOK
<1>4. SameRow'
  BY <1>1, <1>2 DEF PromiseInv, SameRow
<1>5. /\ batch \subseteq batch' /\ batch' \subseteq batch \cup {a}
      /\ tasks \subseteq tasks'
      /\ \A l \in tasks' : l \in tasks \/ l.acts = {a}
      /\ a \in batch' \/ \E l \in tasks' : a \in l.acts
  <2>1. CASE a \in Batched
    BY <2>1 DEF Send
  <2>2. CASE a \notin Batched
    <3>1. NewTask(To[a], {a}, 0) /\ batch' = batch
      BY <2>2 DEF Send
    <3> QED  BY <3>1, NewTaskLetter
  <2> QED  BY <2>1, <2>2
<1>6. \A b \in Activity : Somewhere(b)' => Somewhere(b) \/ b = a
  BY <1>1, <1>2, <1>5 DEF Somewhere, Held
<1>7. \A b \in Activity : Alive(b) => Alive(b)'
  BY <1>1, <1>2, <1>5 DEF Alive, Waits
<1>8. Somewhere(a)' /\ Alive(a)'
  BY <1>1, <1>3, <1>5 DEF Somewhere, Held, Alive, Waits
<1>9. Told'
  BY <1>1, <1>6 DEF PromiseInv, Told
<1>10. Kept'
  BY <1>1, <1>7, <1>8 DEF PromiseInv, Kept, TypeOK
<1>11. Moves
  BY <1>1, <1>6, <1>8 DEF Moves
<1> QED  BY <1>4, <1>9, <1>10, <1>11 DEF PromiseInv

LEMMA WorkMoves ==
  ASSUME TypeOK, PromiseInv, NEW t \in tasks, Work(t) \/ TaskLost(t)
  PROVE  Moves /\ PromiseInv'
<1> USE DEF PromiseInv
<1>1. sent' = sent /\ batch' = batch /\ packed' = packed /\ rows' = rows
      /\ drop' = drop /\ sent \subseteq Activity
  BY DEF Work, Accepted, GivenUp, ToldGone, Failed, Requeue, Attempt, TaskLost,
         run, session, TypeOK
<1>2. InHand' = InHand
  BY <1>1 DEF InHand
<1>3. CASE Accepted(t)
  <2>1. tasks' = tasks \ {t} /\ queue' = queue /\ why' = why
    BY <1>3 DEF Accepted
  <2>2. Ready' = Ready
    BY <1>1, <2>1 DEF Ready
  <2>3. \A a \in Activity :
          /\ received[a] \in Nat
          /\ received'[a] = IF a \in t.acts THEN received[a] + 1 ELSE received[a]
    BY <1>3 DEF Accepted, Tally, TypeOK
  <2>4. \A a \in Activity :
          /\ Somewhere(a)' => Somewhere(a)
          /\ received'[a] > 0 => received[a] > 0 \/ Somewhere(a)
          /\ received[a] > 0 => received'[a] > 0
          /\ Alive(a) => Alive(a)' \/ received'[a] > 0
    <3>1. \A a \in Activity : Somewhere(a)' => Somewhere(a)
      BY <1>1, <1>2, <2>1 DEF Somewhere, Held
    <3>2. \A a \in Activity : a \in t.acts => Somewhere(a)
      BY DEF Somewhere, Held
    <3>3. \A a \in Activity : Alive(a) => Alive(a)' \/ a \in t.acts
      BY <1>1, <2>1, <2>2 DEF Alive, Waits
    <3> QED  BY <2>3, <3>1, <3>2, <3>3
  <2>5. Moves /\ Told' /\ Kept'
    BY <1>1, <2>1, <2>4, Onward
  <2> QED  BY <1>1, <2>1, <2>5, SameRowKept
<1>4. ASSUME NEW reason \in {"refused", "unreachable", "crash"}, NEW acts,
             Blame(acts, reason), t.acts \subseteq acts,
             tasks' = tasks \ {t}, queue' = queue, received' = received
      PROVE  Moves /\ PromiseInv'
  <2>1. Ready' = Ready
    BY <1>1, <1>4 DEF Ready
  <2>2. \A a \in Activity :
          /\ why[a] # "none" => why'[a] # "none"
          /\ a \in acts => received[a] > 0 \/ why'[a] # "none"
    BY <1>4, BlameKept DEF Reason
  <2>3. Held' \subseteq Held
    BY <1>2, <1>4 DEF Held
  <2>4. \A l \in tasks \cup Ready : l = t \/ l \in tasks' \cup Ready'
    BY <1>4, <2>1
  <2>5. Moves /\ Told' /\ Kept'
    BY <1>1, <1>4, <2>2, <2>3, <2>4, PassedOn
  <2> QED  BY <1>1, <1>4, <2>5, SameRowKept
<1>5. CASE ToldGone(t)
  <2> DEFINE dropped == {r \in queue : r.to = t.to}
  <2>1. /\ tasks' = tasks \ {t} /\ queue' = queue \ dropped
        /\ received' = received /\ Blame(t.acts \cup Load(dropped), "gone")
    BY <1>5 DEF ToldGone
  <2>2. \A a \in Activity :
          /\ why[a] # "none" => why'[a] # "none"
          /\ a \in t.acts \cup Load(dropped) => received[a] > 0 \/ why'[a] # "none"
    BY <2>1, BlameKept DEF Reason
  <2>3. \A l \in dropped : l.acts \subseteq Load(dropped)
    BY DEF Load
  <2> HIDE DEF dropped
  <2>4. Held' \subseteq Held
    BY <1>2, <2>1 DEF Held
  <2>5. \A l \in tasks \cup Ready :
          l = t \/ l \in dropped \/ l \in tasks' \cup Ready'
    BY <1>1, <2>1 DEF Ready
  <2>6. \A a \in Activity : \A l \in tasks \cup Ready : a \in l.acts =>
                \/ \E k \in tasks' \cup Ready' : a \in k.acts
                \/ why'[a] # "none" \/ received[a] > 0
    BY <2>2, <2>3, <2>5
  <2>7. Moves /\ Told' /\ Kept'
    BY <1>1, <2>1, <2>2, <2>4, <2>6, PassedOn
  <2> QED  BY <1>1, <2>1, <2>7, SameRowKept
<1>6. CASE Failed(t)
  <2>1. PICK u : tasks' = (tasks \ {t}) \cup {u} /\ u.no = t.no /\ u.acts = t.acts
    <3>1. LET u == [t EXCEPT !.stage = "failed"]
          IN  u.no = t.no /\ u.acts = t.acts
      BY DEF TypeOK, Task, Letter
    <3> QED  BY <1>6, <3>1 DEF Failed
  <2>2. queue' = queue /\ received' = received /\ why' = why
    BY <1>6 DEF Failed
  <2>3. Ready' = Ready
    BY <1>1, <2>2 DEF Ready
  <2>4. Moves /\ Told' /\ Kept'
    BY <1>1, <1>2, <2>1, <2>2, <2>3, PassedOn DEF Held
  <2> QED  BY <1>1, <2>2, <2>4, SameRowKept
<1>7. CASE Requeue(t)
  <2>1. PICK q : queue' = queue \cup {q} /\ q.no = NewNo /\ q.acts = t.acts
    <3>1. Queued(t).no = NewNo /\ Queued(t).acts = t.acts
      BY DEF TypeOK, Task, Letter, Queued
    <3> QED  BY <1>7, <3>1 DEF Requeue
  <2>2. tasks' = tasks \ {t} /\ received' = received /\ why' = why
    BY <1>7 DEF Requeue, net
  <2>3. /\ \A l \in tasks \cup queue : l.no # NewNo
        /\ \A c \in Runner : NewNo \notin drop[c] /\ \A r \in rows[c] : r.no # NewNo
    BY <1>7, NewNumber, FreeNumber DEF Requeue
  <2>4. Ready' = Ready \cup {q}
    BY <1>1, <2>1, <2>3 DEF Ready
  <2>5. Moves /\ Told' /\ Kept'
    BY <1>1, <1>2, <2>1, <2>2, <2>4, PassedOn DEF Held
  <2>6. SameRow'
    BY <1>2, <2>1, <2>3 DEF SameRow, InHand
  <2> QED  BY <2>5, <2>6
<1>8. CASE TaskLost(t) \/ \E reason \in {"refused", "unreachable"} : GivenUp(t, reason)
  BY <1>4, <1>8 DEF TaskLost, GivenUp, Attempt, net
<1> QED  BY <1>3, <1>5, <1>6, <1>7, <1>8 DEF Work

\* A row is dealt with: a new task carries what it carried, or it is given up
\* for a reason, or it stays in the queue.
LEMMA RowMoves ==
  ASSUME TypeOK, PromiseInv, NEW c \in Runner, NEW r \in rows[c],
         SendAgain(c, r) \/ Exhausted(c, r) \/ DropGone(c, r) \/ LeaveDormant(c, r)
  PROVE  Moves /\ PromiseInv'
<1> USE DEF PromiseInv
<1>1. DealWith(c, r)
  BY DEF SendAgain, Exhausted, DropGone, LeaveDormant
<1>2. /\ sent' = sent /\ batch' = batch /\ packed' = packed /\ queue' = queue
      /\ received' = received /\ sent \subseteq Activity
      /\ \A d \in Runner : rows'[d] \subseteq rows[d]
  BY <1>1 DEF DealWith, net, TypeOK
<1>3. SameRow'
  BY <1>2, SameRowKept
<1>4. r \in InHand /\ InHand' \subseteq InHand
  BY <1>2 DEF InHand
<1>5. ASSUME Handled(c, r)
      PROVE  \A q \in Ready : q \in Ready' \/ q.acts = r.acts
  <2>1. \A d \in Runner : drop'[d] \subseteq drop[d] \cup {r.no}
    BY <1>5 DEF Handled, TypeOK
  <2>2. \A q \in Ready : q \in Ready' \/ q.no = r.no
    BY <1>2, <2>1 DEF Ready
  <2> QED  BY <1>4, <2>2 DEF SameRow, Ready
<1>6. CASE SendAgain(c, r)
  <2>1. PICK l : tasks' = tasks \cup {l} /\ l.acts = r.acts
    BY <1>6, NewTaskLetter DEF SendAgain
  <2>2. Handled(c, r) /\ why' = why
    BY <1>6 DEF SendAgain
  <2>3. \A a \in Activity : \A k \in Held' : a \in k.acts => \E h \in Held : a \in h.acts
    BY <1>2, <1>4, <2>1 DEF Held
  <2>4. \A a \in Activity : \A k \in tasks \cup Ready :
          a \in k.acts => \E h \in tasks' \cup Ready' : a \in h.acts
    BY <1>5, <2>1, <2>2
  <2>5. Moves /\ Told' /\ Kept'
    BY <1>2, <2>2, <2>3, <2>4, PassedOn
  <2> QED  BY <1>3, <2>5
<1>7. CASE Exhausted(c, r) \/ DropGone(c, r)
  <2>1. tasks' = tasks /\ Handled(c, r)
    BY <1>7 DEF Exhausted, DropGone
  <2>2. \A a \in Activity :
          /\ why[a] # "none" => why'[a] # "none"
          /\ a \in r.acts => received[a] > 0 \/ why'[a] # "none"
    BY <1>7, BlameKept DEF Exhausted, DropGone, Reason
  <2>3. Held' \subseteq Held
    BY <1>2, <1>4, <2>1 DEF Held
  <2>4. \A a \in Activity : \A k \in tasks \cup Ready : a \in k.acts =>
                \/ \E h \in tasks' \cup Ready' : a \in h.acts
                \/ why'[a] # "none" \/ received[a] > 0
    BY <1>5, <2>1, <2>2
  <2>5. Moves /\ Told' /\ Kept'
    BY <1>2, <2>2, <2>3, <2>4, PassedOn
  <2> QED  BY <1>3, <2>5
<1>8. CASE LeaveDormant(c, r)
  <2>1. tasks' = tasks /\ why' = why /\ drop' = drop
    BY <1>8 DEF LeaveDormant
  <2>2. Held' \subseteq Held /\ Ready' = Ready
    BY <1>2, <1>4, <2>1 DEF Held, Ready
  <2>3. Moves /\ Told' /\ Kept'
    BY <1>2, <2>1, <2>2, PassedOn
  <2> QED  BY <1>3, <2>3
<1> QED  BY <1>6, <1>7, <1>8

LEMMA RunnerMoves ==
  ASSUME TypeOK, PromiseInv, NEW c \in Runner, Start(c) \/ RunOn(c) \/ RunLost(c)
  PROVE  Moves /\ PromiseInv'
<1> USE DEF PromiseInv
<1>1. sent \subseteq Activity /\ batch \subseteq Activity
  BY DEF TypeOK
<1>2. CASE Start(c) \/ ReadBatches(c) \/ Finish(c)
  <2>1. sent' = sent /\ batch' = batch /\ packed' = packed /\ queue' = queue
        /\ tasks' = tasks /\ rows' = rows /\ drop' = drop /\ why' = why
        /\ received' = received
    BY <1>2 DEF Start, ReadBatches, Finish, session, net
  <2>2. Held' = Held /\ Ready' = Ready
    BY <2>1 DEF Held, Ready, InHand
  <2>3. Moves /\ Told' /\ Kept'
    BY <1>1, <2>1, <2>2, PassedOn
  <2> QED  BY <2>1, <2>3, SameRowKept
<1>3. CASE ReadQueue(c)
  <2>1. sent' = sent /\ batch' = batch /\ packed' = packed /\ queue' = queue
        /\ tasks' = tasks /\ drop' = drop /\ why' = why /\ received' = received
        /\ \A d \in Runner : rows'[d] \subseteq rows[d] \cup queue
    BY <1>3 DEF ReadQueue, net, TypeOK
  <2>2. Held' \subseteq Held /\ Ready' = Ready
    BY <2>1 DEF Held, Ready, InHand
  <2>3. Moves /\ Told' /\ Kept'
    BY <1>1, <2>1, <2>2, PassedOn
  <2> QED  BY <2>1, <2>3, SameRowKept
<1>4. CASE DeleteHandled(c)
  <2>1. sent' = sent /\ batch' = batch /\ packed' = packed /\ queue' = QueueLeft(c)
        /\ tasks' = tasks /\ rows' = rows /\ why' = why /\ received' = received
        /\ \A d \in Runner : drop'[d] \subseteq drop[d]
    BY <1>4 DEF DeleteHandled, net, TypeOK
  <2>2. Held' \subseteq Held /\ Ready \subseteq Ready'
    BY <2>1 DEF Held, Ready, InHand, QueueLeft
  <2>3. Moves /\ Told' /\ Kept'
    BY <1>1, <2>1, <2>2, PassedOn
  <2> QED  BY <2>1, <2>3, SameRowKept DEF QueueLeft
<1>5. ASSUME NEW i \in dests[c], SendBatch(c, i)
      PROVE  Moves /\ PromiseInv'
  <2> DEFINE acts == {a \in batch : To[a] = i}
  <2>1. NewTask(i, acts, 0) /\ sent' = sent /\ batch' = batch /\ queue' = queue
        /\ rows' = rows /\ drop' = drop /\ why' = why /\ received' = received
        /\ \A d \in Runner : packed'[d] \subseteq packed[d] \cup acts
    BY <1>5 DEF SendBatch, net, TypeOK
  <2>2. acts \subseteq batch
    OBVIOUS
  <2> HIDE DEF acts
  <2>3. PICK l : tasks' = tasks \cup {l} /\ l.acts = acts
    BY <2>1, NewTaskLetter
  <2>4. Ready' = Ready /\ InHand' = InHand
    BY <2>1 DEF Ready, InHand
  <2>5. \A a \in Activity : Somewhere(a)' => Somewhere(a)
    BY <2>1, <2>2, <2>3, <2>4 DEF Somewhere, Held
  <2>6. \A a \in Activity : Alive(a) => Alive(a)'
    BY <2>1, <2>3, <2>4 DEF Alive, Waits
  <2>7. \A a \in Activity, d \in Runner :
          a \in packed'[d] => a \in packed[d] \/ Somewhere(a)
    BY <2>1, <2>2 DEF Somewhere
  <2>8. Moves /\ Told' /\ Kept'
    BY <1>1, <2>1, <2>5, <2>6, <2>7, Onward
  <2> QED  BY <2>1, <2>8, SameRowKept
<1>6. CASE DeleteBatch(c)
  <2>1. sent' = sent /\ queue' = queue /\ tasks' = tasks /\ rows' = rows
        /\ drop' = drop /\ why' = why /\ received' = received
        /\ batch' = batch \ packed[c]
        /\ \A d \in Runner : packed'[d] \subseteq packed[d]
    BY <1>6 DEF DeleteBatch, BatchLeft, net, TypeOK
  <2>2. Held' = Held /\ Ready' = Ready
    BY <2>1 DEF Held, Ready, InHand
  <2>3. \A a \in Activity : Somewhere(a)' => Somewhere(a)
    BY <2>1, <2>2 DEF Somewhere
  <2>4. \A a \in Activity : Alive(a) => Alive(a)'
    BY <2>1, <2>2 DEF Alive, Waits
  <2>5. Moves /\ Told' /\ Kept'
    BY <1>1, <2>1, <2>3, <2>4, Onward
  <2> QED  BY <2>1, <2>5, SameRowKept
<1>7. CASE RunLost(c)
  <2>1. sent' = sent /\ batch' = batch /\ queue' = queue /\ tasks' = tasks
        /\ why' = why /\ received' = received
        /\ \A d \in Runner : /\ packed'[d] \subseteq packed[d]
                             /\ rows'[d] \subseteq rows[d]
                             /\ drop'[d] \subseteq drop[d]
    BY <1>7 DEF RunLost, net, TypeOK
  <2>2. Held' \subseteq Held /\ Ready \subseteq Ready'
    BY <2>1 DEF Held, Ready, InHand
  <2>3. \A a \in Activity : Somewhere(a)' => Somewhere(a)
    BY <2>1, <2>2 DEF Somewhere
  <2>4. \A a \in Activity : Alive(a) => Alive(a)'
    BY <2>1, <2>2 DEF Alive, Waits
  <2>5. Moves /\ Told' /\ Kept'
    BY <1>1, <2>1, <2>3, <2>4, Onward
  <2> QED  BY <2>1, <2>5, SameRowKept
<1> QED  BY <1>2, <1>3, <1>4, <1>5, <1>6, <1>7, RowMoves DEF RunOn

LEMMA AroundMoves ==
  ASSUME TypeOK, PromiseInv,
         \/ \E r \in queue : GrowOld(r)
         \/ \E i \in Instance : Forget(i) \/ ChangeHealth(i)
         \/ Cleanup
         \/ Expire
  PROVE  Moves /\ PromiseInv'
<1> USE DEF PromiseInv
<1>1. sent' = sent /\ batch' = batch /\ packed' = packed /\ tasks' = tasks
      /\ rows' = rows /\ drop' = drop /\ received' = received
      /\ sent \subseteq Activity
  BY DEF GrowOld, Forget, ChangeHealth, Cleanup, Expire, run, session, net, TypeOK
<1>2. InHand' = InHand
  BY <1>1 DEF InHand
<1>3. ASSUME NEW r \in queue, GrowOld(r)  PROVE Moves /\ PromiseInv'
  <2>1. PICK q : queue' = (queue \ {r}) \cup {q} /\ q.no = r.no /\ q.acts = r.acts
    <3>1. \A s : LET q == [r EXCEPT !.stage = s] IN q.no = r.no /\ q.acts = r.acts
      BY DEF TypeOK, Row, Letter
    <3> QED  BY <1>3, <3>1 DEF GrowOld
  <2>2. why' = why
    BY <1>3 DEF GrowOld
  <2>3. \A k \in Held' : k \in Held \/ k.acts = r.acts
    BY <1>1, <1>2, <2>1 DEF Held
  <2>4. r \in Held
    BY DEF Held
  <2>5. \A k \in Ready : \E h \in Ready' : h.acts = k.acts
    BY <1>1, <2>1 DEF Ready
  <2>6. Moves /\ Told' /\ Kept'
    BY <1>1, <2>2, <2>3, <2>4, <2>5, PassedOn
  <2>7. SameRow'
    BY <1>2, <2>1 DEF SameRow
  <2> QED  BY <2>6, <2>7
<1>4. CASE Cleanup
  <2>1. queue' = queue \ Old /\ Blame(Load(Old), "aged")
    BY <1>4 DEF Cleanup
  <2>2. \A a \in Activity :
          /\ why[a] # "none" => why'[a] # "none"
          /\ a \in Load(Old) => received[a] > 0 \/ why'[a] # "none"
    BY <2>1, BlameKept DEF Reason
  <2>3. \A l \in Old : l.acts \subseteq Load(Old)
    BY DEF Load
  <2>4. Held' \subseteq Held
    BY <1>1, <1>2, <2>1 DEF Held
  <2>5. \A l \in Ready : l \in Old \/ l \in Ready'
    BY <1>1, <2>1 DEF Ready
  <2>6. \A a \in Activity : \A l \in tasks \cup Ready : a \in l.acts =>
                \/ \E k \in tasks' \cup Ready' : a \in k.acts
                \/ why'[a] # "none" \/ received[a] > 0
    BY <1>1, <2>2, <2>3, <2>5
  <2>7. Moves /\ Told' /\ Kept'
    BY <1>1, <2>2, <2>4, <2>6, PassedOn
  <2> QED  BY <1>1, <2>1, <2>7, SameRowKept
<1>5. CASE Expire \/ \E i \in Instance : Forget(i) \/ ChangeHealth(i)
  <2>1. queue' = queue /\ why' = why
    BY <1>5 DEF Expire, Forget, ChangeHealth
  <2>2. Held' = Held /\ Ready' = Ready
    BY <1>1, <1>2, <2>1 DEF Held, Ready
  <2>3. Moves /\ Told' /\ Kept'
    BY <1>1, <2>1, <2>2, PassedOn
  <2> QED  BY <1>1, <2>1, <2>3, SameRowKept
<1> QED  BY <1>3, <1>4, <1>5

-----------------------------------------------------------------------------
LEMMA InitPromise == Init => PromiseInv
  BY DEF Init, PromiseInv, Told, SameRow, Kept, Somewhere, Held, InHand

LEMMA NextMoves ==
  ASSUME TypeOK, PromiseInv, Next
  PROVE  Moves /\ PromiseInv'
  BY SendMoves, WorkMoves, RunnerMoves, AroundMoves DEF Next

LEMMA NextPromise == TypeOK /\ PromiseInv /\ [Next]_vars => PromiseInv'
<1> SUFFICES ASSUME TypeOK, PromiseInv, UNCHANGED vars  PROVE PromiseInv'
  BY NextMoves
<1> QED  BY DEF vars, net, run, session, PromiseInv, Told, SameRow, Kept,
                Somewhere, Held, InHand, Ready, Alive, Waits

\* What a step does to the fate of one activity.
LEMMA FateMoves ==
  ASSUME TypeOK, TypeOK', PromiseInv, PromiseInv', Moves, NEW a \in Activity
  PROVE  \/ FateOf(a) = "unsent" /\ FateOf(a)' = "underway"
         \/ FateOf(a) = "underway" /\ FateOf(a)' = "received"
         \/ /\ FateOf(a) = "underway" /\ FateOf(a)' = "abandoned"
            /\ why'[a] # "none"
         \/ FateOf(a)' = FateOf(a)
<1>1. /\ Somewhere(a)' => Somewhere(a) \/ a \notin sent
      /\ received'[a] > 0 => received[a] > 0 \/ Somewhere(a)
      /\ received[a] > 0 => received'[a] > 0
      /\ a \in sent => a \in sent'
      /\ a \in sent' /\ a \notin sent => Somewhere(a)'
  BY DEF Moves
<1>2. /\ Somewhere(a) => a \in sent
      /\ received[a] > 0 => a \in sent
  BY DEF PromiseInv, Told
<1>3. a \in sent' => received'[a] > 0 \/ why'[a] # "none" \/ Somewhere(a)'
  <2>1. Alive(a)' => Somewhere(a)'
    BY DEF Alive, Waits, Somewhere, Held, Ready
  <2> QED  BY <2>1 DEF PromiseInv, Kept
<1>4. /\ FateOf(a) = IF a \notin sent THEN "unsent"
                     ELSE IF received[a] > 0 THEN "received"
                     ELSE IF Somewhere(a) THEN "underway" ELSE "abandoned"
      /\ FateOf(a)' = IF a \notin sent' THEN "unsent"
                      ELSE IF received'[a] > 0 THEN "received"
                      ELSE IF Somewhere(a)' THEN "underway" ELSE "abandoned"
  <2> USE DEF Underway, Somewhere, Held, InHand, Load
  <2>1. Underway(a) <=> Somewhere(a)
    OBVIOUS
  <2>2. Underway(a)' <=> Somewhere(a)'
    OBVIOUS
  <2> HIDE DEF Underway, Somewhere, Held, InHand, Load
  <2> QED  BY <2>1, <2>2 DEF FateOf
<1> QED  BY <1>1, <1>2, <1>3, <1>4

\* The queue implements Delivery: whatever crashes, errors, second runs and
\* changes of health come between its commits, no activity disappears without
\* a reason, and none that is acknowledged or given up comes back.
THEOREM PromiseKept == Spec => KeepsPromise
<1>1. Init => Promise!Init
  BY DEF Init, Promise!Init, FateOf
<1>2. TypeOK /\ TypeOK' /\ PromiseInv /\ PromiseInv' /\ [Next]_vars
        => [Promise!Next]_(Promise!vars)
  <2> SUFFICES ASSUME TypeOK, TypeOK', PromiseInv, PromiseInv', [Next]_vars
               PROVE  [Promise!Next]_(Promise!vars)
    OBVIOUS
  <2>1. CASE Next
    <3>1. Moves
      BY <2>1, NextMoves
    <3>2. \A a \in Activity : FateOf(a)' \in Promise!Fate
      BY DEF FateOf, Promise!Fate
    <3>3. why' \in [Activity -> Reason]
      BY DEF TypeOK
    <3>4. \A a \in Activity : why[a] # "none" => why'[a] # "none"
      BY <3>1 DEF Moves
    <3>5. \A a \in Activity :
            \/ FateOf(a) = "unsent" /\ FateOf(a)' = "underway"
            \/ FateOf(a) = "underway" /\ FateOf(a)' = "received"
            \/ /\ FateOf(a) = "underway" /\ FateOf(a)' = "abandoned"
               /\ why'[a] # "none"
            \/ FateOf(a)' = FateOf(a)
      BY <3>1, FateMoves
    <3>6. Promise!Next
      BY <3>2, <3>3, <3>4, <3>5
      DEF Promise!Next, Promise!Submit, Promise!Receive, Promise!Abandon,
          Promise!Keep
    <3> QED  BY <3>6
  <2>2. CASE UNCHANGED vars
    <3>1. \A a : FateOf(a)' = FateOf(a)
      BY <2>2 DEF vars, net, run, session, FateOf, Underway, Load
    <3> QED  BY <2>2, <3>1 DEF vars, Promise!vars
  <2> QED  BY <2>1, <2>2
<1>3. Spec => []PromiseInv
  BY InitPromise, NextPromise, TypeCorrect, PTL DEF Spec
<1> QED  BY <1>1, <1>2, <1>3, TypeCorrect, PTL DEF Spec, KeepsPromise, Promise!Spec

-----------------------------------------------------------------------------
(***************************************************************************)
(* Content: its types, that the counters agree with the rows, and that     *)
(* only a restoration brings a row back.  The debts of the workers, what   *)
(* each has written of its rows and not yet counted, make up the           *)
(* difference between a counter and the rows.                              *)
(***************************************************************************)
Restoring == {"restore_post", "restore_reply", "restore_any_reply"}
Down == {"delete_post", "inbox_delete_post", "delete_reply", "mod_remove_reply",
         "inbox_delete_reply"}
Banning == {"site_ban", "community_ban"}
\* The counters that a post or comment is counted in.
Own(o) ==
  IF o \in Post THEN {Posts, Mine(o)} ELSE {Comments, Mine(o)} \cup OnPost(o) \cup Parents(o)
Net(j) == IF j.kind \in Down THEN -1 ELSE 1
Goal(j) == IF j.kind \in Down THEN "deleted" ELSE "live"
Adds(t, c) == t.orm[c] + t.sql[c]
Touched(t, c) == t.orm[c] # 0 \/ t.sql[c] # 0

\* A program writes its row first; it counts it once, in one of its transactions.
Shape(p, j, S) ==
  /\ p \in Seq(Transaction) /\ p # <<>>
  /\ p[1].rows = {j.of} /\ p[1].to = Goal(j)
  /\ \A i \in DOMAIN p : p[i].sets = {} /\ (i > 1 => p[i].rows = {})
  /\ \A c \in S : \E k \in DOMAIN p :
       /\ \A i \in DOMAIN p : Touched(p[i], c) => i = k /\ c \in Own(j.of)
       /\ c \in Own(j.of) => Adds(p[k], c) = Net(j)
OnObjects(j) == j.kind \in OfPost \cup OfReply
ProgramsRight ==
  \A j \in Job : /\ OnObjects(j) => Shape(Program(j), j, Counter \ Uneven(j))
                 /\ ~OnObjects(j) => Len(Program(j)) = IF j.kind \in Banning THEN 2 ELSE 1

\* What is left of a program is its end; what was read is for its next transaction.
Tails ==
  \A w \in Worker : ~Idle(w) =>
    LET p == Program(job[w])
        d == Len(p) - Len(left[w])
    IN /\ d \in Nat
       /\ \A i \in DOMAIN left[w] : left[w][i] = p[d + i]
Same(t, s) ==
  t.rows = s.rows /\ t.to = s.to /\ t.orm = s.orm /\ t.sql = s.sql /\ t.sets = s.sets
    /\ t.value = s.value
Replies(kind, u, objs) ==
  Removal(objs, IF kind = "site_ban" THEN Counter \ {CommentsBy(u)} ELSE Counter)
PostsGone(kind, u, objs) ==
  IF kind = "site_ban" THEN [Removal(objs, {Posts}) EXCEPT !.sets = {PostsBy(u)}]
  ELSE Removal(objs, Counter)
ReadRight(w) ==
  LET j == job[w]
      t == tx[w]
  IN
  /\ OnObjects(j) => Same(t, Head(left[w]))
  /\ j.kind \in Banning /\ Len(left[w]) = 2 =>
       t.rows \subseteq By(j.of, Reply) /\ Same(t, Replies(j.kind, j.of, t.rows))
  /\ j.kind \in Banning /\ Len(left[w]) = 1 =>
       t.rows \subseteq By(j.of, Post) /\ Same(t, PostsGone(j.kind, j.of, t.rows))
  /\ j.kind = "purge_content" =>
       t.rows \subseteq By(j.of, Object) /\ Same(t, Tx(t.rows, "deleted", Zero, Zero))
  /\ j.kind = "stats" =>
       Same(t, [Nothing EXCEPT !.sets = OfCommunity, !.value = t.value])
AllRead == \A w \in Worker : tx[w].read => ReadRight(w)

FreshFor(w, c) ==
  /\ tx[w].copy[c] = count[c]
  /\ job[w].kind = "stats" => tx[w].value[c] = Actual(c)
  /\ job[w].kind = "site_ban" => tx[w].rows = Live(By(job[w].of, Post))
FreshRight == \A w \in fresh : tx[w].read => \A c \in tx[w].sets : FreshFor(w, c)
Homes ==
  \A w \in Worker :
    /\ job[w].kind = "make_post" => AuthorOf[job[w].of] \in Local
    /\ job[w].kind = "site_ban" => job[w].of \notin Local
NoneToReset ==
  \A w \in Worker : job[w].kind = "site_ban" /\ tx[w].read =>
    \A c \in tx[w].sets \ tainted : tx[w].copy[c] = 0 => tx[w].rows = {}
UnevenTainted == \A w \in Worker : HalfWay(w) => Uneven(job[w]) \subseteq tainted

InDebt(c, d) == {w \in Worker : HalfWay(w) /\ \E i \in DOMAIN left[w] : Adds(left[w][i], c) = d}
Balanced ==
  \A c \in Counter \ tainted :
    count[c] + Cardinality(InDebt(c, 1)) - Cardinality(InDebt(c, -1)) = Actual(c)
Busy == {w \in Worker : ~Idle(w)}
Inv ==
  /\ ContentTypeOK /\ IsFiniteSet(Busy) /\ Tails /\ AllRead /\ FreshRight /\ Homes
  /\ NoneToReset /\ UnevenTainted /\ Balanced

-----------------------------------------------------------------------------
(***************************************************************************)
(* Counters and programs.                                                  *)
(***************************************************************************)
Entry(objs, to, S, T, d) == Tx(objs, to, Shift(S, d), Shift(T, d))

LEMMA Shifts ==
  /\ \A S, d : Shift(S, d) = [c \in Counter |-> IF c \in S THEN d ELSE 0]
  /\ \A S, d : d \in Int => Shift(S, d) \in Delta
  /\ \A d : Zero = Shift({}, d)
  BY DEF Shift, Zero, Delta

Apart(S, T) == S \cap T = {}
Fit(objs, to) == objs \subseteq Object /\ to \in {"live", "deleted"}
\* t adds d to the counters of U and touches no other.
CountsOnly(t, d, U) ==
  /\ t \in Transaction /\ t.sets = {}
  /\ \A c \in Counter : (Touched(t, c) => c \in U) /\ (c \in U => Adds(t, c) = d)

Joint(t, d, S, T) == CountsOnly(t, d, S \cup T)
LEMMA EntryRight ==
  ASSUME NEW objs, NEW to, Fit(objs, to), NEW S, NEW T,
         NEW d, d \in {1, -1}, Apart(S, T), NEW t, t = Entry(objs, to, S, T, d)
  PROVE  Joint(t, d, S, T) /\ t.rows = objs /\ t.to = to
<1>1. Shift(S, d) \in Delta /\ Shift(T, d) \in Delta /\ Zero \in Delta
  BY Shifts
<1>2. /\ t.rows = objs /\ t.to = to /\ t.sets = {}
      /\ t.orm = Shift(S, d) /\ t.sql = Shift(T, d)
  BY DEF Entry, Tx
<1>3. t \in Transaction
  BY <1>1 DEF Entry, Tx, Transaction, Fit
<1>4. ASSUME NEW c \in Counter
      PROVE  /\ Touched(t, c) => c \in S \cup T
             /\ c \in S \cup T => Adds(t, c) = d
  <2>1. /\ t.orm[c] = IF c \in S THEN d ELSE 0
        /\ t.sql[c] = IF c \in T THEN d ELSE 0
    BY <1>2, Shifts
  <2> QED  BY <2>1 DEF Touched, Adds, Apart
<1> QED  BY <1>2, <1>3, <1>4 DEF CountsOnly, Joint

LEMMA Tags ==
  ASSUME NEW o \in Object
  PROVE  /\ Posts \in Counter /\ Comments \in Counter /\ Mine(o) \in Counter
         /\ o \in Reply => OnPost(o) \subseteq Counter /\ Parents(o) \subseteq Counter
         /\ Posts # Comments /\ Mine(o) \notin {Posts, Comments}
         /\ Posts \notin Parents(o) /\ Comments \notin Parents(o) /\ Mine(o) \notin Parents(o)
         /\ Posts \notin OnPost(o) /\ Comments \notin OnPost(o) /\ Mine(o) \notin OnPost(o)
         /\ OnPost(o) \cap Parents(o) = {}
<1>1. AuthorOf[o] \in User /\ (o \in Reply => PostOf[o] \in Post /\ Above[o] \subseteq Reply)
  BY ContentAssumption DEF Object
<1>2. Posts \in Counter /\ Comments \in Counter /\ Mine(o) \in Counter
  BY <1>1 DEF Counter, OfCommunity, Mine
<1>3. o \in Reply => OnPost(o) \subseteq Counter /\ Parents(o) \subseteq Counter
  BY <1>1 DEF OnPost, Parents, Counter
<1>4. Posts # Comments /\ Mine(o) \notin {Posts, Comments}
  BY DEF Posts, Comments, Mine, PostsBy, CommentsBy
<1>5. Posts \notin Parents(o) /\ Comments \notin Parents(o) /\ Mine(o) \notin Parents(o)
  BY DEF Posts, Comments, Mine, PostsBy, CommentsBy, Parents, Below
<1>6. Posts \notin OnPost(o) /\ Comments \notin OnPost(o) /\ Mine(o) \notin OnPost(o)
  BY DEF Posts, Comments, Mine, PostsBy, CommentsBy, OnPost, RepliesTo
<1>7. OnPost(o) \cap Parents(o) = {}
  BY DEF OnPost, RepliesTo, Parents, Below
<1> QED  BY <1>2, <1>3, <1>4, <1>5, <1>6, <1>7

LEMMA ShapeRight ==
  ASSUME NEW j, NEW S \in SUBSET Counter, NEW p, p # <<>>, NEW n \in Nat, DOMAIN p = 1 .. n,
         p \in Seq(Transaction),
         p[1].rows = {j.of}, p[1].to = Goal(j),
         \A i \in DOMAIN p : i > 1 => p[i].rows = {},
         NEW U, \A i \in DOMAIN p : CountsOnly(p[i], Net(j), U[i]),
         \A c \in S, i, k \in DOMAIN p : c \in U[i] /\ c \in U[k] => i = k,
         \A c \in S : c \in Own(j.of) <=> \E i \in DOMAIN p : c \in U[i]
  PROVE  Shape(p, j, S)
<1>1. ASSUME NEW c \in S
      PROVE  \E k \in DOMAIN p :
               /\ \A i \in DOMAIN p : Touched(p[i], c) => i = k /\ c \in Own(j.of)
               /\ c \in Own(j.of) => Adds(p[k], c) = Net(j)
  <2>1. CASE c \in Own(j.of)
    <3>1. PICK k \in DOMAIN p : c \in U[k]
      BY <2>1
    <3> QED  BY <2>1, <3>1 DEF CountsOnly
  <2>2. CASE c \notin Own(j.of)
    <3>1. 1 \in DOMAIN p
      BY EmptySeq
    <3>2. \A i \in DOMAIN p : ~Touched(p[i], c)
      BY <2>2 DEF CountsOnly
    <3> QED  BY <2>2, <3>1, <3>2
  <2> QED  BY <2>1, <2>2
<1>2. \A i \in DOMAIN p : p[i].sets = {}
  BY DEF CountsOnly
<1> QED  BY <1>1, <1>2 DEF Shape

Even(j) == Counter \ Uneven(j)

LEMMA Jobs ==
  ASSUME NEW j \in Job, OnObjects(j)
  PROVE  /\ j.of \in Object /\ Goal(j) \in {"live", "deleted"} /\ Net(j) \in {1, -1}
         /\ j.kind \in OfPost => j.of \in Post
         /\ j.kind \in OfReply => j.of \in Reply /\ j.of \notin Post
  BY ContentAssumption DEF Job, OnObjects, OfPost, OfReply, OfUser, Object, Goal, Net

\* Programs of one, three and four transactions.
First(e, j, S, T) == Apart(S, T) /\ e = Entry({j.of}, Goal(j), S, T, Net(j))
LEMMA FirstRight ==
  ASSUME NEW j \in Job, OnObjects(j), NEW S, NEW T, NEW e, First(e, j, S, T)
  PROVE  CountsOnly(e, Net(j), S \cup T) /\ e.rows = {j.of} /\ e.to = Goal(j)
<1>1. Fit({j.of}, Goal(j)) /\ Net(j) \in {1, -1}
  BY Jobs DEF Fit
<1>2. Apart(S, T) /\ e = Entry({j.of}, Goal(j), S, T, Net(j))
  BY DEF First
<1>3. Joint(e, Net(j), S, T) /\ e.rows = {j.of} /\ e.to = Goal(j)
  BY <1>1, <1>2, EntryRight
<1> QED  BY <1>3 DEF Joint

Follows(e, j, S, T) == Apart(S, T) /\ e = Entry({}, "live", S, T, Net(j))
LEMMA FollowsRight ==
  ASSUME NEW j \in Job, OnObjects(j), NEW S, NEW T, NEW e, Follows(e, j, S, T)
  PROVE  CountsOnly(e, Net(j), S \cup T) /\ e.rows = {}
<1>1. Fit({}, "live") /\ Net(j) \in {1, -1}
  BY Jobs DEF Fit
<1>2. Apart(S, T) /\ e = Entry({}, "live", S, T, Net(j))
  BY DEF Follows
<1>3. Joint(e, Net(j), S, T) /\ e.rows = {}
  BY <1>1, <1>2, EntryRight
<1> QED  BY <1>3 DEF Joint

Parts1(j, S1, T1) == \A c \in Even(j) : c \in Own(j.of) <=> c \in S1 \cup T1
LEMMA Shape1 ==
  ASSUME NEW j \in Job, OnObjects(j), NEW S1, NEW T1, Parts1(j, S1, T1),
         NEW e, First(e, j, S1, T1)
  PROVE  Shape(<<e>>, j, Even(j))
<1> DEFINE p == <<e>>
           U == <<S1 \cup T1>>
<1>1. CountsOnly(e, Net(j), S1 \cup T1)
  <2>1. CountsOnly(e, Net(j), S1 \cup T1)
    BY FirstRight
  <2> QED  BY <2>1
<1>2. e.rows = {j.of} /\ e.to = Goal(j)
  <2>1. e.rows = {j.of} /\ e.to = Goal(j)
    BY FirstRight
  <2> QED  BY <2>1
<1>3. e \in Transaction
  BY <1>1 DEF CountsOnly
<1>4. p \in Seq(Transaction) /\ p # <<>> /\ DOMAIN p = 1 .. 1
  BY <1>3
<1>5. p[1] = e /\ U[1] = S1 \cup T1
  OBVIOUS
<1> HIDE DEF p, U
<1>6. ASSUME NEW i \in DOMAIN p
      PROVE  CountsOnly(p[i], Net(j), U[i]) /\ (i > 1 => p[i].rows = {})
  <2>1. i = 1
    BY <1>4
  <2>2. i > 1 => p[i].rows = {}
    BY <1>2, <1>5, <2>1
  <2>3. CountsOnly(p[i], Net(j), U[i])
    BY <1>1, <1>5, <2>1
  <2> QED  BY <2>2, <2>3
<1>7. \A c \in Even(j), i, k \in DOMAIN p : c \in U[i] /\ c \in U[k] => i = k
  BY <1>4, <1>5 DEF Parts1
<1>8. \A c \in Even(j) : c \in Own(j.of) <=> \E i \in DOMAIN p : c \in U[i]
  BY <1>4, <1>5 DEF Parts1
<1>9. p[1].rows = {j.of} /\ p[1].to = Goal(j) /\ Even(j) \subseteq Counter
  BY <1>2, <1>5 DEF Even
<1>10. Shape(p, j, Even(j))
  BY <1>4, <1>6, <1>7, <1>8, <1>9, ShapeRight
<1> QED  BY <1>10 DEF p

Parts2(j, S1, T1, S2, T2) ==
  \A c \in Even(j) :
    /\ c \notin (S1 \cup T1) \cap (S2 \cup T2)
    /\ c \in Own(j.of) <=> c \in S1 \cup T1 \/ c \in S2 \cup T2
LEMMA Shape2 ==
  ASSUME NEW j \in Job, OnObjects(j), NEW S1, NEW T1, NEW S2, NEW T2, Parts2(j, S1, T1, S2, T2),
         NEW e, NEW f, First(e, j, S1, T1), Follows(f, j, S2, T2)
  PROVE  Shape(<<e, f>>, j, Even(j))
<1> DEFINE p == <<e, f>>
           U == <<S1 \cup T1, S2 \cup T2>>
<1>1. CountsOnly(e, Net(j), S1 \cup T1) /\ CountsOnly(f, Net(j), S2 \cup T2)
  <2>1. CountsOnly(e, Net(j), S1 \cup T1)
    BY FirstRight
  <2>2. CountsOnly(f, Net(j), S2 \cup T2)
    BY FollowsRight
  <2> QED  BY <2>1, <2>2
<1>2. e.rows = {j.of} /\ e.to = Goal(j) /\ f.rows = {}
  <2>1. e.rows = {j.of} /\ e.to = Goal(j)
    BY FirstRight
  <2>2. f.rows = {}
    BY FollowsRight
  <2> QED  BY <2>1, <2>2
<1>3. e \in Transaction /\ f \in Transaction
  BY <1>1 DEF CountsOnly
<1>4. p \in Seq(Transaction) /\ p # <<>> /\ DOMAIN p = 1 .. 2
  BY <1>3
<1>5. p[1] = e /\ U[1] = S1 \cup T1 /\ p[2] = f /\ U[2] = S2 \cup T2
  OBVIOUS
<1> HIDE DEF p, U
<1>6. ASSUME NEW i \in DOMAIN p
      PROVE  CountsOnly(p[i], Net(j), U[i]) /\ (i > 1 => p[i].rows = {})
  <2>1. i = 1 \/ i = 2
    BY <1>4
  <2>2. i > 1 => p[i].rows = {}
    BY <1>2, <1>5, <2>1
  <2>3. CountsOnly(p[i], Net(j), U[i])
    BY <1>1, <1>5, <2>1
  <2> QED  BY <2>2, <2>3
<1>7. \A c \in Even(j), i, k \in DOMAIN p : c \in U[i] /\ c \in U[k] => i = k
  BY <1>4, <1>5 DEF Parts2
<1>8. \A c \in Even(j) : c \in Own(j.of) <=> \E i \in DOMAIN p : c \in U[i]
  BY <1>4, <1>5 DEF Parts2
<1>9. p[1].rows = {j.of} /\ p[1].to = Goal(j) /\ Even(j) \subseteq Counter
  BY <1>2, <1>5 DEF Even
<1>10. Shape(p, j, Even(j))
  BY <1>4, <1>6, <1>7, <1>8, <1>9, ShapeRight
<1> QED  BY <1>10 DEF p

Parts3(j, S1, T1, S2, T2, S3, T3) ==
  \A c \in Even(j) :
    /\ c \notin (S1 \cup T1) \cap (S2 \cup T2)
    /\ c \notin (S1 \cup T1) \cap (S3 \cup T3)
    /\ c \notin (S2 \cup T2) \cap (S3 \cup T3)
    /\ c \in Own(j.of) <=> c \in S1 \cup T1 \/ c \in S2 \cup T2 \/ c \in S3 \cup T3
LEMMA Shape3 ==
  ASSUME NEW j \in Job, OnObjects(j), NEW S1, NEW T1, NEW S2, NEW T2, NEW S3, NEW T3, Parts3(j, S1, T1, S2, T2, S3, T3),
         NEW e, NEW f, NEW g, First(e, j, S1, T1), Follows(f, j, S2, T2), Follows(g, j, S3, T3)
  PROVE  Shape(<<e, f, g>>, j, Even(j))
<1> DEFINE p == <<e, f, g>>
           U == <<S1 \cup T1, S2 \cup T2, S3 \cup T3>>
<1>1. CountsOnly(e, Net(j), S1 \cup T1) /\ CountsOnly(f, Net(j), S2 \cup T2) /\ CountsOnly(g, Net(j), S3 \cup T3)
  <2>1. CountsOnly(e, Net(j), S1 \cup T1)
    BY FirstRight
  <2>2. CountsOnly(f, Net(j), S2 \cup T2)
    BY FollowsRight
  <2>3. CountsOnly(g, Net(j), S3 \cup T3)
    BY FollowsRight
  <2> QED  BY <2>1, <2>2, <2>3
<1>2. e.rows = {j.of} /\ e.to = Goal(j) /\ f.rows = {} /\ g.rows = {}
  <2>1. e.rows = {j.of} /\ e.to = Goal(j)
    BY FirstRight
  <2>2. f.rows = {}
    BY FollowsRight
  <2>3. g.rows = {}
    BY FollowsRight
  <2> QED  BY <2>1, <2>2, <2>3
<1>3. e \in Transaction /\ f \in Transaction /\ g \in Transaction
  BY <1>1 DEF CountsOnly
<1>4. p \in Seq(Transaction) /\ p # <<>> /\ DOMAIN p = 1 .. 3
  BY <1>3
<1>5. p[1] = e /\ U[1] = S1 \cup T1 /\ p[2] = f /\ U[2] = S2 \cup T2 /\ p[3] = g /\ U[3] = S3 \cup T3
  OBVIOUS
<1> HIDE DEF p, U
<1>6. ASSUME NEW i \in DOMAIN p
      PROVE  CountsOnly(p[i], Net(j), U[i]) /\ (i > 1 => p[i].rows = {})
  <2>1. i = 1 \/ i = 2 \/ i = 3
    BY <1>4
  <2>2. i > 1 => p[i].rows = {}
    BY <1>2, <1>5, <2>1
  <2>3. CountsOnly(p[i], Net(j), U[i])
    BY <1>1, <1>5, <2>1
  <2> QED  BY <2>2, <2>3
<1>7. \A c \in Even(j), i, k \in DOMAIN p : c \in U[i] /\ c \in U[k] => i = k
  BY <1>4, <1>5 DEF Parts3
<1>8. \A c \in Even(j) : c \in Own(j.of) <=> \E i \in DOMAIN p : c \in U[i]
  BY <1>4, <1>5 DEF Parts3
<1>9. p[1].rows = {j.of} /\ p[1].to = Goal(j) /\ Even(j) \subseteq Counter
  BY <1>2, <1>5 DEF Even
<1>10. Shape(p, j, Even(j))
  BY <1>4, <1>6, <1>7, <1>8, <1>9, ShapeRight
<1> QED  BY <1>10 DEF p

Parts4(j, S1, T1, S2, T2, S3, T3, S4, T4) ==
  \A c \in Even(j) :
    /\ c \notin (S1 \cup T1) \cap (S2 \cup T2)
    /\ c \notin (S1 \cup T1) \cap (S3 \cup T3)
    /\ c \notin (S1 \cup T1) \cap (S4 \cup T4)
    /\ c \notin (S2 \cup T2) \cap (S3 \cup T3)
    /\ c \notin (S2 \cup T2) \cap (S4 \cup T4)
    /\ c \notin (S3 \cup T3) \cap (S4 \cup T4)
    /\ c \in Own(j.of) <=> c \in S1 \cup T1 \/ c \in S2 \cup T2 \/ c \in S3 \cup T3 \/ c \in S4 \cup T4
LEMMA Shape4 ==
  ASSUME NEW j \in Job, OnObjects(j), NEW S1, NEW T1, NEW S2, NEW T2, NEW S3, NEW T3, NEW S4, NEW T4, Parts4(j, S1, T1, S2, T2, S3, T3, S4, T4),
         NEW e, NEW f, NEW g, NEW h, First(e, j, S1, T1), Follows(f, j, S2, T2), Follows(g, j, S3, T3), Follows(h, j, S4, T4)
  PROVE  Shape(<<e, f, g, h>>, j, Even(j))
<1> DEFINE p == <<e, f, g, h>>
           U == <<S1 \cup T1, S2 \cup T2, S3 \cup T3, S4 \cup T4>>
<1>1. CountsOnly(e, Net(j), S1 \cup T1) /\ CountsOnly(f, Net(j), S2 \cup T2) /\ CountsOnly(g, Net(j), S3 \cup T3) /\ CountsOnly(h, Net(j), S4 \cup T4)
  <2>1. CountsOnly(e, Net(j), S1 \cup T1)
    BY FirstRight
  <2>2. CountsOnly(f, Net(j), S2 \cup T2)
    BY FollowsRight
  <2>3. CountsOnly(g, Net(j), S3 \cup T3)
    BY FollowsRight
  <2>4. CountsOnly(h, Net(j), S4 \cup T4)
    BY FollowsRight
  <2> QED  BY <2>1, <2>2, <2>3, <2>4
<1>2. e.rows = {j.of} /\ e.to = Goal(j) /\ f.rows = {} /\ g.rows = {} /\ h.rows = {}
  <2>1. e.rows = {j.of} /\ e.to = Goal(j)
    BY FirstRight
  <2>2. f.rows = {}
    BY FollowsRight
  <2>3. g.rows = {}
    BY FollowsRight
  <2>4. h.rows = {}
    BY FollowsRight
  <2> QED  BY <2>1, <2>2, <2>3, <2>4
<1>3. e \in Transaction /\ f \in Transaction /\ g \in Transaction /\ h \in Transaction
  BY <1>1 DEF CountsOnly
<1>4. p \in Seq(Transaction) /\ p # <<>> /\ DOMAIN p = 1 .. 4
  BY <1>3
<1>5. p[1] = e /\ U[1] = S1 \cup T1 /\ p[2] = f /\ U[2] = S2 \cup T2 /\ p[3] = g /\ U[3] = S3 \cup T3 /\ p[4] = h /\ U[4] = S4 \cup T4
  OBVIOUS
<1> HIDE DEF p, U
<1>6. ASSUME NEW i \in DOMAIN p
      PROVE  CountsOnly(p[i], Net(j), U[i]) /\ (i > 1 => p[i].rows = {})
  <2>1. i = 1 \/ i = 2 \/ i = 3 \/ i = 4
    BY <1>4
  <2>2. i > 1 => p[i].rows = {}
    BY <1>2, <1>5, <2>1
  <2>3. CountsOnly(p[i], Net(j), U[i])
    BY <1>1, <1>5, <2>1
  <2> QED  BY <2>2, <2>3
<1>7. \A c \in Even(j), i, k \in DOMAIN p : c \in U[i] /\ c \in U[k] => i = k
  BY <1>4, <1>5 DEF Parts4
<1>8. \A c \in Even(j) : c \in Own(j.of) <=> \E i \in DOMAIN p : c \in U[i]
  BY <1>4, <1>5 DEF Parts4
<1>9. p[1].rows = {j.of} /\ p[1].to = Goal(j) /\ Even(j) \subseteq Counter
  BY <1>2, <1>5 DEF Even
<1>10. Shape(p, j, Even(j))
  BY <1>4, <1>6, <1>7, <1>8, <1>9, ShapeRight
<1> QED  BY <1>10 DEF p

LEMMA Joined ==
  ASSUME NEW e, NEW f, NEW g, NEW h
  PROVE  <<e, f, g>> \o <<h>> = <<e, f, g, h>>
<1> DEFINE S == {e, f, g, h}
           p == <<e, f, g>>
           q == <<h>>
           r == <<e, f, g, h>>
<1>1. p \in Seq(S) /\ q \in Seq(S) /\ r \in Seq(S) /\ Len(p) = 3 /\ Len(q) = 1 /\ Len(r) = 4
      /\ p[1] = e /\ p[2] = f /\ p[3] = g /\ q[1] = h
      /\ r[1] = e /\ r[2] = f /\ r[3] = g /\ r[4] = h
  OBVIOUS
<1> HIDE DEF p, q, r, S
<1>2. /\ p \o q \in Seq(S) /\ Len(p \o q) = 4
      /\ \A i \in 1 .. 4 : (p \o q)[i] = IF i <= 3 THEN p[i] ELSE q[i - 3]
  <2>1. p \in Seq(S) /\ q \in Seq(S)
    BY <1>1
  <2>2. /\ p \o q \in Seq(S) /\ Len(p \o q) = Len(p) + Len(q)
        /\ \A i \in 1 .. Len(p) + Len(q) : (p \o q)[i] =
             IF i <= Len(p) THEN p[i] ELSE q[i - Len(p)]
    BY <2>1, ConcatProperties
  <2> QED  BY <1>1, <2>2
<1>3. \A i \in 1 .. Len(r) : (p \o q)[i] = r[i]
  BY <1>1, <1>2
<1>4. p \o q = r
  BY <1>1, <1>2, <1>3, SeqEqual
<1> QED  BY <1>4 DEF p, q, r

LEMMA Owns ==
  ASSUME NEW j \in Job, OnObjects(j)
  PROVE  /\ j.kind \in OfPost => Own(j.of) = {Posts, Mine(j.of)}
         /\ j.kind \in OfReply =>
              Own(j.of) = {Comments, Mine(j.of)} \cup OnPost(j.of) \cup Parents(j.of)
         /\ IsBot(j.of) => OnPostAndCommunity(j.of) = {} /\ OnPost(j.of) = {}
         /\ ~IsBot(j.of) => OnPostAndCommunity(j.of) = OnPost(j.of) \cup {Comments}
  BY Jobs DEF Own, OnPostAndCommunity, OnPost

LEMMA MakePostShape ==
  ASSUME NEW j \in Job, j.kind = "make_post"
  PROVE  OnObjects(j) /\ Shape(Program(j), j, Even(j))
<1>1. OnObjects(j) /\ Goal(j) = "live" /\ Net(j) = 1 /\ j.of \in Object
      /\ j.kind \in OfPost /\ j.of \in Post
  BY Jobs DEF OnObjects, OfPost, OfReply, Goal, Net, Down
<1> DEFINE e == Entry({j.of}, "live", {}, {}, 1)
           f == Entry({}, "live", {Posts, Mine(j.of)}, {}, 1)
           g == Entry({}, "live", {}, {}, 1)
<1>2. Program(j) = MakePost(j.of)
  BY DEF Program
<1>3. MakePost(j.of) = <<e, f, g>>
  BY Shifts DEF MakePost, Entry, EditPost, Nothing, Counts
<1> HIDE DEF e, f, g
<1>4. First(e, j, {}, {})
      /\ Follows(f, j, {Posts, Mine(j.of)}, {})
      /\ Follows(g, j, {}, {})
  BY <1>1, Tags, Owns DEF First, Follows, Apart, e, f, g
<1>5. ASSUME NEW c \in Even(j)
      PROVE  /\ c \notin ({} \cup {}) \cap ({Posts, Mine(j.of)} \cup {})
             /\ c \notin ({} \cup {}) \cap ({} \cup {})
             /\ c \notin ({Posts, Mine(j.of)} \cup {}) \cap ({} \cup {})
             /\ c \in Own(j.of) <=> c \in {} \cup {} \/ c \in {Posts, Mine(j.of)} \cup {} \/ c \in {} \cup {}
  <2>1. c \in Counter /\ TRUE
    BY <1>1 DEF Even, Uneven
  <2> QED  BY <1>1, <2>1, Owns, Tags
<1>5a. Parts3(j, {}, {}, {Posts, Mine(j.of)}, {}, {}, {})
  BY <1>5 DEF Parts3
<1>6. Shape(<<e, f, g>>, j, Even(j))
  BY <1>1, <1>4, <1>5a, Shape3
<1> QED  BY <1>1, <1>2, <1>3, <1>6

LEMMA NewPostShape ==
  ASSUME NEW j \in Job, j.kind = "new_post"
  PROVE  OnObjects(j) /\ Shape(Program(j), j, Even(j))
<1>1. OnObjects(j) /\ Goal(j) = "live" /\ Net(j) = 1 /\ j.of \in Object
      /\ j.kind \in OfPost /\ j.of \in Post
  BY Jobs DEF OnObjects, OfPost, OfReply, Goal, Net, Down
<1> DEFINE e == Entry({j.of}, "live", {Posts}, {Mine(j.of)}, 1)
<1>2. Program(j) = NewPost(j.of)
  BY DEF Program
<1>3. NewPost(j.of) = <<e>>
  BY Shifts DEF NewPost, Entry
<1> HIDE DEF e
<1>4. First(e, j, {Posts}, {Mine(j.of)})
  BY <1>1, Tags, Owns DEF First, Follows, Apart, e
<1>5. ASSUME NEW c \in Even(j)
      PROVE  /\ TRUE
             /\ c \in Own(j.of) <=> c \in {Posts} \cup {Mine(j.of)}
  <2>1. c \in Counter /\ TRUE
    BY <1>1 DEF Even, Uneven
  <2> QED  BY <1>1, <2>1, Owns, Tags
<1>5a. Parts1(j, {Posts}, {Mine(j.of)})
  BY <1>5 DEF Parts1
<1>6. Shape(<<e>>, j, Even(j))
  BY <1>1, <1>4, <1>5a, Shape1
<1> QED  BY <1>1, <1>2, <1>3, <1>6

LEMMA DeletePostShape ==
  ASSUME NEW j \in Job, j.kind = "delete_post"
  PROVE  OnObjects(j) /\ Shape(Program(j), j, Even(j))
<1>1. OnObjects(j) /\ Goal(j) = "deleted" /\ Net(j) = -1 /\ j.of \in Object
      /\ j.kind \in OfPost /\ j.of \in Post
  BY Jobs DEF OnObjects, OfPost, OfReply, Goal, Net, Down
<1> DEFINE e == Entry({j.of}, "deleted", {Posts, Mine(j.of)}, {}, -1)
<1>2. Program(j) = DeletePost(j.of)
  BY DEF Program
<1>3. DeletePost(j.of) = <<e>>
  BY Shifts DEF DeletePost, Entry
<1> HIDE DEF e
<1>4. First(e, j, {Posts, Mine(j.of)}, {})
  BY <1>1, Tags, Owns DEF First, Follows, Apart, e
<1>5. ASSUME NEW c \in Even(j)
      PROVE  /\ TRUE
             /\ c \in Own(j.of) <=> c \in {Posts, Mine(j.of)} \cup {}
  <2>1. c \in Counter /\ TRUE
    BY <1>1 DEF Even, Uneven
  <2> QED  BY <1>1, <2>1, Owns, Tags
<1>5a. Parts1(j, {Posts, Mine(j.of)}, {})
  BY <1>5 DEF Parts1
<1>6. Shape(<<e>>, j, Even(j))
  BY <1>1, <1>4, <1>5a, Shape1
<1> QED  BY <1>1, <1>2, <1>3, <1>6

LEMMA RestorePostShape ==
  ASSUME NEW j \in Job, j.kind = "restore_post"
  PROVE  OnObjects(j) /\ Shape(Program(j), j, Even(j))
<1>1. OnObjects(j) /\ Goal(j) = "live" /\ Net(j) = 1 /\ j.of \in Object
      /\ j.kind \in OfPost /\ j.of \in Post
  BY Jobs DEF OnObjects, OfPost, OfReply, Goal, Net, Down
<1> DEFINE e == Entry({j.of}, "live", {Posts, Mine(j.of)}, {}, 1)
<1>2. Program(j) = RestorePost(j.of)
  BY DEF Program
<1>3. RestorePost(j.of) = <<e>>
  BY Shifts DEF RestorePost, Entry
<1> HIDE DEF e
<1>4. First(e, j, {Posts, Mine(j.of)}, {})
  BY <1>1, Tags, Owns DEF First, Follows, Apart, e
<1>5. ASSUME NEW c \in Even(j)
      PROVE  /\ TRUE
             /\ c \in Own(j.of) <=> c \in {Posts, Mine(j.of)} \cup {}
  <2>1. c \in Counter /\ TRUE
    BY <1>1 DEF Even, Uneven
  <2> QED  BY <1>1, <2>1, Owns, Tags
<1>5a. Parts1(j, {Posts, Mine(j.of)}, {})
  BY <1>5 DEF Parts1
<1>6. Shape(<<e>>, j, Even(j))
  BY <1>1, <1>4, <1>5a, Shape1
<1> QED  BY <1>1, <1>2, <1>3, <1>6

LEMMA InboxDeletePostShape ==
  ASSUME NEW j \in Job, j.kind = "inbox_delete_post"
  PROVE  OnObjects(j) /\ Shape(Program(j), j, Even(j))
<1>1. OnObjects(j) /\ Goal(j) = "deleted" /\ Net(j) = -1 /\ j.of \in Object
      /\ j.kind \in OfPost /\ j.of \in Post
  BY Jobs DEF OnObjects, OfPost, OfReply, Goal, Net, Down
<1> DEFINE e == Entry({j.of}, "deleted", {}, {}, -1)
           f == Entry({}, "live", {Posts, Mine(j.of)}, {}, -1)
<1>2. Program(j) = InboxDeletePost(j.of)
  BY DEF Program
<1>3. InboxDeletePost(j.of) = <<e, f>>
  BY Shifts DEF InboxDeletePost, Entry, Counts
<1> HIDE DEF e, f
<1>4. First(e, j, {}, {})
      /\ Follows(f, j, {Posts, Mine(j.of)}, {})
  BY <1>1, Tags, Owns DEF First, Follows, Apart, e, f
<1>5. ASSUME NEW c \in Even(j)
      PROVE  /\ c \notin ({} \cup {}) \cap ({Posts, Mine(j.of)} \cup {})
             /\ c \in Own(j.of) <=> c \in {} \cup {} \/ c \in {Posts, Mine(j.of)} \cup {}
  <2>1. c \in Counter /\ TRUE
    BY <1>1 DEF Even, Uneven
  <2> QED  BY <1>1, <2>1, Owns, Tags
<1>5a. Parts2(j, {}, {}, {Posts, Mine(j.of)}, {})
  BY <1>5 DEF Parts2
<1>6. Shape(<<e, f>>, j, Even(j))
  BY <1>1, <1>4, <1>5a, Shape2
<1> QED  BY <1>1, <1>2, <1>3, <1>6

LEMMA NewReplyShape ==
  ASSUME NEW j \in Job, j.kind = "new_reply"
  PROVE  OnObjects(j) /\ Shape(Program(j), j, Even(j))
<1>1. OnObjects(j) /\ Goal(j) = "live" /\ Net(j) = 1 /\ j.of \in Object
      /\ j.kind \in OfReply /\ j.of \in Reply
  BY Jobs DEF OnObjects, OfPost, OfReply, Goal, Net, Down
<1> DEFINE e == Entry({j.of}, "live", {}, {}, 1)
           f == Entry({}, "live", {}, Parents(j.of), 1)
           g == Entry({}, "live", OnPostAndCommunity(j.of), {Mine(j.of)}, 1)
<1>2. Program(j) = NewReply(j.of)
  BY DEF Program
<1>3. NewReply(j.of) = <<e, f, g>>
  BY Shifts DEF NewReply, Entry
<1> HIDE DEF e, f, g
<1>4. First(e, j, {}, {})
      /\ Follows(f, j, {}, Parents(j.of))
      /\ Follows(g, j, OnPostAndCommunity(j.of), {Mine(j.of)})
  BY <1>1, Tags, Owns DEF First, Follows, Apart, e, f, g
<1>5. ASSUME NEW c \in Even(j)
      PROVE  /\ c \notin ({} \cup {}) \cap ({} \cup Parents(j.of))
             /\ c \notin ({} \cup {}) \cap (OnPostAndCommunity(j.of) \cup {Mine(j.of)})
             /\ c \notin ({} \cup Parents(j.of)) \cap (OnPostAndCommunity(j.of) \cup {Mine(j.of)})
             /\ c \in Own(j.of) <=> c \in {} \cup {} \/ c \in {} \cup Parents(j.of) \/ c \in OnPostAndCommunity(j.of) \cup {Mine(j.of)}
  <2>1. c \in Counter /\ (c = Comments => ~IsBot(j.of))
    BY <1>1 DEF Even, Uneven
  <2> QED  BY <1>1, <2>1, Owns, Tags
<1>5a. Parts3(j, {}, {}, {}, Parents(j.of), OnPostAndCommunity(j.of), {Mine(j.of)})
  BY <1>5 DEF Parts3
<1>6. Shape(<<e, f, g>>, j, Even(j))
  BY <1>1, <1>4, <1>5a, Shape3
<1> QED  BY <1>1, <1>2, <1>3, <1>6

LEMMA BackfillShape ==
  ASSUME NEW j \in Job, j.kind = "backfill"
  PROVE  OnObjects(j) /\ Shape(Program(j), j, Even(j))
<1>1. OnObjects(j) /\ Goal(j) = "live" /\ Net(j) = 1 /\ j.of \in Object
      /\ j.kind \in OfReply /\ j.of \in Reply
  BY Jobs DEF OnObjects, OfPost, OfReply, Goal, Net, Down
<1> DEFINE e == Entry({j.of}, "live", {}, {}, 1)
           f == Entry({}, "live", {}, Parents(j.of), 1)
           g == Entry({}, "live", OnPostAndCommunity(j.of), {Mine(j.of)}, 1)
           h == Entry({}, "live", {Comments}, {}, 1)
<1>2. Program(j) = Backfill(j.of)
  BY DEF Program
<1>2a. NewReply(j.of) = <<e, f, g>> /\ Counts({Comments}, 1) = h
  BY Shifts DEF NewReply, Counts, Entry
<1> HIDE DEF e, f, g, h
<1>3. Backfill(j.of) = <<e, f, g, h>>
  BY <1>2a, Joined DEF Backfill
<1>4. First(e, j, {}, {})
      /\ Follows(f, j, {}, Parents(j.of))
      /\ Follows(g, j, OnPostAndCommunity(j.of), {Mine(j.of)})
      /\ Follows(h, j, {Comments}, {})
  BY <1>1, Tags, Owns DEF First, Follows, Apart, e, f, g, h
<1>5. ASSUME NEW c \in Even(j)
      PROVE  /\ c \notin ({} \cup {}) \cap ({} \cup Parents(j.of))
             /\ c \notin ({} \cup {}) \cap (OnPostAndCommunity(j.of) \cup {Mine(j.of)})
             /\ c \notin ({} \cup {}) \cap ({Comments} \cup {})
             /\ c \notin ({} \cup Parents(j.of)) \cap (OnPostAndCommunity(j.of) \cup {Mine(j.of)})
             /\ c \notin ({} \cup Parents(j.of)) \cap ({Comments} \cup {})
             /\ c \notin (OnPostAndCommunity(j.of) \cup {Mine(j.of)}) \cap ({Comments} \cup {})
             /\ c \in Own(j.of) <=> c \in {} \cup {} \/ c \in {} \cup Parents(j.of) \/ c \in OnPostAndCommunity(j.of) \cup {Mine(j.of)} \/ c \in {Comments} \cup {}
  <2>1. c \in Counter /\ c # Comments
    BY <1>1 DEF Even, Uneven
  <2> QED  BY <1>1, <2>1, Owns, Tags
<1>5a. Parts4(j, {}, {}, {}, Parents(j.of), OnPostAndCommunity(j.of), {Mine(j.of)}, {Comments}, {})
  BY <1>5 DEF Parts4
<1>6. Shape(<<e, f, g, h>>, j, Even(j))
  BY <1>1, <1>4, <1>5a, Shape4
<1> QED  BY <1>1, <1>2, <1>3, <1>6

LEMMA DeleteReplyShape ==
  ASSUME NEW j \in Job, j.kind = "delete_reply"
  PROVE  OnObjects(j) /\ Shape(Program(j), j, Even(j))
<1>1. OnObjects(j) /\ Goal(j) = "deleted" /\ Net(j) = -1 /\ j.of \in Object
      /\ j.kind \in OfReply /\ j.of \in Reply
  BY Jobs DEF OnObjects, OfPost, OfReply, Goal, Net, Down
<1> DEFINE e == Entry({j.of}, "deleted", OnPostAndCommunity(j.of) \cup {Mine(j.of)}, Parents(j.of), -1)
<1>2. Program(j) = DeleteReply(j.of)
  BY DEF Program
<1>3. DeleteReply(j.of) = <<e>>
  BY Shifts DEF DeleteReply, Entry
<1> HIDE DEF e
<1>4. First(e, j, OnPostAndCommunity(j.of) \cup {Mine(j.of)}, Parents(j.of))
  BY <1>1, Tags, Owns DEF First, Follows, Apart, e
<1>5. ASSUME NEW c \in Even(j)
      PROVE  /\ TRUE
             /\ c \in Own(j.of) <=> c \in OnPostAndCommunity(j.of) \cup {Mine(j.of)} \cup Parents(j.of)
  <2>1. c \in Counter /\ (c = Comments => ~IsBot(j.of))
    BY <1>1 DEF Even, Uneven
  <2> QED  BY <1>1, <2>1, Owns, Tags
<1>5a. Parts1(j, OnPostAndCommunity(j.of) \cup {Mine(j.of)}, Parents(j.of))
  BY <1>5 DEF Parts1
<1>6. Shape(<<e>>, j, Even(j))
  BY <1>1, <1>4, <1>5a, Shape1
<1> QED  BY <1>1, <1>2, <1>3, <1>6

LEMMA ModRemoveReplyShape ==
  ASSUME NEW j \in Job, j.kind = "mod_remove_reply"
  PROVE  OnObjects(j) /\ Shape(Program(j), j, Even(j))
<1>1. OnObjects(j) /\ Goal(j) = "deleted" /\ Net(j) = -1 /\ j.of \in Object
      /\ j.kind \in OfReply /\ j.of \in Reply
  BY Jobs DEF OnObjects, OfPost, OfReply, Goal, Net, Down
<1> DEFINE e == Entry({j.of}, "deleted", OnPost(j.of) \cup {Mine(j.of)}, Parents(j.of), -1)
<1>2. Program(j) = ModRemoveReply(j.of)
  BY DEF Program
<1>3. ModRemoveReply(j.of) = <<e>>
  BY Shifts DEF ModRemoveReply, Entry
<1> HIDE DEF e
<1>4. First(e, j, OnPost(j.of) \cup {Mine(j.of)}, Parents(j.of))
  BY <1>1, Tags, Owns DEF First, Follows, Apart, e
<1>5. ASSUME NEW c \in Even(j)
      PROVE  /\ TRUE
             /\ c \in Own(j.of) <=> c \in OnPost(j.of) \cup {Mine(j.of)} \cup Parents(j.of)
  <2>1. c \in Counter /\ c # Comments
    BY <1>1 DEF Even, Uneven
  <2> QED  BY <1>1, <2>1, Owns, Tags
<1>5a. Parts1(j, OnPost(j.of) \cup {Mine(j.of)}, Parents(j.of))
  BY <1>5 DEF Parts1
<1>6. Shape(<<e>>, j, Even(j))
  BY <1>1, <1>4, <1>5a, Shape1
<1> QED  BY <1>1, <1>2, <1>3, <1>6

LEMMA InboxDeleteReplyShape ==
  ASSUME NEW j \in Job, j.kind = "inbox_delete_reply"
  PROVE  OnObjects(j) /\ Shape(Program(j), j, Even(j))
<1>1. OnObjects(j) /\ Goal(j) = "deleted" /\ Net(j) = -1 /\ j.of \in Object
      /\ j.kind \in OfReply /\ j.of \in Reply
  BY Jobs DEF OnObjects, OfPost, OfReply, Goal, Net, Down
<1> DEFINE e == Entry({j.of}, "deleted", {}, Parents(j.of), -1)
           f == Entry({}, "live", {Mine(j.of)}, {}, -1)
           g == Entry({}, "live", OnPost(j.of), {}, -1)
           h == Entry({}, "live", {Comments}, {}, -1)
<1>2. Program(j) = InboxDeleteReply(j.of)
  BY DEF Program
<1>3. InboxDeleteReply(j.of) = <<e, f, g, h>>
  BY Shifts DEF InboxDeleteReply, Entry, Counts
<1> HIDE DEF e, f, g, h
<1>4. First(e, j, {}, Parents(j.of))
      /\ Follows(f, j, {Mine(j.of)}, {})
      /\ Follows(g, j, OnPost(j.of), {})
      /\ Follows(h, j, {Comments}, {})
  BY <1>1, Tags, Owns DEF First, Follows, Apart, e, f, g, h
<1>5. ASSUME NEW c \in Even(j)
      PROVE  /\ c \notin ({} \cup Parents(j.of)) \cap ({Mine(j.of)} \cup {})
             /\ c \notin ({} \cup Parents(j.of)) \cap (OnPost(j.of) \cup {})
             /\ c \notin ({} \cup Parents(j.of)) \cap ({Comments} \cup {})
             /\ c \notin ({Mine(j.of)} \cup {}) \cap (OnPost(j.of) \cup {})
             /\ c \notin ({Mine(j.of)} \cup {}) \cap ({Comments} \cup {})
             /\ c \notin (OnPost(j.of) \cup {}) \cap ({Comments} \cup {})
             /\ c \in Own(j.of) <=> c \in {} \cup Parents(j.of) \/ c \in {Mine(j.of)} \cup {} \/ c \in OnPost(j.of) \cup {} \/ c \in {Comments} \cup {}
  <2>1. c \in Counter /\ (c = Comments => ~IsBot(j.of))
    BY <1>1 DEF Even, Uneven
  <2> QED  BY <1>1, <2>1, Owns, Tags
<1>5a. Parts4(j, {}, Parents(j.of), {Mine(j.of)}, {}, OnPost(j.of), {}, {Comments}, {})
  BY <1>5 DEF Parts4
<1>6. Shape(<<e, f, g, h>>, j, Even(j))
  BY <1>1, <1>4, <1>5a, Shape4
<1> QED  BY <1>1, <1>2, <1>3, <1>6

LEMMA RestoreReplyShape ==
  ASSUME NEW j \in Job, j.kind = "restore_reply"
  PROVE  OnObjects(j) /\ Shape(Program(j), j, Even(j))
<1>1. OnObjects(j) /\ Goal(j) = "live" /\ Net(j) = 1 /\ j.of \in Object
      /\ j.kind \in OfReply /\ j.of \in Reply
  BY Jobs DEF OnObjects, OfPost, OfReply, Goal, Net, Down
<1> DEFINE e == Entry({j.of}, "live", OnPost(j.of) \cup {Mine(j.of)}, Parents(j.of), 1)
<1>2. Program(j) = RestoreReply(j.of)
  BY DEF Program
<1>3. RestoreReply(j.of) = <<e>>
  BY Shifts DEF RestoreReply, Entry
<1> HIDE DEF e
<1>4. First(e, j, OnPost(j.of) \cup {Mine(j.of)}, Parents(j.of))
  BY <1>1, Tags, Owns DEF First, Follows, Apart, e
<1>5. ASSUME NEW c \in Even(j)
      PROVE  /\ TRUE
             /\ c \in Own(j.of) <=> c \in OnPost(j.of) \cup {Mine(j.of)} \cup Parents(j.of)
  <2>1. c \in Counter /\ c # Comments
    BY <1>1 DEF Even, Uneven
  <2> QED  BY <1>1, <2>1, Owns, Tags
<1>5a. Parts1(j, OnPost(j.of) \cup {Mine(j.of)}, Parents(j.of))
  BY <1>5 DEF Parts1
<1>6. Shape(<<e>>, j, Even(j))
  BY <1>1, <1>4, <1>5a, Shape1
<1> QED  BY <1>1, <1>2, <1>3, <1>6

LEMMA RestoreAnyReplyShape ==
  ASSUME NEW j \in Job, j.kind = "restore_any_reply"
  PROVE  OnObjects(j) /\ Shape(Program(j), j, Even(j))
<1>1. OnObjects(j) /\ Goal(j) = "live" /\ Net(j) = 1 /\ j.of \in Object
      /\ j.kind \in OfReply /\ j.of \in Reply
  BY Jobs DEF OnObjects, OfPost, OfReply, Goal, Net, Down
<1> DEFINE e == Entry({j.of}, "live", OnPost(j.of) \cup {Mine(j.of)}, Parents(j.of), 1)
<1>2. Program(j) = RestoreReply(j.of)
  BY DEF Program
<1>3. RestoreReply(j.of) = <<e>>
  BY Shifts DEF RestoreReply, Entry
<1> HIDE DEF e
<1>4. First(e, j, OnPost(j.of) \cup {Mine(j.of)}, Parents(j.of))
  BY <1>1, Tags, Owns DEF First, Follows, Apart, e
<1>5. ASSUME NEW c \in Even(j)
      PROVE  /\ TRUE
             /\ c \in Own(j.of) <=> c \in OnPost(j.of) \cup {Mine(j.of)} \cup Parents(j.of)
  <2>1. c \in Counter /\ c # Comments
    BY <1>1 DEF Even, Uneven
  <2> QED  BY <1>1, <2>1, Owns, Tags
<1>5a. Parts1(j, OnPost(j.of) \cup {Mine(j.of)}, Parents(j.of))
  BY <1>5 DEF Parts1
<1>6. Shape(<<e>>, j, Even(j))
  BY <1>1, <1>4, <1>5a, Shape1
<1> QED  BY <1>1, <1>2, <1>3, <1>6

LEMMA ProgramShape ==
  ASSUME NEW j \in Job, OnObjects(j)
  PROVE  Shape(Program(j), j, Even(j))
<1>1. j.kind \in OfPost \cup OfReply
  BY DEF OnObjects
<1> QED
  BY <1>1, MakePostShape, NewPostShape, DeletePostShape, RestorePostShape,
     InboxDeletePostShape, NewReplyShape, BackfillShape, DeleteReplyShape,
     ModRemoveReplyShape, InboxDeleteReplyShape, RestoreReplyShape, RestoreAnyReplyShape
     DEF OfPost, OfReply

LEMMA NothingRight ==
  /\ Nothing \in Transaction /\ Nothing.sets = {} /\ Nothing.rows = {} /\ ~Nothing.read
  /\ \A c \in Counter : ~Touched(Nothing, c) /\ Adds(Nothing, c) = 0
<1>1. Zero \in Delta /\ \A c \in Counter : Zero[c] = 0
  BY DEF Zero, Delta
<1>2. Nothing \in Transaction
  BY <1>1 DEF Nothing, Tx, Transaction
<1> QED  BY <1>1, <1>2 DEF Nothing, Tx, Touched, Adds

LEMMA OtherProgram ==
  ASSUME NEW j \in Job, ~OnObjects(j)
  PROVE  Program(j) = IF j.kind \in Banning THEN <<Nothing, Nothing>> ELSE <<Nothing>>
<1>1. CASE j.kind \in Banning
  BY <1>1 DEF Program, Banning
<1>2. CASE j.kind \notin Banning
  BY <1>2 DEF Program, Banning, OnObjects, OfPost, OfReply
<1> QED  BY <1>1, <1>2

LEMMA AnyProgram ==
  ASSUME NEW j \in Job
  PROVE  Program(j) \in Seq(Transaction) /\ Len(Program(j)) \in Nat \ {0}
<1>1. CASE OnObjects(j)
  <2>1. Program(j) \in Seq(Transaction) /\ Program(j) # <<>>
    BY <1>1, ProgramShape DEF Shape
  <2> QED  BY <2>1, EmptySeq
<1>2. CASE ~OnObjects(j)
  <2>1. Program(j) = <<Nothing, Nothing>> \/ Program(j) = <<Nothing>>
    BY <1>2, OtherProgram
  <2>2. Nothing \in Transaction
    BY NothingRight
  <2>3. \A n \in Transaction : /\ <<n, n>> \in Seq(Transaction) /\ Len(<<n, n>>) = 2
                               /\ <<n>> \in Seq(Transaction) /\ Len(<<n>>) = 1
    OBVIOUS
  <2>4. CASE Program(j) = <<Nothing, Nothing>>
    BY <2>2, <2>3, <2>4
  <2>5. CASE Program(j) = <<Nothing>>
    BY <2>2, <2>3, <2>5
  <2> QED  BY <2>1, <2>4, <2>5
<1> QED  BY <1>1, <1>2

-----------------------------------------------------------------------------
(***************************************************************************)
(* Steps.                                                                  *)
(***************************************************************************)
\* Only the worker's own entries change.
Becomes(w, j, p, t) ==
  /\ job' = [job EXCEPT ![w] = j]
  /\ left' = [left EXCEPT ![w] = p]
  /\ tx' = [tx EXCEPT ![w] = t]
Home(j) ==
  /\ j.kind = "make_post" => AuthorOf[j.of] \in Local
  /\ j.kind = "site_ban" => j.of \notin Local
Starts(w, j) ==
  /\ j \in Job /\ j # NoJob /\ Home(j) /\ Idle(w)
  /\ job' = [job EXCEPT ![w] = j]
  /\ left' = [left EXCEPT ![w] = Program(j)]
  /\ requests' \in 0 .. MaxRequests
  /\ UNCHANGED <<status, count, tx, active, aborts, tainted, fresh>>

LEMMA BeginStarts ==
  ASSUME ContentTypeOK, NEW w \in Worker, NEW j \in Job, j # NoJob, Home(j), Begin(w, j)
  PROVE  Starts(w, j)
<1>1. requests' \in 0 .. MaxRequests
  BY ContentAssumption DEF ContentTypeOK, Begin
<1> QED  BY <1>1 DEF Begin, Starts

LEMMA PostStarts ==
  ASSUME ContentTypeOK, NEW w \in Worker, NEW p \in Post, BeginPost(w, p)
  PROVE  \E j : Starts(w, j)
<1>1. PICK kind \in OfPost : /\ Begin(w, [kind |-> kind, of |-> p])
                             /\ kind = "make_post" => AuthorOf[p] \in Local
  BY DEF BeginPost, BeginMakePost, BeginNewPost, BeginDeletePost, BeginModRemovePost,
         BeginBlockedImage, BeginRemoveOld, BeginInboxDeletePost, BeginRestorePost,
         BeginModRestorePost, BeginInboxRestorePost, OnObject, OfPost
<1> DEFINE j == [kind |-> kind, of |-> p]
<1>2. j \in Job /\ j # NoJob /\ Home(j)
  BY <1>1 DEF Job, NoJob, Home, OfPost
<1> QED  BY <1>1, <1>2, BeginStarts

LEMMA ReplyStarts ==
  ASSUME ContentTypeOK, NEW w \in Worker, NEW r \in Reply, BeginReply(w, r)
  PROVE  \E j : Starts(w, j)
<1>1. PICK kind \in OfReply : Begin(w, [kind |-> kind, of |-> r])
  BY DEF BeginReply, BeginNewReply, BeginBackfill, BeginDeleteReply, BeginModRemoveReply,
         BeginInboxDeleteReply, BeginRestoreReply, BeginModRestoreReply,
         BeginInboxRestoreReply, BeginPageRestoreReply, OnObject, OfReply
<1> DEFINE j == [kind |-> kind, of |-> r]
<1>2. j \in Job /\ j # NoJob /\ Home(j)
  BY <1>1 DEF Job, NoJob, Home, OfReply
<1> QED  BY <1>1, <1>2, BeginStarts

LEMMA UserStarts ==
  ASSUME ContentTypeOK, NEW w \in Worker, NEW u \in User, BeginForUser(w, u)
  PROVE  \E j : Starts(w, j)
<1>1. PICK kind \in OfUser : /\ Begin(w, [kind |-> kind, of |-> u])
                             /\ kind = "site_ban" => u \notin Local
  BY DEF BeginForUser, BeginSiteBan, BeginCommunityBan, BeginPurge, OnObject, OfUser
<1> DEFINE j == [kind |-> kind, of |-> u]
<1>2. j \in Job /\ j # NoJob /\ Home(j)
  BY <1>1 DEF Job, NoJob, Home, OfUser
<1> QED  BY <1>1, <1>2, BeginStarts

LEMMA StatsStarts ==
  ASSUME ContentTypeOK, NEW w \in Worker, BeginStats(w)
  PROVE  \E j : Starts(w, j)
<1> DEFINE j == [kind |-> "stats", of |-> "nothing"]
<1>1. j \in Job /\ j # NoJob /\ Home(j) /\ ~OnObjects(j) /\ j.kind \notin Banning
  BY DEF Job, NoJob, Home, OnObjects, OfPost, OfReply, Banning
<1>2. Program(j) = <<Nothing>>
  BY <1>1, OtherProgram
<1>3. job' = [job EXCEPT ![w] = j] /\ left' = [left EXCEPT ![w] = Program(j)] /\ Idle(w)
  BY <1>2 DEF BeginStats
<1>4. requests' \in 0 .. MaxRequests
  BY DEF BeginStats, ContentTypeOK
<1> HIDE DEF j
<1> QED  BY <1>1, <1>3, <1>4 DEF BeginStats, Starts

\* Reading: what is read is right.
Copies(w, t) ==
  [t EXCEPT !.copy = Copied(t), !.same = AsRead(w, t), !.read = TRUE]
Filled(t, f, S) == [t EXCEPT !.copy = f, !.same = S, !.read = TRUE]
LEMMA FilledRight ==
  ASSUME NEW t \in Transaction, NEW f \in Delta, NEW S \in SUBSET Object
  PROVE  LET u == Filled(t, f, S) IN
         u \in Transaction /\ Same(u, t) /\ u.read /\ u.copy = f
<1>1. Filled(t, f, S) \in Transaction
  BY DEF Transaction, Filled
<1>2. Same(Filled(t, f, S), t)
  BY DEF Transaction, Same, Filled
<1>3. Filled(t, f, S).read /\ Filled(t, f, S).copy = f
  BY DEF Transaction, Filled
<1> QED  BY <1>1, <1>2, <1>3

LEMMA CountsRight == \A S \in SUBSET Object : IsFiniteSet(S) /\ Cardinality(S) \in Nat
<1>1. IsFiniteSet(Object)
  BY ContentAssumption, FS_Union DEF Object
<1> QED  BY <1>1, FS_Subset, FS_CardinalityType

LEMMA GoneRight ==
  ASSUME NEW objs \in SUBSET Object, NEW S
  PROVE  Removal(objs, S) \in Transaction /\ Removal(objs, S).rows = objs /\ Removal(objs, S).sets = {}
         /\ Removal(objs, S).to = "deleted"
<1>2. \A T : T \subseteq objs => Cardinality(T) \in Nat
  BY CountsRight
<1> DEFINE own(c) == {o \in objs : c \in {Mine(o)} \cup
                         (IF o \in Post THEN {Posts} ELSE {Comments} \cup OnPost(o))}
           above(c) == {o \in objs \cap Reply : c \in Parents(o)}
           orm == [c \in Counter |-> IF c \in S THEN -Cardinality(own(c)) ELSE 0]
           sql == [c \in Counter |-> -Cardinality(above(c))]
<1>3. \A c \in Counter : Cardinality(own(c)) \in Nat /\ Cardinality(above(c)) \in Nat
  <2> TAKE c \in Counter
  <2>1. own(c) \subseteq objs /\ above(c) \subseteq objs  OBVIOUS
  <2> HIDE DEF own, above
  <2> QED  BY <1>2, <2>1
<1>4. Zero \in Delta
  BY DEF Zero, Delta
<1>5. orm \in Delta /\ sql \in Delta
  <2> HIDE DEF own, above
  <2>1. \A c \in Counter : (IF c \in S THEN -Cardinality(own(c)) ELSE 0) \in Int
                          /\ -Cardinality(above(c)) \in Int
    BY <1>3
  <2> QED  BY <2>1 DEF Delta
<1>6. Removal(objs, S) = Tx(objs, "deleted", orm, sql)
  BY DEF Removal
<1> HIDE DEF orm, sql
<1> QED  BY <1>4, <1>5, <1>6 DEF Tx, Transaction

LEMMA ActualRight ==
  ASSUME NEW c \in Counter
  PROVE  /\ Live(Says[c]) = {o \in Object : c \in Own(o) /\ status[o] = "live"}
         /\ IsFiniteSet(Live(Says[c])) /\ Actual(c) \in Nat
<1>1. Live(Says[c]) = {o \in Object : c \in Own(o) /\ status[o] = "live"}
  BY ContentAssumption DEF Live, Says, Own, Object
<1> QED  BY <1>1, CountsRight DEF Actual

LEMMA DueRight ==
  ASSUME ContentTypeOK, Tails, NEW w \in Worker, ~Idle(w)
  PROVE  Due(w) \in Transaction
<1>0. job[w] \in Job /\ left[w] \in Seq(Transaction) /\ left[w] # <<>>
  BY DEF ContentTypeOK
<1>1. CASE job[w].kind \in Banning
  <2>1. By(job[w].of, Reply) \subseteq Object /\ By(job[w].of, Post) \subseteq Object
        /\ Live(By(job[w].of, Reply)) \subseteq Object /\ Live(By(job[w].of, Post)) \subseteq Object
    BY DEF By, Live, Object
  <2>2. BanReplies(job[w].kind, job[w].of) \in Transaction
    BY <2>1, GoneRight DEF BanReplies
  <2>3. PostsBy(job[w].of) \in Counter
    BY <1>0, <1>1 DEF Job, Banning, OfPost, OfReply, Counter
  <2>4. BanPosts(job[w].kind, job[w].of) \in Transaction
    <3>1. \A S : Removal(Live(By(job[w].of, Post)), S) \in Transaction
      BY <2>1, GoneRight
    <3>2. \A t \in Transaction, S \in SUBSET Counter : [t EXCEPT !.sets = S] \in Transaction
      BY DEF Transaction
    <3> QED  BY <2>3, <3>1, <3>2 DEF BanPosts
  <2> QED  BY <1>1, <2>2, <2>4 DEF Due, Banning
<1>2. CASE job[w].kind = "purge_content"
  <2>1. {o \in By(job[w].of, Object) : status[o] # "absent"} \subseteq Object /\ Zero \in Delta
    BY DEF By, Zero, Delta
  <2>2. PurgeContent(job[w].of) \in Transaction
    BY <2>1 DEF PurgeContent, Tx, Transaction
  <2> QED  BY <1>2, <2>2 DEF Due
<1>3. CASE job[w].kind = "stats"
  <2>1. CountAgain \in Transaction
    <3>1. \A t \in Transaction, S \in SUBSET Counter, f \in Delta :
            [t EXCEPT !.sets = S, !.value = f] \in Transaction
      BY DEF Transaction
    <3>2. [c \in Counter |-> Actual(c)] \in Delta /\ OfCommunity \subseteq Counter
      BY ActualRight DEF Delta, Counter
    <3> QED  BY <3>1, <3>2, NothingRight DEF CountAgain
  <2> QED  BY <1>3, <2>1 DEF Due
<1>4. CASE job[w].kind \notin Banning \cup {"purge_content", "stats"}
  <2>1. Due(w) = Head(left[w])
    BY <1>4 DEF Due, Banning
  <2> QED  BY <1>0, <2>1
<1> QED  BY <1>1, <1>2, <1>3, <1>4

\* All that a worker has is its own.
Preserved(w) ==
  \A v \in Worker : v # w => job'[v] = job[v] /\ left'[v] = left[v] /\ tx'[v] = tx[v]
TypedJobs ==
  /\ job \in [Worker -> Job]
  /\ left \in [Worker -> Seq(Transaction)]
  /\ tx \in [Worker -> Transaction]
  /\ \A w \in Worker : (Idle(w) <=> left[w] = <<>>) /\ (tx[w].read => ~Idle(w))

LEMMA JobsTyped == ContentTypeOK => TypedJobs
  BY DEF ContentTypeOK, TypedJobs

LEMMA NoJobRight == NoJob \in Job /\ ~OnObjects(NoJob) /\ NoJob.kind = "none"
  BY DEF NoJob, Job, OnObjects, OfPost, OfReply

\* A worker that starts.
LEMMA StartFrame ==
  ASSUME TypedJobs, NEW w \in Worker, NEW j, Starts(w, j)
  PROVE  /\ Preserved(w) /\ job'[w] = j /\ left'[w] = Program(j) /\ tx'[w] = tx[w] /\ ~tx[w].read
         /\ TypedJobs' /\ ~Idle(w)' /\ ~HalfWay(w)' /\ ~HalfWay(w)
<1>1. /\ Preserved(w) /\ job'[w] = j /\ left'[w] = Program(j) /\ tx'[w] = tx[w] /\ ~tx[w].read
      /\ j \in Job /\ j # NoJob /\ Idle(w)
  BY DEF Starts, TypedJobs, Preserved
<1>2. Program(j) \in Seq(Transaction) /\ Len(Program(j)) \in Nat \ {0} /\ Program(j) # <<>>
  BY <1>1, AnyProgram
<1>3. TypedJobs'
  BY <1>1, <1>2 DEF Starts, TypedJobs, Idle, Preserved
<1>4. ~Idle(w)' /\ ~HalfWay(w)' /\ ~HalfWay(w)
  BY <1>1, <1>2 DEF Idle, HalfWay
<1> QED  BY <1>1, <1>3, <1>4

LEMMA EndFrame ==
  ASSUME TypedJobs, NEW w \in Worker, End(w)
  PROVE  /\ Preserved(w) /\ job'[w] = NoJob /\ left'[w] = <<>> /\ tx'[w] = Nothing
         /\ TypedJobs' /\ Idle(w)' /\ ~HalfWay(w)'
<1>1. Preserved(w) /\ job'[w] = NoJob /\ left'[w] = <<>> /\ tx'[w] = Nothing
  BY DEF End, TypedJobs, Preserved
<1>2. TypedJobs'
  BY <1>1, NoJobRight, NothingRight DEF End, TypedJobs, Idle, Preserved
<1> QED  BY <1>1, <1>2 DEF Idle, HalfWay

\* What a worker reads.
LEMMA ReadFrame ==
  ASSUME ContentTypeOK, Tails, NEW w \in Worker, ReadObjects(w)
  PROVE  /\ Preserved(w) /\ job'[w] = job[w] /\ left'[w] = left[w] /\ ~Idle(w)
         /\ tx'[w] = Copies(w, Due(w))
         /\ tx'[w] \in Transaction /\ Same(tx'[w], Due(w)) /\ tx'[w].read
         /\ tx'[w].copy = Copied(Due(w))
         /\ TypedJobs'
         /\ fresh' = IF Due(w).sets = {} THEN fresh ELSE fresh \cup {w}
         /\ UNCHANGED <<status, count, job, left, active, requests, aborts, tainted>>
<1>1. /\ ~Idle(w)
      /\ tx' = [tx EXCEPT ![w] = Copies(w, Due(w))]
      /\ fresh' = IF Due(w).sets = {} THEN fresh ELSE fresh \cup {w}
      /\ UNCHANGED <<status, count, job, left, active, requests, aborts, tainted>>
  BY DEF ReadObjects, Copies
<1>2. Due(w) \in Transaction
  BY <1>1, DueRight
<1>3. Copied(Due(w)) \in Delta /\ AsRead(w, Due(w)) \in SUBSET Object
  BY <1>2 DEF Copied, AsRead, Transaction, Delta, ContentTypeOK
<1>4. tx'[w] = Copies(w, Due(w))
      /\ Preserved(w)
  BY <1>1 DEF ContentTypeOK, Preserved
<1>5. tx'[w] \in Transaction /\ Same(tx'[w], Due(w)) /\ tx'[w].read
      /\ tx'[w].copy = Copied(Due(w))
  <2>1. Copies(w, Due(w)) = Filled(Due(w), Copied(Due(w)), AsRead(w, Due(w)))
    BY DEF Copies, Filled
  <2> QED  BY <1>2, <1>3, <1>4, <2>1, FilledRight
<1>6. TypedJobs'
  BY <1>1, <1>4, <1>5 DEF ContentTypeOK, TypedJobs, Idle, Preserved
<1> QED  BY <1>1, <1>4, <1>5, <1>6

\* A transaction is done, and there are others.
GoesOn(w) ==
  /\ left' = [left EXCEPT ![w] = Tail(@)]
  /\ tx' = [tx EXCEPT ![w] = Nothing]
  /\ UNCHANGED job
LEMMA TailRight ==
  ASSUME NEW S, NEW s \in Seq(S), s # <<>>, Len(s) # 1
  PROVE  /\ Tail(s) \in Seq(S) /\ Tail(s) # <<>> /\ Len(Tail(s)) = Len(s) - 1
         /\ \A i \in 1 .. Len(s) - 1 : Tail(s)[i] = s[i + 1]
<1>1. Len(s) \in Nat /\ Len(s) # 0
  BY EmptySeq
<1>2. Tail(s) \in Seq(S) /\ Len(Tail(s)) = Len(s) - 1
      /\ \A i \in 1 .. Len(s) - 1 : Tail(s)[i] = s[i + 1]
  BY HeadTailProperties
<1> QED  BY <1>1, <1>2, EmptySeq

LEMMA GoesOnFrame ==
  ASSUME TypedJobs, NEW w \in Worker, ~Idle(w), Len(left[w]) # 1, GoesOn(w)
  PROVE  /\ Preserved(w) /\ job'[w] = job[w] /\ left'[w] = Tail(left[w]) /\ tx'[w] = Nothing
         /\ left[w] \in Seq(Transaction) /\ left[w] # <<>>
         /\ TypedJobs'
<1>1. left[w] \in Seq(Transaction) /\ left[w] # <<>>
  BY DEF TypedJobs
<1>2. Tail(left[w]) \in Seq(Transaction) /\ Tail(left[w]) # <<>>
  BY <1>1, TailRight
<1>3. Preserved(w) /\ job'[w] = job[w] /\ left'[w] = Tail(left[w]) /\ tx'[w] = Nothing
  BY DEF GoesOn, TypedJobs, Preserved
<1>4. TypedJobs'
  BY <1>2, <1>3, NothingRight DEF GoesOn, TypedJobs, Idle, Preserved
<1> QED  BY <1>1, <1>3, <1>4

LEMMA CommitFrame ==
  ASSUME TypedJobs, NEW w \in Worker, Commit(w)
  PROVE  /\ tx[w].read /\ ~Idle(w) /\ left[w] \in Seq(Transaction) /\ left[w] # <<>>
         /\ TypedJobs' /\ Preserved(w) /\ tx'[w] = Nothing
         /\ \/ Len(left[w]) = 1 /\ job'[w] = NoJob /\ left'[w] = <<>>
            \/ Len(left[w]) # 1 /\ job'[w] = job[w] /\ left'[w] = Tail(left[w])
<1>1. tx[w].read /\ ~Idle(w) /\ left[w] \in Seq(Transaction) /\ left[w] # <<>>
  BY DEF Commit, TypedJobs
<1>2. CASE Len(left[w]) = 1
  <2>1. End(w)
    BY <1>2 DEF Commit
  <2> QED  BY <1>1, <1>2, <2>1, EndFrame
<1>3. CASE Len(left[w]) # 1
  <2>1. GoesOn(w)
    BY <1>3 DEF Commit, GoesOn
  <2> QED  BY <1>1, <1>3, <2>1, GoesOnFrame
<1> QED  BY <1>2, <1>3

Ends(w) == FindsNothing(w) \/ Conflict(w) \/ Abort(w) \/ EditRaises(w)

LEMMA Steps ==
  ASSUME ContentTypeOK, [ContentNext]_contentVars
  PROVE  \/ UNCHANGED <<status, count, job, left, tx, requests, aborts, tainted, fresh>>
              /\ (active' = active \/ active' = FALSE)
         \/ \E w \in Worker : \/ \E j : Starts(w, j)
                              \/ ReadObjects(w) \/ Ends(w) \/ Commit(w)
<1>1. CASE ContentNext
  <2>1. CASE Quieten
    BY <2>1 DEF Quieten
  <2>2. CASE ~Quieten
    <3>1. PICK w \in Worker :
            \/ \E p \in Post : BeginPost(w, p)
            \/ \E r \in Reply : BeginReply(w, r)
            \/ \E u \in User : BeginForUser(w, u)
            \/ BeginStats(w) \/ Proceed(w) \/ Abort(w) \/ EditRaises(w)
      BY <1>1, <2>2 DEF ContentNext
    <3>2. \/ \E j : Starts(w, j)
          \/ ReadObjects(w) \/ Ends(w) \/ Commit(w)
      BY <3>1, PostStarts, ReplyStarts, UserStarts, StatsStarts DEF Proceed, Ends
    <3> QED  BY <3>2
  <2> QED  BY <2>1, <2>2
<1>2. CASE UNCHANGED contentVars
  BY <1>2 DEF contentVars
<1> QED  BY <1>1, <1>2

LEMMA EndsFrame ==
  ASSUME ContentTypeOK, NEW w \in Worker, Ends(w)
  PROVE  /\ End(w) /\ TypedJobs' /\ Preserved(w) /\ job'[w] = NoJob /\ left'[w] = <<>>
         /\ tx'[w] = Nothing /\ Idle(w)' /\ ~HalfWay(w)'
         /\ count' = count /\ active' = active /\ requests' = requests
         /\ aborts' \in 0 .. MaxAborts
<1>1. End(w) /\ count' = count /\ active' = active /\ requests' = requests
  BY DEF Ends, FindsNothing, Conflict, Abort, EditRaises
<1>2. aborts' \in 0 .. MaxAborts
  BY ContentAssumption DEF ContentTypeOK, Ends, FindsNothing, Conflict, Abort, EditRaises
<1> QED  BY <1>1, <1>2, EndFrame, JobsTyped

LEMMA StoredType ==
  ASSUME ContentTypeOK, NEW t \in Transaction, NEW c \in Counter
  PROVE  Stored(t, c) \in Int
<1>1. t.value[c] \in Int /\ t.sql[c] \in Int /\ t.orm[c] \in Int /\ t.copy[c] \in Int
      /\ count[c] \in Int
  BY DEF ContentTypeOK, Transaction, Delta
<1> QED  BY <1>1 DEF Stored

LEMMA TouchesType ==
  ASSUME ContentTypeOK
  PROVE  /\ \A t : Touches(t) \subseteq Counter
         /\ \A w : StillToCount(w) \subseteq Counter
  BY DEF Touches, StillToCount

LEMMA UnevenType ==
  ASSUME NEW j \in Job PROVE Uneven(j) \subseteq Counter
<1>1. Comments \in Counter /\ OfCommunity \subseteq Counter
  BY DEF Counter, OfCommunity
<1>2. j.kind \in OfUser => PostsBy(j.of) \in Counter /\ CommentsBy(j.of) \in Counter
  BY DEF Job, OfUser, OfPost, OfReply, Counter
<1>3. \A r \in Reply : OnPost(r) \cup Parents(r) \subseteq Counter
  BY Tags DEF Object
<1>4. j.kind \in {"site_ban", "purge_content"} => j.kind \in OfUser
  BY DEF OfUser
<1> QED  BY <1>1, <1>2, <1>3, <1>4 DEF Uneven, By

LEMMA TypeInit == ContentInit => ContentTypeOK
<1> SUFFICES ASSUME ContentInit PROVE ContentTypeOK
  OBVIOUS
<1>1. count \in Delta
  BY ActualRight DEF ContentInit, Delta
<1>2. <<>> \in Seq(Transaction)
  BY EmptySeq
<1>3. job \in [Worker -> Job] /\ tx \in [Worker -> Transaction]
      /\ left \in [Worker -> Seq(Transaction)]
  BY <1>2, NothingRight, NoJobRight DEF ContentInit
<1>4. \A w \in Worker : (Idle(w) <=> left[w] = <<>>) /\ (tx[w].read => ~Idle(w))
  BY NothingRight DEF ContentInit, Idle
<1> QED  BY <1>1, <1>3, <1>4, ContentAssumption DEF ContentInit, ContentTypeOK

LEMMA CommitTaints ==
  ASSUME ContentTypeOK, NEW w \in Worker, Commit(w)
  PROVE  tainted' \subseteq Counter
<1>1. tx[w].sets \subseteq Counter /\ Uneven(job[w]) \subseteq Counter
  BY UnevenType DEF ContentTypeOK, Transaction
<1>2. Written(tx[w]) \subseteq Counter /\ Stale(tx[w]) \subseteq Counter
  BY <1>1 DEF Written, Stale
<1> QED  BY <1>1, <1>2, TouchesType DEF ContentTypeOK, Commit

LEMMA TypeNext == ContentTypeOK /\ Tails /\ [ContentNext]_contentVars => ContentTypeOK'
<1> SUFFICES ASSUME ContentTypeOK, Tails, [ContentNext]_contentVars PROVE ContentTypeOK'
  OBVIOUS
<1>1. CASE UNCHANGED <<status, count, job, left, tx, requests, aborts, tainted, fresh>>
              /\ (active' = active \/ active' = FALSE)
  BY <1>1 DEF ContentTypeOK, Idle
<1>2. ASSUME NEW w \in Worker, NEW j, Starts(w, j) PROVE ContentTypeOK'
  <2>1. TypedJobs'
    BY <1>2, StartFrame, JobsTyped
  <2> QED  BY <1>2, <2>1 DEF Starts, ContentTypeOK, TypedJobs
<1>3. ASSUME NEW w \in Worker, ReadObjects(w) PROVE ContentTypeOK'
  <2>1. TypedJobs' /\ UNCHANGED <<status, count, job, left, active, requests, aborts, tainted>>
        /\ fresh' = IF Due(w).sets = {} THEN fresh ELSE fresh \cup {w}
    BY <1>3, ReadFrame
  <2> QED  BY <2>1 DEF ContentTypeOK, TypedJobs
<1>4. ASSUME NEW w \in Worker, Ends(w) PROVE ContentTypeOK'
  <2>1. /\ TypedJobs' /\ count' = count /\ active' = active /\ requests' = requests
        /\ aborts' \in 0 .. MaxAborts
    BY <1>4, EndsFrame
  <2>2. fresh' \subseteq Worker
    BY <1>4 DEF Ends, FindsNothing, Conflict, Abort, EditRaises, ContentTypeOK
  <2>3. status' \in [Object -> {"absent", "live", "deleted"}]
    BY <1>4 DEF Ends, FindsNothing, Conflict, Abort, EditRaises, ContentTypeOK
  <2>4. tainted' \subseteq Counter
    <3>1. CASE FindsNothing(w) \/ Conflict(w)
      BY <3>1 DEF FindsNothing, Conflict, ContentTypeOK
    <3>2. CASE Abort(w)
      BY <3>2, TouchesType DEF Abort, ContentTypeOK
    <3>3. CASE EditRaises(w)
      <4>1. job[w].of \in Object
        BY <3>3, Jobs DEF EditRaises, ContentTypeOK, OnObjects, OfPost
      <4> QED  BY <3>3, <4>1, Tags DEF EditRaises, ContentTypeOK
    <3> QED  BY <1>4, <3>1, <3>2, <3>3 DEF Ends
  <2> QED  BY <2>1, <2>2, <2>3, <2>4 DEF ContentTypeOK, TypedJobs
<1>5. ASSUME NEW w \in Worker, Commit(w) PROVE ContentTypeOK'
  <2>1. TypedJobs' /\ tx[w] \in Transaction
    BY <1>5, CommitFrame, JobsTyped DEF ContentTypeOK
  <2>2. count' \in Delta
    BY <1>5, <2>1, StoredType DEF Commit, Delta
  <2>3. status' \in [Object -> {"absent", "live", "deleted"}]
    BY <1>5, <2>1 DEF Commit, ContentTypeOK, Transaction
  <2>4. active' \in BOOLEAN /\ fresh' \subseteq Worker /\ UNCHANGED <<requests, aborts>>
    BY <1>5 DEF Commit, ContentTypeOK, Creating
  <2> QED  BY <1>5, <2>1, <2>2, <2>3, <2>4, CommitTaints DEF ContentTypeOK, TypedJobs
<1> QED  BY <1>1, <1>2, <1>3, <1>4, <1>5, Steps

LEMMA TailsNext == ContentTypeOK /\ Tails /\ [ContentNext]_contentVars => Tails'
<1> SUFFICES ASSUME ContentTypeOK, Tails, [ContentNext]_contentVars, NEW v \in Worker, ~Idle(v)'
             PROVE  LET p == Program(job'[v])
                        d == Len(p) - Len(left'[v])
                    IN d \in Nat /\ \A i \in DOMAIN left'[v] : left'[v][i] = p[d + i]
  BY DEF Tails
<1> DEFINE Good(j, l) == LET p == Program(j)
                             d == Len(p) - Len(l)
                         IN d \in Nat /\ \A i \in DOMAIN l : l[i] = p[d + i]
<1>0. \A u \in Worker : ~Idle(u) => Good(job[u], left[u])
  BY DEF Tails
<1>a. ASSUME job'[v] = job[v], left'[v] = left[v] PROVE Good(job'[v], left'[v])
  BY <1>a, <1>0 DEF Idle
<1>1. CASE UNCHANGED <<status, count, job, left, tx, requests, aborts, tainted, fresh>>
  BY <1>1, <1>a
<1>2. ASSUME NEW w \in Worker, NEW j, Starts(w, j) PROVE Good(job'[v], left'[v])
  <2>1. Preserved(w) /\ job'[w] = j /\ left'[w] = Program(j)
    BY <1>2, StartFrame, JobsTyped
  <2>2. Program(j) \in Seq(Transaction) /\ Len(Program(j)) \in Nat
    BY <1>2, AnyProgram DEF Starts
  <2>3. Good(j, Program(j))
    <3>1. \A n \in Nat : n - n = 0 /\ 0 \in Nat
      OBVIOUS
    <3>2. DOMAIN Program(j) \subseteq Nat
      BY <2>2
    <3>3. \A i \in Nat : 0 + i = i
      OBVIOUS
    <3>4. Len(Program(j)) - Len(Program(j)) = 0
      BY <2>2, <3>1
    <3>5. \A i \in DOMAIN Program(j) : 0 + i = i
      BY <3>2, <3>3
    <3> QED  BY <3>1, <2>2, <3>4, <3>5
  <2>4. CASE v = w
    BY <2>1, <2>3, <2>4
  <2>5. v # w => job'[v] = job[v] /\ left'[v] = left[v]
    BY <2>1 DEF Preserved
  <2> QED  BY <2>4, <2>5, <1>a
<1>3. ASSUME NEW w \in Worker, ReadObjects(w) PROVE Good(job'[v], left'[v])
  BY <1>3, ReadFrame, <1>a
<1>4. ASSUME NEW w \in Worker, Ends(w) PROVE Good(job'[v], left'[v])
  <2>1. Preserved(w) /\ Idle(w)'
    BY <1>4, EndsFrame
  <2>2. v # w
    BY <2>1
  <2> QED  BY <2>1, <2>2, <1>a DEF Preserved
<1>5. ASSUME NEW w \in Worker, Commit(w) PROVE Good(job'[v], left'[v])
  <2>1. CASE v # w
    BY <1>5, <2>1, CommitFrame, JobsTyped, <1>a DEF Preserved
  <2>2. CASE v = w
    <3>1. /\ ~Idle(w) /\ left[w] \in Seq(Transaction) /\ left[w] # <<>> /\ Len(left[w]) # 1
          /\ job'[w] = job[w] /\ left'[w] = Tail(left[w])
      BY <1>5, <2>2, CommitFrame, JobsTyped DEF Idle
    <3>2. /\ Tail(left[w]) \in Seq(Transaction) /\ Len(Tail(left[w])) = Len(left[w]) - 1
          /\ \A i \in 1 .. Len(left[w]) - 1 : Tail(left[w])[i] = left[w][i + 1]
      BY <3>1, TailRight
    <3>3. Good(job[w], left[w]) /\ Len(Program(job[w])) \in Nat
      BY <3>1, <1>0, AnyProgram DEF ContentTypeOK
    <3> DEFINE p == Program(job[w])
               l == left[w]
               m == Tail(left[w])
               d == Len(p) - Len(l)
    <3>4. d \in Nat /\ \A i \in DOMAIN l : l[i] = p[d + i]
      BY <3>3
    <3>5. /\ DOMAIN l = 1 .. Len(l) /\ Len(l) \in Nat /\ DOMAIN m = 1 .. Len(m)
          /\ Len(m) = Len(l) - 1 /\ Len(p) \in Nat
          /\ \A i \in 1 .. Len(l) - 1 : m[i] = l[i + 1]
      BY <3>1, <3>2, <3>3
    <3> HIDE DEF p, l, m
    <3>6. Len(p) - Len(m) = d + 1 /\ d + 1 \in Nat
      BY <3>4, <3>5
    <3>7. ASSUME NEW i \in DOMAIN m PROVE m[i] = p[(d + 1) + i]
      <4>1. i \in 1 .. Len(l) - 1 /\ i + 1 \in 1 .. Len(l)
        BY <3>5
      <4>2. d + (i + 1) = (d + 1) + i
        BY <3>4, <4>1
      <4>3. m[i] = l[i + 1] /\ i + 1 \in DOMAIN l
        BY <3>5, <4>1
      <4>4. l[i + 1] = p[d + (i + 1)]
        BY <3>4, <4>3
      <4> QED  BY <4>2, <4>3, <4>4
    <3>8. Good(job[w], m)
      BY <3>6, <3>7 DEF p
    <3> QED  BY <2>2, <3>1, <3>8 DEF m
  <2> QED  BY <2>1, <2>2
<1> QED  BY <1>1, <1>2, <1>3, <1>4, <1>5, Steps

LEMMA SameAs ==
  ASSUME NEW s, NEW t, NEW u, Same(t, s), Same(s, u)
  PROVE  Same(t, u) /\ t.rows = s.rows /\ t.sets = s.sets /\ t.value = s.value
  BY DEF Same

\* What is read is what the operation is due to do.
LEMMA ReadsRight ==
  ASSUME ContentTypeOK, Tails, NEW w \in Worker, ReadObjects(w)
  PROVE  ReadRight(w)'
<1>1. /\ job'[w] = job[w] /\ left'[w] = left[w] /\ Same(tx'[w], Due(w)) /\ ~Idle(w)
      /\ tx'[w] \in Transaction
  BY ReadFrame
<1>2. job[w] \in Job /\ left[w] \in Seq(Transaction) /\ left[w] # <<>>
  BY <1>1 DEF ContentTypeOK
<1>3. ASSUME OnObjects(job[w]) PROVE Same(tx'[w], Head(left[w]))
  <2>1. Due(w) = Head(left[w])
    BY <1>3 DEF Due, OnObjects, OfPost, OfReply
  <2> QED  BY <1>1, <2>1
<1>4. ASSUME job[w].kind \in Banning, Len(left[w]) = 2
      PROVE  /\ tx'[w].rows \subseteq By(job[w].of, Reply)
             /\ Same(tx'[w], Replies(job[w].kind, job[w].of, tx'[w].rows))
  <2>1. Due(w) = BanReplies(job[w].kind, job[w].of)
    BY <1>4 DEF Due, Banning
  <2> DEFINE R == Live(By(job[w].of, Reply))
  <2>2. Due(w) = Replies(job[w].kind, job[w].of, R) /\ R \subseteq By(job[w].of, Reply)
    BY <2>1 DEF BanReplies, Replies, Live
  <2>3. R \subseteq Object
    BY <2>2 DEF By, Object
  <2> HIDE DEF R
  <2>4. Replies(job[w].kind, job[w].of, R).rows = R
    BY <2>3, GoneRight DEF Replies
  <2>5. tx'[w].rows = R
    BY <1>1, <2>2, <2>4 DEF Same
  <2> QED  BY <1>1, <2>2, <2>5
<1>5. ASSUME job[w].kind \in Banning, Len(left[w]) = 1
      PROVE  /\ tx'[w].rows \subseteq By(job[w].of, Post)
             /\ Same(tx'[w], PostsGone(job[w].kind, job[w].of, tx'[w].rows))
  <2>1. Due(w) = BanPosts(job[w].kind, job[w].of)
    BY <1>5 DEF Due, Banning
  <2> DEFINE R == Live(By(job[w].of, Post))
  <2>2. Due(w) = PostsGone(job[w].kind, job[w].of, R) /\ R \subseteq By(job[w].of, Post)
    BY <2>1 DEF BanPosts, PostsGone, Live
  <2>3. R \subseteq Object
    BY <2>2 DEF By, Object
  <2> HIDE DEF R
  <2>4. PostsGone(job[w].kind, job[w].of, R).rows = R
    <3>1. \A S : Removal(R, S) \in Transaction /\ Removal(R, S).rows = R
      BY <2>3, GoneRight
    <3>2. \A t \in Transaction : \A S : [t EXCEPT !.sets = S].rows = t.rows
      BY DEF Transaction
    <3> QED  BY <3>1, <3>2 DEF PostsGone
  <2>5. tx'[w].rows = R
    BY <1>1, <2>2, <2>4 DEF Same
  <2> QED  BY <1>1, <2>2, <2>5
<1>6. ASSUME job[w].kind = "purge_content"
      PROVE  /\ tx'[w].rows \subseteq By(job[w].of, Object)
             /\ Same(tx'[w], Tx(tx'[w].rows, "deleted", Zero, Zero))
  <2> DEFINE R == {o \in By(job[w].of, Object) : status[o] # "absent"}
  <2>1. Due(w) = Tx(R, "deleted", Zero, Zero) /\ R \subseteq By(job[w].of, Object)
    BY <1>6 DEF Due, PurgeContent
  <2> HIDE DEF R
  <2>2. tx'[w].rows = R
    BY <1>1, <2>1 DEF Same, Tx
  <2> QED  BY <1>1, <2>1, <2>2
<1>7. ASSUME job[w].kind = "stats"
      PROVE  Same(tx'[w], [Nothing EXCEPT !.sets = OfCommunity, !.value = tx'[w].value])
  <2>1. Due(w) = CountAgain
    BY <1>7 DEF Due
  <2> DEFINE f == [c \in Counter |-> Actual(c)]
  <2>2. Due(w) = [Nothing EXCEPT !.sets = OfCommunity, !.value = f]
    BY <2>1 DEF CountAgain
  <2> HIDE DEF f
  <2>3. [Nothing EXCEPT !.sets = OfCommunity, !.value = f].value = f
    BY NothingRight DEF Transaction
  <2>4. tx'[w].value = f
    BY <1>1, <2>2, <2>3 DEF Same
  <2> QED  BY <1>1, <2>2, <2>4
<1> QED  BY <1>1, <1>3, <1>4, <1>5, <1>6, <1>7 DEF ReadRight

LEMMA ReadNext == ContentTypeOK /\ Tails /\ AllRead /\ [ContentNext]_contentVars => AllRead'
<1> SUFFICES ASSUME ContentTypeOK, Tails, AllRead, [ContentNext]_contentVars, NEW v \in Worker, tx'[v].read
             PROVE  ReadRight(v)'
  BY DEF AllRead
<1>a. ASSUME job'[v] = job[v], left'[v] = left[v], tx'[v] = tx[v] PROVE ReadRight(v)'
  BY <1>a DEF ReadRight, AllRead
<1>1. CASE UNCHANGED <<status, count, job, left, tx, requests, aborts, tainted, fresh>>
  BY <1>1, <1>a
<1>2. ASSUME NEW w \in Worker, NEW j, Starts(w, j) PROVE ReadRight(v)'
  BY <1>2, StartFrame, JobsTyped, <1>a DEF Preserved
<1>3. ASSUME NEW w \in Worker, ReadObjects(w) PROVE ReadRight(v)'
  BY <1>3, ReadFrame, ReadsRight, <1>a DEF Preserved
<1>4. ASSUME NEW w \in Worker, Ends(w) PROVE ReadRight(v)'
  BY <1>4, EndsFrame, NothingRight, <1>a DEF Preserved
<1>5. ASSUME NEW w \in Worker, Commit(w) PROVE ReadRight(v)'
  BY <1>5, CommitFrame, JobsTyped, NothingRight, <1>a DEF Preserved
<1> QED  BY <1>1, <1>2, <1>3, <1>4, <1>5, Steps

-----------------------------------------------------------------------------
(***************************************************************************)
(* What else stays true: where authors live, what is fresh, what is        *)
(* tainted.                                                                *)
(***************************************************************************)
LEMMA HomesNext == ContentTypeOK /\ Homes /\ [ContentNext]_contentVars => Homes'
<1> SUFFICES ASSUME ContentTypeOK, Homes, [ContentNext]_contentVars, NEW v \in Worker PROVE Home(job'[v])
  BY DEF Homes, Home
<1>a. ASSUME job'[v] = job[v] PROVE Home(job'[v])
  BY <1>a DEF Homes, Home
<1>b. Home(NoJob)
  BY DEF Home, NoJob
<1>1. CASE UNCHANGED <<status, count, job, left, tx, requests, aborts, tainted, fresh>>
  BY <1>1, <1>a
<1>2. ASSUME NEW w \in Worker, NEW j, Starts(w, j) PROVE Home(job'[v])
  <2>1. Preserved(w) /\ job'[w] = j /\ Home(j)
    BY <1>2, StartFrame, JobsTyped DEF Starts
  <2> QED  BY <2>1, <1>a DEF Preserved
<1>3. ASSUME NEW w \in Worker, ReadObjects(w) PROVE Home(job'[v])
  BY <1>3, <1>a DEF ReadObjects
<1>4. ASSUME NEW w \in Worker, Ends(w) PROVE Home(job'[v])
  <2>1. Preserved(w) /\ job'[w] = NoJob
    BY <1>4, EndsFrame
  <2> QED  BY <2>1, <1>a, <1>b DEF Preserved
<1>5. ASSUME NEW w \in Worker, Commit(w) PROVE Home(job'[v])
  <2>1. Preserved(w) /\ (job'[w] = NoJob \/ job'[w] = job[w])
    BY <1>5, CommitFrame, JobsTyped
  <2> QED  BY <2>1, <1>a, <1>b DEF Preserved
<1> QED  BY <1>1, <1>2, <1>3, <1>4, <1>5, Steps

LEMMA BusyNext == ContentTypeOK /\ Tails /\ IsFiniteSet(Busy) /\ [ContentNext]_contentVars => IsFiniteSet(Busy)'
<1> SUFFICES ASSUME ContentTypeOK, Tails, IsFiniteSet(Busy), [ContentNext]_contentVars PROVE IsFiniteSet(Busy')
  OBVIOUS
<1>a. ASSUME NEW w \in Worker, Preserved(w) PROVE IsFiniteSet(Busy')
  <2>1. Busy' \subseteq Busy \cup {w}
    BY <1>a DEF Busy, Preserved, Idle
  <2>2. IsFiniteSet(Busy \cup {w})
    BY FS_AddElement
  <2> QED  BY <2>1, <2>2, FS_Subset
<1>1. CASE UNCHANGED <<status, count, job, left, tx, requests, aborts, tainted, fresh>>
  <2>1. Busy' = Busy
    BY <1>1 DEF Busy, Idle
  <2> QED  BY <2>1
<1>2. ASSUME NEW w \in Worker, NEW j, Starts(w, j) PROVE IsFiniteSet(Busy')
  BY <1>2, StartFrame, JobsTyped, <1>a
<1>3. ASSUME NEW w \in Worker, ReadObjects(w) PROVE IsFiniteSet(Busy')
  BY <1>3, ReadFrame, <1>a
<1>4. ASSUME NEW w \in Worker, Ends(w) PROVE IsFiniteSet(Busy')
  BY <1>4, EndsFrame, <1>a
<1>5. ASSUME NEW w \in Worker, Commit(w) PROVE IsFiniteSet(Busy')
  BY <1>5, CommitFrame, JobsTyped, <1>a
<1> QED  BY <1>1, <1>2, <1>3, <1>4, <1>5, Steps

\* Only a commit that nobody can have disturbed clears a counter, and not while
\* another operation is half way.
LEMMA TaintsKept ==
  ASSUME ContentTypeOK, NEW w \in Worker, Commit(w)
  PROVE  /\ Uneven(job[w]) \subseteq tainted' /\ Stale(tx[w]) \subseteq tainted'
         /\ tainted \ tx[w].sets \subseteq tainted'
         /\ Again(tx[w]) => Touches(tx[w]) \subseteq tainted' /\ StillToCount(w) \subseteq tainted'
         /\ ~Undisturbed(w) => tainted \subseteq tainted' /\ Written(tx[w]) \subseteq tainted'
         /\ \A v \in Worker : v # w /\ HalfWay(v) => tainted \subseteq tainted'
<1>1. tainted' =
       (IF Undisturbed(w) THEN tainted \ tx[w].sets ELSE tainted \cup Written(tx[w]))
         \cup Stale(tx[w]) \cup Uneven(job[w])
         \cup (IF Again(tx[w]) THEN Touches(tx[w]) \cup StillToCount(w) ELSE {})
  BY DEF Commit
<1>2. \A v \in Worker : v # w /\ HalfWay(v) => ~Undisturbed(w)
  BY DEF Undisturbed
<1> QED  BY <1>1, <1>2

LEMMA TaintedGrows ==
  ASSUME NEW w \in Worker, Ends(w)
  PROVE  tainted \subseteq tainted'
  BY DEF Ends, FindsNothing, Conflict, Abort, EditRaises

LEMMA UnevenNext == ContentTypeOK /\ Tails /\ UnevenTainted /\ [ContentNext]_contentVars => UnevenTainted'
<1> SUFFICES ASSUME ContentTypeOK, Tails, UnevenTainted, [ContentNext]_contentVars, NEW v \in Worker, HalfWay(v)'
             PROVE  Uneven(job'[v]) \subseteq tainted'
  BY DEF UnevenTainted, Uneven
<1>a. ASSUME job'[v] = job[v], left'[v] = left[v]
      PROVE  HalfWay(v) /\ Uneven(job'[v]) \subseteq tainted
  BY <1>a DEF UnevenTainted, HalfWay, Idle
<1>1. CASE UNCHANGED <<status, count, job, left, tx, requests, aborts, tainted, fresh>>
  BY <1>1, <1>a
<1>2. ASSUME NEW w \in Worker, NEW j, Starts(w, j) PROVE Uneven(job'[v]) \subseteq tainted'
  <2>1. Preserved(w) /\ ~HalfWay(w)' /\ tainted' = tainted
    BY <1>2, StartFrame, JobsTyped DEF Starts
  <2>2. v # w
    BY <2>1
  <2> QED  BY <2>1, <2>2, <1>a DEF Preserved
<1>3. ASSUME NEW w \in Worker, ReadObjects(w) PROVE Uneven(job'[v]) \subseteq tainted'
  BY <1>3, <1>a DEF ReadObjects
<1>4. ASSUME NEW w \in Worker, Ends(w) PROVE Uneven(job'[v]) \subseteq tainted'
  <2>1. Preserved(w) /\ ~HalfWay(w)'
    BY <1>4, EndsFrame
  <2>2. v # w
    BY <2>1
  <2>3. tainted \subseteq tainted'
    BY <1>4, TaintedGrows
  <2> QED  BY <2>1, <2>2, <2>3, <1>a DEF Preserved
<1>5. ASSUME NEW w \in Worker, Commit(w) PROVE Uneven(job'[v]) \subseteq tainted'
  <2>1. /\ Preserved(w) /\ (job'[w] = NoJob \/ job'[w] = job[w])
    BY <1>5, CommitFrame, JobsTyped
  <2>2. CASE v = w
    <3>1. job'[w] = job[w]
      BY <2>1, <2>2 DEF HalfWay, Idle
    <3> QED  BY <1>5, <2>2, <3>1, TaintsKept
  <2>3. CASE v # w
    <3>1. HalfWay(v) /\ Uneven(job'[v]) \subseteq tainted
      BY <2>1, <2>3, <1>a DEF Preserved
    <3>2. tainted \subseteq tainted'
      BY <1>5, <2>3, <3>1, TaintsKept
    <3> QED  BY <3>1, <3>2
  <2> QED  BY <2>2, <2>3
<1> QED  BY <1>1, <1>2, <1>3, <1>4, <1>5, Steps

\* A ban has two transactions, and only the second resets a counter.
LEMMA LeftRight ==
  ASSUME ContentTypeOK, Tails, NEW w \in Worker, ~Idle(w)
  PROVE  /\ Len(left[w]) \in Nat \ {0} /\ Len(left[w]) <= Len(Program(job[w]))
         /\ Len(Program(job[w])) \in Nat
         /\ ~OnObjects(job[w]) => Len(Program(job[w])) = IF job[w].kind \in Banning THEN 2 ELSE 1
         /\ job[w].kind \in Banning => ~OnObjects(job[w]) /\ Len(left[w]) \in {1, 2}
<1>1. job[w] \in Job /\ left[w] \in Seq(Transaction) /\ left[w] # <<>>
  BY DEF ContentTypeOK
<1>2. Len(left[w]) \in Nat \ {0} /\ Len(Program(job[w])) \in Nat
  BY <1>1, AnyProgram, EmptySeq
<1>3. Len(left[w]) <= Len(Program(job[w]))
  <2>1. Len(Program(job[w])) - Len(left[w]) \in Nat
    BY DEF Tails
  <2> QED  BY <1>2, <2>1
<1>4. ~OnObjects(job[w]) => Len(Program(job[w])) = IF job[w].kind \in Banning THEN 2 ELSE 1
  <2>1. \A n : Len(<<n, n>>) = 2 /\ Len(<<n>>) = 1
    OBVIOUS
  <2> QED  BY <1>1, <2>1, OtherProgram
<1>5. job[w].kind \in Banning => ~OnObjects(job[w])
  BY DEF Banning, OnObjects, OfPost, OfReply
<1>6. ASSUME job[w].kind \in Banning PROVE Len(left[w]) \in {1, 2}
  <2>1. Len(Program(job[w])) = 2
    BY <1>4, <1>5, <1>6
  <2>2. \A n \in Nat \ {0} : n <= 2 => n \in {1, 2}
    OBVIOUS
  <2> QED  BY <1>2, <1>3, <2>1, <2>2
<1> QED  BY <1>2, <1>3, <1>4, <1>5, <1>6

\* Only the nightly count and the second half of a site ban set counters.
LEMMA SetsRight ==
  ASSUME ContentTypeOK, Tails, AllRead, NEW w \in Worker, tx[w].read, NEW c \in tx[w].sets
  PROVE  \/ job[w].kind = "stats"
         \/ /\ job[w].kind = "site_ban" /\ Len(left[w]) = 1 /\ HalfWay(w)
            /\ c = PostsBy(job[w].of)
<1>1. ~Idle(w) /\ job[w] \in Job /\ left[w] \in Seq(Transaction) /\ left[w] # <<>>
  BY DEF ContentTypeOK
<1>2. ReadRight(w)
  BY DEF AllRead
<1>3. CASE OnObjects(job[w])
  <2>1. Same(tx[w], Head(left[w]))
    BY <1>2, <1>3 DEF ReadRight
  <2>2. Shape(Program(job[w]), job[w], Even(job[w]))
    BY <1>1, <1>3, ProgramShape
  <2> DEFINE p == Program(job[w])
             d == Len(p) - Len(left[w])
  <2>3. d \in Nat /\ \A i \in DOMAIN left[w] : left[w][i] = p[d + i]
    BY <1>1 DEF Tails
  <2>4. 1 \in DOMAIN left[w] /\ Head(left[w]) = left[w][1] /\ Len(left[w]) \in Nat \ {0}
    BY <1>1, EmptySeq
  <2>5. Len(p) \in Nat /\ DOMAIN p = 1 .. Len(p)
    BY <1>1, AnyProgram
  <2> HIDE DEF p
  <2>6. d + 1 \in DOMAIN p
    BY <2>3, <2>4, <2>5
  <2>7. \A i \in DOMAIN p : p[i].sets = {}
    BY <2>2 DEF Shape, p
  <2>8. Head(left[w]) = p[d + 1]
    BY <2>3, <2>4
  <2>9. Head(left[w]).sets = {}
    BY <2>6, <2>7, <2>8
  <2> QED  BY <2>1, <2>9 DEF Same
<1>4. CASE job[w].kind \in Banning
  <2>1. Len(left[w]) \in {1, 2} /\ Len(Program(job[w])) = 2
    BY <1>1, <1>4, LeftRight
  <2> DEFINE R == tx[w].rows
  <2>2. R \subseteq Object
    BY DEF ContentTypeOK, Transaction
  <2>3. \A S : Removal(R, S).sets = {} /\ Removal(R, S) \in Transaction
    BY <2>2, GoneRight
  <2>4. CASE Len(left[w]) = 2
    <3>1. Same(tx[w], Replies(job[w].kind, job[w].of, R))
      BY <1>2, <1>4, <2>4 DEF ReadRight
    <3> QED  BY <2>3, <3>1 DEF Replies, Same
  <2>5. CASE Len(left[w]) = 1
    <3>1. Same(tx[w], PostsGone(job[w].kind, job[w].of, R))
      BY <1>2, <1>4, <2>5 DEF ReadRight
    <3>2. HalfWay(w)
      BY <1>1, <2>1, <2>5 DEF HalfWay
    <3>3. \A t \in Transaction : \A S : [t EXCEPT !.sets = S].sets = S
      BY DEF Transaction
    <3>4. CASE job[w].kind = "site_ban"
      <4>1. PostsGone(job[w].kind, job[w].of, R).sets = {PostsBy(job[w].of)}
        BY <2>3, <3>3, <3>4 DEF PostsGone
      <4> QED  BY <2>5, <3>1, <3>2, <3>4, <4>1 DEF Same
    <3>5. CASE job[w].kind # "site_ban"
      BY <2>3, <3>1, <3>5 DEF PostsGone, Same
    <3> QED  BY <3>4, <3>5
  <2> QED  BY <2>1, <2>4, <2>5
<1>5. CASE job[w].kind = "purge_content"
  BY <1>2, <1>5 DEF ReadRight, Same, Tx
<1>6. CASE job[w].kind \notin Banning \cup {"purge_content", "stats"} /\ ~OnObjects(job[w])
  BY <1>1, <1>6 DEF Job, OnObjects, Banning, OfUser, Idle, NoJob
<1> QED  BY <1>3, <1>4, <1>5, <1>6

LEMMA FreshNext ==
  ContentTypeOK /\ Tails /\ AllRead /\ FreshRight /\ [ContentNext]_contentVars => FreshRight'
<1> SUFFICES ASSUME ContentTypeOK, Tails, AllRead, FreshRight, [ContentNext]_contentVars,
                    NEW v \in fresh', tx'[v].read, NEW c \in tx'[v].sets
             PROVE  FreshFor(v, c)'
  BY DEF FreshRight
<1>0. v \in Worker
  BY TypeNext DEF ContentTypeOK
<1>b. status' = status => Actual(c)' = Actual(c) /\ \A u : Live(By(u, Post))' = Live(By(u, Post))
  BY DEF Actual, Live, Says
<1>a. ASSUME v \in fresh, job'[v] = job[v], tx'[v] = tx[v], count' = count, status' = status
      PROVE  FreshFor(v, c)'
  <2>1. FreshFor(v, c)
    BY <1>a DEF FreshRight
  <2>2. /\ tx[v].copy[c] = count[c]
        /\ job[v].kind = "stats" => tx[v].value[c] = Actual(c)
        /\ job[v].kind = "site_ban" => tx[v].rows = Live(By(job[v].of, Post))
    BY <2>1 DEF FreshFor
  <2> QED  BY <1>a, <1>b, <2>2 DEF FreshFor, Live
<1>1. CASE UNCHANGED <<status, count, job, left, tx, requests, aborts, tainted, fresh>>
  BY <1>1, <1>a
<1>2. ASSUME NEW w \in Worker, NEW j, Starts(w, j) PROVE FreshFor(v, c)'
  <2>1. Preserved(w) /\ tx'[w] = tx[w] /\ ~tx[w].read
    BY <1>2, StartFrame, JobsTyped
  <2>2. v # w
    BY <2>1
  <2> QED  BY <1>0, <1>2, <2>1, <2>2, <1>a DEF Preserved, Starts
<1>3. ASSUME NEW w \in Worker, ReadObjects(w) PROVE FreshFor(v, c)'
  <2>1. /\ Preserved(w) /\ job'[w] = job[w] /\ left'[w] = left[w] /\ ~Idle(w)
        /\ Same(tx'[w], Due(w)) /\ tx'[w].copy = Copied(Due(w))
        /\ fresh' = (IF Due(w).sets = {} THEN fresh ELSE fresh \cup {w})
        /\ status' = status /\ count' = count
    BY <1>3, ReadFrame
  <2>2. CASE v # w
    BY <1>0, <2>1, <2>2, <1>a DEF Preserved
  <2>3. CASE v = w
    <3>1. c \in Due(w).sets /\ Due(w) \in Transaction
      BY <2>1, <2>3, DueRight DEF Same
    <3>2. c \in Counter
      BY <3>1 DEF Transaction
    <3>3. tx'[v].copy[c] = count'[c]
      BY <2>1, <2>3, <3>1, <3>2 DEF Copied
    <3>4. ASSUME job[w].kind = "stats" PROVE tx'[w].value[c] = Actual(c)
      <4>1. Due(w) = CountAgain
        BY <3>4 DEF Due
      <4>2. \A t \in Transaction : \A S, f : [t EXCEPT !.sets = S, !.value = f].value = f
        BY DEF Transaction
      <4>3. CountAgain.value = [d \in Counter |-> Actual(d)]
        BY <4>2, NothingRight DEF CountAgain
      <4> QED  BY <2>1, <3>2, <4>1, <4>3 DEF Same
    <3>5. ASSUME job[w].kind = "site_ban" PROVE tx'[w].rows = Live(By(job[w].of, Post))
      <4>1. job[w].kind \in Banning
        BY <3>5 DEF Banning
      <4> DEFINE R == Live(By(job[w].of, Post))
                 Q == Live(By(job[w].of, Reply))
      <4>2. R \subseteq Object /\ Q \subseteq Object
        BY DEF By, Live, Object
      <4> HIDE DEF R, Q
      <4>3. \A S : /\ Removal(R, S) \in Transaction /\ Removal(R, S).rows = R
                   /\ Removal(Q, S).sets = {}
        BY <4>2, GoneRight
      <4>4. Len(left[w]) # 2
        <5>1. Due(w) = BanReplies(job[w].kind, job[w].of) \/ Len(left[w]) # 2
          BY <3>5 DEF Due
        <5>2. BanReplies(job[w].kind, job[w].of).sets = {}
          BY <4>3 DEF BanReplies, Q
        <5> QED  BY <3>1, <5>1, <5>2
      <4>5. Due(w) = BanPosts(job[w].kind, job[w].of)
        BY <3>5, <4>4 DEF Due
      <4>6. \A t \in Transaction : \A S : [t EXCEPT !.sets = S].rows = t.rows
        BY DEF Transaction
      <4>7. Due(w).rows = R
        BY <3>5, <4>3, <4>5, <4>6 DEF BanPosts, R
      <4> QED  BY <2>1, <4>7 DEF Same, R
    <3>6. Actual(c)' = Actual(c)
      BY <2>1, <1>b
    <3> QED  BY <2>1, <2>3, <3>3, <3>4, <3>5, <3>6 DEF FreshFor, Live
  <2> QED  BY <2>2, <2>3
<1>4. ASSUME NEW w \in Worker, Ends(w) PROVE FreshFor(v, c)'
  <2>1. Preserved(w) /\ tx'[w] = Nothing /\ count' = count
    BY <1>4, EndsFrame
  <2>2. v # w
    BY <2>1, NothingRight
  <2>3. status' = status /\ fresh' = fresh
    BY <1>4 DEF Ends, FindsNothing, Conflict, Abort, EditRaises
  <2> QED  BY <1>0, <2>1, <2>2, <2>3, <1>a DEF Preserved
<1>5. ASSUME NEW w \in Worker, Commit(w) PROVE FreshFor(v, c)'
  BY <1>5 DEF Commit
<1> QED  BY <1>1, <1>2, <1>3, <1>4, <1>5, Steps

-----------------------------------------------------------------------------
(***************************************************************************)
(* What a worker that is half way still owes a counter.                    *)
(***************************************************************************)
Goes(j, l) == j # NoJob /\ Len(l) < Len(Program(j))
Owes(l, c, x) == \E i \in DOMAIN l : Adds(l[i], c) = x
Debt(j, l, c) ==
  (IF Goes(j, l) /\ Owes(l, c, 1) THEN 1 ELSE 0) - (IF Goes(j, l) /\ Owes(l, c, -1) THEN 1 ELSE 0)
Done(j, l) == Len(Program(j)) - Len(l)
Rest(j, l) ==
  /\ l \in Seq(Transaction) /\ Done(j, l) \in Nat
  /\ \A i \in DOMAIN l : l[i] = Program(j)[Done(j, l) + i]
\* The k-th transaction of the operation is the one that counts it in c.
Place(j, c, k) ==
  /\ k \in DOMAIN Program(j)
  /\ \A i \in DOMAIN Program(j) :
       /\ Adds(Program(j)[i], c) = IF i = k /\ c \in Own(j.of) THEN Net(j) ELSE 0
       /\ Touched(Program(j)[i], c) => i = k /\ c \in Own(j.of)

LEMMA PlaceExists ==
  ASSUME NEW j \in Job, OnObjects(j), NEW c \in Even(j)
  PROVE  \E k : Place(j, c, k)
<1> DEFINE p == Program(j)
<1>1. Shape(p, j, Even(j))
  BY ProgramShape
<1> HIDE DEF p
<1>2. PICK k \in DOMAIN p :
         /\ \A i \in DOMAIN p : Touched(p[i], c) => i = k /\ c \in Own(j.of)
         /\ c \in Own(j.of) => Adds(p[k], c) = Net(j)
  BY <1>1 DEF Shape
<1>3. \A t : ~Touched(t, c) => Adds(t, c) = 0
  BY DEF Touched, Adds
<1>4. ASSUME NEW i \in DOMAIN p
      PROVE  Adds(p[i], c) = IF i = k /\ c \in Own(j.of) THEN Net(j) ELSE 0
  BY <1>2, <1>3
<1> QED  BY <1>2, <1>4 DEF Place, p

LEMMA RestAt ==
  ASSUME NEW j \in Job, NEW l, Rest(j, l), NEW i \in DOMAIN l
  PROVE  /\ Done(j, l) + i \in DOMAIN Program(j) /\ l[i] = Program(j)[Done(j, l) + i]
         /\ i \in Nat \ {0} /\ Done(j, l) \in Nat
<1>1. l \in Seq(Transaction) /\ DOMAIN l = 1 .. Len(l) /\ Len(l) \in Nat
  BY DEF Rest
<1>2. Len(Program(j)) \in Nat /\ DOMAIN Program(j) = 1 .. Len(Program(j))
  BY AnyProgram
<1>3. \A m, n \in Nat : m - n \in Nat => \A x \in 1 .. n : (m - n) + x \in 1 .. m
  OBVIOUS
<1>4. Len(Program(j)) - Len(l) \in Nat
  BY DEF Rest, Done
<1>5. Done(j, l) + i \in DOMAIN Program(j)
  BY <1>1, <1>2, <1>3, <1>4 DEF Done
<1> QED  BY <1>1, <1>5 DEF Rest

LEMMA DebtRight ==
  ASSUME NEW j \in Job, OnObjects(j), NEW c, NEW k, Place(j, c, k), NEW l, Rest(j, l)
  PROVE  Debt(j, l, c) =
           IF Done(j, l) # 0 /\ c \in Own(j.of) /\ k > Done(j, l) THEN Net(j) ELSE 0
<1> DEFINE p == Program(j)
           d == Done(j, l)
<1>1. Len(p) \in Nat /\ DOMAIN p = 1 .. Len(p) /\ Net(j) \in {1, -1}
  BY AnyProgram, Jobs
<1>2. l \in Seq(Transaction) /\ Len(l) \in Nat /\ DOMAIN l = 1 .. Len(l) /\ d = Len(p) - Len(l)
      /\ d \in Nat
  BY DEF Rest, Done
<1>3. j # NoJob
  BY NoJobRight
<1>4. Goes(j, l) <=> d # 0
  <2>1. Goes(j, l) <=> Len(l) < Len(p)
    BY <1>3 DEF Goes
  <2> HIDE DEF p, d
  <2>2. \A m, n \in Nat : m - n \in Nat => (n < m <=> m - n # 0)
    OBVIOUS
  <2>3. Len(p) \in Nat /\ Len(l) \in Nat /\ d = Len(p) - Len(l) /\ Len(p) - Len(l) \in Nat
    BY <1>1, <1>2
  <2>4. Len(l) < Len(p) <=> d # 0
    BY <2>2, <2>3
  <2> QED  BY <2>1, <2>4
<1>5. k \in 1 .. Len(p)
  BY <1>1 DEF Place
<1>6. ASSUME NEW x \in {1, -1}
      PROVE  Owes(l, c, x) <=> c \in Own(j.of) /\ k > d /\ Net(j) = x
  <2>1. ASSUME Owes(l, c, x) PROVE c \in Own(j.of) /\ k > d /\ Net(j) = x
    <3>1. PICK i \in DOMAIN l : Adds(l[i], c) = x
      BY <2>1 DEF Owes
    <3>2. /\ d + i \in DOMAIN p /\ l[i] = p[d + i] /\ i \in Nat \ {0}
      BY RestAt
    <3>3. Adds(p[d + i], c) = IF d + i = k /\ c \in Own(j.of) THEN Net(j) ELSE 0
      BY <3>2 DEF Place
    <3>4. d + i = k /\ c \in Own(j.of)
      BY <3>1, <3>2, <3>3
    <3>5. k > d
      BY <1>2, <3>2, <3>4
    <3> QED  BY <3>1, <3>2, <3>3, <3>4, <3>5
  <2>2. ASSUME c \in Own(j.of), k > d, Net(j) = x PROVE Owes(l, c, x)
    <3> DEFINE i == k - d
    <3>1. i \in 1 .. Len(l) /\ d + i = k
      BY <1>1, <1>2, <1>5, <2>2
    <3> HIDE DEF i
    <3>2. l[i] = p[k]
      BY <1>2, <3>1 DEF Rest
    <3>3. Adds(p[k], c) = x
      BY <2>2 DEF Place
    <3> QED  BY <1>2, <3>1, <3>2, <3>3 DEF Owes
  <2> QED  BY <2>1, <2>2
<1> HIDE DEF d, p
<1>7. (Owes(l, c, 1) <=> c \in Own(j.of) /\ k > d /\ Net(j) = 1)
      /\ (Owes(l, c, -1) <=> c \in Own(j.of) /\ k > d /\ Net(j) = -1)
  BY <1>6
<1> QED  BY <1>1, <1>4, <1>7 DEF Debt, d

LEMMA DebtNone ==
  ASSUME NEW j \in Job, ~OnObjects(j), NEW c \in Counter, NEW l, Rest(j, l)
  PROVE  Debt(j, l, c) = 0 /\ \A x \in {1, -1} : ~Owes(l, c, x)
<1>1. Program(j) = IF j.kind \in Banning THEN <<Nothing, Nothing>> ELSE <<Nothing>>
  BY OtherProgram
<1>2. \A n : \A i \in DOMAIN <<n, n>> : <<n, n>>[i] = n
  OBVIOUS
<1>3. \A n : \A i \in DOMAIN <<n>> : <<n>>[i] = n
  OBVIOUS
<1>4. \A i \in DOMAIN Program(j) : Program(j)[i] = Nothing
  <2>1. CASE j.kind \in Banning
    BY <1>1, <1>2, <2>1
  <2>2. CASE j.kind \notin Banning
    BY <1>1, <1>3, <2>2
  <2> QED  BY <2>1, <2>2
<1>5. \A i \in DOMAIN l : Adds(l[i], c) = 0
  BY <1>4, RestAt, NothingRight
<1> QED  BY <1>5 DEF Owes, Debt

LEMMA DebtEnded == \A c : Debt(NoJob, <<>>, c) = 0
  BY DEF Debt, Goes

LEMMA WaitsAre ==
  \A c, d : InDebt(c, d) = {w \in Worker : Goes(job[w], left[w]) /\ Owes(left[w], c, d)}
  BY DEF InDebt, Goes, Owes, HalfWay, Idle
LEMMA WaitsWillBe ==
  \A c, d : InDebt(c, d)' = {w \in Worker : Goes(job'[w], left'[w]) /\ Owes(left'[w], c, d)}
  BY DEF InDebt, Goes, Owes, HalfWay, Idle

LEMMA Without ==
  ASSUME NEW S, IsFiniteSet(S), NEW w
  PROVE  /\ Cardinality(S) = Cardinality(S \ {w}) + (IF w \in S THEN 1 ELSE 0)
         /\ Cardinality(S \ {w}) \in Nat
<1>1. IsFiniteSet(S \ {w}) /\ Cardinality(S) \in Nat /\ Cardinality(S \ {w}) \in Nat
  BY FS_Subset, FS_CardinalityType
<1>2. CASE w \in S
  BY <1>1, <1>2, FS_RemoveElement
<1>3. CASE w \notin S
  <2>1. S \ {w} = S
    BY <1>3
  <2> QED  BY <1>1, <1>3, <2>1
<1> QED  BY <1>2, <1>3

LEMMA WaitsMove ==
  ASSUME NEW w \in Worker, Preserved(w), IsFiniteSet(Busy), NEW c
  PROVE  /\ \A x \in {1, -1} : Cardinality(InDebt(c, x)) \in Nat /\ Cardinality(InDebt(c, x)') \in Nat
         /\ Cardinality(InDebt(c, 1)') - Cardinality(InDebt(c, -1)') =
              (Cardinality(InDebt(c, 1)) - Cardinality(InDebt(c, -1)))
                + (Debt(job'[w], left'[w], c) - Debt(job[w], left[w], c))
<1>1. ASSUME NEW x
      PROVE  \E n \in Nat :
               /\ Cardinality(InDebt(c, x)) =
                    n + (IF Goes(job[w], left[w]) /\ Owes(left[w], c, x) THEN 1 ELSE 0)
               /\ Cardinality(InDebt(c, x)') =
                    n + (IF Goes(job'[w], left'[w]) /\ Owes(left'[w], c, x) THEN 1 ELSE 0)
  <2> DEFINE S == InDebt(c, x)
             T == InDebt(c, x)'
  <2>1. S \subseteq Busy
    BY DEF InDebt, Busy, HalfWay
  <2>2. IsFiniteSet(S)
    BY <2>1, FS_Subset
  <2>3. S \ {w} = T \ {w}
    BY WaitsAre, WaitsWillBe DEF Preserved
  <2>4. (w \in S <=> Goes(job[w], left[w]) /\ Owes(left[w], c, x))
        /\ (w \in T <=> Goes(job'[w], left'[w]) /\ Owes(left'[w], c, x))
    BY WaitsAre, WaitsWillBe
  <2> HIDE DEF S, T
  <2>5. IsFiniteSet(T)
    <3>1. IsFiniteSet(S \cup {w})
      BY <2>2, FS_AddElement
    <3>2. T \subseteq S \cup {w}
      BY <2>3
    <3> QED  BY <3>1, <3>2, FS_Subset
  <2>6. Cardinality(S) = Cardinality(S \ {w}) + (IF w \in S THEN 1 ELSE 0)
        /\ Cardinality(S \ {w}) \in Nat
    BY <2>2, Without
  <2>7. Cardinality(T) = Cardinality(T \ {w}) + (IF w \in T THEN 1 ELSE 0)
    BY <2>5, Without
  <2>8. /\ Cardinality(S) = Cardinality(S \ {w})
                + (IF Goes(job[w], left[w]) /\ Owes(left[w], c, x) THEN 1 ELSE 0)
        /\ Cardinality(T) = Cardinality(S \ {w})
                + (IF Goes(job'[w], left'[w]) /\ Owes(left'[w], c, x) THEN 1 ELSE 0)
    BY <2>3, <2>4, <2>6, <2>7
  <2> QED  BY <2>6, <2>8 DEF S, T
<1>2. PICK m \in Nat :
        /\ Cardinality(InDebt(c, 1)) =
             m + (IF Goes(job[w], left[w]) /\ Owes(left[w], c, 1) THEN 1 ELSE 0)
        /\ Cardinality(InDebt(c, 1)') =
             m + (IF Goes(job'[w], left'[w]) /\ Owes(left'[w], c, 1) THEN 1 ELSE 0)
  BY <1>1
<1>3. PICK n \in Nat :
        /\ Cardinality(InDebt(c, -1)) =
             n + (IF Goes(job[w], left[w]) /\ Owes(left[w], c, -1) THEN 1 ELSE 0)
        /\ Cardinality(InDebt(c, -1)') =
             n + (IF Goes(job'[w], left'[w]) /\ Owes(left'[w], c, -1) THEN 1 ELSE 0)
  BY <1>1
<1> QED  BY <1>2, <1>3 DEF Debt

LEMMA RestOf ==
  ASSUME ContentTypeOK, Tails, NEW w \in Worker, ~Idle(w)
  PROVE  Rest(job[w], left[w])
<1>1. left[w] \in Seq(Transaction)
  BY DEF ContentTypeOK
<1> QED  BY <1>1 DEF Tails, Rest, Done

LEMMA RestWillBe ==
  ASSUME TypedJobs', Tails', NEW w \in Worker, ~Idle(w)'
  PROVE  Rest(job'[w], left'[w])
<1>1. left'[w] \in Seq(Transaction)
  BY DEF TypedJobs
<1> QED  BY <1>1 DEF Tails, Rest, Done

\* The author's posts are counted by nobody who is half way, except when they
\* are made here.
LEMMA NobodyAddsPosts ==
  ASSUME ContentTypeOK, Tails, Homes, UnevenTainted, NEW u \in User, u \notin Local,
         PostsBy(u) \notin tainted
  PROVE  InDebt(PostsBy(u), 1) = {}
<1> DEFINE c == PostsBy(u)
<1>0. c \in Counter
  BY DEF Counter
<1> SUFFICES ASSUME NEW x \in InDebt(c, 1) PROVE FALSE
  OBVIOUS
<1>1. x \in Worker /\ HalfWay(x) /\ ~Idle(x) /\ Owes(left[x], c, 1)
  BY DEF InDebt, Owes, HalfWay
<1>2. job[x] \in Job /\ Rest(job[x], left[x])
  BY <1>1, RestOf DEF ContentTypeOK
<1>3. OnObjects(job[x])
  BY <1>0, <1>1, <1>2, DebtNone
<1>4. c \in Even(job[x])
  BY <1>0, <1>1 DEF Even, UnevenTainted
<1>5. PICK k : Place(job[x], c, k)
  BY <1>2, <1>3, <1>4, PlaceExists
<1>6. PICK i \in DOMAIN left[x] : Adds(left[x][i], c) = 1
  BY <1>1 DEF Owes
<1>7. Done(job[x], left[x]) + i \in DOMAIN Program(job[x])
      /\ left[x][i] = Program(job[x])[Done(job[x], left[x]) + i]
  BY <1>2, RestAt
<1>8. c \in Own(job[x].of) /\ Net(job[x]) = 1
  BY <1>5, <1>6, <1>7 DEF Place
<1>9. job[x].of \in Post /\ AuthorOf[job[x].of] = u /\ job[x].kind \in OfPost
  <2>1. job[x].of \in Object
        /\ (job[x].kind \in OfReply => job[x].of \in Reply /\ job[x].of \notin Post)
        /\ job[x].kind \in OfPost \cup OfReply
    BY <1>2, <1>3, Jobs DEF OnObjects
  <2>2. job[x].of \in Post
    BY <1>8, <2>1 DEF Own, Mine, PostsBy, CommentsBy, Comments, OnPost, RepliesTo, Parents, Below, Object
  <2> QED  BY <1>8, <2>1, <2>2 DEF Own, Mine, PostsBy, Posts
<1>10. Len(Program(job[x])) # 1
  <2>1. Len(left[x]) \in Nat \ {0} /\ Len(Program(job[x])) \in Nat
        /\ Len(left[x]) < Len(Program(job[x]))
    BY <1>1, LeftRight DEF HalfWay
  <2>2. \A m \in Nat \ {0}, n \in Nat : m < n => n # 1
    OBVIOUS
  <2> QED  BY <2>1, <2>2
<1>11. job[x].kind \in {"make_post", "inbox_delete_post"}
  <2>1. \A t : Len(<<t>>) = 1
    OBVIOUS
  <2>2. job[x].kind = "new_post" => Program(job[x]) = NewPost(job[x].of)
    BY DEF Program
  <2>3. job[x].kind = "delete_post" => Program(job[x]) = DeletePost(job[x].of)
    BY DEF Program
  <2>4. job[x].kind = "restore_post" => Program(job[x]) = RestorePost(job[x].of)
    BY DEF Program
  <2>5. /\ Len(NewPost(job[x].of)) = 1 /\ Len(DeletePost(job[x].of)) = 1
        /\ Len(RestorePost(job[x].of)) = 1
    BY <2>1 DEF NewPost, DeletePost, RestorePost
  <2> QED  BY <1>9, <1>10, <2>2, <2>3, <2>4, <2>5 DEF OfPost
<1>12. job[x].kind = "make_post"
  BY <1>8, <1>11 DEF Net, Down
<1> QED  BY <1>1, <1>9, <1>12 DEF Homes

LEMMA DueBan ==
  ASSUME ContentTypeOK, Tails, NEW w \in Worker, ~Idle(w), job[w].kind = "site_ban",
         NEW c \in Due(w).sets
  PROVE  /\ HalfWay(w) /\ c = PostsBy(job[w].of) /\ job[w].of \in User
         /\ Due(w).rows = Live(By(job[w].of, Post))
<1>1. job[w].kind \in Banning
  BY DEF Banning
<1> DEFINE R == Live(By(job[w].of, Post))
           Q == Live(By(job[w].of, Reply))
<1>2. R \subseteq Object /\ Q \subseteq Object
  BY DEF By, Live, Object
<1> HIDE DEF R, Q
<1>3. \A S : /\ Removal(R, S) \in Transaction /\ Removal(R, S).rows = R
             /\ Removal(Q, S).sets = {}
  BY <1>2, GoneRight
<1>4. Len(left[w]) # 2
  <2>1. Due(w) = BanReplies(job[w].kind, job[w].of) \/ Len(left[w]) # 2
    BY DEF Due
  <2>2. BanReplies(job[w].kind, job[w].of).sets = {}
    BY <1>3 DEF BanReplies, Q
  <2> QED  BY <2>1, <2>2
<1>5. Due(w) = BanPosts(job[w].kind, job[w].of)
  BY <1>4 DEF Due
<1>6. \A t \in Transaction : \A S : [t EXCEPT !.sets = S].rows = t.rows
                                    /\ [t EXCEPT !.sets = S].sets = S
  BY DEF Transaction
<1>7. Due(w).rows = R /\ Due(w).sets = {PostsBy(job[w].of)}
  BY <1>3, <1>5, <1>6 DEF BanPosts, R
<1>8. Len(left[w]) = 1 /\ Len(Program(job[w])) = 2
  BY <1>1, <1>4, LeftRight
<1>9. job[w].of \in User
  BY DEF ContentTypeOK, Job, OfPost, OfReply
<1> QED  BY <1>7, <1>8, <1>9 DEF HalfWay, R

LEMMA NoneNext ==
  ASSUME ContentTypeOK, IsFiniteSet(Busy), Tails, AllRead, Homes, UnevenTainted, NoneToReset,
         Balanced, [ContentNext]_contentVars
  PROVE  NoneToReset'
<1> SUFFICES ASSUME NEW v \in Worker, job'[v].kind = "site_ban", tx'[v].read,
                    NEW c \in tx'[v].sets \ tainted', tx'[v].copy[c] = 0
             PROVE  tx'[v].rows = {}
  BY DEF NoneToReset
<1>a. ASSUME job'[v] = job[v], tx'[v] = tx[v], c \notin tainted PROVE tx'[v].rows = {}
  BY <1>a DEF NoneToReset
<1>1. CASE UNCHANGED <<status, count, job, left, tx, requests, aborts, tainted, fresh>>
  BY <1>1, <1>a
<1>2. ASSUME NEW w \in Worker, NEW j, Starts(w, j) PROVE tx'[v].rows = {}
  <2>1. Preserved(w) /\ tx'[w] = tx[w] /\ ~tx[w].read
    BY <1>2, StartFrame, JobsTyped
  <2>2. v # w
    BY <2>1
  <2> QED  BY <1>2, <2>1, <2>2, <1>a DEF Preserved, Starts
<1>3. ASSUME NEW w \in Worker, ReadObjects(w) PROVE tx'[v].rows = {}
  <2>1. /\ Preserved(w) /\ job'[w] = job[w] /\ left'[w] = left[w] /\ ~Idle(w)
        /\ Same(tx'[w], Due(w)) /\ tx'[w].copy = Copied(Due(w))
        /\ status' = status /\ count' = count /\ tainted' = tainted
    BY <1>3, ReadFrame
  <2>2. CASE v # w
    BY <2>1, <2>2, <1>a DEF Preserved
  <2>3. CASE v = w
    <3>1. c \in Due(w).sets /\ job[w].kind = "site_ban" /\ c \notin tainted
      BY <2>1, <2>3 DEF Same
    <3> DEFINE u == job[w].of
    <3>2. /\ HalfWay(w) /\ c = PostsBy(u) /\ u \in User
          /\ Due(w).rows = Live(By(u, Post))
      BY <2>1, <3>1, DueBan
    <3> HIDE DEF u
    <3>3. c \in Counter /\ u \notin Local
      BY <3>1, <3>2 DEF Counter, Homes, u
    <3>4. InDebt(c, 1) = {}
      BY <3>1, <3>2, <3>3, NobodyAddsPosts
    <3>5. count[c] = 0
      BY <2>1, <2>3, <3>1, <3>3 DEF Copied
    <3>6. InDebt(c, -1) \subseteq Busy
      BY DEF InDebt, Busy, HalfWay
    <3>7. Cardinality(InDebt(c, 1)) = 0
      BY <3>4, FS_EmptySet
    <3>8. count[c] + Cardinality(InDebt(c, 1)) - Cardinality(InDebt(c, -1)) = Actual(c)
      BY <3>1, <3>3 DEF Balanced
    <3>9. Cardinality(InDebt(c, -1)) \in Nat /\ Actual(c) \in Nat
      <4>1. IsFiniteSet(InDebt(c, -1))
        BY <3>6, FS_Subset
      <4> QED  BY <4>1, <3>3, FS_CardinalityType, ActualRight
    <3>10. Actual(c) = 0
      BY <3>5, <3>7, <3>8, <3>9
    <3>11. Live(Says[c]) = {}
      BY <3>3, <3>10, ActualRight, FS_EmptySet DEF Actual
    <3>12. {o \in Object : c \in Own(o) /\ status[o] = "live"} = {}
      BY <3>3, <3>11, ActualRight
    <3>13. Live(By(u, Post)) = {}
      BY <3>2, <3>12 DEF Live, By, Own, Mine, Object
    <3>14. tx'[w].rows = Due(w).rows
      BY <2>1 DEF Same
    <3> QED  BY <2>3, <3>2, <3>13, <3>14
  <2> QED  BY <2>2, <2>3
<1>4. ASSUME NEW w \in Worker, Ends(w) PROVE tx'[v].rows = {}
  <2>1. Preserved(w) /\ tx'[w] = Nothing
    BY <1>4, EndsFrame
  <2>2. v # w
    BY <2>1, NothingRight
  <2> QED  BY <1>4, <2>1, <2>2, <1>a, TaintedGrows DEF Preserved
<1>5. ASSUME NEW w \in Worker, Commit(w) PROVE tx'[v].rows = {}
  <2>1. Preserved(w) /\ tx'[w] = Nothing
    BY <1>5, CommitFrame, JobsTyped
  <2>2. v # w
    BY <2>1, NothingRight
  <2>3. job'[v] = job[v] /\ tx'[v] = tx[v]
    BY <2>1, <2>2 DEF Preserved
  <2>4. HalfWay(v)
    BY <2>3, SetsRight
  <2>5. tainted \subseteq tainted'
    BY <1>5, <2>2, <2>4, TaintsKept
  <2> QED  BY <2>3, <2>5, <1>a
<1> QED  BY <1>1, <1>2, <1>3, <1>4, <1>5, Steps

-----------------------------------------------------------------------------
(***************************************************************************)
(* What a commit does to a counter and to what it is there to say.         *)
(***************************************************************************)
Counted(objs, c) == {o \in objs : c \in Own(o)}
RowsTo(objs, to) == status' = [o \in Object |-> IF o \in objs THEN to ELSE status[o]]

LEMMA DisjointCount ==
  ASSUME NEW S, NEW T, IsFiniteSet(S), IsFiniteSet(T), S \cap T = {}
  PROVE  Cardinality(S \cup T) = Cardinality(S) + Cardinality(T)
<1>1. Cardinality(S \cap T) = 0
  BY FS_EmptySet
<1>2. Cardinality(S \cup T) = Cardinality(S) + Cardinality(T) - Cardinality(S \cap T)
  BY FS_Union
<1>3. Cardinality(S) \in Nat /\ Cardinality(T) \in Nat
  BY FS_CardinalityType
<1> QED  BY <1>1, <1>2, <1>3

LEMMA LiveWillBe ==
  ASSUME NEW c \in Counter
  PROVE  /\ Live(Says[c])' = {o \in Object : c \in Own(o) /\ status'[o] = "live"}
         /\ IsFiniteSet(Live(Says[c])') /\ Actual(c)' = Cardinality(Live(Says[c])')
<1>1. Live(Says[c])' = {o \in Object : c \in Own(o) /\ status'[o] = "live"}
  BY ContentAssumption DEF Live, Says, Own, Object
<1> QED  BY <1>1, CountsRight DEF Actual

LEMMA ActualKept ==
  ASSUME NEW c \in Counter, NEW objs, NEW to, RowsTo(objs, to), Counted(objs, c) = {}
  PROVE  Actual(c)' = Actual(c)
<1>1. \A o \in Object : c \in Own(o) => status'[o] = status[o]
  BY DEF RowsTo, Counted
<1>2. Live(Says[c])' = Live(Says[c])
  BY <1>1, LiveWillBe, ActualRight
<1> QED  BY <1>2, LiveWillBe DEF Actual

LEMMA ActualGrows ==
  ASSUME NEW c \in Counter, NEW o \in Object, RowsTo({o}, "live"), c \in Own(o),
         status[o] # "live"
  PROVE  Actual(c)' = Actual(c) + 1
<1>1. Live(Says[c])' = Live(Says[c]) \cup {o} /\ o \notin Live(Says[c])
  BY LiveWillBe, ActualRight DEF RowsTo
<1>2. IsFiniteSet(Live(Says[c]))
  BY ActualRight
<1>3. Cardinality(Live(Says[c]) \cup {o}) = Cardinality(Live(Says[c])) + 1
  BY <1>1, <1>2, FS_AddElement
<1> QED  BY <1>1, <1>3, LiveWillBe DEF Actual

LEMMA ActualFalls ==
  ASSUME NEW c \in Counter, NEW objs \in SUBSET Object, RowsTo(objs, "deleted"),
         \A o \in Counted(objs, c) : status[o] = "live"
  PROVE  Actual(c)' = Actual(c) - Cardinality(Counted(objs, c))
<1> DEFINE L == Live(Says[c])
           R == Counted(objs, c)
<1>1. L = {o \in Object : c \in Own(o) /\ status[o] = "live"} /\ IsFiniteSet(L)
  BY ActualRight
<1>2. R \subseteq L
  BY <1>1 DEF Counted
<1>3. Live(Says[c])' = L \ R
  BY <1>1, LiveWillBe DEF Counted, RowsTo
<1> HIDE DEF L, R
<1>4. IsFiniteSet(R) /\ IsFiniteSet(L \ R)
  BY <1>1, <1>2, FS_Subset
<1>5. L = (L \ R) \cup R /\ (L \ R) \cap R = {}
  BY <1>2
<1>6. Cardinality((L \ R) \cup R) = Cardinality(L \ R) + Cardinality(R)
  BY <1>4, <1>5, DisjointCount
<1>7. Cardinality(L) \in Nat /\ Cardinality(R) \in Nat /\ Cardinality(L \ R) \in Nat
  BY <1>1, <1>4, FS_CardinalityType
<1>8. Cardinality(L \ R) = Cardinality(L) - Cardinality(R)
  <2>1. Cardinality(L) = Cardinality((L \ R) \cup R)
    BY <1>5
  <2> QED  BY <1>6, <1>7, <2>1
<1> QED  BY <1>3, <1>8, LiveWillBe DEF Actual, L, R

\* What bans take away is what they delete.
LEMMA GoneAdds ==
  ASSUME NEW objs \in SUBSET Object, NEW S, NEW c \in Counter
  PROVE  /\ Cardinality(Counted(objs, c)) \in Nat
         /\ c \in S => Adds(Removal(objs, S), c) = -Cardinality(Counted(objs, c))
         /\ c \notin S /\ objs \subseteq Post =>
              /\ Adds(Removal(objs, S), c) = 0 /\ Removal(objs, S).orm[c] = 0
              /\ Removal(objs, S).sql[c] = 0
<1> DEFINE F == {o \in objs : c \in {Mine(o)} \cup
                          (IF o \in Post THEN {Posts} ELSE {Comments} \cup OnPost(o))}
           G == {o \in objs \cap Reply : c \in Parents(o)}
<1>1. /\ Removal(objs, S).orm[c] = (IF c \in S THEN -Cardinality(F) ELSE 0)
      /\ Removal(objs, S).sql[c] = -Cardinality(G)
  BY DEF Removal, Tx
<1>2. Counted(objs, c) = F \cup G
  BY ContentAssumption DEF Counted, Own, Object
<1>3. F \cap G = {}
  <2>1. ASSUME NEW o \in F, o \in G PROVE FALSE
    <3>1. o \in Reply /\ o \in Object /\ o \notin Post /\ c \in Parents(o)
      BY <2>1, ContentAssumption DEF Object
    <3>2. c \in {Mine(o)} \cup {Comments} \cup OnPost(o)
      BY <3>1
    <3> QED  BY <3>1, <3>2, Tags
  <2> QED  BY <2>1
<1>4. IsFiniteSet(F) /\ IsFiniteSet(G) /\ IsFiniteSet(Counted(objs, c))
  <2>1. F \subseteq Object /\ G \subseteq Object /\ Counted(objs, c) \subseteq Object
    BY DEF Counted
  <2>2. IsFiniteSet(Object)
    BY ContentAssumption, FS_Union DEF Object
  <2> QED  BY <2>1, <2>2, FS_Subset
<1>5. objs \subseteq Post => G = {}
  BY ContentAssumption
<1> HIDE DEF F, G
<1>6. Cardinality(F \cup G) = Cardinality(F) + Cardinality(G)
  BY <1>3, <1>4, DisjointCount
<1>7. Cardinality(F) \in Nat /\ Cardinality(G) \in Nat /\ Cardinality(Counted(objs, c)) \in Nat
  BY <1>4, FS_CardinalityType
<1>8. c \in S => Adds(Removal(objs, S), c) = -Cardinality(Counted(objs, c))
  BY <1>1, <1>2, <1>6, <1>7 DEF Adds
<1>9. objs \subseteq Post => Cardinality(G) = 0
  BY <1>5, FS_EmptySet
<1>10. ASSUME c \notin S, objs \subseteq Post
       PROVE  Removal(objs, S).orm[c] = 0 /\ Removal(objs, S).sql[c] = 0 /\ Adds(Removal(objs, S), c) = 0
  <2>1. Removal(objs, S).orm[c] = 0 /\ Removal(objs, S).sql[c] = 0
    BY <1>1, <1>9, <1>10
  <2> QED  BY <2>1 DEF Adds
<1> QED  BY <1>7, <1>8, <1>10

\* A counter that is not tainted afterwards has got what the transaction adds.
LEMMA CountMoves ==
  ASSUME ContentTypeOK, NEW w \in Worker, Commit(w), NEW c \in Counter, c \notin tainted',
         c \notin Written(tx[w])
  PROVE  /\ count'[c] = count[c] + Adds(tx[w], c)
         /\ Adds(tx[w], c) \in Int /\ count[c] \in Int /\ c \notin Uneven(job[w])
         /\ Again(tx[w]) => ~Touched(tx[w], c) /\ Adds(tx[w], c) = 0 /\ c \notin StillToCount(w)
<1>1. c \notin Stale(tx[w]) /\ c \notin Uneven(job[w])
      /\ (Again(tx[w]) => c \notin Touches(tx[w]) /\ c \notin StillToCount(w))
  BY TaintsKept
<1>2. count'[c] = Stored(tx[w], c)
  BY DEF Commit
<1>3. /\ tx[w].orm[c] \in Int /\ tx[w].sql[c] \in Int /\ tx[w].copy[c] \in Int /\ count[c] \in Int
  BY DEF ContentTypeOK, Transaction, Delta
<1>4. tx[w].orm[c] # 0 => tx[w].copy[c] = count[c]
  BY <1>1 DEF Stale
<1>5. Again(tx[w]) => ~Touched(tx[w], c)
  BY <1>1 DEF Touches, Touched
<1>6. ~Touched(tx[w], c) => Adds(tx[w], c) = 0
  BY DEF Touched, Adds
<1> QED  BY <1>1, <1>2, <1>3, <1>4, <1>5, <1>6 DEF Stored, Adds

\* Rows that were read as they should be are not written; then the counters
\* the transaction touches are tainted.
LEMMA RowsMove ==
  ASSUME NEW w \in Worker, Commit(w)
  PROVE  /\ RowsTo(Sent(tx[w]), tx[w].to) /\ Sent(tx[w]) \subseteq tx[w].rows
         /\ ~Again(tx[w]) => Sent(tx[w]) = tx[w].rows
         /\ \A c : Counted(tx[w].rows, c) = {} => Counted(Sent(tx[w]), c) = {}
<1>1. Sent(tx[w]) \subseteq tx[w].rows
  BY DEF Sent
<1>2. ~Again(tx[w]) => Sent(tx[w]) = tx[w].rows
  BY DEF Sent, Again
<1>3. RowsTo(Sent(tx[w]), tx[w].to)
  BY DEF Commit, RowsTo
<1>4. ASSUME NEW c, Counted(tx[w].rows, c) = {} PROVE Counted(Sent(tx[w]), c) = {}
  BY <1>1, <1>4 DEF Counted
<1> QED  BY <1>1, <1>2, <1>3, <1>4

\* The transaction of an operation on an object: it is the next of its program.
LEMMA NextOfProgram ==
  ASSUME ContentTypeOK, Tails, AllRead, NEW w \in Worker, tx[w].read, OnObjects(job[w])
  PROVE  LET d == Done(job[w], left[w])
             t == Program(job[w])[d + 1]
         IN /\ d \in Nat /\ d + 1 \in DOMAIN Program(job[w])
            /\ Same(tx[w], t) /\ t.sets = {} /\ (d # 0 => t.rows = {})
            /\ d = 0 => t.rows = {job[w].of} /\ t.to = Goal(job[w])
            /\ d + Len(left[w]) = Len(Program(job[w]))
            /\ DOMAIN Program(job[w]) = 1 .. Len(Program(job[w]))
            /\ Len(Program(job[w])) \in Nat
<1> DEFINE p == Program(job[w])
           l == left[w]
           d == Done(job[w], l)
<1>1. ~Idle(w) /\ job[w] \in Job /\ l \in Seq(Transaction) /\ l # <<>>
  BY DEF ContentTypeOK
<1>2. Same(tx[w], Head(l))
  BY DEF AllRead, ReadRight
<1>3. Shape(p, job[w], Even(job[w]))
  BY <1>1, ProgramShape
<1>4. Rest(job[w], l)
  BY <1>1, RestOf
<1>5. 1 \in DOMAIN l /\ Head(l) = l[1] /\ Len(l) \in Nat
  BY <1>1, EmptySeq
<1>6. Len(p) \in Nat /\ DOMAIN p = 1 .. Len(p)
  BY <1>1, AnyProgram
<1>7. d \in Nat /\ d + 1 \in DOMAIN p /\ l[1] = p[d + 1]
  BY <1>1, <1>4, <1>5, RestAt
<1>8. d + Len(l) = Len(p)
  BY <1>5, <1>6 DEF Done
<1> HIDE DEF p, l, d
<1>9. Same(tx[w], p[d + 1])
  BY <1>2, <1>5, <1>7
<1>10. p[d + 1].sets = {} /\ (d # 0 => p[d + 1].rows = {})
  <2>1. d # 0 => d + 1 > 1
    BY <1>7
  <2> QED  BY <1>3, <1>7, <2>1 DEF Shape
<1>11. d = 0 => p[d + 1].rows = {job[w].of} /\ p[d + 1].to = Goal(job[w])
  BY <1>3, <1>7 DEF Shape
<1> QED  BY <1>6, <1>7, <1>8, <1>9, <1>10, <1>11 DEF p, l, d

Advances(w, c) ==
  /\ Debt(job[w], left[w], c) \in Int /\ Debt(job'[w], left'[w], c) \in Int
  /\ Actual(c)' = Actual(c)
       + (Adds(tx[w], c) + (Debt(job'[w], left'[w], c) - Debt(job[w], left[w], c)))

LEMMA DebtType == \A j, l, c : Debt(j, l, c) \in Int
  BY DEF Debt

LEMMA ObjectCommit ==
  ASSUME ContentTypeOK, Tails, AllRead, TypedJobs', Tails', NEW w \in Worker, Commit(w),
         OnObjects(job[w]), NEW c \in Counter, c \notin tainted'
  PROVE  Advances(w, c)
<1> DEFINE j == job[w]
           p == Program(j)
           d == Done(j, left[w])
           t == p[d + 1]
           own == c \in Own(j.of)
<1>1. tx[w].read /\ ~Idle(w) /\ ~Conflicts(w, Sent(tx[w])) /\ j \in Job
  BY DEF Commit, ContentTypeOK
<1>2. /\ d \in Nat /\ d + 1 \in DOMAIN p
      /\ Same(tx[w], t) /\ t.sets = {} /\ (d # 0 => t.rows = {})
      /\ d = 0 => t.rows = {j.of} /\ t.to = Goal(j)
      /\ d + Len(left[w]) = Len(p)
      /\ DOMAIN p = 1 .. Len(p) /\ Len(p) \in Nat
  BY <1>1, NextOfProgram
<1>3. tx[w].rows = t.rows /\ tx[w].to = t.to /\ tx[w].sets = {} /\ Adds(tx[w], c) = Adds(t, c)
  BY <1>2 DEF Same, Adds
<1>4. c \notin Written(tx[w])
  BY <1>3 DEF Written
<1>5. /\ c \notin Uneven(j) /\ Adds(tx[w], c) \in Int
      /\ Again(tx[w]) => c \notin StillToCount(w)
  BY <1>4, CountMoves
<1>6. Rest(j, left[w]) /\ Net(j) \in {1, -1} /\ j.of \in Object
  BY <1>1, RestOf, Jobs
<1>7. PICK k : Place(j, c, k)
  BY <1>1, <1>5, PlaceExists DEF Even
<1>8. k \in 1 .. Len(p)
  BY <1>2, <1>7 DEF Place
<1>9. Adds(tx[w], c) = IF d + 1 = k /\ own THEN Net(j) ELSE 0
  BY <1>2, <1>3, <1>7 DEF Place
<1>10. Debt(j, left[w], c) = IF d # 0 /\ own /\ k > d THEN Net(j) ELSE 0
  BY <1>1, <1>6, <1>7, DebtRight
<1>11. Debt(job'[w], left'[w], c) = IF own /\ k > d + 1 THEN Net(j) ELSE 0
  <2>1. \/ Len(left[w]) = 1 /\ job'[w] = NoJob /\ left'[w] = <<>>
        \/ Len(left[w]) # 1 /\ job'[w] = j /\ left'[w] = Tail(left[w])
    BY CommitFrame, JobsTyped
  <2>2. CASE Len(left[w]) = 1 /\ job'[w] = NoJob /\ left'[w] = <<>>
    <3>1. ~(k > d + 1)
      BY <1>2, <1>8, <2>2
    <3> QED  BY <2>2, <3>1, DebtEnded
  <2>3. CASE Len(left[w]) # 1 /\ job'[w] = j /\ left'[w] = Tail(left[w])
    <3>1. left[w] \in Seq(Transaction) /\ left[w] # <<>>
      BY <1>1 DEF ContentTypeOK
    <3>2. Len(left'[w]) = Len(left[w]) - 1 /\ Len(left[w]) \in Nat
      BY <2>3, <3>1, TailRight
    <3>3. Rest(j, left'[w])
      BY <1>1, <2>3, RestWillBe DEF Idle
    <3>4. Done(j, left'[w]) = d + 1
      BY <1>2, <3>2 DEF Done
    <3>5. d + 1 # 0
      BY <1>2
    <3> HIDE DEF d, p, j
    <3>6. Debt(j, left'[w], c) = IF Done(j, left'[w]) # 0 /\ own /\ k > Done(j, left'[w])
                                 THEN Net(j) ELSE 0
      BY <1>1, <1>7, <3>3, DebtRight DEF j
    <3> QED  BY <2>3, <3>4, <3>5, <3>6
  <2> QED  BY <2>1, <2>2, <2>3
<1> HIDE DEF own
<1>12. Adds(tx[w], c) + (Debt(job'[w], left'[w], c) - Debt(j, left[w], c))
         = IF d = 0 /\ own THEN Net(j) ELSE 0
  <2> DEFINE a == Adds(tx[w], c)
             x == Debt(job'[w], left'[w], c)
             y == Debt(j, left[w], c)
  <2> HIDE DEF a, x, y, d, p, j
  <2>1. a = (IF d + 1 = k /\ own THEN Net(j) ELSE 0)
        /\ y = (IF d # 0 /\ own /\ k > d THEN Net(j) ELSE 0)
        /\ x = (IF own /\ k > d + 1 THEN Net(j) ELSE 0)
    BY <1>9, <1>10, <1>11 DEF a, x, y
  <2>2. d \in Nat /\ k \in Nat /\ k > 0 /\ Net(j) \in {1, -1}
    <3>1. d \in Nat /\ Len(p) \in Nat
      BY <1>2
    <3>2. k \in Nat /\ k > 0
      BY <1>8, <3>1
    <3> QED  BY <1>6, <3>1, <3>2
  <2>3. a + (x - y) = IF d = 0 /\ own THEN Net(j) ELSE 0
    <3>1. CASE ~own
      BY <2>1, <3>1
    <3>2. CASE own /\ k = d + 1
      BY <2>1, <2>2, <3>2
    <3>3. CASE own /\ k > d + 1
      BY <2>1, <2>2, <3>3
    <3>4. CASE own /\ k < d + 1
      BY <2>1, <2>2, <3>4
    <3> QED  BY <2>2, <3>1, <3>2, <3>3, <3>4
  <2> QED  BY <2>3 DEF a, x, y
<1>13. RowsTo(Sent(tx[w]), tx[w].to) /\ Actual(c) \in Nat
  BY RowsMove, ActualRight
<1>14. CASE d # 0 \/ ~own
  <2>1. Counted(tx[w].rows, c) = {}
    BY <1>2, <1>3, <1>14 DEF Counted, own
  <2>2. Actual(c)' = Actual(c)
    <3>1. Counted(Sent(tx[w]), c) = {}
      BY <2>1, RowsMove
    <3> QED  BY <1>13, <3>1, ActualKept
  <2> QED  BY <1>12, <1>13, <1>14, <2>2, DebtType DEF Advances
<1>15. CASE d = 0 /\ own
  <2>1. tx[w].rows = {j.of} /\ tx[w].to = Goal(j)
    BY <1>2, <1>3, <1>15
  <2>2. ~Again(tx[w])
    <3>1. k \in DOMAIN left[w] /\ left[w][k] = p[k]
      <4>1. Len(left[w]) = Len(p) /\ DOMAIN left[w] = 1 .. Len(left[w])
        BY <1>2, <1>6, <1>15 DEF Rest
      <4>2. left[w][k] = p[d + k] /\ d + k = k
        BY <1>6, <1>8, <1>15, <4>1 DEF Rest
      <4> QED  BY <1>8, <4>1, <4>2
    <3>2. Adds(p[k], c) = Net(j)
      BY <1>7, <1>15 DEF Place, own
    <3>3. \A s : Adds(s, c) # 0 => c \in Touches(s)
      BY DEF Touches, Adds
    <3>4. c \in Touches(left[w][k])
      BY <1>6, <3>1, <3>2, <3>3
    <3>5. c \in StillToCount(w)
      BY <3>1, <3>4 DEF StillToCount
    <3> QED  BY <1>5, <3>5
  <2>3. status[j.of] # Goal(j) /\ Sent(tx[w]) = {j.of}
    <3>1. Sent(tx[w]) = tx[w].rows
      BY <2>2, RowsMove
    <3> QED  BY <2>1, <2>2, <3>1 DEF Again
  <2>4. \/ Net(j) = 1 /\ Goal(j) = "live"
        \/ Net(j) = -1 /\ Goal(j) = "deleted" /\ j.kind \in Down
    <3>1. CASE j.kind \in Down
      BY <3>1 DEF Net, Goal
    <3>2. CASE j.kind \notin Down
      BY <3>2 DEF Net, Goal
    <3> QED  BY <3>1, <3>2
  <2>5. CASE Net(j) = 1 /\ Goal(j) = "live"
    <3>1. RowsTo({j.of}, "live")
      BY <1>13, <2>1, <2>3, <2>5
    <3>2. Actual(c)' = Actual(c) + 1
      BY <1>6, <1>15, <2>3, <2>5, <3>1, ActualGrows DEF own
    <3> QED  BY <1>12, <1>15, <2>5, <3>2, DebtType DEF Advances
  <2>6. CASE Net(j) = -1 /\ Goal(j) = "deleted" /\ j.kind \in Down
    <3>1. RowsTo({j.of}, "deleted")
      BY <1>13, <2>1, <2>3, <2>6
    <3>2. status[j.of] = "live"
      <4>1. ~Inserts(w)
        BY <2>6 DEF Inserts, Creating, Down
      <4>2. status[j.of] # "absent"
        <5>1. j.of \in Sent(tx[w])
          BY <2>3
        <5>2. ~((status[j.of] # "absent") = Inserts(w))
          BY <1>1, <5>1 DEF Conflicts
        <5>3. Inserts(w) \in BOOLEAN
          BY DEF Inserts
        <5>4. Inserts(w) = FALSE
          BY <4>1, <5>3
        <5>5. ~((status[j.of] # "absent") = FALSE)
          BY <5>2, <5>4
        <5> QED  BY <5>5
      <4>3. status[j.of] \in {"absent", "live", "deleted"}
        BY <1>6 DEF ContentTypeOK
      <4> QED  BY <2>3, <2>6, <4>2, <4>3
    <3>3. Counted({j.of}, c) = {j.of}
      BY <1>15 DEF Counted, own
    <3>4. Actual(c)' = Actual(c) - Cardinality(Counted({j.of}, c))
      BY <1>6, <3>1, <3>2, <3>3, ActualFalls
    <3>5. Cardinality({j.of}) = 1
      BY FS_Singleton
    <3>6. Actual(c)' = Actual(c) + (-1)
      BY <1>13, <3>3, <3>4, <3>5
    <3> QED  BY <1>12, <1>15, <2>6, <3>6, DebtType DEF Advances
  <2> QED  BY <2>4, <2>5, <2>6
<1> QED  BY <1>14, <1>15

\* What is deleted is what is taken away.
LEMMA BanMoves ==
  ASSUME ContentTypeOK, NEW w \in Worker, Commit(w), NEW c \in Counter,
         tx[w].to = "deleted", ~Inserts(w), Adds(tx[w], c) = -Cardinality(Counted(tx[w].rows, c)),
         Again(tx[w]) => Adds(tx[w], c) = 0
  PROVE  Actual(c)' = Actual(c) + Adds(tx[w], c)
<1> DEFINE R == tx[w].rows
           C == Counted(R, c)
<1>1. RowsTo(Sent(tx[w]), "deleted") /\ Actual(c) \in Nat
  BY RowsMove, ActualRight
<1>2. R \subseteq Object /\ ~Conflicts(w, Sent(tx[w]))
  BY DEF ContentTypeOK, Transaction, Commit
<1>3. IsFiniteSet(C) /\ Cardinality(C) \in Nat
  BY <1>2, CountsRight DEF Counted
<1>4. CASE C = {}
  <2>1. Cardinality(C) = 0
    BY <1>4, FS_EmptySet
  <2>2. Actual(c)' = Actual(c)
    <3>1. Counted(Sent(tx[w]), c) = {}
      BY <1>4, RowsMove
    <3> QED  BY <1>1, <3>1, ActualKept
  <2> QED  BY <1>1, <2>1, <2>2
<1>5. CASE C # {}
  <2>1. Cardinality(C) # 0
    BY <1>3, <1>5, FS_EmptySet
  <2>2. ~Again(tx[w])
    BY <1>3, <2>1
  <2>2a. Sent(tx[w]) = R
    BY <2>2, RowsMove
  <2>3. ASSUME NEW o \in C PROVE status[o] = "live"
    <3>1. o \in R /\ o \in Object
      BY <1>2 DEF Counted
    <3>2. status[o] # "deleted"
      BY <2>2, <3>1 DEF Again
    <3>3. ~((status[o] # "absent") = Inserts(w))
      BY <1>2, <2>2a, <3>1 DEF Conflicts
    <3>4. Inserts(w) = FALSE
      <4>1. Inserts(w) \in BOOLEAN
        BY DEF Inserts
      <4> QED  BY <4>1
    <3>5. ~((status[o] # "absent") = FALSE)
      BY <3>3, <3>4
    <3>6. status[o] \in {"absent", "live", "deleted"}
      BY <3>1 DEF ContentTypeOK
    <3> QED  BY <3>2, <3>5, <3>6
  <2>4. Actual(c)' = Actual(c) - Cardinality(C)
    BY <1>1, <1>2, <2>2a, <2>3, ActualFalls
  <2> QED  BY <1>1, <1>3, <2>4
<1> QED  BY <1>4, <1>5

\* The counters of a post or comment by somebody.
LEMMA OwnedBy ==
  ASSUME NEW u, NEW o \in By(u, Object), NEW c \in Own(o)
  PROVE  /\ o \in Post => c \in {Posts, PostsBy(u)}
         /\ c \in OfCommunity \cup {PostsBy(u), CommentsBy(u)}
              \cup UNION {OnPost(r) \cup Parents(r) : r \in By(u, Reply)}
<1>1. o \in Object /\ AuthorOf[o] = u
  BY DEF By
<1>2. CASE o \in Post
  BY <1>1, <1>2 DEF Own, Mine, OfCommunity
<1>3. CASE o \notin Post
  <2>1. o \in By(u, Reply)
    BY <1>1, <1>3 DEF Object, By
  <2>2. c \in {Comments, CommentsBy(u)} \/ c \in OnPost(o) \cup Parents(o)
    BY <1>1, <1>3 DEF Own, Mine
  <2>3. c \in OnPost(o) \cup Parents(o) => c \in UNION {OnPost(r) \cup Parents(r) : r \in By(u, Reply)}
    BY <2>1
  <2> QED  BY <1>3, <2>2, <2>3 DEF OfCommunity
<1> QED  BY <1>2, <1>3

LEMMA OtherCommit ==
  ASSUME ContentTypeOK, Tails, AllRead, NoneToReset, TypedJobs', Tails', NEW w \in Worker, Commit(w),
         ~OnObjects(job[w]), NEW c \in Counter, c \notin tainted', c \notin tainted,
         c \notin Written(tx[w])
  PROVE  Advances(w, c)
<1> DEFINE j == job[w]
           t == tx[w]
           R == tx[w].rows
           u == job[w].of
<1>1. t.read /\ ~Idle(w) /\ j \in Job /\ R \subseteq Object
  BY DEF Commit, ContentTypeOK, Transaction
<1>2. /\ c \notin Uneven(j) /\ Adds(t, c) \in Int
      /\ Again(t) => Adds(t, c) = 0
  BY CountMoves
<1>3. Debt(j, left[w], c) = 0
  BY <1>1, RestOf, DebtNone
<1>4. Debt(job'[w], left'[w], c) = 0
  <2>1. \/ job'[w] = NoJob /\ left'[w] = <<>>
        \/ job'[w] = j
    BY CommitFrame, JobsTyped
  <2>2. CASE job'[w] = NoJob /\ left'[w] = <<>>
    BY <2>2, DebtEnded
  <2>3. CASE job'[w] = j
    <3>1. Rest(j, left'[w])
      BY <1>1, <2>3, RestWillBe DEF Idle
    <3> QED  BY <1>1, <2>3, <3>1, DebtNone
  <2> QED  BY <2>1, <2>2, <2>3
<1>5. ReadRight(w)
  BY <1>1 DEF AllRead
<1>6. RowsTo(Sent(t), t.to) /\ Actual(c) \in Nat /\ (Counted(R, c) = {} => Counted(Sent(t), c) = {})
  BY RowsMove, ActualRight
<1>7. SUFFICES Actual(c)' = Actual(c) + Adds(t, c)
  BY <1>2, <1>3, <1>4, <1>6 DEF Advances
<1>8. ~Inserts(w)
  BY DEF Inserts, Creating, OnObjects, OfPost, OfReply
<1>9. \A S : /\ Removal(R, S) \in Transaction /\ Removal(R, S).to = "deleted"
  BY <1>1, GoneRight
<1>10. \A s : Same(t, s) => Adds(t, c) = Adds(s, c) /\ t.to = s.to
  BY DEF Same, Adds
<1>11. CASE j.kind \in Banning /\ Len(left[w]) = 2
  <2>1. Same(t, Replies(j.kind, u, R))
    BY <1>5, <1>11 DEF ReadRight
  <2> DEFINE S == IF j.kind = "site_ban" THEN Counter \ {CommentsBy(u)} ELSE Counter
  <2>2. c \in S
    BY <1>2 DEF Uneven
  <2>3. Replies(j.kind, u, R) = Removal(R, S)
    BY DEF Replies
  <2> HIDE DEF S, R
  <2>4. Adds(t, c) = -Cardinality(Counted(R, c)) /\ t.to = "deleted"
    <3>1. Adds(Removal(R, S), c) = -Cardinality(Counted(R, c))
      BY <1>1, <2>2, GoneAdds
    <3> QED  BY <1>9, <1>10, <2>1, <2>3, <3>1
  <2> QED  BY <1>2, <1>8, <2>4, BanMoves DEF R
<1>12. CASE j.kind \in Banning /\ Len(left[w]) = 1
  <2>1. Same(t, PostsGone(j.kind, u, R)) /\ R \subseteq By(u, Post)
    BY <1>5, <1>12 DEF ReadRight
  <2>2. R \subseteq Post /\ R \subseteq By(u, Object)
    BY <2>1 DEF By, Object
  <2>3. CASE j.kind # "site_ban"
    <3>1. PostsGone(j.kind, u, R) = Removal(R, Counter)
      BY <2>3 DEF PostsGone
    <3>2. Adds(Removal(R, Counter), c) = -Cardinality(Counted(R, c))
      BY <1>1, GoneAdds
    <3>3. Adds(t, c) = -Cardinality(Counted(R, c)) /\ t.to = "deleted"
      BY <1>9, <1>10, <2>1, <3>1, <3>2
    <3> QED  BY <1>2, <1>8, <3>3, BanMoves
  <2>4. CASE j.kind = "site_ban"
    <3> DEFINE g == Removal(R, {Posts})
    <3>1. g \in Transaction /\ g.value = Zero
      BY <1>9 DEF Removal, Tx
    <3>2. \A s \in Transaction : \A S :
            /\ Adds([s EXCEPT !.sets = S], c) = Adds(s, c) /\ [s EXCEPT !.sets = S].to = s.to
            /\ [s EXCEPT !.sets = S].value = s.value /\ [s EXCEPT !.sets = S].sets = S
      BY DEF Transaction, Adds
    <3>3. PostsGone(j.kind, u, R) = [g EXCEPT !.sets = {PostsBy(u)}]
      BY <2>4 DEF PostsGone
    <3>4. g.to = "deleted"
      BY <1>9
    <3> HIDE DEF g
    <3>5. /\ Adds(t, c) = Adds(g, c) /\ t.to = "deleted"
          /\ t.value = Zero /\ t.sets = {PostsBy(u)}
      <4>1. /\ Adds(PostsGone(j.kind, u, R), c) = Adds(g, c)
            /\ PostsGone(j.kind, u, R).to = "deleted"
            /\ PostsGone(j.kind, u, R).value = Zero
            /\ PostsGone(j.kind, u, R).sets = {PostsBy(u)}
        BY <3>1, <3>2, <3>3, <3>4
      <4> QED  BY <1>10, <2>1, <4>1 DEF Same
    <3>6. CASE c = Posts
      <4>1. Adds(g, c) = -Cardinality(Counted(R, c))
        BY <1>1, <3>6, GoneAdds DEF g
      <4> QED  BY <1>2, <1>8, <3>5, <4>1, BanMoves
    <3>7. CASE c # Posts
      <4>1. Adds(t, c) = 0
        <5>1. Adds(g, c) = 0
          BY <1>1, <2>2, <3>7, GoneAdds DEF g
        <5> QED  BY <3>5, <5>1
      <4>2. Counted(R, c) = {}
        <5>1. CASE c = PostsBy(u)
          <6>1. tx[w].copy[c] = 0
            BY <3>5, <5>1 DEF Written, Zero
          <6>2. c \in tx[w].sets \ tainted
            BY <3>5, <5>1
          <6>3. R = {}
            BY <1>1, <2>4, <6>1, <6>2 DEF NoneToReset
          <6> QED  BY <6>3 DEF Counted
        <5>2. CASE c # PostsBy(u)
          BY <2>2, <3>7, <5>2, OwnedBy DEF Counted
        <5> QED  BY <5>1, <5>2
      <4>3. Actual(c)' = Actual(c)
        BY <1>6, <4>2, ActualKept
      <4> QED  BY <1>6, <4>1, <4>3
    <3> QED  BY <3>6, <3>7
  <2> QED  BY <2>3, <2>4
<1>13. CASE j.kind = "purge_content"
  <2>1. Same(t, Tx(R, "deleted", Zero, Zero)) /\ R \subseteq By(u, Object)
    BY <1>5, <1>13 DEF ReadRight
  <2>2. Adds(Tx(R, "deleted", Zero, Zero), c) = 0
    BY DEF Adds, Tx, Zero
  <2>3. Adds(t, c) = 0
    BY <1>10, <2>1, <2>2
  <2>4. Uneven(j) = OfCommunity \cup {PostsBy(u), CommentsBy(u)}
           \cup UNION {OnPost(r) \cup Parents(r) : r \in By(u, Reply)}
    BY <1>13 DEF Uneven
  <2>5. ASSUME NEW o \in Counted(R, c) PROVE FALSE
    <3>1. o \in By(u, Object) /\ c \in Own(o)
      BY <2>1, <2>5 DEF Counted
    <3>2. c \in OfCommunity \cup {PostsBy(u), CommentsBy(u)}
           \cup UNION {OnPost(r) \cup Parents(r) : r \in By(u, Reply)}
      BY <3>1, OwnedBy
    <3> QED  BY <1>2, <2>4, <3>2
  <2>6. Actual(c)' = Actual(c)
    BY <1>6, <2>5, ActualKept
  <2> QED  BY <1>6, <2>3, <2>6
<1>14. CASE j.kind = "stats"
  <2>1. Same(t, [Nothing EXCEPT !.sets = OfCommunity, !.value = t.value])
    BY <1>5, <1>14 DEF ReadRight
  <2>2. \A s \in Transaction : \A S, f :
          /\ Adds([s EXCEPT !.sets = S, !.value = f], c) = Adds(s, c)
          /\ [s EXCEPT !.sets = S, !.value = f].rows = s.rows
    BY DEF Transaction, Adds
  <2> DEFINE n == [Nothing EXCEPT !.sets = OfCommunity, !.value = t.value]
  <2>3. Adds(t, c) = 0 /\ R = {}
    <3>0. Nothing \in Transaction /\ Adds(Nothing, c) = 0 /\ Nothing.rows = {}
      BY NothingRight
    <3>1. Adds(n, c) = 0 /\ n.rows = {}
      BY <2>2, <3>0
    <3> HIDE DEF n
    <3> QED  BY <1>10, <2>1, <3>1 DEF Same, n
  <2>4. Actual(c)' = Actual(c)
    BY <1>6, <2>3, ActualKept DEF Counted
  <2> QED  BY <1>6, <2>3, <2>4
<1>15. j.kind \in Banning \cup {"purge_content", "stats"}
  BY <1>1 DEF Job, OnObjects, Banning, OfUser, Idle, NoJob
<1>16. j.kind \in Banning => Len(left[w]) \in {1, 2}
  BY <1>1, LeftRight
<1> QED  BY <1>11, <1>12, <1>13, <1>14, <1>15, <1>16

\* A counter that is set while nobody else is at work is right.
LEMMA SetCommit ==
  ASSUME ContentTypeOK, Tails, AllRead, FreshRight, NEW w \in Worker, Commit(w), Undisturbed(w),
         NEW c \in tx[w].sets, c \notin tainted'
  PROVE  count'[c] = Actual(c)' /\ Len(left[w]) = 1
<1> DEFINE j == job[w]
           t == tx[w]
<1>1. t.read /\ ~Idle(w) /\ w \in fresh /\ c \in Counter /\ j \in Job /\ t \in Transaction
  BY DEF Commit, ContentTypeOK, Transaction, Undisturbed
<1>2. FreshFor(w, c)
  BY <1>1 DEF FreshRight
<1>3. t.copy[c] = count[c] /\ ReadRight(w)
  BY <1>1, <1>2 DEF FreshFor, AllRead
<1>4. count'[c] = IF t.value[c] # count[c] THEN t.value[c]
                  ELSE t.sql[c] + (IF t.orm[c] = 0 THEN count[c] ELSE t.copy[c] + t.orm[c])
  BY <1>1, <1>3 DEF Commit, Stored, Written
<1>5. t.orm[c] = 0 /\ t.sql[c] = 0 => count'[c] = t.value[c]
  <2>1. count[c] \in Int
    BY <1>1 DEF ContentTypeOK, Delta
  <2> QED  BY <1>4, <2>1
<1>6. RowsTo(t.rows, t.to)
  <2>1. c \in Touches(t)
    BY <1>1 DEF Touches
  <2>2. ~Again(t)
    BY <2>1, TaintsKept
  <2> QED  BY <2>2, RowsMove
<1>7. CASE j.kind = "stats"
  <2>1. Same(t, [Nothing EXCEPT !.sets = OfCommunity, !.value = t.value])
    BY <1>3, <1>7 DEF ReadRight
  <2>2. \A s \in Transaction : \A S, f :
          /\ [s EXCEPT !.sets = S, !.value = f].orm = s.orm
          /\ [s EXCEPT !.sets = S, !.value = f].sql = s.sql
          /\ [s EXCEPT !.sets = S, !.value = f].rows = s.rows
    BY DEF Transaction
  <2>3. Nothing.orm = Zero /\ Nothing.sql = Zero /\ Nothing.rows = {}
    BY DEF Nothing, Tx
  <2> DEFINE n == [Nothing EXCEPT !.sets = OfCommunity, !.value = t.value]
  <2>4. n.orm = Zero /\ n.sql = Zero /\ n.rows = {}
    BY <2>2, <2>3, NothingRight
  <2> HIDE DEF n
  <2>5. t.orm = Zero /\ t.sql = Zero /\ t.rows = {}
    BY <2>1, <2>4 DEF Same, n
  <2>6. count'[c] = t.value[c]
    BY <1>1, <1>5, <2>5 DEF Zero
  <2>7. t.value[c] = Actual(c)
    BY <1>2, <1>7 DEF FreshFor
  <2>8. Actual(c)' = Actual(c)
    BY <1>1, <1>6, <2>5, ActualKept DEF Counted
  <2>9. Len(left[w]) = 1
    <3>1. ~OnObjects(j) /\ j.kind \notin Banning
      BY <1>7 DEF OnObjects, Banning, OfPost, OfReply
    <3>2. Len(left[w]) \in Nat \ {0} /\ Len(left[w]) <= 1
      BY <1>1, <3>1, LeftRight
    <3>3. \A m \in Nat \ {0} : m <= 1 => m = 1
      OBVIOUS
    <3> QED  BY <3>2, <3>3
  <2> QED  BY <2>6, <2>7, <2>8, <2>9
<1>8. CASE j.kind # "stats"
  <2> DEFINE u == j.of
             g == Removal(t.rows, {Posts})
  <2>1. j.kind = "site_ban" /\ Len(left[w]) = 1 /\ c = PostsBy(u)
    BY <1>1, <1>8, SetsRight
  <2>2. Same(t, PostsGone(j.kind, u, t.rows)) /\ t.rows = Live(By(u, Post))
    BY <1>2, <1>3, <2>1 DEF ReadRight, FreshFor, Banning
  <2>3. t.rows \subseteq Post /\ t.rows \in SUBSET Object
    BY <2>2 DEF Live, By, Object
  <2>4. PostsGone(j.kind, u, t.rows) = [g EXCEPT !.sets = {PostsBy(u)}]
    BY <2>1 DEF PostsGone
  <2>5. g \in Transaction /\ g.value = Zero /\ g.to = "deleted"
    <3>1. g \in Transaction /\ g.to = "deleted"
      BY <2>3, GoneRight
    <3>2. g.value = Zero
      BY DEF Removal, Tx
    <3> QED  BY <3>1, <3>2
  <2>6. \A s \in Transaction : \A S :
          /\ [s EXCEPT !.sets = S].orm = s.orm /\ [s EXCEPT !.sets = S].sql = s.sql
          /\ [s EXCEPT !.sets = S].value = s.value /\ [s EXCEPT !.sets = S].to = s.to
    BY DEF Transaction
  <2>7. c # Posts
    BY <2>1 DEF Posts, PostsBy
  <2>8. g.orm[c] = 0 /\ g.sql[c] = 0
    BY <1>1, <2>3, <2>7, GoneAdds
  <2> HIDE DEF g, u
  <2>9. t.orm = g.orm /\ t.sql = g.sql /\ t.value = Zero /\ t.to = "deleted"
    <3>1. /\ PostsGone(j.kind, u, t.rows).orm = g.orm /\ PostsGone(j.kind, u, t.rows).sql = g.sql
          /\ PostsGone(j.kind, u, t.rows).value = Zero
          /\ PostsGone(j.kind, u, t.rows).to = "deleted"
      BY <2>4, <2>5, <2>6
    <3> QED  BY <2>2, <3>1 DEF Same
  <2>10. count'[c] = 0
    BY <1>1, <1>5, <2>8, <2>9 DEF Zero
  <2>11. Live(Says[c])' = {}
    <3>1. ASSUME NEW o \in Object, c \in Own(o), status'[o] = "live" PROVE FALSE
      <4>1. o \in Post /\ AuthorOf[o] = u
        BY <2>1, <3>1 DEF Own, Mine, Posts, PostsBy, CommentsBy, Comments, OnPost, RepliesTo, Parents, Below
      <4>2. o \notin t.rows
        BY <1>6, <2>9, <3>1 DEF RowsTo
      <4>3. status[o] = "live"
        BY <1>6, <3>1, <4>2 DEF RowsTo
      <4> QED  BY <2>2, <4>1, <4>2, <4>3 DEF Live, By
    <3>2. Live(Says[c])' = {o \in Object : c \in Own(o) /\ status'[o] = "live"}
      BY <1>1, LiveWillBe
    <3> QED  BY <3>1, <3>2
  <2>12. Actual(c)' = 0
    BY <1>1, <2>11, LiveWillBe, FS_EmptySet
  <2> QED  BY <2>1, <2>10, <2>12
<1> QED  BY <1>7, <1>8

\* An operation that ends owed the counter nothing, unless the counter is tainted.
LEMMA EndOwesNothing ==
  ASSUME ContentTypeOK, Tails, AllRead, NEW w \in Worker, Ends(w), NEW c \in Counter, c \notin tainted'
  PROVE  /\ Debt(job[w], left[w], c) = 0 /\ Actual(c)' = Actual(c)
<1>1. ~Idle(w) /\ job[w] \in Job /\ Rest(job[w], left[w])
  <2>1. ~Idle(w)
    <3>1. CASE EditRaises(w)
      BY <3>1, NoJobRight DEF EditRaises, Idle
    <3>2. CASE FindsNothing(w) \/ Conflict(w) \/ Abort(w)
      BY <3>2 DEF FindsNothing, Conflict, Abort, ContentTypeOK
    <3> QED  BY <3>1, <3>2 DEF Ends
  <2> QED  BY <2>1, RestOf DEF ContentTypeOK
<1>a. ~HalfWay(w) => Debt(job[w], left[w], c) = 0
  <2>1. HalfWay(w) <=> Goes(job[w], left[w])
    BY DEF HalfWay, Goes, Idle
  <2> QED  BY <2>1 DEF Debt
<1>b. c \notin StillToCount(w) => Debt(job[w], left[w], c) = 0
  <2>1. \A s : Adds(s, c) # 0 => c \in Touches(s)
    BY DEF Touches, Adds
  <2>2. ASSUME c \notin StillToCount(w), NEW x \in {1, -1}, Owes(left[w], c, x) PROVE FALSE
    <3>1. PICK i \in DOMAIN left[w] : Adds(left[w][i], c) = x
      BY <2>2 DEF Owes
    <3>2. c \in Touches(left[w][i])
      BY <2>1, <2>2, <3>1
    <3> QED  BY <2>2, <3>1, <3>2 DEF StillToCount
  <2> QED  BY <2>2 DEF Debt
<1>c. ~OnObjects(job[w]) => Debt(job[w], left[w], c) = 0
  BY <1>1, DebtNone
<1>d. status' = status => Actual(c)' = Actual(c)
  BY DEF Actual, Live, Says
<1>2. CASE FindsNothing(w)
  BY <1>2, <1>a, <1>d DEF FindsNothing
<1>3. CASE Conflict(w)
  <2>1. ~OnObjects(job[w]) \/ ~HalfWay(w)
    <3>1. SUFFICES ASSUME OnObjects(job[w]), HalfWay(w) PROVE FALSE
      OBVIOUS
    <3>2. tx[w].read /\ tx[w].rows # {}
      BY <1>3 DEF Conflict, Conflicts
    <3>3. Done(job[w], left[w]) # 0
      <4>1. Len(left[w]) \in Nat /\ Len(Program(job[w])) \in Nat
            /\ Len(left[w]) < Len(Program(job[w]))
        BY <1>1, <3>1, LeftRight DEF HalfWay
      <4>2. \A m, n \in Nat : m < n => n - m # 0
        OBVIOUS
      <4> QED  BY <4>1, <4>2 DEF Done
    <3>4. Program(job[w])[Done(job[w], left[w]) + 1].rows = {}
          /\ Same(tx[w], Program(job[w])[Done(job[w], left[w]) + 1])
      BY <3>1, <3>2, <3>3, NextOfProgram
    <3> QED  BY <3>2, <3>4 DEF Same
  <2> QED  BY <1>3, <2>1, <1>a, <1>c, <1>d DEF Conflict
<1>4. CASE Abort(w)
  <2>1. ~HalfWay(w) \/ c \notin StillToCount(w)
    BY <1>4 DEF Abort
  <2> QED  BY <1>4, <2>1, <1>a, <1>b, <1>d DEF Abort
<1>5. CASE EditRaises(w)
  <2> DEFINE p == job[w].of
  <2>1. job[w].kind = "make_post" /\ c \notin {Posts, Mine(p)}
        /\ RowsTo({p}, "absent")
    BY <1>5 DEF EditRaises, RowsTo, ContentTypeOK
  <2>2. OnObjects(job[w]) /\ p \in Post /\ p \in Object
    <3>1. OnObjects(job[w]) /\ job[w].kind \in OfPost
      BY <2>1 DEF OnObjects, OfPost
    <3> QED  BY <1>1, <3>1, Jobs
  <2>3. c \notin Own(p)
    BY <2>1, <2>2 DEF Own
  <2>4. c \in Even(job[w])
    BY <2>1 DEF Even, Uneven
  <2>5. PICK k : Place(job[w], c, k)
    BY <1>1, <2>2, <2>4, PlaceExists
  <2>6. Debt(job[w], left[w], c) = 0
    BY <1>1, <2>2, <2>3, <2>5, DebtRight
  <2>7. Actual(c)' = Actual(c)
    BY <2>1, <2>3, ActualKept DEF Counted
  <2> QED  BY <2>6, <2>7
<1> QED  BY <1>2, <1>3, <1>4, <1>5 DEF Ends

BalancedAt(c) ==
  count[c] + Cardinality(InDebt(c, 1)) - Cardinality(InDebt(c, -1)) = Actual(c)

LEMMA BalanceMoves ==
  ASSUME ContentTypeOK, ContentTypeOK', NEW w \in Worker, Preserved(w), IsFiniteSet(Busy), NEW c \in Counter,
         BalancedAt(c),
         count'[c] - count[c] + (Debt(job'[w], left'[w], c) - Debt(job[w], left[w], c))
           = Actual(c)' - Actual(c)
  PROVE  BalancedAt(c)'
<1>1. /\ Cardinality(InDebt(c, 1)) \in Nat /\ Cardinality(InDebt(c, 1)') \in Nat
      /\ Cardinality(InDebt(c, -1)) \in Nat /\ Cardinality(InDebt(c, -1)') \in Nat
      /\ Cardinality(InDebt(c, 1)') - Cardinality(InDebt(c, -1)') =
              (Cardinality(InDebt(c, 1)) - Cardinality(InDebt(c, -1)))
                + (Debt(job'[w], left'[w], c) - Debt(job[w], left[w], c))
  BY WaitsMove
<1>2. count[c] \in Int /\ count'[c] \in Int /\ Actual(c) \in Nat /\ Actual(c)' \in Nat
  <2>1. Actual(c)' \in Nat
    BY LiveWillBe, FS_CardinalityType
  <2> QED  BY <2>1, ActualRight DEF ContentTypeOK, Delta
<1>3. Debt(job'[w], left'[w], c) \in Int /\ Debt(job[w], left[w], c) \in Int
  BY DebtType
<1>4. count[c] + Cardinality(InDebt(c, 1)) - Cardinality(InDebt(c, -1)) = Actual(c)
  BY DEF BalancedAt
<1>5. count'[c] + Cardinality(InDebt(c, 1)') - Cardinality(InDebt(c, -1)') = Actual(c)'
  BY <1>1, <1>2, <1>3, <1>4
<1> QED  BY <1>5 DEF BalancedAt

LEMMA BalancedNext ==
  ASSUME ContentTypeOK, ContentTypeOK', IsFiniteSet(Busy), Tails, Tails', AllRead, FreshRight, NoneToReset,
         Balanced, [ContentNext]_contentVars
  PROVE  Balanced'
<1> SUFFICES ASSUME NEW c \in Counter, c \notin tainted' PROVE BalancedAt(c)'
  BY DEF Balanced, BalancedAt
<1>0. c \notin tainted => BalancedAt(c) /\ count[c] \in Int /\ Actual(c) \in Nat
  BY ActualRight DEF Balanced, BalancedAt, ContentTypeOK, Delta
<1>b. status' = status => Actual(c)' = Actual(c)
  BY DEF Actual, Live, Says
<1>c. TypedJobs'
  BY DEF ContentTypeOK, TypedJobs
<1>1. CASE UNCHANGED <<status, count, job, left, tx, requests, aborts, tainted, fresh>>
  <2>1. BalancedAt(c)
    BY <1>0, <1>1
  <2> QED  BY <1>1, <2>1 DEF BalancedAt, InDebt, HalfWay, Idle, Actual, Live, Says
<1>2. ASSUME NEW w \in Worker, NEW j, Starts(w, j) PROVE BalancedAt(c)'
  <2>1. Preserved(w) /\ ~HalfWay(w)' /\ ~HalfWay(w)
    BY <1>2, StartFrame, JobsTyped
  <2>2. Debt(job[w], left[w], c) = 0 /\ Debt(job'[w], left'[w], c) = 0
    BY <2>1 DEF HalfWay, Idle, Debt, Goes
  <2>3. status' = status /\ count' = count /\ tainted' = tainted
    BY <1>2 DEF Starts
  <2> QED  BY <1>0, <1>b, <2>1, <2>2, <2>3, BalanceMoves
<1>3. ASSUME NEW w \in Worker, ReadObjects(w) PROVE BalancedAt(c)'
  <2>1. /\ Preserved(w) /\ job'[w] = job[w] /\ left'[w] = left[w]
        /\ status' = status /\ count' = count /\ tainted' = tainted
    BY <1>3, ReadFrame
  <2>2. Debt(job[w], left[w], c) \in Int
    BY DebtType
  <2> QED  BY <1>0, <1>b, <2>1, <2>2, BalanceMoves
<1>4. ASSUME NEW w \in Worker, Ends(w) PROVE BalancedAt(c)'
  <2>1. /\ Preserved(w) /\ job'[w] = NoJob /\ left'[w] = <<>> /\ count' = count
    BY <1>4, EndsFrame
  <2>2. Debt(job[w], left[w], c) = 0 /\ Actual(c)' = Actual(c)
    BY <1>4, EndOwesNothing
  <2>3. Debt(job'[w], left'[w], c) = 0
    BY <2>1, DebtEnded
  <2>4. c \notin tainted
    BY <1>4, TaintedGrows
  <2> QED  BY <1>0, <2>1, <2>2, <2>3, <2>4, BalanceMoves
<1>5. ASSUME NEW w \in Worker, Commit(w) PROVE BalancedAt(c)'
  <2>1. Preserved(w)
    BY <1>5, CommitFrame, JobsTyped
  <2>2. CASE Undisturbed(w) /\ c \in tx[w].sets
    <3>1. count'[c] = Actual(c)' /\ Len(left[w]) = 1
      BY <1>5, <2>2, SetCommit
    <3>2. Idle(w)'
      BY <1>5, <3>1, CommitFrame, JobsTyped DEF Idle
    <3>3. ASSUME NEW v \in Worker PROVE ~HalfWay(v)'
      <4>1. CASE v = w
        BY <3>2, <4>1 DEF HalfWay
      <4>2. CASE v # w
        BY <2>1, <2>2, <4>2 DEF Undisturbed, Preserved, HalfWay, Idle
      <4> QED  BY <4>1, <4>2
    <3>4. InDebt(c, 1)' = {} /\ InDebt(c, -1)' = {}
      BY <3>3 DEF InDebt
    <3>5. Cardinality(InDebt(c, 1)') = 0 /\ Cardinality(InDebt(c, -1)') = 0
      BY <3>4, FS_EmptySet
    <3>6. count'[c] \in Int
      BY DEF ContentTypeOK, Delta
    <3>7. count'[c] + 0 - 0 = Actual(c)'
      BY <3>1, <3>6
    <3> QED  BY <3>5, <3>7 DEF BalancedAt
  <2>3. CASE ~(Undisturbed(w) /\ c \in tx[w].sets)
    <3>1. c \notin tainted /\ c \notin Written(tx[w])
      <4>1. CASE ~Undisturbed(w)
        BY <1>5, <4>1, TaintsKept
      <4>2. CASE c \notin tx[w].sets
        BY <1>5, <4>2, TaintsKept DEF Written
      <4> QED  BY <2>3, <4>1, <4>2
    <3>2. Advances(w, c)
      <4>1. CASE OnObjects(job[w])
        BY <1>5, <1>c, <4>1, ObjectCommit
      <4>2. CASE ~OnObjects(job[w])
        BY <1>5, <1>c, <3>1, <4>2, OtherCommit
      <4> QED  BY <4>1, <4>2
    <3>3. /\ count'[c] = count[c] + Adds(tx[w], c) /\ Adds(tx[w], c) \in Int /\ count[c] \in Int
      BY <1>5, <3>1, CountMoves
    <3>4. Actual(c) \in Nat
      BY ActualRight
    <3>5. count'[c] - count[c] + (Debt(job'[w], left'[w], c) - Debt(job[w], left[w], c))
           = Actual(c)' - Actual(c)
      <4> DEFINE x == Debt(job'[w], left'[w], c)
                 y == Debt(job[w], left[w], c)
                 a == Adds(tx[w], c)
      <4>1. x \in Int /\ y \in Int /\ Actual(c)' = Actual(c) + (a + (x - y))
        BY <3>2 DEF Advances
      <4> HIDE DEF x, y, a
      <4>2. a \in Int /\ count[c] \in Int /\ count'[c] = count[c] + a
        BY <3>3 DEF a
      <4>3. count'[c] - count[c] + (x - y) = Actual(c)' - Actual(c)
        BY <3>4, <4>1, <4>2
      <4> QED  BY <4>3 DEF x, y
    <3> QED  BY <1>0, <2>1, <3>1, <3>5, BalanceMoves
  <2> QED  BY <2>2, <2>3
<1> QED  BY <1>1, <1>2, <1>3, <1>4, <1>5, Steps

LEMMA InvInit == ContentInit => Inv
<1> SUFFICES ASSUME ContentInit PROVE Inv
  OBVIOUS
<1>1. ContentTypeOK
  BY TypeInit
<1>2. \A w \in Worker : Idle(w) /\ ~HalfWay(w) /\ ~tx[w].read /\ job[w] = NoJob
  BY NothingRight DEF ContentInit, Idle, HalfWay
<1>3. Busy = {} /\ \A c, d : InDebt(c, d) = {}
  BY <1>2 DEF Busy, InDebt
<1>4. IsFiniteSet(Busy) /\ \A c, d : Cardinality(InDebt(c, d)) = 0
  BY <1>3, FS_EmptySet
<1>5. Balanced
  <2>1. ASSUME NEW c \in Counter
        PROVE  count[c] + Cardinality(InDebt(c, 1)) - Cardinality(InDebt(c, -1)) = Actual(c)
    <3>1. count[c] = Actual(c) /\ Actual(c) \in Nat
      BY ActualRight DEF ContentInit
    <3> QED  BY <1>4, <3>1
  <2> QED  BY <2>1 DEF Balanced
<1>6. Tails /\ AllRead /\ FreshRight /\ NoneToReset /\ UnevenTainted
  BY <1>2 DEF Tails, AllRead, FreshRight, NoneToReset, UnevenTainted, ContentInit
<1>7. Homes
  BY <1>2, NoJobRight DEF Homes
<1> QED  BY <1>1, <1>4, <1>5, <1>6, <1>7 DEF Inv

LEMMA InvNext == Inv /\ [ContentNext]_contentVars => Inv'
<1> SUFFICES ASSUME Inv, [ContentNext]_contentVars PROVE Inv'
  OBVIOUS
<1>1. /\ ContentTypeOK /\ IsFiniteSet(Busy) /\ Tails /\ AllRead /\ FreshRight /\ Homes
      /\ NoneToReset /\ UnevenTainted /\ Balanced
  BY DEF Inv
<1>2. ContentTypeOK' /\ Tails' /\ IsFiniteSet(Busy)'
  BY <1>1, TypeNext, TailsNext, BusyNext
<1>3. AllRead' /\ FreshRight' /\ Homes' /\ UnevenTainted'
  BY <1>1, ReadNext, FreshNext, HomesNext, UnevenNext
<1>4. NoneToReset' /\ Balanced'
  BY <1>1, <1>2, NoneNext, BalancedNext
<1> QED  BY <1>2, <1>3, <1>4 DEF Inv

\* The types of all variables, with what the programs of transactions are.
THEOREM ContentTypeCorrect == ContentSpec => []ContentTypeOK
<1>1. Inv => ContentTypeOK
  BY DEF Inv
<1> QED  BY <1>1, InvInit, InvNext, PTL DEF ContentSpec

\* Every counter that nothing has gone wrong with says how many rows there are,
\* once nobody who is half way still has to change it.
THEOREM CountersRight == ContentSpec => []CountersAgree
<1>1. Inv => CountersAgree
  <2> SUFFICES ASSUME Inv, NEW c \in Counter \ tainted,
                      \A w \in Worker : HalfWay(w) => c \notin StillToCount(w)
               PROVE  count[c] = Actual(c)
    BY DEF CountersAgree
  <2>1. \A s : Adds(s, c) # 0 => c \in Touches(s)
    BY DEF Touches, Adds
  <2>2. ASSUME NEW x \in {1, -1} PROVE InDebt(c, x) = {}
    <3>1. ASSUME NEW w \in InDebt(c, x) PROVE FALSE
      <4>1. w \in Worker /\ HalfWay(w)
        BY <3>1 DEF InDebt
      <4>2. PICK i \in DOMAIN left[w] : Adds(left[w][i], c) = x
        BY <3>1 DEF InDebt
      <4>3. c \in Touches(left[w][i])
        BY <2>1, <4>2
      <4> QED  BY <4>1, <4>2, <4>3 DEF StillToCount
    <3> QED  BY <3>1
  <2>3. Cardinality(InDebt(c, 1)) = 0 /\ Cardinality(InDebt(c, -1)) = 0
    BY <2>2, FS_EmptySet
  <2>4. count[c] + Cardinality(InDebt(c, 1)) - Cardinality(InDebt(c, -1)) = Actual(c)
    BY DEF Inv, Balanced
  <2>5. count[c] \in Int
    BY DEF Inv, ContentTypeOK, Delta
  <2> QED  BY <2>3, <2>4, <2>5
<1> QED  BY <1>1, InvInit, InvNext, PTL DEF ContentSpec

\* Only who restores a post or comment brings it back.
THEOREM OnlyRestoring == ContentSpec => OnlyRestoringRevives
<1> DEFINE Step ==
      \A o \in Object : status[o] = "deleted" /\ status'[o] = "live" =>
       \E w \in Worker : /\ job[w].of = o
                         /\ job[w].kind \in {"restore_post", "restore_reply",
                                             "restore_any_reply"}
<1>1. ASSUME Inv, [ContentNext]_contentVars PROVE Step
  <2> SUFFICES ASSUME NEW o \in Object, status[o] = "deleted", status'[o] = "live"
               PROVE  \E w \in Worker : job[w].of = o /\ job[w].kind \in Restoring
    BY DEF Restoring
  <2>1. ContentTypeOK /\ Tails /\ AllRead
    BY <1>1 DEF Inv
  <2>2. PICK w \in Worker : Commit(w)
    <3>1. ASSUME NEW w \in Worker, Ends(w) PROVE FALSE
      <4>1. status' = status \/ \E p : status' = [status EXCEPT ![p] = "absent"]
        BY <3>1 DEF Ends, FindsNothing, Conflict, Abort, EditRaises
      <4> QED  BY <2>1, <4>1 DEF ContentTypeOK
    <3>2. ASSUME NEW w \in Worker, NEW j, Starts(w, j) PROVE FALSE
      BY <3>2 DEF Starts
    <3>3. ASSUME NEW w \in Worker, ReadObjects(w) PROVE FALSE
      BY <3>3 DEF ReadObjects
    <3> QED  BY <1>1, <2>1, <3>1, <3>2, <3>3, Steps
  <2>3. o \in Sent(tx[w]) /\ o \in tx[w].rows /\ tx[w].to = "live" /\ tx[w].read
        /\ ~Conflicts(w, Sent(tx[w]))
        /\ ~Idle(w) /\ job[w] \in Job /\ ReadRight(w) /\ tx[w].rows \in SUBSET Object
    BY <2>1, <2>2 DEF Commit, ContentTypeOK, AllRead, Transaction, Sent
  <2>4. CASE OnObjects(job[w])
    <3> DEFINE d == Done(job[w], left[w])
               t == Program(job[w])[d + 1]
    <3>1. /\ Same(tx[w], t) /\ (d # 0 => t.rows = {})
          /\ d = 0 => t.rows = {job[w].of} /\ t.to = Goal(job[w])
      BY <2>1, <2>3, <2>4, NextOfProgram
    <3> HIDE DEF t
    <3>2. d = 0 /\ o = job[w].of /\ Goal(job[w]) = "live"
      BY <2>3, <3>1 DEF Same
    <3>3. ~HalfWay(w)
      <4>1. Len(left[w]) \in Nat /\ Len(Program(job[w])) \in Nat
        BY <2>1, <2>3, LeftRight
      <4>2. Len(Program(job[w])) - Len(left[w]) = 0
        BY <3>2 DEF Done
      <4>3. \A m, n \in Nat : n - m = 0 => ~(m < n)
        OBVIOUS
      <4> QED  BY <4>1, <4>2, <4>3 DEF HalfWay
    <3>4. ~((status[o] # "absent") = Inserts(w))
      BY <2>3 DEF Conflicts
    <3>5. ~Inserts(w)
      <4>1. Inserts(w) \in BOOLEAN
        BY DEF Inserts
      <4>2. (status[o] # "absent") = TRUE
        OBVIOUS
      <4>3. ~(TRUE = Inserts(w))
        BY <3>4, <4>2
      <4> QED  BY <4>1, <4>3
    <3>6. job[w].kind \notin Creating /\ job[w].kind \notin Down
      BY <3>2, <3>3, <3>5 DEF Inserts, Goal
    <3> QED  BY <2>4, <3>2, <3>6 DEF OnObjects, OfPost, OfReply, Creating, Down, Restoring
  <2>5. CASE ~OnObjects(job[w])
    <3>1. \A S : Removal(tx[w].rows, S).to = "deleted" /\ Removal(tx[w].rows, S) \in Transaction
      BY <2>3, GoneRight
    <3>2. \A s \in Transaction : \A S : [s EXCEPT !.sets = S].to = s.to
      BY DEF Transaction
    <3>3. CASE job[w].kind \in Banning
      <4>1. Len(left[w]) \in {1, 2}
        BY <2>1, <2>3, <3>3, LeftRight
      <4>2. \/ Same(tx[w], Replies(job[w].kind, job[w].of, tx[w].rows))
            \/ Same(tx[w], PostsGone(job[w].kind, job[w].of, tx[w].rows))
        BY <2>3, <3>3, <4>1 DEF ReadRight
      <4>3. Replies(job[w].kind, job[w].of, tx[w].rows).to = "deleted"
        BY <3>1 DEF Replies
      <4>4. PostsGone(job[w].kind, job[w].of, tx[w].rows).to = "deleted"
        BY <3>1, <3>2 DEF PostsGone
      <4> QED  BY <2>3, <4>2, <4>3, <4>4 DEF Same
    <3>4. CASE job[w].kind = "purge_content"
      BY <2>3, <3>4 DEF ReadRight, Same, Tx
    <3>5. CASE job[w].kind = "stats"
      <4>1. Same(tx[w], [Nothing EXCEPT !.sets = OfCommunity, !.value = tx[w].value])
        BY <2>3, <3>5 DEF ReadRight
      <4>2. \A s \in Transaction : \A S, f :
              [s EXCEPT !.sets = S, !.value = f].rows = s.rows
        BY DEF Transaction
      <4>3. Nothing \in Transaction /\ Nothing.rows = {}
        BY NothingRight
      <4>4. [Nothing EXCEPT !.sets = OfCommunity, !.value = tx[w].value].rows = {}
        BY <4>2, <4>3
      <4> QED  BY <2>3, <4>1, <4>4 DEF Same
    <3>6. job[w].kind \in Banning \cup {"purge_content", "stats"}
      BY <2>3, <2>5 DEF Job, OnObjects, Banning, OfUser, Idle, NoJob
    <3> QED  BY <3>3, <3>4, <3>5, <3>6
  <2> QED  BY <2>4, <2>5
<1>2. Inv /\ [ContentNext]_contentVars => [Step]_contentVars
  BY <1>1
<1> QED  BY <1>2, InvInit, InvNext, PTL DEF ContentSpec, OnlyRestoringRevives
=============================================================================
