------------------------- MODULE SubscriptionProofs -------------------------
(***************************************************************************)
(* Subscription for every value of its constants: its types, that the      *)
(* count of a group is that of its member rows, and that the two instances *)
(* come to agree on who is a member.                                       *)
(***************************************************************************)
EXTENDS Subscription, TLAPS, FunctionTheorems, FiniteSetTheorems,
        SequenceTheorems

JoinOp == {"subscribe", "join_then_add", "import", "api_join", "join_task"}
ToHost == {"Follow", "Undo"}
ToHome == {"Accept", "Reject"}
Has(w, k, ops) == job[w].op \in ops /\ job[w].k = k
Clean(k) == mishaps[k] = {}

\* Where an operation can be; who has its message, where a handler is.
Place(j) ==
  \/ j.op = "subscribe" /\ j.at \in {"enter", "request", "send"}
  \/ j.op = "join_then_add" /\ j.at \in {"request", "send", "look", "enter"}
  \/ j.op = "import" /\ j.at \in {"enter", "send"}
  \/ j.op = "api_join" /\ j.at = "enter"
  \/ j.op = "unsubscribe" /\ j.at \in {"send", "delete"}
  \/ j.op = "api_leave" /\ j.at = "delete"
  \/ j.op = "join_task" /\ j.at \in {"request", "send"}
  \/ j.op = "leave_task" /\ j.at \in {"withdraw", "send"}
  \/ j.op \in ToHost /\ j.at = "handle" /\ j.site = "host"
  \/ j.op \in ToHome /\ j.at = "handle" /\ j.site = "home"
Placed(j) ==
  /\ Place(j) /\ (j.op \in HomeOp => j.site = "home")
  /\ j.op \in {"join_then_add", "import", "api_join"} => j.k[2] \notin Feed
Places == \A w \in Worker : ~Idle(w) => Placed(job[w])

\* One operation at a time; only those of the API have a task beside them.
TaskOp == {"join_task", "leave_task"}
TaskOf(k, op) == \E i \in DOMAIN tasks : tasks[i].op = op /\ tasks[i].k = k
OneTask(k) ==
  \A i, j \in DOMAIN tasks : tasks[i].k = k /\ tasks[j].k = k => i = j
Beside(op) == CASE op = "join_task"  -> "api_join"
                [] op = "leave_task" -> "api_leave"
                [] OTHER             -> "none"
OneOp(k) ==
  /\ \A v, w \in Worker : Has(v, k, HomeOp) /\ Has(w, k, HomeOp) =>
       v = w \/ job[v].op = Beside(job[w].op) \/ job[w].op = Beside(job[v].op)
  /\ \A w \in Worker, op \in TaskOp : TaskOf(k, op) /\ Has(w, k, HomeOp) =>
       job[w].op = Beside(op)
  /\ OneTask(k)
AsWanted(k) ==
  /\ \A w \in Worker : Has(w, k, HomeOp) => wants[k] = (job[w].op \in JoinOp)
  /\ \A op \in TaskOp : TaskOf(k, op) => wants[k] = (op = "join_task")

\* What is yet to be done at home.
Enters(w, k) ==
  Has(w, k, {"join_then_add"}) \/ (Has(w, k, HomeOp) /\ job[w].at = "enter")
Deletes(w, k) == Has(w, k, {"unsubscribe", "api_leave"})
Withdraws(w, k) ==
  Has(w, k, {"unsubscribe"}) \/ (Has(w, k, {"leave_task"}) /\ job[w].at = "withdraw")
Sends(w, k) ==
  /\ Has(w, k, HomeOp)
  /\ \/ job[w].at \in {"request", "send", "withdraw"}
     \/ job[w].at = "enter" /\ job[w].op \in {"subscribe", "import"}
Entering(k) == \E w \in Worker : Enters(w, k)
Deleting(k) == \E w \in Worker : Deletes(w, k)
Withdrawing(k) == TaskOf(k, "leave_task") \/ \E w \in Worker : Withdraws(w, k)
Sending(k) == (\E op \in TaskOp : TaskOf(k, op)) \/ \E w \in Worker : Sends(w, k)

\* What an operation has seen that is about to put a row in.
Sees(w, k) ==
  /\ job[w].rows > 0 => member["home"][k] = 1
  /\ job[w].op \in {"subscribe", "import"} =>
       job[w].rows = 0 /\ member["home"][k] = 0 /\ request[k] = 0
HomeRight(k) ==
  /\ member["home"][k] <= 1
  /\ wants[k] /\ ~Entering(k) => member["home"][k] = 1
  /\ ~wants[k] /\ ~Deleting(k) => member["home"][k] = 0
  /\ ~wants[k] /\ ~Withdrawing(k) => request[k] = 0
  /\ \A w \in Worker : Has(w, k, HomeOp) /\ job[w].at = "enter" => Sees(w, k)

\* One handler at a time, and what the host will come to is what the user
\* wants, or he will hear of it.
Want(k) == IF wants[k] THEN "Follow" ELSE "Undo"
Rejected(k) ==
  (\E i \in DOMAIN back[k] : back[k][i] = "Reject") \/ Busy(k, {"Reject"})
HostBase(k) ==
  /\ member["host"][k] <= 1
  /\ \A v, w \in Worker : Has(v, k, ToHost) /\ Has(w, k, ToHost) => v = w
  /\ \A w \in Worker : Has(w, k, ToHost) => job[w].rows = member["host"][k]
HostEnds(k) ==
  IF out[k] # <<>> THEN out[k][Len(out[k])] = Want(k)
  ELSE \/ Busy(k, {Want(k)})
       \/ ~Busy(k, ToHost) /\ member["host"][k] = (IF wants[k] THEN 1 ELSE 0)
       \/ ~Busy(k, ToHost) /\ wants[k] /\ member["host"][k] = 0 /\ Rejected(k)
HostRight(k) == HostBase(k) /\ (~Sending(k) => HostEnds(k))

PairRight(k) == OneOp(k) /\ AsWanted(k) /\ HomeRight(k) /\ HostRight(k)
Inv == TypeOK /\ Places /\ \A k \in Pair : Clean(k) => PairRight(k)


-----------------------------------------------------------------------------
(***************************************************************************)
(* Types.                                                                  *)
(***************************************************************************)
LEMMA Jobs ==
  ASSUME TypeOK, NEW w \in Worker, ~Idle(w)
  PROVE  /\ job[w] \in Running /\ job[w].op \in HomeOp \cup HandlerOp /\ job[w].k \in Pair
         /\ job[w].site \in Site /\ job[w].rows \in Nat /\ job[w].asks \in Nat
         /\ job[w].copy \in Int
  BY DEF TypeOK, Running, Idle

LEMMA Somewhere ==
  \A w \in Worker : /\ \A at : At(w, at) => ~Idle(w)
                    /\ \A what : Handles(w, what) => ~Idle(w) /\ job[w].op = what
                    /\ \A k, ops : Has(w, k, ops) /\ ops \subseteq HomeOp \cup HandlerOp =>
                         ~Idle(w)
  BY DEF At, Handles, Idle, NoJob, Has, HomeOp, HandlerOp

LEMMA GroupOf == \A k \in Pair : k[1] \in User /\ k[2] \in Group /\ k = <<k[1], k[2]>>
  BY DEF Pair

LEMMA NewJob ==
  ASSUME TypeOK, NEW op \in HomeOp \cup HandlerOp, NEW k \in Pair, NEW s \in Site,
         NEW at \in {"enter", "request", "send", "look", "delete", "withdraw", "handle"}
  PROVE  /\ Job(op, k, at, s) \in Running /\ Job(op, k, at, s) # NoJob
         /\ Job(op, k, at, s).op = op /\ Job(op, k, at, s).k = k
         /\ Job(op, k, at, s).at = at /\ Job(op, k, at, s).site = s
         /\ at \in {"enter", "handle"} => Job(op, k, at, s).rows = member[s][k]
         /\ op \in {"Accept", "Reject"} => Job(op, k, at, s).asks = request[k]
<1>1. k[2] \in Group  BY GroupOf
<1>2. member[s][k] \in Nat /\ request[k] \in Nat /\ tally[s][k[2]] \in Int
  BY <1>1 DEF TypeOK
<1>3. Job(op, k, at, s).op = op /\ NoJob.op = "none"  BY DEF Job, NoJob
<1>4. Job(op, k, at, s) # NoJob  BY <1>3 DEF HomeOp, HandlerOp
<1>5. Job(op, k, at, s) \in Running  BY <1>2 DEF Job, Running
<1> QED  BY <1>3, <1>4, <1>5 DEF Job

\* A job that goes on, forgets what it has seen, or ends.
Moved(w, at) ==
  /\ ~Idle(w)' /\ job'[w].op = job[w].op /\ job'[w].k = job[w].k
  /\ job'[w].site = job[w].site /\ job'[w].at = at
Others(w) == \A v \in Worker : v # w => job'[v] = job[v]

LEMMA Going ==
  ASSUME TypeOK, NEW w \in Worker, ~Idle(w),
         NEW at \in {"enter", "request", "send", "look", "delete", "withdraw", "handle"},
         GoTo(w, at) \/ Forget(w, at)
  PROVE  job' \in [Worker -> Running \cup {NoJob}] /\ Moved(w, at) /\ Others(w)
<1>1. job[w] \in Running  BY Jobs
<1>2. ASSUME NEW j, \/ j = [job[w] EXCEPT !.at = at]
                    \/ j = [job[w] EXCEPT !.at = at, !.rows = 0, !.copy = 0]
      PROVE  /\ j \in Running /\ j.op = job[w].op /\ j.k = job[w].k /\ j.site = job[w].site
             /\ j.at = at /\ j # NoJob
  <2>1. j \in Running
    <3>1. CASE j = [job[w] EXCEPT !.at = at]  BY <1>1, <3>1 DEF Running
    <3>2. CASE j = [job[w] EXCEPT !.at = at, !.rows = 0, !.copy = 0]
      <4>1. j = [[[job[w] EXCEPT !.at = at] EXCEPT !.rows = 0] EXCEPT !.copy = 0]
        BY <3>2
      <4>2. [job[w] EXCEPT !.at = at] \in Running
        BY <1>1 DEF Running
      <4>3. \A r \in Running : [r EXCEPT !.rows = 0] \in Running /\ [r EXCEPT !.copy = 0] \in Running
        BY DEF Running
      <4> QED  BY <4>1, <4>2, <4>3
    <3> QED  BY <1>2, <3>1, <3>2
  <2>2. j.op \in HomeOp \cup HandlerOp  BY <2>1 DEF Running
  <2>3. j # NoJob  BY <2>2 DEF NoJob, HomeOp, HandlerOp
  <2> QED  BY <1>1, <1>2, <2>1, <2>3 DEF Running
<1>3. PICK j : /\ job' = [job EXCEPT ![w] = j]
               /\ \/ j = [job[w] EXCEPT !.at = at]
                  \/ j = [job[w] EXCEPT !.at = at, !.rows = 0, !.copy = 0]
  BY DEF GoTo, Forget, TypeOK
<1>4. job'[w] = j  BY <1>3 DEF TypeOK
<1> QED  BY <1>2, <1>3, <1>4 DEF TypeOK, Moved, Others, Idle

LEMMA Ending ==
  ASSUME TypeOK, NEW w \in Worker, End(w)
  PROVE  job' \in [Worker -> Running \cup {NoJob}] /\ Idle(w)' /\ Others(w)
  BY DEF End, TypeOK, Idle, Others

LEMMA Taking ==
  ASSUME TypeOK, NEW w \in Worker, NEW j \in Running, job' = [job EXCEPT ![w] = j]
  PROVE  job' \in [Worker -> Running \cup {NoJob}] /\ job'[w] = j /\ Others(w)
  BY DEF TypeOK, Others

LEMMA Removed ==
  ASSUME NEW T, NEW q \in Seq(T), NEW i \in DOMAIN q
  PROVE  Without(q, i) \in Seq(T)
<1>1. i \in 1..Len(q) /\ Len(q) \in Nat  OBVIOUS
<1>2. SubSeq(q, 1, i - 1) \in Seq(T) /\ SubSeq(q, i + 1, Len(q)) \in Seq(T)
  <2>1. \A m \in 1 .. i - 1 : m \in 1 .. Len(q)  BY <1>1
  <2>2. \A m \in i + 1 .. Len(q) : m \in 1 .. Len(q)  BY <1>1
  <2> QED  BY <1>1, <2>1, <2>2, SubSeqProperties
<1> QED  BY <1>2, ConcatProperties DEF Without

\* What an operation leaves to celery, or takes of it.
LEMMA Appended ==
  ASSUME TypeOK, NEW t \in Task, tasks' = Append(tasks, t)
  PROVE  /\ tasks' \in Seq(Task)
         /\ DOMAIN tasks' = DOMAIN tasks \cup {Len(tasks) + 1}
         /\ Len(tasks) + 1 \notin DOMAIN tasks
         /\ \A i \in DOMAIN tasks : tasks'[i] = tasks[i]
         /\ tasks'[Len(tasks) + 1] = t
<1>1. tasks \in Seq(Task) /\ Len(tasks) \in Nat /\ DOMAIN tasks = 1 .. Len(tasks)
  BY DEF TypeOK
<1>2. /\ tasks' \in Seq(Task) /\ Len(tasks') = Len(tasks) + 1
      /\ \A i \in 1 .. Len(tasks) : tasks'[i] = tasks[i]
      /\ tasks'[Len(tasks) + 1] = t
  BY <1>1, AppendProperties
<1>3. DOMAIN tasks' = 1 .. Len(tasks) + 1  BY <1>2
<1>4. 1 .. Len(tasks) + 1 = (1 .. Len(tasks)) \cup {Len(tasks) + 1}
      /\ Len(tasks) + 1 \notin 1 .. Len(tasks)
  BY <1>1
<1> QED  BY <1>1, <1>2, <1>3, <1>4

LEMMA TasksOf ==
  ASSUME TypeOK, NEW i \in DOMAIN tasks
  PROVE  tasks[i].op \in {"join_task", "leave_task"} /\ tasks[i].k \in Pair
<1>1. tasks[i] \in Task  BY DEF TypeOK
<1> QED  BY <1>1 DEF Task

LEMMA Taken ==
  ASSUME TypeOK, tasks # <<>>, tasks' = Tail(tasks)
  PROVE  /\ tasks' \in Seq(Task) /\ 1 \in DOMAIN tasks /\ Head(tasks) = tasks[1]
         /\ \A i \in DOMAIN tasks' :
              i + 1 \in DOMAIN tasks /\ i + 1 # 1 /\ tasks'[i] = tasks[i + 1]
<1>1. tasks \in Seq(Task) /\ Len(tasks) \in Nat /\ DOMAIN tasks = 1 .. Len(tasks)
  BY DEF TypeOK
<1>2. /\ tasks' \in Seq(Task) /\ Len(tasks') = Len(tasks) - 1
      /\ \A i \in 1 .. Len(tasks') : tasks'[i] = tasks[i + 1]
  BY <1>1, HeadTailProperties
<1>3. DOMAIN tasks' = 1 .. Len(tasks) - 1  BY <1>2
<1>4. Len(tasks) # 0  BY <1>1, EmptySeq
<1>5. 1 \in DOMAIN tasks  BY <1>1, <1>4
<1>6. \A i \in 1 .. Len(tasks) - 1 : i + 1 \in 1 .. Len(tasks) /\ i + 1 # 1
  BY <1>1
<1>7. Head(tasks) = tasks[1]  BY <1>1, <1>4
<1> QED  BY <1>1, <1>2, <1>3, <1>5, <1>6, <1>7

\* All but job, tasks and what counts.
Rest ==
  /\ refused \subseteq Pair
  /\ out \in [Pair -> Seq({"Follow", "Undo"})]
  /\ back \in [Pair -> Seq({"Accept", "Reject"})]
  /\ requests \in 0..MaxRequests /\ faults \in 0..MaxFaults
  /\ wants \in [Pair -> BOOLEAN]
Rows ==
  /\ member \in [Site -> [Pair -> Nat]]
  /\ \A s \in Site, k \in Pair : k[2] \notin Feed => member[s][k] <= 1
  /\ request \in [Pair -> Nat]
Counts ==
  /\ tally \in [Site -> [Group -> Int]]
  /\ skewed \subseteq Site \X Group
Workers == tasks \in Seq(Task) /\ job \in [Worker -> Running \cup {NoJob}]

LEMMA Parts == TypeOK <=> Rest /\ Rows /\ Counts /\ Workers
  BY DEF TypeOK, Rest, Rows, Counts, Workers

LEMMA InitTypes == Init => TypeOK
<1> SUFFICES ASSUME Init PROVE TypeOK
  OBVIOUS
<1>1. PICK in \in SUBSET Pair :
       /\ member = [s \in Site |-> [k \in Pair |-> IF k \in in THEN 1 ELSE 0]]
       /\ request = [k \in Pair |-> IF k \in in THEN 1 ELSE 0]
       /\ tally = [s \in Site |-> [g \in Group |->
                     Cardinality({k \in in : k[2] = g})]]
       /\ wants = [k \in Pair |-> k \in in]
  BY DEF Init
<1>2. ASSUME NEW g \in Group  PROVE Cardinality({k \in in : k[2] = g}) \in Int
  <2>1. IsFiniteSet(User) /\ IsFiniteSet({g})  BY SubscriptionAssumption, FS_Singleton
  <2>2. IsFiniteSet(User \X {g})  BY <2>1, FS_Product
  <2>3. {k \in in : k[2] = g} \subseteq User \X {g}  BY GroupOf
  <2> QED  BY <2>2, <2>3, FS_Subset, FS_CardinalityType
<1>3. Rows  BY <1>1 DEF Rows
<1>4. Counts  BY <1>1, <1>2 DEF Counts, Init
<1>5. Workers  BY DEF Init, Workers
<1>6. Rest  BY <1>1, SubscriptionAssumption DEF Rest, Init
<1> QED  BY <1>3, <1>4, <1>5, <1>6, Parts

LEMMA Asking ==
  ASSUME TypeOK, NEW w \in Worker, NEW op \in HomeOp, NEW k \in Pair,
         NEW at \in {"enter", "request", "send", "look", "delete", "withdraw", "handle"},
         Ask(w, op, k, at), tasks' = tasks \/ \E t \in Task : tasks' = Append(tasks, t)
  PROVE  TypeOK'
<1>1. Job(op, k, at, "home") \in Running  BY NewJob DEF Site
<1>0. Rest /\ Rows /\ Counts /\ Workers  BY Parts
<1>2. Workers'
  <2>1. job' \in [Worker -> Running \cup {NoJob}]  BY <1>1, Taking DEF Ask
  <2>2. tasks' \in Seq(Task)  BY Appended DEF TypeOK
  <2> QED  BY <2>1, <2>2 DEF Workers
<1>3. Rest'
  <2>1. requests' \in 0 .. MaxRequests  BY SubscriptionAssumption DEF Ask, TypeOK
  <2>2. wants' \in [Pair -> BOOLEAN]
    <3>1. Joins(op) \in BOOLEAN  BY DEF Joins
    <3> QED  BY <3>1 DEF Ask, TypeOK
  <2> QED  BY <2>1, <2>2 DEF Ask, Rest, TypeOK
<1>4. Rows' /\ Counts'
  BY <1>0 DEF Ask, Rows, Counts
<1> QED  BY <1>2, <1>3, <1>4 DEF TypeOK, Rest, Rows, Counts, Workers

LEMMA UserTypes ==
  ASSUME TypeOK, NEW w \in Worker, NEW k \in Pair, UserAsks(w, k)
  PROVE  TypeOK'
<1>1. \A op \in {"join_task", "leave_task"} : [op |-> op, k |-> k] \in Task
  BY DEF Task
<1>2. CASE Subscribe(w, k)  BY <1>2, Asking DEF Subscribe, HomeOp
<1>3. CASE JoinThenAdd(w, k)  BY <1>3, Asking DEF JoinThenAdd, HomeOp
<1>4. CASE Import(w, k)  BY <1>4, Asking DEF Import, HomeOp
<1>5. CASE ApiJoin(w, k)  BY <1>1, <1>5, Asking DEF ApiJoin, HomeOp
<1>6. CASE Unsubscribe(w, k)  BY <1>6, Asking DEF Unsubscribe, HomeOp
<1>7. CASE ApiLeave(w, k)  BY <1>1, <1>7, Asking DEF ApiLeave, HomeOp
<1> QED  BY <1>2, <1>3, <1>4, <1>5, <1>6, <1>7 DEF UserAsks

LEMMA PartsNext == Rest' /\ Rows' /\ Counts' /\ Workers' => TypeOK'
  BY DEF TypeOK, Rest, Rows, Counts, Workers

LEMMA Within ==
  ASSUME NEW S, NEW P, NEW V, NEW f \in [S -> [P -> V]], NEW s \in S, NEW k \in P,
         NEW n \in V, NEW g, g = [f EXCEPT ![s][k] = n]
  PROVE  /\ g \in [S -> [P -> V]] /\ g[s][k] = n
         /\ \A t \in S, l \in P : t # s \/ l # k => g[t][l] = f[t][l]
<1>1. g[s] = [f[s] EXCEPT ![k] = n] /\ \A t \in S : t # s => g[t] = f[t]
  OBVIOUS
<1>2. f[s] \in [P -> V]  OBVIOUS
<1>3. g[s] \in [P -> V]  BY <1>1, <1>2
<1>4. DOMAIN g = S /\ g = [t \in S |-> g[t]]  OBVIOUS
<1>5. \A t \in S : g[t] \in [P -> V]  BY <1>1, <1>3
<1> QED  BY <1>1, <1>2, <1>4, <1>5

LEMMA TallyTypes ==
  ASSUME TypeOK, NEW s \in Site, NEW g \in Group, NEW n \in Int,
         tally' = [tally EXCEPT ![s][g] = n] \/ tally' = tally,
         skewed' = skewed \/ skewed' = skewed \cup {<<s, g>>}
  PROVE  Counts'
<1>0. tally \in [Site -> [Group -> Int]]  BY DEF TypeOK
<1>1. tally' \in [Site -> [Group -> Int]]
  BY <1>0, Within
<1>2. skewed' \subseteq Site \X Group
  BY DEF TypeOK
<1> QED  BY <1>1, <1>2 DEF Counts

LEMMA CountIfTypes ==
  ASSUME TypeOK, NEW w \in Worker, ~Idle(w), NEW s \in Site, NEW d \in Int, NEW rows,
         CountIf(w, s, d, rows)
  PROVE  Counts'
<1>1. job[w].k[2] \in Group /\ job[w].copy + d \in Int  BY Jobs, GroupOf
<1> QED  BY <1>1, TallyTypes DEF CountIf

LEMMA CountTypes ==
  ASSUME TypeOK, NEW s \in Site, NEW g \in Group, NEW copy \in Int, NEW d \in Int,
         Count(s, g, copy, d)
  PROVE  Counts'
<1>1. copy + d \in Int  OBVIOUS
<1> QED  BY <1>1, TallyTypes DEF Count

\* One row more or less.
LEMMA RowsTypes ==
  ASSUME TypeOK, NEW s \in Site, NEW k \in Pair, NEW n \in Nat,
         member' = [member EXCEPT ![s][k] = n] \/ member' = member,
         k[2] \notin Feed => n <= 1, request' \in [Pair -> Nat]
  PROVE  Rows'
<1>0. member \in [Site -> [Pair -> Nat]]  BY DEF TypeOK
<1>1. member' \in [Site -> [Pair -> Nat]]
  <2>1. CASE member' = member  BY <1>0, <2>1
  <2>2. CASE member' = [member EXCEPT ![s][k] = n]  BY <1>0, <2>2, Within
  <2> QED  BY <2>1, <2>2
<1>2. ASSUME NEW t \in Site, NEW l \in Pair, l[2] \notin Feed  PROVE member'[t][l] <= 1
  <2>1. member'[t][l] = member[t][l] \/ (l = k /\ member'[t][l] = n)
    <3>1. CASE member' = member  BY <3>1
    <3>2. CASE member' = [member EXCEPT ![s][k] = n]
      <4>1. /\ member'[s][k] = n
            /\ \A u \in Site, m \in Pair : u # s \/ m # k => member'[u][m] = member[u][m]
        BY <1>0, <3>2, Within
      <4> QED  BY <4>1
    <3> QED  BY <3>1, <3>2
  <2> QED  BY <1>2, <2>1 DEF TypeOK
<1> QED  BY <1>1, <1>2 DEF Rows

LEMMA RequestTypes ==
  ASSUME TypeOK, NEW k \in Pair, NEW n \in Nat,
         request' = [request EXCEPT ![k] = n] \/ request' = request
  PROVE  request' \in [Pair -> Nat]
<1>1. request \in [Pair -> Nat]  BY DEF TypeOK
<1>2. CASE request' = request  BY <1>1, <1>2
<1>3. CASE request' = [request EXCEPT ![k] = n]  BY <1>1, <1>3
<1> QED  BY <1>2, <1>3

LEMMA TakeTypes ==
  ASSUME TypeOK, NEW w \in Worker, TakeTask(w)
  PROVE  TypeOK'
<1>0. tasks # <<>> /\ tasks' = Tail(tasks)  BY DEF TakeTask
<1>1. 1 \in DOMAIN tasks /\ Head(tasks) = tasks[1] /\ tasks' \in Seq(Task)
  BY <1>0, Taken
<1>2. Head(tasks).op \in HomeOp \cup HandlerOp /\ Head(tasks).k \in Pair
  BY <1>1, TasksOf DEF HomeOp
<1>3. job' \in [Worker -> Running \cup {NoJob}]
  <2> DEFINE t == Head(tasks)
             j == Job(t.op, t.k, IF t.op = "join_task" THEN "request" ELSE "withdraw", "home")
  <2>1. j \in Running  BY <1>2, NewJob DEF Site
  <2>2. job' = [job EXCEPT ![w] = j]  BY DEF TakeTask
  <2> QED  BY <2>1, <2>2, Taking
<1>4. Rest' /\ Rows' /\ Counts'
  BY Parts DEF TakeTask, Rest, Rows, Counts
<1> QED  BY <1>1, <1>3, <1>4, PartsNext DEF Workers

LEMMA EnterTypes ==
  ASSUME TypeOK, Places, NEW w \in Worker, Enter(w)
  PROVE  TypeOK'
<1>0. ~Idle(w)  BY Somewhere DEF Enter
<1>1. job[w] \in Running /\ job[w].k \in Pair /\ job[w].rows \in Nat  BY <1>0, Jobs
<1>2. Rest'  BY Parts DEF Enter, Rest
<1>3. tasks' = tasks  BY DEF Enter
<1>4. CASE job[w].rows > 0 \/ Clash(w)
  <2>1. End(w) /\ UNCHANGED <<member, request, tally, skewed>>  BY <1>4 DEF Enter
  <2>2. Workers'  BY <1>3, <2>1, Ending DEF Workers, TypeOK
  <2>3. Rows' /\ Counts'  BY <2>1, Parts DEF Rows, Counts
  <2> QED  BY <1>2, <2>2, <2>3, PartsNext
<1>5. CASE ~(job[w].rows > 0 \/ Clash(w))
  <2>1. /\ member' = [member EXCEPT !["home"][job[w].k] = @ + 1]
        /\ request' = [request EXCEPT ![job[w].k] =
                           IF job[w].op = "import" THEN @ + 1 ELSE @]
        /\ CountIf(w, "home", 1, 1)
        /\ Forget(w, "request") \/ Forget(w, "send") \/ End(w)
    BY <1>5 DEF Enter
  <2>2. Workers'  BY <1>0, <1>3, <2>1, Ending, Going DEF Workers, TypeOK
  <2>3. Counts'  BY <1>0, <2>1, CountIfTypes DEF Site
  <2>4. job[w].rows = 0 /\ job[w].site = "home"
    <3>1. At(w, "enter")  BY DEF Enter
    <3>2. job[w].op \in HomeOp
      BY <1>0, <3>1 DEF Places, Placed, Place, At, HomeOp, ToHost, ToHome
    <3> QED  BY <1>0, <1>1, <1>5, <3>2 DEF Places, Placed
  <2>5. member["home"][job[w].k] \in Nat /\ request[job[w].k] \in Nat
    BY <1>1 DEF TypeOK, Site
  <2>6. job[w].k[2] \notin Feed => member["home"][job[w].k] + 1 <= 1
    BY <1>5, <2>4, <2>5 DEF Clash
  <2>7. request' \in [Pair -> Nat]
    <3>1. request' = [request EXCEPT ![job[w].k] = @ + 1] \/ request' = request
      BY <2>1 DEF TypeOK
    <3>2. request \in [Pair -> Nat] /\ request[job[w].k] + 1 \in Nat
      BY <2>5 DEF TypeOK
    <3> QED  BY <3>1, <3>2
  <2>8. Rows'
    <3> DEFINE n == member["home"][job[w].k] + 1
    <3>1. n \in Nat /\ member' = [member EXCEPT !["home"][job[w].k] = n]
      BY <2>1, <2>5
    <3> QED  BY <1>1, <2>6, <2>7, <3>1, RowsTypes DEF Site
  <2> QED  BY <1>2, <2>2, <2>3, <2>8, PartsNext
<1> QED  BY <1>4, <1>5

LEMMA HomeTypes ==
  ASSUME TypeOK, NEW w \in Worker, AddRequest(w) \/ Send(w) \/ Look(w) \/ Withdraw(w)
  PROVE  TypeOK'
<1>0. ~Idle(w)  BY Somewhere DEF AddRequest, Send, Look, Withdraw
<1>1. /\ job[w] \in Running /\ job[w].k \in Pair /\ job[w].op \in HomeOp \cup HandlerOp
      /\ request[job[w].k] \in Nat
  BY <1>0, Jobs DEF TypeOK
<1>2. Rest'
  <2>1. CASE Send(w)
    <3>1. out' \in [Pair -> Seq({"Follow", "Undo"})]
      BY <1>1, <2>1 DEF Send, TypeOK
    <3> QED  BY <2>1, <3>1, Parts DEF Send, Rest
  <2>2. CASE AddRequest(w) \/ Look(w) \/ Withdraw(w)
    BY <2>2, Parts DEF AddRequest, Look, Withdraw, Rest
  <2> QED  BY <2>1, <2>2
<1>3. Counts'  BY Parts DEF AddRequest, Send, Look, Withdraw, Counts
<1>4. Rows'
  <2>1. request' \in [Pair -> Nat]
    <3>1. CASE AddRequest(w)  BY <1>1, <3>1 DEF AddRequest, TypeOK
    <3>2. CASE Withdraw(w)
      <4>1. CASE request[job[w].k] = 0
        BY <3>2, <4>1 DEF Withdraw, TypeOK
      <4>2. CASE request[job[w].k] # 0
        <5> DEFINE n == IF job[w].k[2] \in Feed THEN 0 ELSE request[job[w].k] - 1
        <5>1. n \in Nat  BY <1>1, <4>2
        <5>2. request' = [request EXCEPT ![job[w].k] = n]
          BY <3>2, <4>2 DEF Withdraw, TypeOK
        <5> HIDE DEF n
        <5> QED  BY <1>1, <5>1, <5>2, RequestTypes
      <4> QED  BY <4>1, <4>2
    <3>3. CASE Send(w) \/ Look(w)  BY <3>3 DEF Send, Look, TypeOK
    <3> QED  BY <3>1, <3>2, <3>3
  <2>2. member' = member  BY DEF AddRequest, Send, Look, Withdraw
  <2> QED  BY <2>1, <2>2, Parts DEF Rows
<1>5. Workers'
  <2>1. tasks' = tasks  BY DEF AddRequest, Send, Look, Withdraw
  <2>2. CASE Look(w)
    <3>1. Job(job[w].op, job[w].k, "enter", "home") \in Running
      BY <1>1, NewJob DEF Site
    <3>2. job' = [job EXCEPT ![w] = Job(job[w].op, job[w].k, "enter", "home")]
      BY <2>2 DEF Look, TypeOK
    <3> QED  BY <2>1, <3>1, <3>2, Taking DEF Workers, TypeOK
  <2>3. CASE ~Look(w)
    <3>1. End(w) \/ \E at \in {"send", "delete", "look"} : GoTo(w, at)
      BY <2>3 DEF AddRequest, Send, Withdraw
    <3> QED  BY <1>0, <2>1, <3>1, Ending, Going DEF Workers, TypeOK
  <2> QED  BY <2>2, <2>3
<1> QED  BY <1>2, <1>3, <1>4, <1>5, PartsNext

LEMMA DeleteTypes ==
  ASSUME TypeOK, NEW w \in Worker, Delete(w)
  PROVE  TypeOK'
<1>0. ~Idle(w)  BY Somewhere DEF Delete
<1>1. job[w].k \in Pair  BY <1>0, Jobs
<1>2. Rest'  BY Parts DEF Delete, Rest
<1>3. Counts'  BY <1>0, CountIfTypes DEF Delete, Site
<1>4. request' \in [Pair -> Nat]
  <2>1. request' = [request EXCEPT ![job[w].k] =
                      IF job[w].op = "unsubscribe" THEN 0 ELSE request[job[w].k]]
    BY DEF Delete
  <2>2. (IF job[w].op = "unsubscribe" THEN 0 ELSE request[job[w].k]) \in Nat
    BY <1>1 DEF TypeOK
  <2> QED  BY <1>1, <2>1, <2>2, RequestTypes
<1>5. Rows'
  <2>1. member' = [member EXCEPT !["home"][job[w].k] = 0]  BY DEF Delete
  <2>2. "home" \in Site /\ 0 \in Nat /\ 0 <= 1  BY DEF Site
  <2> QED  BY <1>1, <1>4, <2>1, <2>2, RowsTypes
<1>6. Workers'  BY Ending DEF Delete, Workers, TypeOK
<1> QED  BY <1>2, <1>3, <1>5, <1>6, PartsNext

LEMMA ReceiveTypes ==
  ASSUME TypeOK, NEW w \in Worker, NEW k \in Pair, Receive(w, k)
  PROVE  TypeOK'
<1>1. PICK i \in 1..3 : HostReceives(w, k, i) \/ HomeReceives(w, k, i)
  BY DEF Receive
<1>2. out[k] \in Seq({"Follow", "Undo"}) /\ back[k] \in Seq({"Accept", "Reject"})
  BY DEF TypeOK
<1>3. CASE HostReceives(w, k, i)
  <2>1. i \in DOMAIN out[k] /\ Without(out[k], i) \in Seq({"Follow", "Undo"})
    BY <1>2, <1>3, Removed DEF HostReceives
  <2>2. out[k][i] \in HomeOp \cup HandlerOp  BY <1>2, <2>1 DEF HandlerOp
  <2>3. Job(out[k][i], k, "handle", "host") \in Running
    BY <2>2, NewJob DEF Site
  <2>4. Workers'  BY <1>3, <2>3, Taking DEF HostReceives, Workers, TypeOK
  <2>5. Rest'
    <3>1. out' \in [Pair -> Seq({"Follow", "Undo"})]  BY <1>3, <2>1 DEF HostReceives, TypeOK
    <3>2. faults' \in 0 .. MaxFaults
      BY <1>3, SubscriptionAssumption DEF HostReceives, TypeOK
    <3> QED  BY <1>3, <3>1, <3>2, Parts DEF HostReceives, Rest
  <2>6. Rows' /\ Counts'  BY <1>3, Parts DEF HostReceives, Rows, Counts
  <2> QED  BY <2>4, <2>5, <2>6, PartsNext
<1>4. CASE HomeReceives(w, k, i)
  <2>1. i \in DOMAIN back[k] /\ Without(back[k], i) \in Seq({"Accept", "Reject"})
    BY <1>2, <1>4, Removed DEF HomeReceives
  <2>2. back[k][i] \in HomeOp \cup HandlerOp  BY <1>2, <2>1 DEF HandlerOp
  <2>3. Job(back[k][i], k, "handle", "home") \in Running
    BY <2>2, NewJob DEF Site
  <2>4. Workers'  BY <1>4, <2>3, Taking DEF HomeReceives, Workers, TypeOK
  <2>5. Rest'
    <3>1. back' \in [Pair -> Seq({"Accept", "Reject"})]  BY <1>4, <2>1 DEF HomeReceives, TypeOK
    <3>2. faults' \in 0 .. MaxFaults
      BY <1>4, SubscriptionAssumption DEF HomeReceives, TypeOK
    <3> QED  BY <1>4, <3>1, <3>2, Parts DEF HomeReceives, Rest
  <2>6. Rows' /\ Counts'  BY <1>4, Parts DEF HomeReceives, Rows, Counts
  <2> QED  BY <2>4, <2>5, <2>6, PartsNext
<1> QED  BY <1>1, <1>3, <1>4

LEMMA HostTypes ==
  ASSUME TypeOK, Places, NEW w \in Worker, HostFollows(w) \/ HostUndoes(w)
  PROVE  TypeOK'
<1>0. ~Idle(w) /\ job[w].op \in {"Follow", "Undo"}
  BY Somewhere DEF HostFollows, HostUndoes
<1>1. /\ job[w].k \in Pair /\ job[w].rows \in Nat /\ job[w].copy \in Int
      /\ job[w].k[2] \in Group /\ member["host"][job[w].k] \in Nat
  BY <1>0, Jobs, GroupOf DEF TypeOK, Site
<1>2. job[w].site = "host"
  BY <1>0 DEF Places, Placed, Place, ToHost, ToHome
<1>3. Workers'
  BY Ending DEF HostFollows, HostUndoes, Finish, Workers, TypeOK
<1>4. Rest'
  <2>1. \A m \in {"Accept", "Reject"} :
          [back EXCEPT ![job[w].k] = Append(@, m)] \in [Pair -> Seq({"Accept", "Reject"})]
    BY <1>1 DEF TypeOK
  <2>2. \/ back' = back
        \/ \E m \in {"Accept", "Reject"} : back' = [back EXCEPT ![job[w].k] = Append(@, m)]
    BY DEF HostFollows, HostUndoes
  <2>3. back' \in [Pair -> Seq({"Accept", "Reject"})]
    BY <2>1, <2>2 DEF TypeOK
  <2> QED  BY <2>3, Parts DEF HostFollows, HostUndoes, Finish, Rest
<1>5. request' = request  BY DEF HostFollows, HostUndoes
<1>6. request' \in [Pair -> Nat]  BY <1>5 DEF TypeOK
<1>7. CASE member' = member /\ tally' = tally /\ skewed' = skewed
  BY <1>3, <1>4, <1>5, <1>7, Parts, PartsNext DEF Rows, Counts
<1>8. CASE ~(member' = member /\ tally' = tally /\ skewed' = skewed) /\ HostFollows(w)
  <2>1. /\ ~(job[w].rows > 0) /\ ~Clash(w)
        /\ member' = [member EXCEPT !["host"][job[w].k] = @ + 1]
        /\ Count("host", job[w].k[2], job[w].copy, 1)
    BY <1>8 DEF HostFollows
  <2>2. Counts'  BY <1>1, <2>1, CountTypes DEF Site
  <2>3. job[w].k[2] \notin Feed => member["host"][job[w].k] + 1 <= 1
    BY <1>1, <1>2, <2>1 DEF Clash
  <2>4. Rows'
    <3> DEFINE n == member["host"][job[w].k] + 1
    <3>1. n \in Nat /\ member' = [member EXCEPT !["host"][job[w].k] = n]
      BY <1>1, <2>1
    <3> QED  BY <1>1, <1>6, <2>3, <3>1, RowsTypes DEF Site
  <2> QED  BY <1>3, <1>4, <2>2, <2>4, PartsNext
<1>9. CASE ~(member' = member /\ tally' = tally /\ skewed' = skewed) /\ HostUndoes(w)
  <2> DEFINE n == OneLess(member["host"][job[w].k])
  <2>1. /\ member' = [member EXCEPT !["host"][job[w].k] = n]
        /\ tally' = [tally EXCEPT !["host"][job[w].k[2]] = job[w].copy - 1]
        /\ skewed' = skewed \/ skewed' = skewed \cup {<<"host", job[w].k[2]>>}
    BY <1>9 DEF HostUndoes
  <2>2. n \in Nat /\ n <= member["host"][job[w].k]  BY <1>1 DEF OneLess
  <2>3. job[w].copy - 1 \in Int /\ "host" \in Site  BY <1>1 DEF Site
  <2>4. Counts'  BY <1>1, <2>1, <2>3, TallyTypes
  <2>5. job[w].k[2] \notin Feed => n <= 1
    <3>1. job[w].k[2] \notin Feed => member["host"][job[w].k] <= 1
      BY <1>1, <2>3 DEF TypeOK
    <3> HIDE DEF n
    <3> QED  BY <1>1, <2>2, <3>1
  <2>6. Rows'
    <3> HIDE DEF n
    <3> QED  BY <1>1, <1>6, <2>1, <2>2, <2>3, <2>5, RowsTypes
  <2> QED  BY <1>3, <1>4, <2>4, <2>6, PartsNext
<1> QED  BY <1>7, <1>8, <1>9

LEMMA AnswerTypes ==
  ASSUME TypeOK, Places, NEW w \in Worker, HomeAccepted(w) \/ HomeRejected(w)
  PROVE  TypeOK'
<1>0. ~Idle(w) /\ job[w].op \in {"Accept", "Reject"}
  BY Somewhere DEF HomeAccepted, HomeRejected
<1>1. /\ job[w].k \in Pair /\ job[w].rows \in Nat /\ job[w].copy \in Int
      /\ job[w].k[2] \in Group /\ member["home"][job[w].k] \in Nat
      /\ request[job[w].k] \in Nat
  BY <1>0, Jobs, GroupOf DEF TypeOK, Site
<1>2. job[w].site = "home"
  BY <1>0 DEF Places, Placed, Place, ToHost, ToHome
<1>3. Workers'
  BY Ending DEF HomeAccepted, HomeRejected, Finish, Workers, TypeOK
<1>4. CASE HomeAccepted(w)
  <2>1. Rest'  BY <1>4, Parts DEF HomeAccepted, Finish, Rest
  <2>2. request' = request  BY <1>4 DEF HomeAccepted
  <2>3. request' \in [Pair -> Nat]  BY <2>2 DEF TypeOK
  <2>4. CASE ~Awaited(w) \/ Clash(w)
    <3>1. UNCHANGED <<member, tally, skewed>>  BY <1>4, <2>4 DEF HomeAccepted
    <3> QED  BY <1>3, <2>1, <2>2, <3>1, Parts, PartsNext DEF Rows, Counts
  <2>5. CASE Awaited(w) /\ ~Clash(w)
    <3>1. /\ member' = [member EXCEPT !["home"][job[w].k] = @ + 1]
          /\ Count("home", job[w].k[2], job[w].copy, 1)
      BY <1>4, <2>5 DEF HomeAccepted
    <3>2. Counts'  BY <1>1, <3>1, CountTypes DEF Site
    <3>3. job[w].k[2] \notin Feed => member["home"][job[w].k] + 1 <= 1
      BY <1>1, <1>2, <2>5 DEF Clash, Awaited
    <3>4. Rows'
      <4> DEFINE n == member["home"][job[w].k] + 1
      <4>1. n \in Nat /\ member' = [member EXCEPT !["home"][job[w].k] = n]
        BY <1>1, <3>1
      <4> QED  BY <1>1, <2>3, <3>3, <4>1, RowsTypes DEF Site
    <3> QED  BY <1>3, <2>1, <3>2, <3>4, PartsNext
  <2> QED  BY <2>4, <2>5
<1>5. CASE HomeRejected(w)
  <2> DEFINE n == IF job[w].rows > 0 THEN OneLess(member["home"][job[w].k])
                                     ELSE member["home"][job[w].k]
             q == IF job[w].asks > 0 THEN OneLess(request[job[w].k])
                                     ELSE request[job[w].k]
  <2>1. /\ member' = [member EXCEPT !["home"][job[w].k] = n]
        /\ request' = [request EXCEPT ![job[w].k] = q]
        /\ tally' = tally
        /\ skewed' = skewed \/ skewed' = skewed \cup {<<"home", job[w].k[2]>>}
    BY <1>5 DEF HomeRejected
  <2>2. n \in Nat /\ n <= member["home"][job[w].k] /\ q \in Nat  BY <1>1 DEF OneLess
  <2>3. "home" \in Site /\ 0 \in Int  BY DEF Site
  <2>4. Rest'
    <3>1. wants' \in [Pair -> BOOLEAN]  BY <1>5 DEF HomeRejected, TypeOK
    <3> QED  BY <1>5, <3>1, Parts DEF HomeRejected, Finish, Rest
  <2>5. Counts'  BY <1>1, <2>1, <2>3, TallyTypes
  <2>6. job[w].k[2] \notin Feed => n <= 1
    <3>1. job[w].k[2] \notin Feed => member["home"][job[w].k] <= 1
      BY <1>1, <2>3 DEF TypeOK
    <3> HIDE DEF n
    <3> QED  BY <1>1, <2>2, <3>1
  <2>7. Rows'
    <3> HIDE DEF n, q
    <3>1. request' \in [Pair -> Nat]  BY <1>1, <2>1, <2>2, RequestTypes
    <3> QED  BY <1>1, <3>1, <2>1, <2>2, <2>3, <2>6, RowsTypes
  <2> QED  BY <1>3, <2>4, <2>5, <2>7, PartsNext
<1> QED  BY <1>4, <1>5

LEMMA FaultTypes ==
  ASSUME TypeOK,
         \/ \E k \in Pair : Refuse(k) \/ Lose(k) \/ Repeat(k)
         \/ \E w \in Worker : Crash(w)
  PROVE  TypeOK'
<1>1. ASSUME NEW k \in Pair, Refuse(k)  PROVE TypeOK'
  <2>1. Rest'  BY <1>1, SubscriptionAssumption DEF Refuse, TypeOK, Rest
  <2>2. Rows' /\ Counts' /\ Workers'  BY <1>1, Parts DEF Refuse, Rows, Counts, Workers
  <2> QED  BY <2>1, <2>2, PartsNext
<1>2. ASSUME NEW k \in Pair, NEW what, Fault(k, what)
      PROVE  /\ refused' \subseteq Pair /\ requests' \in 0 .. MaxRequests
             /\ faults' \in 0 .. MaxFaults /\ wants' \in [Pair -> BOOLEAN]
             /\ Rows' /\ Counts' /\ tasks' \in Seq(Task)
  <2>1. faults' \in 0 .. MaxFaults  BY <1>2, SubscriptionAssumption DEF Fault, TypeOK
  <2> QED  BY <1>2, <2>1, Parts DEF Fault, TypeOK, Rows, Counts
<1>3. ASSUME NEW k \in Pair, Lose(k) \/ Repeat(k)  PROVE TypeOK'
  <2>1. /\ refused' \subseteq Pair /\ requests' \in 0 .. MaxRequests
        /\ faults' \in 0 .. MaxFaults /\ wants' \in [Pair -> BOOLEAN]
        /\ Rows' /\ Counts' /\ tasks' \in Seq(Task)
    BY <1>2, <1>3 DEF Lose, Repeat
  <2>2. job' \in [Worker -> Running \cup {NoJob}]  BY <1>3 DEF Lose, Repeat, TypeOK
  <2>3. ASSUME NEW S, NEW f \in [Pair -> Seq(S)], f[k] # <<>>, NEW g,
               g = [f EXCEPT ![k] = Tail(@)] \/ g = [f EXCEPT ![k] = Append(@, Head(@))]
        PROVE  g \in [Pair -> Seq(S)]
    <3>1. f[k] \in Seq(S)  OBVIOUS
    <3>2. Head(f[k]) \in S /\ Tail(f[k]) \in Seq(S)  BY <2>3, <3>1, HeadTailProperties
    <3>3. Append(f[k], Head(f[k])) \in Seq(S)  BY <3>1, <3>2, AppendProperties
    <3> QED  BY <2>3, <3>2, <3>3
  <2>4. /\ out' = out \/ (out[k] # <<>> /\ (\/ out' = [out EXCEPT ![k] = Tail(@)]
                                            \/ out' = [out EXCEPT ![k] = Append(@, Head(@))]))
        /\ back' = back \/ (back[k] # <<>> /\ (\/ back' = [back EXCEPT ![k] = Tail(@)]
                                               \/ back' = [back EXCEPT ![k] = Append(@, Head(@))]))
    BY <1>3 DEF Lose, Repeat
  <2>5. out' \in [Pair -> Seq({"Follow", "Undo"})]
    <3>1. out \in [Pair -> Seq({"Follow", "Undo"})]  BY DEF TypeOK
    <3> QED  BY <2>3, <2>4, <3>1
  <2>6. back' \in [Pair -> Seq({"Accept", "Reject"})]
    <3>1. back \in [Pair -> Seq({"Accept", "Reject"})]  BY DEF TypeOK
    <3> QED  BY <2>3, <2>4, <3>1
  <2> QED  BY <2>1, <2>2, <2>5, <2>6, PartsNext DEF Rest, Workers
<1>4. ASSUME NEW w \in Worker, Crash(w)  PROVE TypeOK'
  <2>1. /\ refused' \subseteq Pair /\ requests' \in 0 .. MaxRequests
        /\ faults' \in 0 .. MaxFaults /\ wants' \in [Pair -> BOOLEAN]
        /\ Rows' /\ Counts' /\ tasks' \in Seq(Task)
    <3>1. job[w].k \in Pair  BY <1>4, Jobs DEF Crash
    <3> QED  BY <1>2, <1>4, <3>1 DEF Crash
  <2>2. job' \in [Worker -> Running \cup {NoJob}]  BY <1>4, Ending DEF Crash
  <2>3. out' \in [Pair -> Seq({"Follow", "Undo"})] /\ back' \in [Pair -> Seq({"Accept", "Reject"})]
    BY <1>4 DEF Crash, TypeOK
  <2> QED  BY <2>1, <2>2, <2>3, PartsNext DEF Rest, Workers
<1> QED  BY <1>1, <1>3, <1>4

LEMMA RecountTypes ==
  ASSUME TypeOK, NEW s \in Site, NEW g \in Group, Recount(s, g)
  PROVE  TypeOK'
<1> DEFINE S == {u \in User : member[s][<<u, g>>] > 0}
<1>1. Cardinality(S) \in Int
  <2>1. IsFiniteSet(User) /\ S \subseteq User  BY SubscriptionAssumption
  <2>2. IsFiniteSet(S)  BY <2>1, FS_Subset
  <2>3. Cardinality(S) \in Nat  BY <2>2, FS_CardinalityType
  <2> QED  BY <2>3
<1>2. tally' = [tally EXCEPT ![s][g] = Cardinality(S)]  BY DEF Recount
<1>3. Counts'
  <2> HIDE DEF S
  <2>1. tally' \in [Site -> [Group -> Int]]  BY <1>1, <1>2, Within DEF TypeOK
  <2>2. skewed' \subseteq Site \X Group  BY DEF Recount, TypeOK
  <2> QED  BY <2>1, <2>2 DEF Counts
<1>4. Rest' /\ Rows' /\ Workers'  BY Parts DEF Recount, Rest, Rows, Workers
<1> QED  BY <1>3, <1>4, PartsNext

LEMMA StutterTypes == TypeOK /\ UNCHANGED vars => TypeOK'
  BY DEF TypeOK, vars

-----------------------------------------------------------------------------
(***************************************************************************)
(* Where the operations are.                                               *)
(***************************************************************************)
LEMMA Elsewhere ==
  ASSUME Places, NEW w \in Worker, Others(w), Idle(w)' \/ Placed(job'[w])
  PROVE  Places'
<1> SUFFICES ASSUME NEW v \in Worker, ~Idle(v)'  PROVE Placed(job'[v])
  BY DEF Places
<1>1. CASE v = w  BY <1>1
<1>2. CASE v # w
  <2>1. job'[v] = job[v]  BY <1>2 DEF Others
  <2> QED  BY <2>1 DEF Places, Idle
<1> QED  BY <1>1, <1>2

LEMMA AskPlaces ==
  ASSUME TypeOK, Places, NEW w \in Worker, NEW k \in Pair, UserAsks(w, k)
  PROVE  Places'
<1>1. ASSUME NEW op \in HomeOp,
             NEW at \in {"enter", "request", "send", "look", "delete", "withdraw", "handle"},
             Ask(w, op, k, at),
             op \in {"join_then_add", "import", "api_join"} => k[2] \notin Feed,
             \/ op = "subscribe" /\ at = "enter"
             \/ op = "join_then_add" /\ at = "request"
             \/ op = "import" /\ at = "enter"
             \/ op = "api_join" /\ at = "enter"
             \/ op = "unsubscribe" /\ at = "send"
             \/ op = "api_leave" /\ at = "delete"
      PROVE  Places'
  <2> DEFINE j == Job(op, k, at, "home")
  <2>1. j \in Running /\ j.op = op /\ j.k = k /\ j.at = at /\ j.site = "home"
    BY NewJob DEF Site
  <2>2. job' = [job EXCEPT ![w] = j]  BY <1>1 DEF Ask
  <2> HIDE DEF j
  <2>3. job'[w] = j /\ Others(w)  BY <2>1, <2>2, Taking
  <2>4. Placed(j)  BY <1>1, <2>1 DEF Placed, Place
  <2> QED  BY <2>3, <2>4, Elsewhere
<1>2. CASE Subscribe(w, k)  BY <1>1, <1>2 DEF Subscribe, HomeOp
<1>3. CASE JoinThenAdd(w, k)  BY <1>1, <1>3 DEF JoinThenAdd, HomeOp
<1>4. CASE Import(w, k)  BY <1>1, <1>4 DEF Import, HomeOp
<1>5. CASE ApiJoin(w, k)  BY <1>1, <1>5 DEF ApiJoin, HomeOp
<1>6. CASE Unsubscribe(w, k)  BY <1>1, <1>6 DEF Unsubscribe, HomeOp
<1>7. CASE ApiLeave(w, k)  BY <1>1, <1>7 DEF ApiLeave, HomeOp
<1> QED  BY <1>2, <1>3, <1>4, <1>5, <1>6, <1>7 DEF UserAsks

LEMMA TakePlaces ==
  ASSUME TypeOK, Places, NEW w \in Worker, TakeTask(w)
  PROVE  Places'
<1>0. tasks # <<>> /\ tasks' = Tail(tasks)  BY DEF TakeTask
<1> DEFINE t == Head(tasks)
           at == IF t.op = "join_task" THEN "request" ELSE "withdraw"
           j == Job(t.op, t.k, at, "home")
<1>1. t.op \in {"join_task", "leave_task"} /\ t.k \in Pair
  BY <1>0, Taken, TasksOf
<1>2. /\ j \in Running /\ j.op = t.op /\ j.k = t.k /\ j.at = at /\ j.site = "home"
  BY <1>1, NewJob DEF Site, HomeOp
<1>3. job' = [job EXCEPT ![w] = j]  BY DEF TakeTask
<1> HIDE DEF j
<1>4. job'[w] = j /\ Others(w)  BY <1>2, <1>3, Taking
<1>5. Placed(j)  BY <1>1, <1>2 DEF Placed, Place
<1> QED  BY <1>4, <1>5, Elsewhere

LEMMA HomePlaces ==
  ASSUME TypeOK, Places, NEW w \in Worker,
         Enter(w) \/ AddRequest(w) \/ Send(w) \/ Look(w) \/ Delete(w) \/ Withdraw(w)
  PROVE  Places'
<1>0. ~Idle(w)  BY Somewhere DEF Enter, AddRequest, Send, Look, Delete, Withdraw
<1>1. /\ job[w].op \in HomeOp \cup HandlerOp /\ job[w].k \in Pair /\ Placed(job[w])
  BY <1>0, Jobs DEF Places
<1>2. CASE End(w)  BY <1>2, Ending, Elsewhere
<1>3. CASE Look(w)
  <2> DEFINE j == Job(job[w].op, job[w].k, "enter", "home")
  <2>1. /\ j \in Running /\ j.op = job[w].op /\ j.k = job[w].k
        /\ j.at = "enter" /\ j.site = "home"
    BY <1>1, NewJob DEF Site
  <2>2. job' = [job EXCEPT ![w] = j]  BY <1>3 DEF Look, TypeOK
  <2> HIDE DEF j
  <2>3. job'[w] = j /\ Others(w)  BY <2>1, <2>2, Taking
  <2>4. Placed(j)  BY <1>1, <1>3, <2>1 DEF Placed, Place, Look, At
  <2> QED  BY <2>3, <2>4, Elsewhere
<1>4. ASSUME NEW at \in {"enter", "request", "send", "look", "delete", "withdraw", "handle"},
             GoTo(w, at) \/ Forget(w, at),
             \/ job[w].op = "subscribe" /\ at \in {"enter", "request", "send"}
             \/ job[w].op = "join_then_add" /\ at \in {"send", "look"}
             \/ job[w].op = "import" /\ at = "send"
             \/ job[w].op = "unsubscribe" /\ at = "delete"
             \/ job[w].op = "join_task" /\ at = "send"
             \/ job[w].op = "leave_task" /\ at = "send"
      PROVE  Places'
  <2>1. Moved(w, at) /\ Others(w)  BY <1>0, <1>4, Going
  <2>2. Placed(job'[w])  BY <1>1, <1>4, <2>1 DEF Placed, Place, Moved
  <2> QED  BY <2>1, <2>2, Elsewhere
<1>5. CASE Enter(w) /\ ~End(w)
  <2>1. \/ job[w].op = "subscribe" /\ Forget(w, "request")
        \/ job[w].op = "import" /\ Forget(w, "send")
    BY <1>5 DEF Enter
  <2> QED  BY <1>4, <2>1
<1>6. CASE AddRequest(w)
  <2>1. GoTo(w, "send") /\ job[w].at = "request"  BY <1>6 DEF AddRequest, At
  <2>2. job[w].op \in {"subscribe", "join_then_add", "join_task"}
    BY <1>1, <2>1 DEF Placed, Place
  <2> QED  BY <1>4, <2>1, <2>2
<1>7. CASE Send(w) /\ ~End(w)
  <2>1. \/ job[w].op = "unsubscribe" /\ GoTo(w, "delete")
        \/ job[w].op = "join_then_add" /\ GoTo(w, "look")
    BY <1>7 DEF Send
  <2> QED  BY <1>4, <2>1
<1>8. CASE Withdraw(w) /\ ~End(w)
  <2>1. GoTo(w, "send") /\ job[w].at = "withdraw"  BY <1>8 DEF Withdraw, At
  <2>2. job[w].op = "leave_task"  BY <1>1, <2>1 DEF Placed, Place
  <2> QED  BY <1>4, <2>1, <2>2
<1>9. CASE Delete(w)  BY <1>2, <1>9 DEF Delete
<1> QED  BY <1>2, <1>3, <1>5, <1>6, <1>7, <1>8, <1>9

LEMMA ReceivePlaces ==
  ASSUME TypeOK, Places, NEW w \in Worker, NEW k \in Pair, Receive(w, k)
  PROVE  Places'
<1>1. PICK i \in 1..3 : HostReceives(w, k, i) \/ HomeReceives(w, k, i)
  BY DEF Receive
<1>2. out[k] \in Seq({"Follow", "Undo"}) /\ back[k] \in Seq({"Accept", "Reject"})
  BY DEF TypeOK
<1>3. PICK op, s : /\ \/ op \in {"Follow", "Undo"} /\ s = "host"
                      \/ op \in {"Accept", "Reject"} /\ s = "home"
                   /\ job' = [job EXCEPT ![w] = Job(op, k, "handle", s)]
  <2>1. CASE HostReceives(w, k, i)
    <3>1. out[k][i] \in {"Follow", "Undo"}  BY <1>2, <2>1 DEF HostReceives
    <3>2. job' = [job EXCEPT ![w] = Job(out[k][i], k, "handle", "host")]
      BY <2>1 DEF HostReceives
    <3> QED  BY <3>1, <3>2
  <2>2. CASE HomeReceives(w, k, i)
    <3>1. back[k][i] \in {"Accept", "Reject"}  BY <1>2, <2>2 DEF HomeReceives
    <3>2. job' = [job EXCEPT ![w] = Job(back[k][i], k, "handle", "home")]
      BY <2>2 DEF HomeReceives
    <3> QED  BY <3>1, <3>2
  <2> QED  BY <1>1, <2>1, <2>2
<1> DEFINE j == Job(op, k, "handle", s)
<1>4. j \in Running /\ j.op = op /\ j.at = "handle" /\ j.site = s
  BY <1>3, NewJob DEF Site, HandlerOp
<1>5. job' = [job EXCEPT ![w] = j]  BY <1>3
<1> HIDE DEF j
<1>6. job'[w] = j /\ Others(w)  BY <1>4, <1>5, Taking
<1>7. Placed(j)  BY <1>3, <1>4 DEF Placed, Place, ToHost, ToHome, HomeOp
<1> QED  BY <1>6, <1>7, Elsewhere

\* Every step keeps types and places.
LEMMA StepTypes ==
  ASSUME TypeOK, Places, [Next]_vars
  PROVE  TypeOK' /\ Places'
<1>1. ASSUME job' = job  PROVE Places'
  BY <1>1 DEF Places, Idle
<1>2. CASE UNCHANGED vars
  BY <1>1, <1>2, StutterTypes DEF vars
<1>3. ASSUME NEW w \in Worker, NEW k \in Pair, UserAsks(w, k)  PROVE TypeOK' /\ Places'
  BY <1>3, UserTypes, AskPlaces
<1>4. ASSUME NEW w \in Worker, NEW k \in Pair, Receive(w, k)  PROVE TypeOK' /\ Places'
  BY <1>4, ReceiveTypes, ReceivePlaces
<1>5. ASSUME NEW w \in Worker, Work(w)  PROVE TypeOK' /\ Places'
  <2>1. CASE TakeTask(w)  BY <2>1, TakeTypes, TakePlaces
  <2>2. CASE Enter(w)  BY <2>2, EnterTypes, HomePlaces
  <2>3. CASE AddRequest(w) \/ Send(w) \/ Look(w) \/ Withdraw(w)
    BY <2>3, HomeTypes, HomePlaces
  <2>4. CASE Delete(w)  BY <2>4, DeleteTypes, HomePlaces
  <2>5. ASSUME End(w)  PROVE Places'  BY <2>5, Ending, Elsewhere
  <2>6. CASE HostFollows(w) \/ HostUndoes(w)
    BY <2>5, <2>6, HostTypes DEF HostFollows, HostUndoes, Finish
  <2>7. CASE HomeAccepted(w) \/ HomeRejected(w)
    BY <2>5, <2>7, AnswerTypes DEF HomeAccepted, HomeRejected, Finish
  <2> QED  BY <1>5, <2>1, <2>2, <2>3, <2>4, <2>6, <2>7 DEF Work
<1>6. ASSUME NEW w \in Worker, Crash(w)  PROVE TypeOK' /\ Places'
  BY <1>6, FaultTypes, Ending, Elsewhere DEF Crash
<1>7. ASSUME NEW k \in Pair, Refuse(k) \/ Lose(k) \/ Repeat(k)
      PROVE  TypeOK' /\ Places'
  BY <1>1, <1>7, FaultTypes DEF Refuse, Lose, Repeat
<1>8. ASSUME NEW s \in Site, NEW g \in Group, Recount(s, g)  PROVE TypeOK' /\ Places'
  BY <1>1, <1>8, RecountTypes DEF Recount
<1> QED  BY <1>2, <1>3, <1>4, <1>5, <1>6, <1>7, <1>8 DEF Next

LEMMA InitPlaces == Init => Places
  BY DEF Init, Places, Idle

\* At every time the state is of its types: there is at most one row of each
\* member of a community, whoever runs into whom.
THEOREM TypeCorrect == Spec => []TypeOK
<1>1. Init => TypeOK /\ Places  BY InitTypes, InitPlaces
<1>2. TypeOK /\ Places /\ [Next]_vars => (TypeOK /\ Places)'  BY StepTypes
<1> QED  BY <1>1, <1>2, PTL DEF Spec

-----------------------------------------------------------------------------
(***************************************************************************)
(* The counts.  Most of it is about the member rows of one group: they are *)
(* finite, and grow and shrink with the number a pair has.                 *)
(***************************************************************************)
RowsIn(f, g) == UNION {{u} \X (1 .. f[<<u, g>>]) : u \in User}

HasRow(f, g, u, x) == \E i \in 1 .. f[<<u, g>>] : x = <<u, i>>

LEMMA InRows ==
  ASSUME NEW f, NEW g, NEW x
  PROVE  x \in RowsIn(f, g) <=> \E u \in User : HasRow(f, g, u, x)
<1>1. ASSUME NEW u  PROVE x \in {u} \X (1 .. f[<<u, g>>]) <=> HasRow(f, g, u, x)
  <2> DEFINE A == 1 .. f[<<u, g>>]
  <2>1. x \in {u} \X A <=> \E i \in A : x = <<u, i>>
    <3> HIDE DEF A
    <3> QED  OBVIOUS
  <2> QED  BY <2>1 DEF HasRow
<1>2. x \in RowsIn(f, g) <=> \E u \in User : x \in {u} \X (1 .. f[<<u, g>>])
  BY DEF RowsIn
<1> QED  BY <1>1, <1>2

LEMMA RowIn ==
  ASSUME NEW f, NEW g, NEW u \in User, NEW i \in 1 .. f[<<u, g>>]
  PROVE  <<u, i>> \in RowsIn(f, g)
<1>1. HasRow(f, g, u, <<u, i>>)  BY DEF HasRow
<1> QED  BY <1>1, InRows

LEMMA RowsFinite ==
  ASSUME NEW f \in [Pair -> Nat], NEW g \in Group
  PROVE  IsFiniteSet(RowsIn(f, g)) /\ Cardinality(RowsIn(f, g)) \in Nat
<1> DEFINE own == [u \in User |-> {u} \X (1 .. f[<<u, g>>])]
           all == {{u} \X (1 .. f[<<u, g>>]) : u \in User}
<1>1. own \in Surjection(User, all)  BY DEF Surjection
<1>2. IsFiniteSet(all)  BY <1>1, SubscriptionAssumption, FS_Surjection
<1>3. ASSUME NEW T \in all  PROVE IsFiniteSet(T)
  <2>1. PICK u \in User : T = {u} \X (1 .. f[<<u, g>>])  OBVIOUS
  <2>2. f[<<u, g>>] \in Nat  BY DEF Pair
  <2>3. IsFiniteSet(1 .. f[<<u, g>>])  BY <2>2, FS_Interval
  <2>4. IsFiniteSet({u})  BY FS_Singleton
  <2>5. IsFiniteSet({u} \X (1 .. f[<<u, g>>]))  BY <2>3, <2>4, FS_Product
  <2> QED  BY <2>1, <2>5
<1>4. IsFiniteSet(UNION all)  BY <1>2, <1>3, FS_UNION
<1>5. RowsIn(f, g) = UNION all  BY DEF RowsIn
<1> QED  BY <1>4, <1>5, FS_CardinalityType

LEMMA RowsSame ==
  ASSUME NEW f, NEW h, NEW g, \A u \in User : f[<<u, g>>] = h[<<u, g>>]
  PROVE  RowsIn(f, g) = RowsIn(h, g)
<1>1. \A x : \A u \in User : HasRow(f, g, u, x) <=> HasRow(h, g, u, x)
  BY DEF HasRow
<1>2. \A x : x \in RowsIn(f, g) <=> x \in RowsIn(h, g)  BY <1>1, InRows
<1> QED  BY <1>2

LEMMA RowMore ==
  ASSUME NEW f \in [Pair -> Nat], NEW h \in [Pair -> Nat], NEW k \in Pair,
         h[k] = f[k] + 1, \A l \in Pair : l # k => h[l] = f[l]
  PROVE  Cardinality(RowsIn(h, k[2])) = Cardinality(RowsIn(f, k[2])) + 1
<1> DEFINE u == k[1]
           g == k[2]
           x == <<u, f[k] + 1>>
<1>1. u \in User /\ g \in Group /\ k = <<u, g>> /\ f[k] \in Nat  BY GroupOf
<1>2. x \notin RowsIn(f, g)
  <2> SUFFICES ASSUME x \in RowsIn(f, g) PROVE FALSE
    OBVIOUS
  <2>1. PICK v \in User : HasRow(f, g, v, x)  BY InRows
  <2>2. v = u /\ f[k] + 1 \in 1 .. f[k]  BY <1>1, <2>1 DEF HasRow
  <2> QED  BY <1>1, <2>2
<1>3. ASSUME NEW y  PROVE y \in RowsIn(h, g) <=> y \in RowsIn(f, g) \cup {x}
  <2>1. ASSUME y \in RowsIn(h, g)  PROVE y \in RowsIn(f, g) \cup {x}
    <3>1. PICK v \in User : HasRow(h, g, v, y)  BY <2>1, InRows
    <3>2. PICK i \in 1 .. h[<<v, g>>] : y = <<v, i>>  BY <3>1 DEF HasRow
    <3>3. <<v, g>> \in Pair  BY <1>1 DEF Pair
    <3>4. CASE v = u
      <4>1. i \in 1 .. f[k] + 1  BY <1>1, <3>2, <3>4
      <4>2. i = f[k] + 1 \/ i \in 1 .. f[k]  BY <1>1, <4>1
      <4>3. CASE i \in 1 .. f[k]  BY <1>1, <3>2, <3>4, <4>3, RowIn
      <4> QED  BY <3>2, <3>4, <4>2, <4>3
    <3>5. CASE v # u
      <4>1. h[<<v, g>>] = f[<<v, g>>]  BY <1>1, <3>3, <3>5
      <4> QED  BY <3>2, <4>1, RowIn
    <3> QED  BY <3>4, <3>5
  <2>2. ASSUME y \in RowsIn(f, g)  PROVE y \in RowsIn(h, g)
    <3>1. PICK v \in User : HasRow(f, g, v, y)  BY <2>2, InRows
    <3>2. PICK i \in 1 .. f[<<v, g>>] : y = <<v, i>>  BY <3>1 DEF HasRow
    <3>3. <<v, g>> \in Pair  BY <1>1 DEF Pair
    <3>4. f[<<v, g>>] \in Nat /\ h[<<v, g>>] \in Nat /\ f[<<v, g>>] <= h[<<v, g>>]
      <4>1. CASE <<v, g>> = k  BY <1>1, <4>1
      <4>2. CASE <<v, g>> # k  BY <3>3, <4>2
      <4> QED  BY <4>1, <4>2
    <3>5. i \in 1 .. h[<<v, g>>]  BY <3>4
    <3> QED  BY <3>2, <3>5, RowIn
  <2>3. x \in RowsIn(h, g)
    <3>1. f[k] + 1 \in 1 .. h[<<u, g>>]  BY <1>1
    <3> QED  BY <1>1, <3>1, RowIn
  <2> QED  BY <2>1, <2>2, <2>3
<1>4. RowsIn(h, g) = RowsIn(f, g) \cup {x}
  <2> HIDE DEF x
  <2> QED  BY <1>3
<1>5. IsFiniteSet(RowsIn(f, g))  BY <1>1, RowsFinite
<1> HIDE DEF x
<1>6. Cardinality(RowsIn(f, g) \cup {x}) = Cardinality(RowsIn(f, g)) + 1
  BY <1>2, <1>5, FS_AddElement
<1> QED  BY <1>4, <1>6

\* Where nobody has two rows there are as many as people that have one.
LEMMA RowsOfSome ==
  ASSUME NEW f \in [Pair -> Nat], NEW g \in Group, NEW S \in SUBSET User,
         \A u \in User : f[<<u, g>>] = IF u \in S THEN 1 ELSE 0
  PROVE  Cardinality(RowsIn(f, g)) = Cardinality(S)
<1> DEFINE one == [u \in S |-> <<u, 1>>]
<1>1. one \in Bijection(S, RowsIn(f, g))
  <2>1. ASSUME NEW u \in S  PROVE one[u] \in RowsIn(f, g)
    <3>1. 1 \in 1 .. f[<<u, g>>]  OBVIOUS
    <3> QED  BY <3>1, RowIn
  <2>2. ASSUME NEW x \in RowsIn(f, g)  PROVE \E u \in S : one[u] = x
    <3>1. PICK u \in User : HasRow(f, g, u, x)  BY InRows
    <3>2. PICK i \in 1 .. f[<<u, g>>] : x = <<u, i>>  BY <3>1 DEF HasRow
    <3>3. u \in S /\ i = 1  BY <3>2
    <3> QED  BY <3>2, <3>3
  <2>3. \A u, v \in S : one[u] = one[v] => u = v  OBVIOUS
  <2>4. one \in [S -> RowsIn(f, g)]  BY <2>1
  <2> HIDE DEF one
  <2> QED  BY <2>2, <2>3, <2>4, Fun_IsBij
<1>2. ExistsBijection(S, RowsIn(f, g))  BY <1>1, Fun_ExistsBij
<1>3. IsFiniteSet(S)  BY SubscriptionAssumption, FS_Subset
<1> QED  BY <1>2, <1>3, FS_Bijection

LEMMA RowsOf == \A s, g : MemberRows(s, g) = RowsIn(member[s], g)
  BY DEF MemberRows, RowsIn

CountOf(s, g) == tally[s][g] = Cardinality(RowsIn(member[s], g))

LEMMA CountsOf == CountsAgree <=> \A s \in Site, g \in Group : <<s, g>> \notin skewed => CountOf(s, g)
  BY RowsOf DEF CountsAgree, CountOf

LEMMA InitCounts == Init => CountsAgree
<1> SUFFICES ASSUME Init PROVE CountsAgree
  OBVIOUS
<1>1. PICK in \in SUBSET Pair :
       /\ member = [s \in Site |-> [k \in Pair |-> IF k \in in THEN 1 ELSE 0]]
       /\ tally = [s \in Site |-> [g \in Group |->
                     Cardinality({k \in in : k[2] = g})]]
  BY DEF Init
<1>2. ASSUME NEW s \in Site, NEW g \in Group  PROVE CountOf(s, g)
  <2> DEFINE S == {u \in User : <<u, g>> \in in}
             T == {k \in in : k[2] = g}
             who == [u \in S |-> <<u, g>>]
  <2>1. member[s] \in [Pair -> Nat]  BY <1>1
  <2>2. \A u \in User : member[s][<<u, g>>] = IF u \in S THEN 1 ELSE 0
    BY <1>1 DEF Pair
  <2>3. Cardinality(RowsIn(member[s], g)) = Cardinality(S)
    <3>1. S \in SUBSET User  OBVIOUS
    <3> HIDE DEF S
    <3> QED  BY <2>1, <2>2, <3>1, RowsOfSome
  <2>4. who \in Bijection(S, T)
    <3>1. \A u \in S : who[u] \in T  OBVIOUS
    <3>2. ASSUME NEW k \in T  PROVE \E u \in S : who[u] = k
      <4>1. k[1] \in S /\ k = <<k[1], g>>  BY GroupOf
      <4> QED  BY <4>1
    <3>3. \A u, v \in S : who[u] = who[v] => u = v  OBVIOUS
    <3>4. who \in [S -> T]  BY <3>1
    <3> HIDE DEF who, S, T
    <3> QED  BY <3>2, <3>3, <3>4, Fun_IsBij
  <2>5. ExistsBijection(S, T)  BY <2>4, Fun_ExistsBij
  <2>6. IsFiniteSet(S)  BY SubscriptionAssumption, FS_Subset
  <2>7. Cardinality(T) = Cardinality(S)
    <3> HIDE DEF S, T
    <3> QED  BY <2>5, <2>6, FS_Bijection
  <2>8. tally[s][g] = Cardinality(T)  BY <1>1
  <2> QED  BY <2>3, <2>7, <2>8 DEF CountOf
<1> QED  BY <1>2, CountsOf

\* One row more or less, and what it does to the counts.
LEMMA CountsMove ==
  ASSUME TypeOK, CountsAgree, NEW s \in Site, NEW k \in Pair, NEW n \in Nat, NEW t \in Int,
         member' = [member EXCEPT ![s][k] = n],
         tally' = [tally EXCEPT ![s][k[2]] = t],
         skewed' = skewed \/ skewed' = skewed \cup {<<s, k[2]>>},
         <<s, k[2]>> \notin skewed' =>
           \/ n = member[s][k] /\ t = tally[s][k[2]]
           \/ n = member[s][k] + 1 /\ t = tally[s][k[2]] + 1
           \/ member[s][k] = n + 1 /\ t = tally[s][k[2]] - 1
  PROVE  CountsAgree'
<1>0. /\ member \in [Site -> [Pair -> Nat]] /\ tally \in [Site -> [Group -> Int]]
      /\ k[1] \in User /\ k[2] \in Group /\ k = <<k[1], k[2]>>
  BY GroupOf DEF TypeOK
<1>1. /\ member' \in [Site -> [Pair -> Nat]] /\ member'[s][k] = n
      /\ \A r \in Site, l \in Pair : r # s \/ l # k => member'[r][l] = member[r][l]
  BY <1>0, Within
<1>2. /\ tally'[s][k[2]] = t
      /\ \A r \in Site, g \in Group : r # s \/ g # k[2] => tally'[r][g] = tally[r][g]
  BY <1>0, Within
<1>3. \A r \in Site : member[r] \in [Pair -> Nat] /\ member'[r] \in [Pair -> Nat]
  BY <1>0, <1>1
<1>4. ASSUME NEW r \in Site, NEW g \in Group, <<r, g>> \notin skewed'
      PROVE  tally'[r][g] = Cardinality(RowsIn(member'[r], g))
  <2>1. <<r, g>> \notin skewed  BY <1>4
  <2>2. tally[r][g] = Cardinality(RowsIn(member[r], g))
    BY <2>1, CountsOf DEF CountOf
  <2>3. CASE r # s \/ g # k[2]
    <3>1. tally'[r][g] = tally[r][g]  BY <1>2, <2>3
    <3>2. \A u \in User : member'[r][<<u, g>>] = member[r][<<u, g>>]
      BY <1>0, <1>1, <2>3 DEF Pair
    <3>3. RowsIn(member'[r], g) = RowsIn(member[r], g)
      <4> DEFINE f == member[r]
                 h == member'[r]
      <4>1. \A u \in User : h[<<u, g>>] = f[<<u, g>>]  BY <3>2
      <4> HIDE DEF f, h
      <4>2. RowsIn(h, g) = RowsIn(f, g)  BY <4>1, RowsSame
      <4> QED  BY <4>2 DEF f, h
    <3> QED  BY <2>2, <3>1, <3>3
  <2>4. CASE r = s /\ g = k[2]
    <3> DEFINE f == member[s]
               h == member'[s]
    <3>1. f \in [Pair -> Nat] /\ h \in [Pair -> Nat] /\ h[k] = n
          /\ \A l \in Pair : l # k => h[l] = f[l]
      BY <1>1, <1>3
    <3>2. Cardinality(RowsIn(f, g)) \in Nat  BY <1>0, <2>4, <3>1, RowsFinite
    <3>3. tally'[s][g] = t /\ tally[s][g] = Cardinality(RowsIn(f, g))
      BY <1>2, <2>2, <2>4
    <3> HIDE DEF f, h
    <3>5. CASE n = f[k] /\ t = tally[s][k[2]]
      <4>1. \A l \in Pair : h[l] = f[l]  BY <3>1, <3>5
      <4>2. \A u \in User : h[<<u, g>>] = f[<<u, g>>]  BY <1>0, <2>4, <4>1 DEF Pair
      <4>3. RowsIn(h, g) = RowsIn(f, g)  BY <4>2, RowsSame
      <4> QED  BY <2>4, <3>3, <3>5, <4>3 DEF h
    <3>6. CASE n = f[k] + 1 /\ t = tally[s][k[2]] + 1
      <4>1. Cardinality(RowsIn(h, g)) = Cardinality(RowsIn(f, g)) + 1
        BY <2>4, <3>1, <3>6, RowMore
      <4> QED  BY <2>4, <3>3, <3>6, <4>1 DEF h
    <3>7. CASE f[k] = n + 1 /\ t = tally[s][k[2]] - 1
      <4>1. f[k] = h[k] + 1 /\ \A l \in Pair : l # k => f[l] = h[l]  BY <3>1, <3>7
      <4>2. Cardinality(RowsIn(f, g)) = Cardinality(RowsIn(h, g)) + 1
        BY <2>4, <3>1, <4>1, RowMore
      <4>3. Cardinality(RowsIn(h, g)) \in Nat  BY <1>0, <2>4, <3>1, RowsFinite
      <4>4. t = Cardinality(RowsIn(h, g))  BY <2>4, <3>3, <3>7, <4>2, <4>3
      <4> QED  BY <2>4, <3>3, <4>4 DEF h
    <3> QED  BY <1>4, <2>4, <3>5, <3>6, <3>7 DEF f
  <2> QED  BY <2>3, <2>4
<1>5. \A r, g : MemberRows(r, g)' = RowsIn(member'[r], g)
  BY DEF MemberRows, RowsIn
<1> QED  BY <1>4, <1>5 DEF CountsAgree

LEMMA CountsStay == CountsAgree /\ UNCHANGED <<member, tally, skewed>> => CountsAgree'
<1> SUFFICES ASSUME CountsAgree, UNCHANGED <<member, tally, skewed>> PROVE CountsAgree'
  OBVIOUS
<1>1. member' = member /\ tally' = tally /\ skewed' = skewed  OBVIOUS
<1>2. \A s, g : MemberRows(s, g)' = RowsIn(member[s], g)
  BY <1>1 DEF MemberRows, RowsIn
<1>3. \A s \in Site, g \in Group : <<s, g>> \notin skewed =>
        tally[s][g] = Cardinality(RowsIn(member[s], g))
  BY CountsOf DEF CountOf
<1> QED  BY <1>1, <1>2, <1>3 DEF CountsAgree

\* Where the row moves and nobody counts, the count is noted as skewed.
LEMMA Uncounted ==
  ASSUME TypeOK, NEW s \in Site, NEW g \in Group, tally' = tally
  PROVE  tally' = [tally EXCEPT ![s][g] = tally[s][g]] /\ tally[s][g] \in Int
  BY DEF TypeOK

LEMMA EnterCounts ==
  ASSUME TypeOK, CountsAgree, NEW w \in Worker, Enter(w)
  PROVE  CountsAgree'
<1>0. ~Idle(w)  BY Somewhere DEF Enter
<1> DEFINE k == job[w].k
           n == member["home"][k] + 1
           g == k[2]
<1>1. k \in Pair /\ g \in Group /\ job[w].copy \in Int /\ "home" \in Site
  BY <1>0, Jobs, GroupOf DEF Site
<1>2. n \in Nat  BY <1>1 DEF TypeOK
<1>3. CASE UNCHANGED <<member, tally, skewed>>  BY <1>3, CountsStay
<1>4. CASE ~UNCHANGED <<member, tally, skewed>>
  <2>1. member' = [member EXCEPT !["home"][k] = n] /\ CountIf(w, "home", 1, 1)
    BY <1>4 DEF Enter
  <2>2. skewed' = skewed \/ skewed' = skewed \cup {<<"home", g>>}
    BY <2>1 DEF CountIf
  <2>3. CASE Counted(job[w].op, g)
    <3> DEFINE t == job[w].copy + 1
    <3>1. tally' = [tally EXCEPT !["home"][g] = t]  BY <2>1, <2>3 DEF CountIf
    <3>2. <<"home", g>> \notin skewed' => t = tally["home"][g] + 1
      BY <2>1, <2>3 DEF CountIf
    <3>3. t \in Int  BY <1>1
    <3> HIDE DEF t
    <3> QED  BY <1>1, <1>2, <2>1, <2>2, <3>1, <3>2, <3>3, CountsMove
  <2>4. CASE ~Counted(job[w].op, g)
    <3> DEFINE t == tally["home"][g]
    <3>1. tally' = tally /\ <<"home", g>> \in skewed'  BY <2>1, <2>4 DEF CountIf
    <3>2. tally' = [tally EXCEPT !["home"][g] = t] /\ t \in Int
      BY <1>1, <3>1, Uncounted
    <3> HIDE DEF t, n
    <3> QED  BY <1>1, <1>2, <2>1, <2>2, <3>1, <3>2, CountsMove
  <2> QED  BY <2>3, <2>4
<1> QED  BY <1>3, <1>4

LEMMA DeleteCounts ==
  ASSUME TypeOK, CountsAgree, NEW w \in Worker, Delete(w)
  PROVE  CountsAgree'
<1>0. ~Idle(w)  BY Somewhere DEF Delete
<1> DEFINE k == job[w].k
           m == member["home"][k]
           g == k[2]
<1>1. k \in Pair /\ g \in Group /\ job[w].copy \in Int /\ "home" \in Site
  BY <1>0, Jobs, GroupOf DEF Site
<1>2. m \in Nat /\ 0 \in Nat  BY <1>1 DEF TypeOK
<1>3. member' = [member EXCEPT !["home"][k] = 0] /\ CountIf(w, "home", -1, m)
  BY DEF Delete
<1>4. skewed' = skewed \/ skewed' = skewed \cup {<<"home", g>>}
  BY <1>3 DEF CountIf
<1>5. CASE Counted(job[w].op, g)
  <2> DEFINE t == job[w].copy + -1
  <2>1. tally' = [tally EXCEPT !["home"][g] = t]  BY <1>3, <1>5 DEF CountIf
  <2>2. <<"home", g>> \notin skewed' => job[w].copy = tally["home"][g] /\ m = 1
    BY <1>3, <1>5 DEF CountIf
  <2>3. t \in Int /\ t = job[w].copy - 1  BY <1>1
  <2>4. <<"home", g>> \notin skewed' => m = 0 + 1 /\ t = tally["home"][g] - 1
    BY <2>2, <2>3
  <2> HIDE DEF t
  <2> QED  BY <1>1, <1>2, <1>3, <1>4, <2>1, <2>3, <2>4, CountsMove
<1>6. CASE ~Counted(job[w].op, g)
  <2> DEFINE t == tally["home"][g]
  <2>1. tally' = tally /\ (<<"home", g>> \notin skewed' => 0 = m)
    BY <1>3, <1>6 DEF CountIf
  <2>2. tally' = [tally EXCEPT !["home"][g] = t] /\ t \in Int
    BY <1>1, <2>1, Uncounted
  <2> HIDE DEF t
  <2> QED  BY <1>1, <1>2, <1>3, <1>4, <2>1, <2>2, CountsMove DEF t
<1> QED  BY <1>5, <1>6

LEMMA HostCounts ==
  ASSUME TypeOK, CountsAgree, NEW w \in Worker, HostFollows(w) \/ HostUndoes(w)
  PROVE  CountsAgree'
<1>0. ~Idle(w)  BY Somewhere DEF HostFollows, HostUndoes
<1> DEFINE k == job[w].k
           m == member["host"][k]
           g == k[2]
<1>1. k \in Pair /\ g \in Group /\ job[w].copy \in Int /\ "host" \in Site
  BY <1>0, Jobs, GroupOf DEF Site
<1>2. m \in Nat  BY <1>1 DEF TypeOK
<1>3. CASE UNCHANGED <<member, tally, skewed>>  BY <1>3, CountsStay
<1>4. CASE ~UNCHANGED <<member, tally, skewed>> /\ HostFollows(w)
  <2> DEFINE n == m + 1
             t == job[w].copy + 1
  <2>1. member' = [member EXCEPT !["host"][k] = n] /\ Count("host", g, job[w].copy, 1)
    BY <1>4 DEF HostFollows
  <2>2. tally' = [tally EXCEPT !["host"][g] = t]  BY <2>1 DEF Count
  <2>3. /\ skewed' = skewed \/ skewed' = skewed \cup {<<"host", g>>}
        /\ <<"host", g>> \notin skewed' => t = tally["host"][g] + 1
    BY <2>1 DEF Count
  <2>4. t \in Int /\ n \in Nat  BY <1>1, <1>2
  <2> HIDE DEF t
  <2> QED  BY <1>1, <2>1, <2>2, <2>3, <2>4, CountsMove
<1>5. CASE ~UNCHANGED <<member, tally, skewed>> /\ HostUndoes(w)
  <2> DEFINE n == OneLess(m)
             t == job[w].copy - 1
  <2>1. /\ member' = [member EXCEPT !["host"][k] = n]
        /\ tally' = [tally EXCEPT !["host"][g] = t]
        /\ skewed' = skewed \/ skewed' = skewed \cup {<<"host", g>>}
        /\ <<"host", g>> \notin skewed' => job[w].copy = tally["host"][g] /\ m > 0
    BY <1>5 DEF HostUndoes
  <2>2. t \in Int /\ n \in Nat /\ (m > 0 => m = n + 1)  BY <1>1, <1>2 DEF OneLess
  <2>3. <<"host", g>> \notin skewed' => m = n + 1 /\ t = tally["host"][g] - 1
    BY <2>1, <2>2
  <2> HIDE DEF t, n
  <2> QED  BY <1>1, <2>1, <2>2, <2>3, CountsMove
<1> QED  BY <1>3, <1>4, <1>5

LEMMA AnswerCounts ==
  ASSUME TypeOK, CountsAgree, NEW w \in Worker, HomeAccepted(w) \/ HomeRejected(w)
  PROVE  CountsAgree'
<1>0. ~Idle(w)  BY Somewhere DEF HomeAccepted, HomeRejected
<1> DEFINE k == job[w].k
           m == member["home"][k]
           g == k[2]
<1>1. k \in Pair /\ g \in Group /\ job[w].copy \in Int /\ "home" \in Site
  BY <1>0, Jobs, GroupOf DEF Site
<1>2. m \in Nat  BY <1>1 DEF TypeOK
<1>3. CASE UNCHANGED <<member, tally, skewed>>  BY <1>3, CountsStay
<1>4. CASE ~UNCHANGED <<member, tally, skewed>> /\ HomeAccepted(w)
  <2> DEFINE n == m + 1
             t == job[w].copy + 1
  <2>1. member' = [member EXCEPT !["home"][k] = n] /\ Count("home", g, job[w].copy, 1)
    BY <1>4 DEF HomeAccepted
  <2>2. tally' = [tally EXCEPT !["home"][g] = t]  BY <2>1 DEF Count
  <2>3. /\ skewed' = skewed \/ skewed' = skewed \cup {<<"home", g>>}
        /\ <<"home", g>> \notin skewed' => t = tally["home"][g] + 1
    BY <2>1 DEF Count
  <2>4. t \in Int /\ n \in Nat  BY <1>1, <1>2
  <2> HIDE DEF t
  <2> QED  BY <1>1, <2>1, <2>2, <2>3, <2>4, CountsMove
<1>5. CASE ~UNCHANGED <<member, tally, skewed>> /\ HomeRejected(w)
  <2> DEFINE n == IF job[w].rows > 0 THEN OneLess(m) ELSE m
             t == tally["home"][g]
  <2>1. /\ member' = [member EXCEPT !["home"][k] = n]
        /\ tally' = tally
        /\ skewed' = IF member' = member THEN skewed ELSE skewed \cup {<<"home", g>>}
    BY <1>5 DEF HomeRejected
  <2>2. n \in Nat  BY <1>2 DEF OneLess
  <2>3. member' # member  BY <1>5, <2>1
  <2>4. skewed' = skewed \cup {<<"home", g>>}  BY <2>1, <2>3
  <2>5. tally' = [tally EXCEPT !["home"][g] = t] /\ t \in Int
    BY <1>1, <2>1, Uncounted
  <2> HIDE DEF t, n
  <2>6. <<"home", g>> \in skewed'  BY <2>4
  <2> QED  BY <1>1, <2>1, <2>2, <2>4, <2>5, <2>6, CountsMove
<1> QED  BY <1>3, <1>4, <1>5

\* A community keeps out a second row, so the rows are as many as the people.
LEMMA RecountCounts ==
  ASSUME TypeOK, CountsAgree, NEW s \in Site, NEW g \in Group, Recount(s, g)
  PROVE  CountsAgree'
<1> DEFINE S == {u \in User : member[s][<<u, g>>] > 0}
<1>0. member[s] \in [Pair -> Nat] /\ g \notin Feed  BY DEF TypeOK, Recount
<1>1. Cardinality(RowsIn(member[s], g)) = Cardinality(S)
  <2>1. ASSUME NEW u \in User  PROVE member[s][<<u, g>>] = IF u \in S THEN 1 ELSE 0
    <3>1. <<u, g>> \in Pair /\ <<u, g>>[2] = g  BY DEF Pair
    <3>2. member[s][<<u, g>>] \in Nat /\ member[s][<<u, g>>] <= 1
      BY <1>0, <3>1 DEF TypeOK
    <3> QED  BY <3>2
  <2>2. S \in SUBSET User  OBVIOUS
  <2> HIDE DEF S
  <2> QED  BY <1>0, <2>1, <2>2, RowsOfSome
<1>2. Cardinality(S) \in Int
  <2>1. Cardinality(RowsIn(member[s], g)) \in Nat  BY <1>0, RowsFinite
  <2> QED  BY <1>1, <2>1
<1>3. member' = member /\ skewed' = skewed \ {<<s, g>>}
      /\ tally' = [tally EXCEPT ![s][g] = Cardinality(S)]
  BY DEF Recount
<1> HIDE DEF S
<1>4. /\ tally'[s][g] = Cardinality(S)
      /\ \A r \in Site, h \in Group : r # s \/ h # g => tally'[r][h] = tally[r][h]
  BY <1>2, <1>3, Within DEF TypeOK
<1>5. ASSUME NEW r \in Site, NEW h \in Group, <<r, h>> \notin skewed'
      PROVE  tally'[r][h] = Cardinality(RowsIn(member[r], h))
  <2>1. CASE r = s /\ h = g  BY <1>1, <1>4, <2>1
  <2>2. CASE r # s \/ h # g
    <3>1. <<r, h>> \notin skewed  BY <1>3, <1>5, <2>2
    <3> QED  BY <1>4, <2>2, <3>1, CountsOf DEF CountOf
  <2> QED  BY <2>1, <2>2
<1>6. \A r, h : MemberRows(r, h)' = RowsIn(member[r], h)
  BY <1>3 DEF MemberRows, RowsIn
<1> QED  BY <1>5, <1>6 DEF CountsAgree

LEMMA StepCounts ==
  ASSUME TypeOK, Places, CountsAgree, [Next]_vars
  PROVE  CountsAgree'
<1>1. CASE UNCHANGED vars  BY <1>1, CountsStay DEF vars
<1>2. ASSUME NEW w \in Worker, NEW k \in Pair, UserAsks(w, k)  PROVE CountsAgree'
  BY <1>2, CountsStay DEF UserAsks, Subscribe, JoinThenAdd, Import, ApiJoin,
     Unsubscribe, ApiLeave, Ask
<1>3. ASSUME NEW w \in Worker, NEW k \in Pair, Receive(w, k)  PROVE CountsAgree'
  BY <1>3, CountsStay DEF Receive, HostReceives, HomeReceives
<1>4. ASSUME NEW w \in Worker, Work(w)  PROVE CountsAgree'
  <2>1. CASE TakeTask(w) \/ AddRequest(w) \/ Send(w) \/ Look(w) \/ Withdraw(w)
    BY <2>1, CountsStay DEF TakeTask, AddRequest, Send, Look, Withdraw
  <2> QED  BY <1>4, <2>1, EnterCounts, DeleteCounts, HostCounts, AnswerCounts DEF Work
<1>5. ASSUME NEW w \in Worker, Crash(w)  PROVE CountsAgree'
  BY <1>5, CountsStay DEF Crash, Fault
<1>6. ASSUME NEW k \in Pair, Refuse(k) \/ Lose(k) \/ Repeat(k)  PROVE CountsAgree'
  BY <1>6, CountsStay DEF Refuse, Lose, Repeat, Fault
<1>7. ASSUME NEW s \in Site, NEW g \in Group, Recount(s, g)  PROVE CountsAgree'
  BY <1>7, RecountCounts
<1> QED  BY <1>1, <1>2, <1>3, <1>4, <1>5, <1>6, <1>7 DEF Next

\* A count that nothing has happened to is that of the member rows, on both
\* instances, for communities and feeds, and again after the nightly recount.
THEOREM CountsRight == Spec => []CountsAgree
<1>1. Init => TypeOK /\ Places /\ CountsAgree  BY InitTypes, InitPlaces, InitCounts
<1>2. TypeOK /\ Places /\ CountsAgree /\ [Next]_vars => (TypeOK /\ Places /\ CountsAgree)'
  BY StepTypes, StepCounts
<1> QED  BY <1>1, <1>2, PTL DEF Spec

-----------------------------------------------------------------------------
(***************************************************************************)
(* The two instances.  What a step leaves alone, first.                    *)
(***************************************************************************)
LEMMA SameJob ==
  ASSUME NEW v \in Worker, job'[v] = job[v], NEW k
  PROVE  /\ \A ops : Has(v, k, ops)' <=> Has(v, k, ops)
         /\ Enters(v, k)' <=> Enters(v, k)
         /\ Deletes(v, k)' <=> Deletes(v, k)
         /\ Withdraws(v, k)' <=> Withdraws(v, k)
         /\ Sends(v, k)' <=> Sends(v, k)
  BY DEF Has, Enters, Deletes, Withdraws, Sends

LEMMA NotIdle ==
  ASSUME NEW v \in Worker, Idle(v), NEW k
  PROVE  /\ \A ops : ops \subseteq HomeOp \cup HandlerOp => ~Has(v, k, ops)
         /\ ~Enters(v, k) /\ ~Deletes(v, k) /\ ~Withdraws(v, k) /\ ~Sends(v, k)
<1>1. job[v].op = "none"  BY DEF Idle, NoJob
<1> QED  BY <1>1 DEF Has, Enters, Deletes, Withdraws, Sends, HomeOp, HandlerOp

LEMMA NotIdleNext ==
  ASSUME NEW v \in Worker, Idle(v)', NEW k
  PROVE  /\ \A ops : ops \subseteq HomeOp \cup HandlerOp => ~Has(v, k, ops)'
         /\ ~Enters(v, k)' /\ ~Deletes(v, k)' /\ ~Withdraws(v, k)' /\ ~Sends(v, k)'
<1>1. job'[v].op = "none"  BY DEF Idle, NoJob
<1> QED  BY <1>1 DEF Has, Enters, Deletes, Withdraws, Sends, HomeOp, HandlerOp

TasksKept(k) ==
  (\A op \in TaskOp : TaskOf(k, op)' <=> TaskOf(k, op)) /\ (OneTask(k) => OneTask(k)')

LEMMA SameTasks == tasks' = tasks => \A k : TasksKept(k)
  BY DEF TasksKept, TaskOf, OneTask

\* A step of one worker.
LEMMA Onward ==
  ASSUME NEW w \in Worker, NEW k, Others(w)
  PROVE  /\ (Enters(w, k) => Enters(w, k)') => (Entering(k) => Entering(k)')
         /\ (Deletes(w, k) => Deletes(w, k)') => (Deleting(k) => Deleting(k)')
         /\ TasksKept(k) /\ (Withdraws(w, k) => Withdraws(w, k)') =>
              (Withdrawing(k) => Withdrawing(k)')
         /\ TasksKept(k) /\ (Sends(w, k) => Sends(w, k)') => (Sending(k) => Sending(k)')
<1>1. ASSUME NEW v \in Worker, v # w
      PROVE  /\ Enters(v, k)' <=> Enters(v, k)
             /\ Deletes(v, k)' <=> Deletes(v, k)
             /\ Withdraws(v, k)' <=> Withdraws(v, k)
             /\ Sends(v, k)' <=> Sends(v, k)
  <2>1. job'[v] = job[v]  BY <1>1 DEF Others
  <2> QED  BY <2>1, SameJob
<1>2. (Enters(w, k) => Enters(w, k)') => (Entering(k) => Entering(k)')
  BY <1>1 DEF Entering
<1>3. (Deletes(w, k) => Deletes(w, k)') => (Deleting(k) => Deleting(k)')
  BY <1>1 DEF Deleting
<1>4. TasksKept(k) /\ (Withdraws(w, k) => Withdraws(w, k)') =>
              (Withdrawing(k) => Withdrawing(k)')
  <2>1. "leave_task" \in TaskOp  BY DEF TaskOp
  <2> QED  BY <1>1, <2>1 DEF Withdrawing, TasksKept
<1>5. TasksKept(k) /\ (Sends(w, k) => Sends(w, k)') => (Sending(k) => Sending(k)')
  BY <1>1 DEF Sending, TasksKept
<1> QED  BY <1>2, <1>3, <1>4, <1>5

LEMMA OpsFrame ==
  ASSUME NEW k \in Pair, OneOp(k), AsWanted(k), TasksKept(k), wants'[k] = wants[k],
         \A v \in Worker : Has(v, k, HomeOp)' => Has(v, k, HomeOp) /\ job'[v].op = job[v].op
  PROVE  OneOp(k)' /\ AsWanted(k)'
<1>1. ASSUME NEW v \in Worker, NEW w \in Worker, Has(v, k, HomeOp)', Has(w, k, HomeOp)'
      PROVE  v = w \/ job'[v].op = Beside(job'[w].op) \/ job'[w].op = Beside(job'[v].op)
  <2>1. v = w \/ job[v].op = Beside(job[w].op) \/ job[w].op = Beside(job[v].op)
    BY <1>1 DEF OneOp
  <2> QED  BY <1>1, <2>1
<1>2. ASSUME NEW w \in Worker, NEW op \in TaskOp, TaskOf(k, op)', Has(w, k, HomeOp)'
      PROVE  job'[w].op = Beside(op)
  BY <1>2 DEF OneOp, TasksKept
<1>3. OneOp(k)'  BY <1>1, <1>2 DEF OneOp, TasksKept, Beside
<1>4. ASSUME NEW w \in Worker, Has(w, k, HomeOp)'  PROVE wants'[k] = (job'[w].op \in JoinOp)
  BY <1>4 DEF AsWanted
<1>5. ASSUME NEW op \in TaskOp, TaskOf(k, op)'  PROVE wants'[k] = (op = "join_task")
  BY <1>5 DEF AsWanted, TasksKept
<1> QED  BY <1>3, <1>4, <1>5 DEF AsWanted, JoinOp

HandlersKept(k) ==
  \A v \in Worker :
    /\ \A ops : ops \subseteq ToHost \cup {"Reject"} => (Has(v, k, ops)' <=> Has(v, k, ops))
    /\ Has(v, k, ToHost) => job'[v].rows = job[v].rows

LEMMA BusyKept ==
  ASSUME NEW k, HandlersKept(k)
  PROVE  \A ops : ops \subseteq ToHost \cup {"Reject"} => (Busy(k, ops)' <=> Busy(k, ops))
<1> SUFFICES ASSUME NEW ops, ops \subseteq ToHost \cup {"Reject"}
             PROVE  Busy(k, ops)' <=> Busy(k, ops)
  OBVIOUS
<1>1. \A v \in Worker : Has(v, k, ops)' <=> Has(v, k, ops)  BY DEF HandlersKept
<1> QED  BY <1>1 DEF Busy, Has

LEMMA BaseFrame ==
  ASSUME NEW k \in Pair, HostBase(k), HandlersKept(k),
         member'["host"][k] = member["host"][k]
  PROVE  HostBase(k)'
<1>1. \A v \in Worker : Has(v, k, ToHost)' =>
        Has(v, k, ToHost) /\ job'[v].rows = job[v].rows
  BY DEF HandlersKept
<1> QED  BY <1>1 DEF HostBase

LEMMA HostFrame ==
  ASSUME NEW k \in Pair, HostRight(k), HandlersKept(k),
         member'["host"][k] = member["host"][k], out'[k] = out[k], back'[k] = back[k],
         wants'[k] = wants[k], Sending(k) => Sending(k)'
  PROVE  HostRight(k)'
<1>1. HostBase(k)'  BY BaseFrame DEF HostRight
<1>2. ASSUME HostEnds(k)  PROVE HostEnds(k)'
  <2>1. Want(k)' = Want(k) /\ {Want(k)} \subseteq ToHost \cup {"Reject"}
    BY DEF Want, ToHost
  <2>2. Busy(k, {Want(k)})' <=> Busy(k, {Want(k)})
    <3>1. Busy(k, {Want(k)})' <=> \E v \in Worker : Has(v, k, {Want(k)})'
      BY <2>1 DEF Busy, Has
    <3>2. \A v \in Worker : Has(v, k, {Want(k)})' <=> job'[v].op \in {Want(k)} /\ job'[v].k = k
      BY <2>1 DEF Has
    <3>3. ASSUME NEW op, op \in ToHost \cup {"Reject"}, NEW v \in Worker
          PROVE  (job'[v].op \in {op} /\ job'[v].k = k) <=> (job[v].op \in {op} /\ job[v].k = k)
      <4>1. {op} \subseteq ToHost \cup {"Reject"}  BY <3>3
      <4> QED  BY <4>1 DEF HandlersKept, Has
    <3> QED  BY <2>1, <3>1, <3>2, <3>3 DEF Busy
  <2>3. Busy(k, ToHost)' <=> Busy(k, ToHost)
    BY BusyKept
  <2>4. Rejected(k)' <=> Rejected(k)
    <3>1. Busy(k, {"Reject"})' <=> Busy(k, {"Reject"})  BY BusyKept
    <3> QED  BY <3>1 DEF Rejected
  <2> QED  BY <1>2, <2>1, <2>2, <2>3, <2>4 DEF HostEnds
<1> QED  BY <1>1, <1>2 DEF HostRight

HomeJobsKept(k) ==
  \A v \in Worker : /\ Has(v, k, HomeOp)' <=> Has(v, k, HomeOp)
                    /\ Has(v, k, HomeOp) => job'[v] = job[v]

LEMMA HomeWork ==
  ASSUME NEW v \in Worker, NEW k
  PROVE  /\ Enters(v, k) => Has(v, k, HomeOp)
         /\ Deletes(v, k) => Has(v, k, HomeOp)
         /\ Withdraws(v, k) => Has(v, k, HomeOp)
         /\ Sends(v, k) => Has(v, k, HomeOp)
  BY DEF Enters, Deletes, Withdraws, Sends, Has, HomeOp

LEMMA HomeWorkNext ==
  ASSUME NEW v \in Worker, NEW k
  PROVE  /\ Enters(v, k)' => Has(v, k, HomeOp)'
         /\ Deletes(v, k)' => Has(v, k, HomeOp)'
         /\ Withdraws(v, k)' => Has(v, k, HomeOp)'
         /\ Sends(v, k)' => Has(v, k, HomeOp)'
  BY DEF Enters, Deletes, Withdraws, Sends, Has, HomeOp

LEMMA StillToDo ==
  ASSUME NEW k, HomeJobsKept(k), TasksKept(k)
  PROVE  /\ Entering(k)' <=> Entering(k)
         /\ Deleting(k)' <=> Deleting(k)
         /\ Withdrawing(k)' <=> Withdrawing(k)
         /\ Sending(k)' <=> Sending(k)
<1>1. ASSUME NEW v \in Worker
      PROVE  /\ Enters(v, k)' <=> Enters(v, k)
             /\ Deletes(v, k)' <=> Deletes(v, k)
             /\ Withdraws(v, k)' <=> Withdraws(v, k)
             /\ Sends(v, k)' <=> Sends(v, k)
  <2>1. CASE Has(v, k, HomeOp)
    <3>1. job'[v] = job[v]  BY <2>1 DEF HomeJobsKept
    <3> QED  BY <3>1, SameJob
  <2>2. CASE ~Has(v, k, HomeOp)
    <3>1. ~Has(v, k, HomeOp)'  BY <2>2 DEF HomeJobsKept
    <3> QED  BY <2>2, <3>1, HomeWork, HomeWorkNext
  <2> QED  BY <2>1, <2>2
<1>2. Entering(k)' <=> Entering(k)  BY <1>1 DEF Entering
<1>3. Deleting(k)' <=> Deleting(k)  BY <1>1 DEF Deleting
<1>4. Withdrawing(k)' <=> Withdrawing(k)
  BY <1>1 DEF Withdrawing, TasksKept, TaskOp
<1>5. Sending(k)' <=> Sending(k)
  BY <1>1 DEF Sending, TasksKept
<1> QED  BY <1>2, <1>3, <1>4, <1>5

LEMMA HomeFrame ==
  ASSUME NEW k \in Pair, HomeRight(k), HomeJobsKept(k), TasksKept(k),
         member'["home"][k] = member["home"][k], request'[k] = request[k],
         wants'[k] = wants[k]
  PROVE  HomeRight(k)'
<1>1. /\ Entering(k)' <=> Entering(k)
      /\ Deleting(k)' <=> Deleting(k)
      /\ Withdrawing(k)' <=> Withdrawing(k)
  BY StillToDo
<1>2. ASSUME NEW v \in Worker, Has(v, k, HomeOp)', job'[v].at = "enter"
      PROVE  Sees(v, k)'
  <2>1. Has(v, k, HomeOp) /\ job'[v] = job[v]  BY <1>2 DEF HomeJobsKept
  <2>2. Sees(v, k)  BY <1>2, <2>1 DEF HomeRight
  <2> QED  BY <2>1, <2>2 DEF Sees
<1> QED  BY <1>1, <1>2 DEF HomeRight

\* The same of home and of the operations there.
LEMMA HomeStays ==
  ASSUME NEW k \in Pair, OneOp(k), AsWanted(k), HomeRight(k), HomeJobsKept(k), TasksKept(k),
         member'["home"][k] = member["home"][k], request'[k] = request[k],
         wants'[k] = wants[k]
  PROVE  OneOp(k)' /\ AsWanted(k)' /\ HomeRight(k)' /\ (Sending(k)' <=> Sending(k))
<1>1. \A v \in Worker : Has(v, k, HomeOp)' => Has(v, k, HomeOp) /\ job'[v].op = job[v].op
  BY DEF HomeJobsKept
<1> QED  BY <1>1, OpsFrame, HomeFrame, StillToDo

\* A pair a step is not about.
About(w, k) == Has(w, k, HomeOp \cup HandlerOp)

LEMMA PairFrame ==
  ASSUME NEW k \in Pair, PairRight(k), TasksKept(k),
         \A v \in Worker : job'[v] = job[v] \/ (~About(v, k) /\ ~About(v, k)'),
         member'["home"][k] = member["home"][k], member'["host"][k] = member["host"][k],
         request'[k] = request[k], wants'[k] = wants[k], out'[k] = out[k], back'[k] = back[k]
  PROVE  PairRight(k)'
<1>1. ASSUME NEW v \in Worker, NEW ops, ops \subseteq HomeOp \cup HandlerOp
      PROVE  /\ Has(v, k, ops)' <=> Has(v, k, ops)
             /\ Has(v, k, ops) => job'[v] = job[v]
  <2>1. CASE job'[v] = job[v]  BY <2>1, SameJob
  <2>2. CASE ~About(v, k) /\ ~About(v, k)'  BY <1>1, <2>2 DEF About, Has
  <2> QED  BY <2>1, <2>2
<1>2. HomeJobsKept(k)
  <2>1. HomeOp \subseteq HomeOp \cup HandlerOp  OBVIOUS
  <2> QED  BY <1>1, <2>1 DEF HomeJobsKept
<1>3. HandlersKept(k)
  <2>1. ToHost \cup {"Reject"} \subseteq HomeOp \cup HandlerOp  BY DEF ToHost, HandlerOp
  <2>2. \A ops : ops \subseteq ToHost \cup {"Reject"} => ops \subseteq HomeOp \cup HandlerOp
    BY <2>1
  <2>3. ToHost \subseteq ToHost \cup {"Reject"}  OBVIOUS
  <2> QED  BY <1>1, <2>2, <2>3 DEF HandlersKept
<1>4. OneOp(k)' /\ AsWanted(k)' /\ HomeRight(k)' /\ (Sending(k)' <=> Sending(k))
  BY <1>2, HomeStays DEF PairRight
<1>5. HostRight(k)'  BY <1>3, <1>4, HostFrame DEF PairRight
<1> QED  BY <1>4, <1>5 DEF PairRight

(***************************************************************************)
(* The steps of the operations at home, for the pair they are about.       *)
(***************************************************************************)
LEMMA HomeWorker ==
  ASSUME TypeOK, Places, NEW w \in Worker, ~Idle(w), job[w].at # "handle"
  PROVE  /\ Has(w, job[w].k, HomeOp) /\ job[w].site = "home" /\ job[w].k \in Pair
         /\ Placed(job[w]) /\ job[w].op \in HomeOp
<1>1. Placed(job[w]) /\ job[w].k \in Pair /\ job[w].op \in HomeOp \cup HandlerOp
  BY Jobs DEF Places
<1>2. job[w].op \in HomeOp
  BY <1>1 DEF Placed, Place, ToHost, ToHome, HomeOp
<1> QED  BY <1>1, <1>2 DEF Has, Placed

LEMMA Companions ==
  ASSUME NEW k \in Pair, OneOp(k), NEW v \in Worker, NEW w \in Worker, v # w,
         Has(v, k, HomeOp), Has(w, k, HomeOp)
  PROVE  \/ job[w].op = "api_join" /\ job[v].op = "join_task"
         \/ job[w].op = "join_task" /\ job[v].op = "api_join"
         \/ job[w].op = "api_leave" /\ job[v].op = "leave_task"
         \/ job[w].op = "leave_task" /\ job[v].op = "api_leave"
<1>1. job[v].op = Beside(job[w].op) \/ job[w].op = Beside(job[v].op)
  BY DEF OneOp
<1>2. job[v].op \in HomeOp /\ job[w].op \in HomeOp  BY DEF Has
<1> QED  BY <1>1, <1>2 DEF Beside, HomeOp

LEMMA HandlersStay ==
  ASSUME NEW w \in Worker, NEW k \in Pair, Others(w),
         ~Has(w, k, ToHost \cup {"Reject"}), ~Has(w, k, ToHost \cup {"Reject"})'
  PROVE  HandlersKept(k)
<1>1. ASSUME NEW v \in Worker, NEW ops, ops \subseteq ToHost \cup {"Reject"}
      PROVE  Has(v, k, ops)' <=> Has(v, k, ops)
  <2>1. CASE v = w  BY <1>1, <2>1 DEF Has
  <2>2. CASE v # w
    <3>1. job'[v] = job[v]  BY <2>2 DEF Others
    <3> QED  BY <3>1, SameJob
  <2> QED  BY <2>1, <2>2
<1>2. ASSUME NEW v \in Worker, Has(v, k, ToHost)  PROVE job'[v].rows = job[v].rows
  <2>1. v # w  BY <1>2 DEF Has
  <2> QED  BY <2>1 DEF Others
<1> QED  BY <1>1, <1>2 DEF HandlersKept

\* What any of them leaves alone.
LEMMA HomeStep ==
  ASSUME TypeOK, NEW w \in Worker, NEW k \in Pair, Has(w, k, HomeOp), Others(w),
         Idle(w)' \/ (job'[w].op = job[w].op /\ job'[w].k = k),
         OneOp(k), AsWanted(k), HostBase(k), tasks' = tasks, wants'[k] = wants[k],
         member'["host"][k] = member["host"][k]
  PROVE  OneOp(k)' /\ AsWanted(k)' /\ HandlersKept(k) /\ HostBase(k)' /\ TasksKept(k)
<1>1. TasksKept(k)  BY SameTasks
<1>2. ASSUME NEW v \in Worker, Has(v, k, HomeOp)'
      PROVE  Has(v, k, HomeOp) /\ job'[v].op = job[v].op
  <2>1. CASE v = w
    <3>1. ~Idle(w)'  BY <1>2, <2>1, NotIdleNext
    <3> QED  BY <2>1, <3>1
  <2>2. CASE v # w
    <3>1. job'[v] = job[v]  BY <2>2 DEF Others
    <3> QED  BY <1>2, <3>1 DEF Has
  <2> QED  BY <2>1, <2>2
<1>3. OneOp(k)' /\ AsWanted(k)'  BY <1>1, <1>2, OpsFrame
<1>4. ~Has(w, k, ToHost \cup {"Reject"}) /\ ~Has(w, k, ToHost \cup {"Reject"})'
  <2>1. job[w].op \in HomeOp  BY DEF Has
  <2>2. ~(job[w].op \in ToHost \cup {"Reject"})  BY <2>1 DEF HomeOp, ToHost
  <2>3. CASE Idle(w)'
    <3>1. ToHost \cup {"Reject"} \subseteq HomeOp \cup HandlerOp  BY DEF ToHost, HandlerOp
    <3> QED  BY <2>2, <2>3, <3>1, NotIdleNext DEF Has
  <2>4. CASE job'[w].op = job[w].op  BY <2>2, <2>4 DEF Has
  <2> QED  BY <2>3, <2>4
<1>5. HandlersKept(k)  BY <1>4, HandlersStay
<1>6. HostBase(k)'  BY <1>5, BaseFrame
<1> QED  BY <1>1, <1>3, <1>5, <1>6

LEMMA JoinDone ==
  ASSUME NEW k \in Pair, wants'[k] = TRUE, member'["home"][k] = 1,
         \A v \in Worker : Has(v, k, HomeOp)' => job'[v].at # "enter"
  PROVE  HomeRight(k)'
  BY DEF HomeRight

\* Nobody else puts a row in.
LEMMA AloneEntering ==
  ASSUME TypeOK, Places, NEW w \in Worker, NEW k \in Pair, OneOp(k), Has(w, k, HomeOp),
         job[w].op # "join_task", Others(w)
  PROVE  \A v \in Worker : v # w /\ Has(v, k, HomeOp)' => job'[v].at # "enter"
<1> SUFFICES ASSUME NEW v \in Worker, v # w, Has(v, k, HomeOp)', job'[v].at = "enter"
             PROVE  FALSE
  OBVIOUS
<1>1. job'[v] = job[v]  BY DEF Others
<1>2. Has(v, k, HomeOp) /\ job[v].at = "enter"  BY <1>1 DEF Has
<1>3. job[v].op \in {"join_task", "api_leave", "leave_task"}
  BY <1>2, Companions
<1>4. ~Idle(v)  BY <1>2, NotIdle
<1>5. Place(job[v])  BY <1>4 DEF Places, Placed
<1> QED  BY <1>2, <1>3, <1>5 DEF Place, ToHost, ToHome

LEMMA EnterRight ==
  ASSUME TypeOK, Places, NEW w \in Worker, Enter(w), NEW k, k = job[w].k, PairRight(k)
  PROVE  PairRight(k)'
<1>0. ~Idle(w) /\ job[w].at = "enter"  BY DEF Enter, At
<1>1. /\ Has(w, k, HomeOp) /\ job[w].site = "home" /\ k \in Pair /\ Placed(job[w])
      /\ job[w].rows \in Nat
  BY <1>0, HomeWorker, Jobs
<1>2. /\ job[w].op \in {"subscribe", "join_then_add", "import", "api_join"}
      /\ job[w].op \in {"join_then_add", "import", "api_join"} => k[2] \notin Feed
  BY <1>0, <1>1 DEF Placed, Place, ToHost, ToHome
<1>3. OneOp(k) /\ AsWanted(k) /\ HomeRight(k) /\ HostBase(k) /\ HostRight(k)
  BY DEF PairRight, HostRight
<1>4. wants[k] = TRUE
  <2>1. job[w].op \in JoinOp  BY <1>2 DEF JoinOp
  <2> QED  BY <1>1, <1>3, <2>1 DEF AsWanted
<1>5. Sees(w, k) /\ member["home"][k] <= 1 /\ member["home"][k] \in Nat
  BY <1>0, <1>1, <1>3 DEF HomeRight, TypeOK, Site
<1>6. /\ tasks' = tasks /\ wants' = wants /\ out' = out /\ back' = back
  BY DEF Enter
<1>7. CASE job[w].rows > 0 \/ Clash(w)
  <2>1. End(w) /\ member' = member /\ request' = request  BY <1>7 DEF Enter
  <2>2. Idle(w)' /\ Others(w)  BY <2>1, Ending
  <2>3. member["home"][k] = 1
    BY <1>1, <1>5, <1>7 DEF Sees, Clash
  <2>4. job[w].op \notin {"subscribe", "import"}
    BY <1>5, <2>3 DEF Sees
  <2>5. OneOp(k)' /\ AsWanted(k)' /\ HandlersKept(k) /\ TasksKept(k)
    BY <1>1, <1>3, <1>6, <2>1, <2>2, HomeStep
  <2>6. ~Sends(w, k)  BY <1>0, <2>4 DEF Sends
  <2>7. Sending(k) => Sending(k)'  BY <2>2, <2>5, <2>6, Onward
  <2>8. HostRight(k)'  BY <1>1, <1>3, <1>6, <2>1, <2>5, <2>7, HostFrame
  <2>9. ~Has(w, k, HomeOp)'  BY <2>2, NotIdleNext
  <2>10. \A v \in Worker : Has(v, k, HomeOp)' => job'[v].at # "enter"
    BY <1>1, <1>2, <1>3, <2>2, <2>9, AloneEntering
  <2>11. HomeRight(k)'  BY <1>1, <1>4, <1>6, <2>1, <2>3, <2>10, JoinDone
  <2> QED  BY <2>5, <2>8, <2>11 DEF PairRight
<1>8. CASE ~(job[w].rows > 0 \/ Clash(w))
  <2>1. /\ member' = [member EXCEPT !["home"][k] = @ + 1]
        /\ CASE job[w].op = "subscribe" -> Forget(w, "request")
             [] job[w].op = "import"    -> Forget(w, "send")
             [] OTHER                   -> End(w)
    BY <1>8 DEF Enter
  <2>2. member["home"][k] = 0
    <3>1. CASE job[w].op \in {"subscribe", "import"}  BY <1>5, <3>1 DEF Sees
    <3>2. CASE job[w].op \notin {"subscribe", "import"}
      BY <1>1, <1>2, <1>5, <1>8, <3>2 DEF Clash
    <3> QED  BY <3>1, <3>2
  <2>3. member'["home"][k] = 1 /\ member'["host"][k] = member["host"][k]
    <3>1. member' = [member EXCEPT !["home"][k] = 1] /\ 1 \in Nat  BY <2>1, <2>2
    <3>2. "home" \in Site /\ "host" \in Site /\ "home" # "host"  BY DEF Site
    <3>3. member \in [Site -> [Pair -> Nat]]  BY DEF TypeOK
    <3> QED  BY <1>1, <3>1, <3>2, <3>3, Within
  <2>4. /\ Others(w)
        /\ \/ Idle(w)' /\ job[w].op \notin {"subscribe", "import"}
           \/ Moved(w, "request") \/ Moved(w, "send")
    <3>1. CASE job[w].op = "subscribe"  BY <1>0, <2>1, <3>1, Going
    <3>2. CASE job[w].op = "import"  BY <1>0, <2>1, <3>2, Going
    <3>3. CASE job[w].op \notin {"subscribe", "import"}  BY <2>1, <3>3, Ending
    <3> QED  BY <3>1, <3>2, <3>3
  <2>5. OneOp(k)' /\ AsWanted(k)' /\ HandlersKept(k) /\ HostBase(k)' /\ TasksKept(k)
    <3>1. Idle(w)' \/ (job'[w].op = job[w].op /\ job'[w].k = k)  BY <2>4 DEF Moved
    <3> QED  BY <1>1, <1>3, <1>6, <2>3, <2>4, <3>1, HomeStep
  <2>6. Sends(w, k) => Sends(w, k)'
    <3>1. CASE Idle(w)' /\ job[w].op \notin {"subscribe", "import"}
      BY <1>0, <3>1 DEF Sends
    <3>2. CASE Moved(w, "request") \/ Moved(w, "send")
      BY <1>1, <3>2 DEF Sends, Moved, Has
    <3> QED  BY <2>4, <3>1, <3>2
  <2>7. Sending(k) => Sending(k)'  BY <2>4, <2>5, <2>6, Onward
  <2>8. HostRight(k)'  BY <1>1, <1>3, <1>6, <2>3, <2>5, <2>7, HostFrame
  <2>9. Has(w, k, HomeOp)' => job'[w].at # "enter"
    BY <2>4, NotIdleNext DEF Moved
  <2>10. \A v \in Worker : Has(v, k, HomeOp)' => job'[v].at # "enter"
    BY <1>1, <1>2, <1>3, <2>4, <2>9, AloneEntering
  <2>11. HomeRight(k)'  BY <1>1, <1>4, <1>6, <2>3, <2>10, JoinDone
  <2> QED  BY <2>5, <2>8, <2>11 DEF PairRight
<1> QED  BY <1>7, <1>8

\* What has gone wrong is noted of every pair.
Noted == mishaps = [k \in Pair |-> mishaps[k]]

LEMMA Noting ==
  ASSUME Noted, NEW k \in Pair, NEW what, NEW when, Note(k, what, when)
  PROVE  /\ Noted'
         /\ Clean(k)' => ~when /\ Clean(k)
         /\ \A l \in Pair : Clean(l)' => Clean(l)
<1>1. CASE when
  <2>1. mishaps' = [mishaps EXCEPT ![k] = mishaps[k] \cup {what}]  BY <1>1 DEF Note
  <2>2. Noted'  BY <2>1 DEF Noted
  <2>3. mishaps'[k] = mishaps[k] \cup {what}  BY <2>1 DEF Noted
  <2>4. ~Clean(k)'  BY <2>3 DEF Clean
  <2>5. \A l \in Pair : l # k => mishaps'[l] = mishaps[l]  BY <2>1 DEF Noted
  <2> QED  BY <2>2, <2>4, <2>5 DEF Clean
<1>2. CASE ~when
  <2>1. mishaps' = mishaps  BY <1>2 DEF Note
  <2> QED  BY <1>2, <2>1 DEF Noted, Clean
<1> QED  BY <1>1, <1>2

\* What an operation saw that has not moved stays what it sees.
LEMMA SeesStill ==
  ASSUME NEW k \in Pair, HomeRight(k), NEW w \in Worker, Others(w),
         member'["home"][k] = member["home"][k],
         \/ request'[k] = request[k]
         \/ \A v \in Worker : v # w /\ Has(v, k, HomeOp) =>
              job[v].op \notin {"subscribe", "import"}
  PROVE  \A v \in Worker : v # w /\ Has(v, k, HomeOp)' /\ job'[v].at = "enter" => Sees(v, k)'
<1> SUFFICES ASSUME NEW v \in Worker, v # w, Has(v, k, HomeOp)', job'[v].at = "enter"
             PROVE  Sees(v, k)'
  OBVIOUS
<1>1. job'[v] = job[v]  BY DEF Others
<1>2. Has(v, k, HomeOp) /\ job[v].at = "enter"  BY <1>1 DEF Has
<1>3. Sees(v, k)  BY <1>2 DEF HomeRight
<1> QED  BY <1>1, <1>2, <1>3 DEF Sees

LEMMA RequestRight ==
  ASSUME TypeOK, Places, NEW w \in Worker, AddRequest(w), NEW k, k = job[w].k, PairRight(k)
  PROVE  PairRight(k)'
<1>0. ~Idle(w) /\ job[w].at = "request"  BY DEF AddRequest, At
<1>1. Has(w, k, HomeOp) /\ k \in Pair /\ Placed(job[w]) /\ job[w].op \in HomeOp
  BY <1>0, HomeWorker
<1>2. job[w].op \in {"subscribe", "join_then_add", "join_task"}
  BY <1>0, <1>1 DEF Placed, Place, ToHost, ToHome
<1>3. OneOp(k) /\ AsWanted(k) /\ HomeRight(k) /\ HostBase(k) /\ HostRight(k)
  BY DEF PairRight, HostRight
<1>4. wants[k] = TRUE
  <2>1. job[w].op \in JoinOp  BY <1>2 DEF JoinOp
  <2> QED  BY <1>1, <1>3, <2>1 DEF AsWanted
<1>5. /\ tasks' = tasks /\ wants' = wants /\ out' = out /\ back' = back
      /\ member' = member
  BY DEF AddRequest
<1>6. Moved(w, "send") /\ Others(w)  BY <1>0, Going DEF AddRequest
<1>7. OneOp(k)' /\ AsWanted(k)' /\ HandlersKept(k) /\ TasksKept(k)
  BY <1>1, <1>3, <1>5, <1>6, HomeStep DEF Moved
<1>8. Sends(w, k)'  BY <1>1, <1>6 DEF Sends, Moved, Has
<1>9. Sending(k)'  BY <1>8 DEF Sending
<1>10. HostRight(k)'  BY <1>1, <1>3, <1>5, <1>7, <1>9, HostFrame
<1>11. Enters(w, k) => Enters(w, k)'  BY <1>0, <1>6 DEF Enters, Moved, Has
<1>12. Entering(k) => Entering(k)'  BY <1>6, <1>11, Onward
<1>13. \A v \in Worker : v # w /\ Has(v, k, HomeOp) => job[v].op \notin {"subscribe", "import"}
  BY <1>1, <1>3, Companions
<1>14. \A v \in Worker : v # w /\ Has(v, k, HomeOp)' /\ job'[v].at = "enter" => Sees(v, k)'
  BY <1>1, <1>3, <1>5, <1>6, <1>13, SeesStill
<1>15. job'[w].at # "enter"  BY <1>6 DEF Moved
<1>16. HomeRight(k)'
  BY <1>3, <1>4, <1>5, <1>12, <1>14, <1>15 DEF HomeRight
<1> QED  BY <1>7, <1>10, <1>16 DEF PairRight

\* The message sent last is the one that says what the user wants.
LEMMA SendRight ==
  ASSUME TypeOK, Places, NEW w \in Worker, Send(w), NEW k, k = job[w].k, PairRight(k)
  PROVE  PairRight(k)'
<1>0. ~Idle(w) /\ job[w].at = "send"  BY DEF Send, At
<1>1. Has(w, k, HomeOp) /\ k \in Pair /\ Placed(job[w]) /\ job[w].op \in HomeOp
  BY <1>0, HomeWorker
<1>2. job[w].op \in {"subscribe", "join_then_add", "import", "unsubscribe", "join_task",
                     "leave_task"}
  BY <1>0, <1>1 DEF Placed, Place, ToHost, ToHome
<1>3. OneOp(k) /\ AsWanted(k) /\ HomeRight(k) /\ HostBase(k) /\ HostRight(k)
  BY DEF PairRight, HostRight
<1>4. wants[k] = (job[w].op \in JoinOp)
  BY <1>1, <1>3 DEF AsWanted
<1>5. /\ tasks' = tasks /\ wants' = wants /\ back' = back
      /\ member' = member /\ request' = request
  BY DEF Send
<1>6. /\ Others(w)
      /\ \/ Idle(w)' /\ job[w].op \notin {"unsubscribe", "join_then_add"}
         \/ Moved(w, "delete") /\ job[w].op = "unsubscribe"
         \/ Moved(w, "look") /\ job[w].op = "join_then_add"
  <2>1. CASE job[w].op = "unsubscribe"
    <3>1. GoTo(w, "delete")  BY <2>1 DEF Send
    <3> QED  BY <1>0, <2>1, <3>1, Going
  <2>2. CASE job[w].op = "join_then_add"
    <3>1. GoTo(w, "look")  BY <2>2 DEF Send
    <3> QED  BY <1>0, <2>2, <3>1, Going
  <2>3. CASE job[w].op \notin {"unsubscribe", "join_then_add"}
    <3>1. End(w)  BY <2>3 DEF Send
    <3> QED  BY <2>3, <3>1, Ending
  <2> QED  BY <2>1, <2>2, <2>3
<1>7. OneOp(k)' /\ AsWanted(k)' /\ HandlersKept(k) /\ HostBase(k)' /\ TasksKept(k)
  <2>1. Idle(w)' \/ (job'[w].op = job[w].op /\ job'[w].k = k)  BY <1>6 DEF Moved
  <2> QED  BY <1>1, <1>3, <1>5, <1>6, <2>1, HomeStep
<1>8. HostEnds(k)'
  <2> DEFINE m == IF job[w].op \in {"unsubscribe", "leave_task"} THEN "Undo" ELSE "Follow"
  <2>1. m \in {"Follow", "Undo"} /\ m = Want(k)
    BY <1>2, <1>4 DEF Want, JoinOp
  <2>2. out[k] \in Seq({"Follow", "Undo"})  BY <1>1 DEF TypeOK
  <2>3. out'[k] = Append(out[k], m)  BY <1>1 DEF Send, TypeOK
  <2> HIDE DEF m
  <2>4. /\ out'[k] \in Seq({"Follow", "Undo"}) /\ Len(out'[k]) = Len(out[k]) + 1
        /\ out'[k][Len(out[k]) + 1] = m /\ Len(out[k]) \in Nat
    BY <2>1, <2>2, <2>3, AppendProperties
  <2>5. out'[k] # <<>>
    <3>1. Len(out'[k]) # 0  BY <2>4
    <3> QED  BY <3>1
  <2>6. Want(k)' = Want(k)  BY <1>5 DEF Want
  <2> QED  BY <2>1, <2>4, <2>5, <2>6 DEF HostEnds
<1>9. HostRight(k)'  BY <1>7, <1>8 DEF HostRight
<1>10. /\ Enters(w, k) => Enters(w, k)'
       /\ Deletes(w, k) => Deletes(w, k)'
       /\ Withdraws(w, k) => Withdraws(w, k)'
  <2>1. CASE Idle(w)' /\ job[w].op \notin {"unsubscribe", "join_then_add"}
    BY <1>0, <1>2, <2>1 DEF Enters, Deletes, Withdraws, Has
  <2>2. CASE Moved(w, "delete") /\ job[w].op = "unsubscribe"
    BY <1>0, <2>2 DEF Enters, Deletes, Withdraws, Moved, Has
  <2>3. CASE Moved(w, "look") /\ job[w].op = "join_then_add"
    BY <1>0, <2>3 DEF Enters, Deletes, Withdraws, Moved, Has
  <2> QED  BY <1>6, <2>1, <2>2, <2>3
<1>11. /\ Entering(k) => Entering(k)'
       /\ Deleting(k) => Deleting(k)'
       /\ Withdrawing(k) => Withdrawing(k)'
  BY <1>6, <1>7, <1>10, Onward
<1>12. \A v \in Worker : v # w /\ Has(v, k, HomeOp)' /\ job'[v].at = "enter" => Sees(v, k)'
  BY <1>1, <1>3, <1>5, <1>6, SeesStill
<1>13. Has(w, k, HomeOp)' => job'[w].at # "enter"  BY <1>6, NotIdleNext DEF Moved
<1>14. HomeRight(k)'
  BY <1>3, <1>5, <1>11, <1>12, <1>13 DEF HomeRight
<1> QED  BY <1>7, <1>9, <1>14 DEF PairRight

LEMMA LookRight ==
  ASSUME TypeOK, Places, NEW w \in Worker, Look(w), NEW k, k = job[w].k, PairRight(k)
  PROVE  PairRight(k)'
<1>0. ~Idle(w) /\ job[w].at = "look"  BY DEF Look, At
<1>1. Has(w, k, HomeOp) /\ k \in Pair /\ Placed(job[w]) /\ job[w].op \in HomeOp
  BY <1>0, HomeWorker
<1>2. job[w].op = "join_then_add"
  BY <1>0, <1>1 DEF Placed, Place, ToHost, ToHome
<1>3. OneOp(k) /\ AsWanted(k) /\ HomeRight(k) /\ HostBase(k) /\ HostRight(k)
  BY DEF PairRight, HostRight
<1>5. /\ tasks' = tasks /\ wants' = wants /\ back' = back /\ out' = out
      /\ member' = member /\ request' = request
  BY DEF Look
<1>6. /\ Others(w) /\ job'[w].op = job[w].op /\ job'[w].k = k /\ job'[w].at = "enter"
      /\ job'[w].rows = member["home"][k]
  <2> DEFINE j == Job(job[w].op, k, "enter", "home")
  <2>1. /\ j \in Running /\ j.op = job[w].op /\ j.k = k /\ j.at = "enter"
        /\ j.rows = member["home"][k]
    BY <1>1, NewJob DEF Site
  <2>2. job' = [job EXCEPT ![w] = j]  BY DEF Look, TypeOK
  <2> HIDE DEF j
  <2>3. job'[w] = j /\ Others(w)  BY <2>1, <2>2, Taking
  <2> QED  BY <2>1, <2>3
<1>7. OneOp(k)' /\ AsWanted(k)' /\ HandlersKept(k) /\ TasksKept(k)
  BY <1>1, <1>3, <1>5, <1>6, HomeStep
<1>8. /\ Enters(w, k)' /\ ~Deletes(w, k) /\ ~Withdraws(w, k) /\ ~Sends(w, k)
  BY <1>0, <1>1, <1>2, <1>6 DEF Enters, Deletes, Withdraws, Sends, Has
<1>9. /\ Entering(k)' /\ (Deleting(k) => Deleting(k)')
      /\ Withdrawing(k) => Withdrawing(k)'
      /\ Sending(k) => Sending(k)'
  BY <1>6, <1>7, <1>8, Onward DEF Entering
<1>10. HostRight(k)'  BY <1>1, <1>3, <1>5, <1>7, <1>9, HostFrame
<1>11. \A v \in Worker : v # w /\ Has(v, k, HomeOp)' /\ job'[v].at = "enter" => Sees(v, k)'
  BY <1>1, <1>3, <1>5, <1>6, SeesStill
<1>12. Sees(w, k)'
  <2>1. member["home"][k] \in Nat /\ member["home"][k] <= 1
    BY <1>1, <1>3 DEF TypeOK, Site, HomeRight
  <2> QED  BY <1>2, <1>5, <1>6, <2>1 DEF Sees
<1>13. HomeRight(k)'
  BY <1>3, <1>5, <1>9, <1>11, <1>12 DEF HomeRight
<1> QED  BY <1>7, <1>10, <1>13 DEF PairRight

LEMMA DeleteRight ==
  ASSUME TypeOK, Places, NEW w \in Worker, Delete(w), NEW k, k = job[w].k, PairRight(k)
  PROVE  PairRight(k)'
<1>0. ~Idle(w) /\ job[w].at = "delete"  BY DEF Delete, At
<1>1. Has(w, k, HomeOp) /\ k \in Pair /\ Placed(job[w]) /\ job[w].op \in HomeOp
  BY <1>0, HomeWorker
<1>2. job[w].op \in {"unsubscribe", "api_leave"}
  BY <1>0, <1>1 DEF Placed, Place, ToHost, ToHome
<1>3. OneOp(k) /\ AsWanted(k) /\ HomeRight(k) /\ HostBase(k) /\ HostRight(k)
  BY DEF PairRight, HostRight
<1>4. wants[k] = FALSE
  <2>1. (job[w].op \in JoinOp) = FALSE  BY <1>2 DEF JoinOp
  <2>2. wants[k] = (job[w].op \in JoinOp)  BY <1>1, <1>3 DEF AsWanted
  <2> QED  BY <2>1, <2>2
<1>5. tasks' = tasks /\ wants' = wants /\ back' = back /\ out' = out
  BY DEF Delete
<1>6. Others(w) /\ Idle(w)'  BY Ending DEF Delete
<1>7. member'["home"][k] = 0 /\ member'["host"][k] = member["host"][k]
  <2>1. member' = [member EXCEPT !["home"][k] = 0] /\ 0 \in Nat  BY DEF Delete
  <2>2. "home" \in Site /\ "host" \in Site /\ "home" # "host"  BY DEF Site
  <2>3. member \in [Site -> [Pair -> Nat]]  BY DEF TypeOK
  <2> QED  BY <1>1, <2>1, <2>2, <2>3, Within
<1>8. OneOp(k)' /\ AsWanted(k)' /\ HandlersKept(k) /\ TasksKept(k)
  BY <1>1, <1>3, <1>5, <1>6, <1>7, HomeStep
<1>9. ~Sends(w, k)  BY <1>0 DEF Sends
<1>10. Sending(k) => Sending(k)'  BY <1>6, <1>8, <1>9, Onward
<1>11. HostRight(k)'  BY <1>1, <1>3, <1>5, <1>7, <1>8, <1>10, HostFrame
<1>12. ~Withdrawing(k)' => request'[k] = 0
  <2>1. CASE job[w].op = "unsubscribe"
    BY <1>1, <2>1 DEF Delete, TypeOK
  <2>2. CASE job[w].op = "api_leave"
    <3>1. request'[k] = request[k]  BY <1>1, <2>2 DEF Delete, TypeOK
    <3>2. ~Withdraws(w, k)  BY <2>2 DEF Withdraws, Has
    <3>3. Withdrawing(k) => Withdrawing(k)'  BY <1>6, <1>8, <3>2, Onward
    <3> QED  BY <1>3, <1>4, <3>1, <3>3 DEF HomeRight
  <2> QED  BY <1>2, <2>1, <2>2
<1>13. ASSUME NEW v \in Worker, Has(v, k, HomeOp)'  PROVE job'[v].at # "enter"
  <2>1. CASE v = w  BY <1>6, <1>13, <2>1, NotIdleNext
  <2>2. CASE v # w  BY <1>1, <1>2, <1>3, <1>6, <1>13, <2>2, AloneEntering
  <2> QED  BY <2>1, <2>2
<1>14. HomeRight(k)'
  BY <1>4, <1>5, <1>7, <1>12, <1>13 DEF HomeRight
<1> QED  BY <1>8, <1>11, <1>14 DEF PairRight

LEMMA WithdrawRight ==
  ASSUME TypeOK, Places, NEW w \in Worker, Withdraw(w), NEW k, k = job[w].k, PairRight(k),
         Noted, Clean(k)'
  PROVE  PairRight(k)'
<1>0. ~Idle(w) /\ job[w].at = "withdraw"  BY DEF Withdraw, At
<1>1. Has(w, k, HomeOp) /\ k \in Pair /\ Placed(job[w]) /\ job[w].op \in HomeOp
  BY <1>0, HomeWorker
<1>2. job[w].op = "leave_task"
  BY <1>0, <1>1 DEF Placed, Place, ToHost, ToHome
<1>3. OneOp(k) /\ AsWanted(k) /\ HomeRight(k) /\ HostBase(k) /\ HostRight(k)
  BY DEF PairRight, HostRight
<1>4. wants[k] = FALSE
  <2>1. (job[w].op \in JoinOp) = FALSE  BY <1>2 DEF JoinOp
  <2>2. wants[k] = (job[w].op \in JoinOp)  BY <1>1, <1>3 DEF AsWanted
  <2> QED  BY <2>1, <2>2
<1>5. /\ tasks' = tasks /\ wants' = wants /\ back' = back /\ out' = out
      /\ member' = member
  BY DEF Withdraw
<1>6. request[k] # 0 /\ GoTo(w, "send") /\ request'[k] = 0
  <2>1. ASSUME NEW what, Note(k, what, TRUE)  PROVE FALSE
    BY <1>1, <2>1, Noting
  <2>2. request[k] # 0  BY <2>1 DEF Withdraw
  <2>3. /\ request' = [request EXCEPT ![k] = IF k[2] \in Feed THEN 0 ELSE @ - 1]
        /\ GoTo(w, "send")
        /\ Note(k, "one of several", k[2] \notin Feed /\ request[k] > 1)
    BY <2>2 DEF Withdraw
  <2>4. ~(k[2] \notin Feed /\ request[k] > 1)
    BY <1>1, <2>3, Noting
  <2>5. request[k] \in Nat /\ request'[k] = IF k[2] \in Feed THEN 0 ELSE request[k] - 1
    BY <1>1, <2>3 DEF TypeOK
  <2>6. CASE k[2] \in Feed  BY <2>2, <2>3, <2>5, <2>6
  <2>7. CASE k[2] \notin Feed
    <3>1. request[k] = 1  BY <2>2, <2>4, <2>5, <2>7
    <3>2. request'[k] = 0  BY <2>5, <2>7, <3>1
    <3> QED  BY <2>2, <2>3, <3>2
  <2> QED  BY <2>6, <2>7
<1>7. Moved(w, "send") /\ Others(w)  BY <1>0, <1>6, Going
<1>8. OneOp(k)' /\ AsWanted(k)' /\ HandlersKept(k) /\ TasksKept(k)
  BY <1>1, <1>3, <1>5, <1>7, HomeStep DEF Moved
<1>9. Sends(w, k)' /\ ~Deletes(w, k)
  BY <1>1, <1>2, <1>7 DEF Sends, Moved, Has, Deletes
<1>10. Sending(k)' /\ (Deleting(k) => Deleting(k)')
  BY <1>7, <1>9, Onward DEF Sending
<1>11. HostRight(k)'  BY <1>1, <1>3, <1>5, <1>8, <1>10, HostFrame
<1>12. \A v \in Worker : v # w /\ Has(v, k, HomeOp) => job[v].op \notin {"subscribe", "import"}
  BY <1>1, <1>3, Companions
<1>13. \A v \in Worker : v # w /\ Has(v, k, HomeOp)' /\ job'[v].at = "enter" => Sees(v, k)'
  BY <1>1, <1>3, <1>5, <1>7, <1>12, SeesStill
<1>14. job'[w].at # "enter"  BY <1>7 DEF Moved
<1>15. HomeRight(k)'
  BY <1>3, <1>4, <1>5, <1>6, <1>10, <1>13, <1>14 DEF HomeRight
<1> QED  BY <1>8, <1>11, <1>15 DEF PairRight

(***************************************************************************)
(* What the user asks for, and the task that celery takes.                 *)
(***************************************************************************)
LEMMA AskFrame ==
  ASSUME TypeOK, Places, NEW w \in Worker, NEW op \in HomeOp \ TaskOp, NEW k \in Pair,
         NEW at \in {"enter", "request", "send", "delete"},
         Ask(w, op, k, at),
         ~Busy(k, HomeOp), \A t \in TaskOp : ~TaskOf(k, t), HostBase(k),
         \/ tasks' = tasks
         \/ \E t \in TaskOp : /\ tasks' = Append(tasks, [op |-> t, k |-> k])
                              /\ op = Beside(t)
  PROVE  /\ job'[w].op = op /\ job'[w].k = k /\ job'[w].at = at
         /\ at = "enter" => job'[w].rows = member["home"][k]
         /\ wants'[k] = (op \in JoinOp)
         /\ \A v \in Worker : v # w => ~Has(v, k, HomeOp)'
         /\ OneOp(k)' /\ AsWanted(k)' /\ HandlersKept(k) /\ HostBase(k)'
         /\ member' = member /\ request' = request /\ out' = out /\ back' = back
<1>1. /\ Idle(w) /\ job' = [job EXCEPT ![w] = Job(op, k, at, "home")]
      /\ wants' = [wants EXCEPT ![k] = Joins(op)]
      /\ member' = member /\ request' = request /\ out' = out /\ back' = back
  BY DEF Ask
<1>2. /\ job'[w].op = op /\ job'[w].k = k /\ job'[w].at = at /\ Others(w)
      /\ at = "enter" => job'[w].rows = member["home"][k]
  <2> DEFINE j == Job(op, k, at, "home")
  <2>1. /\ j \in Running /\ j.op = op /\ j.k = k /\ j.at = at
        /\ at = "enter" => j.rows = member["home"][k]
    BY NewJob DEF Site
  <2>2. job' = [job EXCEPT ![w] = j]  BY <1>1
  <2> HIDE DEF j
  <2>3. job'[w] = j /\ Others(w)  BY <2>1, <2>2, Taking
  <2> QED  BY <2>1, <2>3
<1>3. wants'[k] = (op \in JoinOp)
  <2>1. wants'[k] = Joins(op)  BY <1>1 DEF TypeOK
  <2>2. Joins(op) = (op \in JoinOp)  BY DEF Joins, JoinOp, TaskOp
  <2> QED  BY <2>1, <2>2
<1>4. \A v \in Worker : v # w => ~Has(v, k, HomeOp)'
  <2> SUFFICES ASSUME NEW v \in Worker, v # w, Has(v, k, HomeOp)'  PROVE FALSE
    OBVIOUS
  <2>1. job'[v] = job[v]  BY <1>2 DEF Others
  <2> QED  BY <2>1 DEF Busy, Has
<1>5. HandlersKept(k)
  <2>1. ToHost \cup {"Reject"} \subseteq HomeOp \cup HandlerOp  BY DEF ToHost, HandlerOp
  <2>2. ~Has(w, k, ToHost \cup {"Reject"})  BY <1>1, <2>1, NotIdle
  <2>3. ~Has(w, k, ToHost \cup {"Reject"})'  BY <1>2 DEF Has, ToHost, HomeOp
  <2> QED  BY <1>2, <2>2, <2>3, HandlersStay
<1>6. HostBase(k)'  BY <1>1, <1>5, BaseFrame
<1>7. /\ \A t \in TaskOp : TaskOf(k, t)' => op = Beside(t)
      /\ OneTask(k)'
  <2>1. \A i \in DOMAIN tasks : tasks[i].k # k
    <3> SUFFICES ASSUME NEW i \in DOMAIN tasks, tasks[i].k = k  PROVE FALSE
      OBVIOUS
    <3>1. tasks[i].op \in TaskOp  BY TasksOf DEF TaskOp
    <3> QED  BY <3>1 DEF TaskOf
  <2>2. CASE tasks' = tasks  BY <2>1, <2>2 DEF TaskOf, OneTask
  <2>3. ASSUME NEW t \in TaskOp, tasks' = Append(tasks, [op |-> t, k |-> k]), op = Beside(t)
        PROVE  (\A u \in TaskOp : TaskOf(k, u)' => op = Beside(u)) /\ OneTask(k)'
    <3> DEFINE new == [op |-> t, k |-> k]
               n == Len(tasks) + 1
    <3>1. new \in Task /\ new.op = t  BY <2>3 DEF Task, TaskOp
    <3> HIDE DEF new
    <3>2. /\ DOMAIN tasks' = DOMAIN tasks \cup {n}
          /\ \A i \in DOMAIN tasks : tasks'[i] = tasks[i]
          /\ tasks'[n] = new
      BY <2>3, <3>1, Appended DEF new
    <3>3. \A i \in DOMAIN tasks' : tasks'[i].k = k => i = n
      BY <2>1, <3>2
    <3> HIDE DEF n
    <3>4. OneTask(k)'  BY <3>3 DEF OneTask
    <3>5. ASSUME NEW u \in TaskOp, TaskOf(k, u)'  PROVE op = Beside(u)
      <4>1. u = t  BY <3>1, <3>2, <3>3, <3>5 DEF TaskOf
      <4> QED  BY <2>3, <4>1
    <3> QED  BY <3>4, <3>5
  <2> QED  BY <2>2, <2>3
<1>8. OneOp(k)'
  <2>1. \A v \in Worker : Has(v, k, HomeOp)' => v = w  BY <1>4
  <2> QED  BY <1>2, <1>7, <2>1 DEF OneOp, Beside
<1>9. AsWanted(k)'
  <2>1. ASSUME NEW v \in Worker, Has(v, k, HomeOp)'
        PROVE  wants'[k] = (job'[v].op \in JoinOp)
    <3>1. v = w  BY <1>4, <2>1
    <3> QED  BY <1>2, <1>3, <3>1
  <2>2. ASSUME NEW t \in TaskOp, TaskOf(k, t)'  PROVE wants'[k] = (t = "join_task")
    <3>1. op = Beside(t)  BY <1>7, <2>2
    <3>2. (op \in JoinOp) = (t = "join_task")  BY <3>1 DEF Beside, TaskOp, JoinOp
    <3> QED  BY <1>3, <3>2
  <2> QED  BY <2>1, <2>2 DEF AsWanted, JoinOp
<1> QED  BY <1>1, <1>2, <1>3, <1>4, <1>5, <1>6, <1>8, <1>9

\* It may begin while the host is still busy with what was asked before.
LEMMA AskRight ==
  ASSUME TypeOK, Places, NEW w \in Worker, NEW k \in Pair, UserAsks(w, k),
         ~Busy(k, HomeOp), \A t \in TaskOp : ~TaskOf(k, t), HostBase(k),
         member["home"][k] <= 1
  PROVE  PairRight(k)'
<1>0. member["home"][k] \in Nat /\ request[k] \in Nat  BY DEF TypeOK, Site
<1>1. ASSUME NEW op \in HomeOp \ TaskOp, NEW at \in {"enter", "request", "send", "delete"},
             Ask(w, op, k, at),
             \/ tasks' = tasks
             \/ \E t \in TaskOp : /\ tasks' = Append(tasks, [op |-> t, k |-> k])
                                  /\ op = Beside(t),
             \/ op \in {"subscribe", "import"} /\ at = "enter" /\ Status(k) = "nonmember"
             \/ op = "join_then_add" /\ at = "request"
             \/ op = "api_join" /\ at = "enter" /\ TaskOf(k, "join_task")'
             \/ op = "unsubscribe" /\ at = "send"
             \/ op = "api_leave" /\ at = "delete" /\ TaskOf(k, "leave_task")'
      PROVE  PairRight(k)'
  <2>1. /\ job'[w].op = op /\ job'[w].k = k /\ job'[w].at = at
        /\ at = "enter" => job'[w].rows = member["home"][k]
        /\ wants'[k] = (op \in JoinOp)
        /\ \A v \in Worker : v # w => ~Has(v, k, HomeOp)'
        /\ OneOp(k)' /\ AsWanted(k)' /\ HandlersKept(k) /\ HostBase(k)'
        /\ member' = member /\ request' = request /\ out' = out /\ back' = back
    BY <1>1, AskFrame
  <2>2. Sending(k)'
    <3>1. CASE TaskOf(k, "join_task")' \/ TaskOf(k, "leave_task")'
      BY <3>1 DEF Sending, TaskOp
    <3>2. CASE Sends(w, k)'  BY <3>2 DEF Sending
    <3>3. TaskOf(k, "join_task")' \/ TaskOf(k, "leave_task")' \/ Sends(w, k)'
      BY <1>1, <2>1 DEF Sends, Has
    <3> QED  BY <3>1, <3>2, <3>3
  <2>3. HostRight(k)'  BY <2>1, <2>2 DEF HostRight
  <2>4. op \in JoinOp => Entering(k)'
    <3>1. op \in JoinOp => Enters(w, k)'
      BY <1>1, <2>1 DEF Enters, Has, JoinOp
    <3> QED  BY <3>1 DEF Entering
  <2>5. op \notin JoinOp => Deleting(k)' /\ Withdrawing(k)'
    <3>1. op \notin JoinOp => Deletes(w, k)'
      BY <1>1, <2>1 DEF Deletes, Has, JoinOp
    <3>2. op \notin JoinOp => Withdraws(w, k)' \/ TaskOf(k, "leave_task")'
      BY <1>1, <2>1 DEF Withdraws, Has, JoinOp
    <3> QED  BY <3>1, <3>2 DEF Deleting, Withdrawing
  <2>6. at = "enter" => Sees(w, k)'
    <3>1. CASE op \in {"subscribe", "import"}
      <4>1. member["home"][k] = 0 /\ request[k] = 0
        BY <1>0, <1>1, <3>1 DEF Status
      <4> QED  BY <2>1, <4>1 DEF Sees
    <3>2. CASE op \notin {"subscribe", "import"}
      BY <1>0, <2>1, <3>2 DEF Sees
    <3> QED  BY <3>1, <3>2
  <2>7. \A v \in Worker : Has(v, k, HomeOp)' /\ job'[v].at = "enter" => Sees(v, k)'
    BY <2>1, <2>6
  <2>8. HomeRight(k)'
    BY <2>1, <2>4, <2>5, <2>7 DEF HomeRight
  <2> QED  BY <2>1, <2>3, <2>8 DEF PairRight
<1>2. ASSUME NEW t \in TaskOp, tasks' = Append(tasks, [op |-> t, k |-> k])
      PROVE  TaskOf(k, t)'
  <2> DEFINE new == [op |-> t, k |-> k]
  <2>1. new \in Task /\ new.op = t /\ new.k = k  BY DEF Task, TaskOp
  <2> HIDE DEF new
  <2>2. /\ DOMAIN tasks' = DOMAIN tasks \cup {Len(tasks) + 1}
        /\ tasks'[Len(tasks) + 1] = new
    BY <1>2, <2>1, Appended DEF new
  <2> QED  BY <2>1, <2>2 DEF TaskOf
<1>3. CASE Subscribe(w, k)
  BY <1>1, <1>3 DEF Subscribe, HomeOp, TaskOp
<1>4. CASE JoinThenAdd(w, k)
  BY <1>1, <1>4 DEF JoinThenAdd, HomeOp, TaskOp
<1>5. CASE Import(w, k)
  BY <1>1, <1>5 DEF Import, HomeOp, TaskOp
<1>6. CASE Unsubscribe(w, k)
  BY <1>1, <1>6 DEF Unsubscribe, HomeOp, TaskOp
<1>7. CASE ApiJoin(w, k)
  <2>1. "join_task" \in TaskOp /\ Beside("join_task") = "api_join"
    BY DEF TaskOp, Beside
  <2>2. tasks' = Append(tasks, [op |-> "join_task", k |-> k]) /\ Ask(w, "api_join", k, "enter")
    BY <1>7 DEF ApiJoin
  <2>3. TaskOf(k, "join_task")'  BY <1>2, <2>1, <2>2
  <2>4. "api_join" \in HomeOp \ TaskOp  BY DEF HomeOp, TaskOp
  <2> QED  BY <1>1, <2>1, <2>2, <2>3, <2>4
<1>8. CASE ApiLeave(w, k)
  <2>1. "leave_task" \in TaskOp /\ Beside("leave_task") = "api_leave"
    BY DEF TaskOp, Beside
  <2>2. tasks' = Append(tasks, [op |-> "leave_task", k |-> k]) /\ Ask(w, "api_leave", k, "delete")
    BY <1>8 DEF ApiLeave
  <2>3. TaskOf(k, "leave_task")'  BY <1>2, <2>1, <2>2
  <2>4. "api_leave" \in HomeOp \ TaskOp  BY DEF HomeOp, TaskOp
  <2> QED  BY <1>1, <2>1, <2>2, <2>3, <2>4
<1> QED  BY <1>3, <1>4, <1>5, <1>6, <1>7, <1>8 DEF UserAsks

LEMMA TakeRight ==
  ASSUME TypeOK, Places, NEW w \in Worker, TakeTask(w), NEW k, k = Head(tasks).k, PairRight(k)
  PROVE  PairRight(k)'
<1> DEFINE t == Head(tasks)
           at == IF t.op = "join_task" THEN "request" ELSE "withdraw"
<1>0. /\ Idle(w) /\ tasks # <<>> /\ tasks' = Tail(tasks)
      /\ member' = member /\ request' = request /\ out' = out /\ back' = back
      /\ wants' = wants
  BY DEF TakeTask
<1>1. /\ 1 \in DOMAIN tasks /\ t = tasks[1] /\ t.op \in TaskOp /\ k \in Pair
      /\ \A i \in DOMAIN tasks' :
              i + 1 \in DOMAIN tasks /\ i + 1 # 1 /\ tasks'[i] = tasks[i + 1]
  BY <1>0, Taken, TasksOf DEF TaskOp
<1>2. /\ job'[w].op = t.op /\ job'[w].k = k /\ job'[w].at = at /\ Others(w)
  <2> DEFINE j == Job(t.op, k, at, "home")
  <2>1. j \in Running /\ j.op = t.op /\ j.k = k /\ j.at = at
    BY <1>1, NewJob DEF Site, HomeOp, TaskOp
  <2>2. job' = [job EXCEPT ![w] = j]  BY DEF TakeTask
  <2> HIDE DEF j
  <2>3. job'[w] = j /\ Others(w)  BY <2>1, <2>2, Taking
  <2> QED  BY <2>1, <2>3
<1>3. OneOp(k) /\ AsWanted(k) /\ HomeRight(k) /\ HostBase(k) /\ HostRight(k)
  BY DEF PairRight, HostRight
<1>4. TaskOf(k, t.op)  BY <1>1 DEF TaskOf
<1>5. \A i \in DOMAIN tasks' : tasks'[i].k # k
  <2> SUFFICES ASSUME NEW i \in DOMAIN tasks', tasks'[i].k = k  PROVE FALSE
    OBVIOUS
  <2>1. i + 1 \in DOMAIN tasks /\ tasks[i + 1].k = k /\ i + 1 # 1  BY <1>1
  <2> QED  BY <1>1, <1>3, <2>1 DEF OneOp, OneTask
<1>6. (\A op \in TaskOp : ~TaskOf(k, op)') /\ OneTask(k)'
  BY <1>5 DEF TaskOf, OneTask
<1> HIDE DEF t
<1>7. wants[k] = (t.op = "join_task")  BY <1>1, <1>3, <1>4 DEF AsWanted
<1>8. ASSUME NEW v \in Worker, v # w, Has(v, k, HomeOp)'
      PROVE  /\ Has(v, k, HomeOp) /\ job'[v] = job[v] /\ job[v].op = Beside(t.op)
             /\ job[v].op \notin {"subscribe", "import"}
  <2>1. job'[v] = job[v] /\ Has(v, k, HomeOp)  BY <1>2, <1>8 DEF Others, Has
  <2>2. job[v].op = Beside(t.op)  BY <1>1, <1>3, <1>4, <2>1 DEF OneOp
  <2> QED  BY <1>1, <2>1, <2>2 DEF Beside, TaskOp
<1>9. OneOp(k)'
  <2>1. ASSUME NEW u \in Worker, NEW v \in Worker, Has(u, k, HomeOp)', Has(v, k, HomeOp)'
        PROVE  u = v \/ job'[u].op = Beside(job'[v].op) \/ job'[v].op = Beside(job'[u].op)
    <3>1. CASE u = w /\ v # w  BY <1>2, <1>8, <2>1, <3>1
    <3>2. CASE v = w /\ u # w  BY <1>2, <1>8, <2>1, <3>2
    <3>3. CASE u = w /\ v = w  BY <3>3
    <3>4. CASE u # w /\ v # w
      <4>1. Has(u, k, HomeOp) /\ job'[u] = job[u] /\ Has(v, k, HomeOp) /\ job'[v] = job[v]
        BY <1>8, <2>1, <3>4
      <4> QED  BY <1>3, <4>1 DEF OneOp
    <3> QED  BY <3>1, <3>2, <3>3, <3>4
  <2> QED  BY <1>6, <2>1 DEF OneOp, Beside
<1>10. AsWanted(k)'
  <2>1. ASSUME NEW v \in Worker, Has(v, k, HomeOp)'
        PROVE  wants'[k] = (job'[v].op \in JoinOp)
    <3>1. CASE v = w
      <4>1. (t.op \in JoinOp) = (t.op = "join_task")  BY <1>1 DEF JoinOp, TaskOp
      <4> QED  BY <1>0, <1>2, <1>7, <3>1, <4>1
    <3>2. CASE v # w
      <4>1. Has(v, k, HomeOp) /\ job'[v] = job[v]  BY <1>8, <2>1, <3>2
      <4>2. wants[k] = (job[v].op \in JoinOp)  BY <1>3, <4>1 DEF AsWanted
      <4> QED  BY <1>0, <4>1, <4>2
    <3> QED  BY <3>1, <3>2
  <2> QED  BY <1>6, <2>1 DEF AsWanted, JoinOp
<1>11. HandlersKept(k)
  <2>1. ToHost \cup {"Reject"} \subseteq HomeOp \cup HandlerOp  BY DEF ToHost, HandlerOp
  <2>2. ~Has(w, k, ToHost \cup {"Reject"})  BY <1>0, <2>1, NotIdle
  <2>3. ~Has(w, k, ToHost \cup {"Reject"})'  BY <1>1, <1>2 DEF Has, ToHost, TaskOp
  <2> QED  BY <1>1, <1>2, <2>2, <2>3, HandlersStay
<1>12. Sending(k)'
  <2>1. Sends(w, k)'  BY <1>1, <1>2 DEF Sends, Has, TaskOp, HomeOp
  <2> QED  BY <2>1 DEF Sending
<1>13. HostRight(k)'  BY <1>0, <1>1, <1>3, <1>11, <1>12, HostFrame
<1>14. ~Enters(w, k) /\ ~Deletes(w, k) /\ ~Withdraws(w, k)  BY <1>0, NotIdle
<1>15. /\ Entering(k) => Entering(k)'
       /\ Deleting(k) => Deleting(k)'
  BY <1>2, <1>14, Onward
<1>16. Withdrawing(k) => Withdrawing(k)'
  <2>1. CASE TaskOf(k, "leave_task")
    <3>1. t.op = "leave_task"
      <4>1. wants[k] = ("leave_task" = "join_task")  BY <1>3, <2>1 DEF AsWanted, TaskOp
      <4> QED  BY <1>1, <1>7, <4>1 DEF TaskOp
    <3>2. Withdraws(w, k)'  BY <1>2, <3>1 DEF Withdraws, Has
    <3> QED  BY <3>2 DEF Withdrawing
  <2>2. ASSUME NEW v \in Worker, Withdraws(v, k)  PROVE Withdrawing(k)'
    <3>1. v # w  BY <1>14, <2>2
    <3>2. job'[v] = job[v]  BY <1>2, <3>1 DEF Others
    <3>3. Withdraws(v, k)'  BY <2>2, <3>2, SameJob
    <3> QED  BY <3>3 DEF Withdrawing
  <2> QED  BY <2>1, <2>2 DEF Withdrawing
<1>17. ASSUME NEW v \in Worker, Has(v, k, HomeOp)', job'[v].at = "enter"  PROVE Sees(v, k)'
  <2>1. v # w  BY <1>2, <1>17
  <2>2. Has(v, k, HomeOp) /\ job'[v] = job[v]  BY <1>8, <1>17, <2>1
  <2>3. Sees(v, k)  BY <1>3, <1>17, <2>2 DEF HomeRight
  <2> QED  BY <1>0, <2>2, <2>3 DEF Sees
<1>18. HomeRight(k)'
  BY <1>0, <1>3, <1>15, <1>16, <1>17 DEF HomeRight
<1> QED  BY <1>9, <1>10, <1>13, <1>18 DEF PairRight

(***************************************************************************)
(* The handlers of the inboxes.                                            *)
(***************************************************************************)
LEMMA HandlerStep ==
  ASSUME NEW w \in Worker, NEW k \in Pair, Others(w),
         ~Has(w, k, HomeOp), ~Has(w, k, HomeOp)'
  PROVE  HomeJobsKept(k)
<1> SUFFICES ASSUME NEW v \in Worker
             PROVE  /\ Has(v, k, HomeOp)' <=> Has(v, k, HomeOp)
                    /\ Has(v, k, HomeOp) => job'[v] = job[v]
  BY DEF HomeJobsKept
<1>1. CASE v = w  BY <1>1
<1>2. CASE v # w
  <2>1. job'[v] = job[v]  BY <1>2 DEF Others
  <2> QED  BY <2>1, SameJob
<1> QED  BY <1>1, <1>2

LEMMA FirstGone ==
  ASSUME NEW T, NEW q \in Seq(T), q # <<>>
  PROVE  /\ Without(q, 1) \in Seq(T) /\ Len(Without(q, 1)) = Len(q) - 1
         /\ \A i \in 1 .. Len(q) - 1 : Without(q, 1)[i] = q[i + 1]
<1>1. Len(q) \in Nat /\ Len(q) # 0  BY EmptySeq
<1>2. SubSeq(q, 1, 1 - 1) = <<>>  OBVIOUS
<1>3. /\ SubSeq(q, 2, Len(q)) \in Seq(T) /\ Len(SubSeq(q, 2, Len(q))) = Len(q) - 1
      /\ \A i \in 1 .. Len(q) - 1 : SubSeq(q, 2, Len(q))[i] = q[i + 1]
  <2>1. \A m \in 2 .. Len(q) : m \in 1 .. Len(q)  BY <1>1
  <2>2. SubSeq(q, 2, Len(q)) = Tail(q)  BY <1>1
  <2> QED  BY <1>1, <2>2, HeadTailProperties
<1>4. Without(q, 1) = SubSeq(q, 2, Len(q))
  BY <1>2, <1>3 DEF Without
<1> QED  BY <1>3, <1>4

LEMMA HostReceivesRight ==
  ASSUME TypeOK, Places, Noted, NEW w \in Worker, NEW k \in Pair, NEW i \in 1..3,
         HostReceives(w, k, i), PairRight(k), Clean(k)'
  PROVE  PairRight(k)'
<1>0. /\ Idle(w) /\ i \in DOMAIN out[k] /\ ~Late(k, i, "host")
      /\ out' = [out EXCEPT ![k] = Without(@, i)]
      /\ job' = [job EXCEPT ![w] = Job(out[k][i], k, "handle", "host")]
      /\ member' = member /\ request' = request /\ back' = back /\ tasks' = tasks
      /\ wants' = wants
  <2>1. Note(k, "late", Late(k, i, "host"))  BY DEF HostReceives
  <2>2. ~Late(k, i, "host")  BY <2>1, Noting
  <2> QED  BY <2>2 DEF HostReceives
<1>1. i = 1 /\ \A v \in Worker : ~Has(v, k, ToHost)
  <2>1. i = 1  BY <1>0 DEF Late
  <2>2. ASSUME NEW v \in Worker, Has(v, k, ToHost)  PROVE FALSE
    <3>1. ~Idle(v)  BY <2>2 DEF Has, Idle, NoJob, ToHost
    <3>2. job[v].site = "host"
      BY <2>2, <3>1 DEF Places, Placed, Place, Has, ToHost, ToHome
    <3>3. job[v].op \in HandlerOp /\ job[v].k = k
      BY <2>2 DEF Has, ToHost, HandlerOp
    <3>4. ~Late(k, i, "host")  BY <1>0
    <3> QED  BY <3>2, <3>3, <3>4 DEF Late
  <2> QED  BY <2>1, <2>2
<1>2. out[k] \in Seq(ToHost) /\ out[k] # <<>> /\ out[k][1] \in ToHost
  <2>1. out[k] \in Seq(ToHost)  BY DEF TypeOK, ToHost
  <2> QED  BY <1>0, <1>1, <2>1
<1>3. /\ job'[w].op = out[k][1] /\ job'[w].k = k /\ Others(w)
      /\ job'[w].rows = member["host"][k]
  <2> DEFINE j == Job(out[k][i], k, "handle", "host")
  <2>1. j \in Running /\ j.op = out[k][i] /\ j.k = k /\ j.rows = member["host"][k]
    <3>1. out[k][i] \in HomeOp \cup HandlerOp
      BY <1>1, <1>2 DEF ToHost, HandlerOp
    <3>2. "host" \in Site  BY DEF Site
    <3> QED  BY <3>1, <3>2, NewJob
  <2>2. job' = [job EXCEPT ![w] = j]  BY <1>0
  <2> HIDE DEF j
  <2>3. job'[w] = j /\ Others(w)  BY <2>1, <2>2, Taking
  <2> QED  BY <1>1, <2>1, <2>3
<1>4. OneOp(k)' /\ AsWanted(k)' /\ HomeRight(k)' /\ (Sending(k)' <=> Sending(k))
  <2>1. ~Has(w, k, HomeOp)'  BY <1>2, <1>3 DEF Has, ToHost, HomeOp
  <2>2. ~Has(w, k, HomeOp)  BY <1>0, NotIdle
  <2> QED  BY <1>0, <1>3, <2>1, <2>2, HandlerStep, SameTasks, HomeStays DEF PairRight
<1>5. \A v \in Worker : Has(v, k, ToHost)' => v = w
  BY <1>1, <1>3 DEF Others, Has
<1>6. HostBase(k)'
  BY <1>0, <1>3, <1>5 DEF HostBase, PairRight, HostRight
<1>7. ASSUME HostEnds(k)  PROVE HostEnds(k)'
  <2>1. /\ out'[k] \in Seq(ToHost) /\ Len(out'[k]) = Len(out[k]) - 1
        /\ \A m \in 1 .. Len(out[k]) - 1 : out'[k][m] = out[k][m + 1]
    <3>1. out'[k] = Without(out[k], 1)  BY <1>0, <1>1 DEF TypeOK
    <3> QED  BY <1>2, <3>1, FirstGone
  <2>2. out[k][Len(out[k])] = Want(k)  BY <1>2, <1>7 DEF HostEnds
  <2>3. Want(k)' = Want(k)  BY <1>0 DEF Want
  <2>4. Len(out[k]) \in Nat /\ Len(out[k]) # 0  BY <1>2, EmptySeq
  <2>5. CASE Len(out[k]) = 1
    <3>1. out'[k] = <<>>
      <4>1. Len(out'[k]) = 0  BY <2>1, <2>5
      <4> QED  BY <2>1, <4>1, EmptySeq
    <3>2. Busy(k, {Want(k)})'
      <4>1. job'[w].op = Want(k)'  BY <1>3, <2>2, <2>3, <2>5
      <4> QED  BY <1>3, <4>1 DEF Busy
    <3> QED  BY <3>1, <3>2 DEF HostEnds
  <2>6. CASE Len(out[k]) # 1
    <3>1. \A n \in Nat : n # 0 /\ n # 1 => n - 1 \in 1 .. n - 1 /\ (n - 1) + 1 = n /\ n - 1 # 0
      OBVIOUS
    <3>2. out'[k][Len(out'[k])] = out[k][Len(out[k])] /\ Len(out'[k]) # 0
      BY <2>1, <2>4, <2>6, <3>1
    <3>3. out'[k] # <<>>  BY <3>2
    <3> QED  BY <2>2, <2>3, <3>2, <3>3 DEF HostEnds
  <2> QED  BY <2>5, <2>6
<1>8. HostRight(k)'
  BY <1>4, <1>6, <1>7 DEF HostRight, PairRight
<1> QED  BY <1>4, <1>8 DEF PairRight

LEMMA HomeReceivesRight ==
  ASSUME TypeOK, Places, Noted, NEW w \in Worker, NEW k \in Pair, NEW i \in 1..3,
         HomeReceives(w, k, i), PairRight(k), Clean(k)'
  PROVE  PairRight(k)'
<1>0. /\ Idle(w) /\ i \in DOMAIN back[k] /\ ~Late(k, i, "home")
      /\ back' = [back EXCEPT ![k] = Without(@, i)]
      /\ job' = [job EXCEPT ![w] = Job(back[k][i], k, "handle", "home")]
      /\ member' = member /\ request' = request /\ out' = out /\ tasks' = tasks
      /\ wants' = wants
  <2>1. Note(k, "late", Late(k, i, "home"))  BY DEF HomeReceives
  <2>2. ~Late(k, i, "home")  BY <2>1, Noting
  <2> QED  BY <2>2 DEF HomeReceives
<1>1. i = 1  BY <1>0 DEF Late
<1>2. back[k] \in Seq(ToHome) /\ back[k] # <<>> /\ back[k][1] \in ToHome
  <2>1. back[k] \in Seq(ToHome)  BY DEF TypeOK, ToHome
  <2> QED  BY <1>0, <1>1, <2>1
<1>3. job'[w].op = back[k][1] /\ job'[w].k = k /\ Others(w)
  <2> DEFINE j == Job(back[k][i], k, "handle", "home")
  <2>0. back[k][i] \in HomeOp \cup HandlerOp  BY <1>1, <1>2 DEF ToHome, HandlerOp
  <2>1. j \in Running /\ j.op = back[k][i] /\ j.k = k
    BY <2>0, NewJob DEF Site
  <2>2. job' = [job EXCEPT ![w] = j]  BY <1>0
  <2> HIDE DEF j
  <2>3. job'[w] = j /\ Others(w)  BY <2>1, <2>2, Taking
  <2> QED  BY <1>1, <2>1, <2>3
<1>4. OneOp(k)' /\ AsWanted(k)' /\ HomeRight(k)' /\ (Sending(k)' <=> Sending(k))
  <2>1. ~Has(w, k, HomeOp)'  BY <1>2, <1>3 DEF Has, ToHome, HomeOp
  <2>2. ~Has(w, k, HomeOp)  BY <1>0, NotIdle
  <2> QED  BY <1>0, <1>3, <2>1, <2>2, HandlerStep, SameTasks, HomeStays DEF PairRight
<1>5. ASSUME NEW v \in Worker, NEW ops, ops \subseteq ToHost
      PROVE  /\ Has(v, k, ops)' <=> Has(v, k, ops)
             /\ Has(v, k, ops) => job'[v] = job[v]
  <2>1. CASE v = w
    <3>1. ops \subseteq HomeOp \cup HandlerOp  BY <1>5 DEF ToHost, HandlerOp
    <3>2. ~Has(w, k, ops)  BY <1>0, <3>1, NotIdle
    <3>3. ~Has(w, k, ops)'  BY <1>2, <1>3, <1>5 DEF Has, ToHost, ToHome
    <3> QED  BY <2>1, <3>2, <3>3
  <2>2. CASE v # w
    <3>1. job'[v] = job[v]  BY <1>3, <2>2 DEF Others
    <3> QED  BY <3>1, SameJob
  <2> QED  BY <2>1, <2>2
<1>6. HostBase(k)'
  <2>1. \A v \in Worker : Has(v, k, ToHost)' => Has(v, k, ToHost) /\ job'[v] = job[v]
    BY <1>5
  <2> QED  BY <1>0, <2>1 DEF HostBase, PairRight, HostRight
<1>7. \A op \in ToHost : Busy(k, {op})' <=> Busy(k, {op})
  <2> SUFFICES ASSUME NEW op \in ToHost  PROVE Busy(k, {op})' <=> Busy(k, {op})
    OBVIOUS
  <2>1. {op} \subseteq ToHost  OBVIOUS
  <2>2. \A v \in Worker : Has(v, k, {op})' <=> Has(v, k, {op})  BY <1>5, <2>1
  <2> QED  BY <2>2 DEF Busy, Has
<1>8. Busy(k, ToHost)' <=> Busy(k, ToHost)
  <2>1. \A v \in Worker : Has(v, k, ToHost)' <=> Has(v, k, ToHost)  BY <1>5
  <2> QED  BY <2>1 DEF Busy, Has
<1>9. Rejected(k) => Rejected(k)'
  <2>1. ASSUME Busy(k, {"Reject"})  PROVE Rejected(k)'
    <3>1. PICK v \in Worker : Has(v, k, {"Reject"})  BY <2>1 DEF Busy, Has
    <3>2. {"Reject"} \subseteq HomeOp \cup HandlerOp  BY DEF HandlerOp
    <3>3. v # w  BY <1>0, <3>1, <3>2, NotIdle
    <3>4. job'[v] = job[v]  BY <1>3, <3>3 DEF Others
    <3> QED  BY <3>1, <3>4 DEF Rejected, Busy, Has
  <2>2. ASSUME NEW n \in DOMAIN back[k], back[k][n] = "Reject"  PROVE Rejected(k)'
    <3>1. /\ back'[k] \in Seq(ToHome) /\ Len(back'[k]) = Len(back[k]) - 1
          /\ \A m \in 1 .. Len(back[k]) - 1 : back'[k][m] = back[k][m + 1]
      <4>1. back'[k] = Without(back[k], 1)  BY <1>0, <1>1 DEF TypeOK
      <4> QED  BY <1>2, <4>1, FirstGone
    <3>2. CASE n = 1
      <4>1. job'[w].op = "Reject"  BY <1>3, <2>2, <3>2
      <4> QED  BY <1>3, <4>1 DEF Rejected, Busy
    <3>3. CASE n # 1
      <4>1. Len(back[k]) \in Nat /\ n \in 1 .. Len(back[k])  BY <1>2, <2>2
      <4>2. n - 1 \in 1 .. Len(back[k]) - 1 /\ (n - 1) + 1 = n  BY <3>3, <4>1
      <4>3. back'[k][n - 1] = "Reject"  BY <2>2, <3>1, <4>2
      <4>4. DOMAIN back'[k] = 1 .. Len(back[k]) - 1  BY <3>1
      <4>5. n - 1 \in DOMAIN back'[k]  BY <4>2, <4>4
      <4> QED  BY <4>3, <4>5 DEF Rejected
    <3> QED  BY <3>2, <3>3
  <2> QED  BY <2>1, <2>2 DEF Rejected
<1>10. HostEnds(k) => HostEnds(k)'
  <2>1. Want(k)' = Want(k) /\ Want(k) \in ToHost  BY <1>0 DEF Want, ToHost
  <2>2. Busy(k, {Want(k)}) => Busy(k, {Want(k)})'
    <3> DEFINE op == Want(k)
    <3>1. op \in ToHost /\ Want(k)' = op  BY <2>1
    <3>2. Busy(k, {Want(k)})' <=> \E v \in Worker : job'[v].op \in {op} /\ job'[v].k = k
      BY <3>1 DEF Busy
    <3>3. Busy(k, {op})  <=> \E v \in Worker : job[v].op \in {op} /\ job[v].k = k
      BY DEF Busy
    <3>4. ASSUME NEW o \in ToHost
          PROVE  (\E v \in Worker : job'[v].op \in {o} /\ job'[v].k = k)
                  <=> \E v \in Worker : job[v].op \in {o} /\ job[v].k = k
      BY <1>7 DEF Busy
    <3> HIDE DEF op
    <3> QED  BY <3>1, <3>2, <3>3, <3>4 DEF op
  <2> QED  BY <1>0, <1>8, <1>9, <2>1, <2>2 DEF HostEnds
<1>11. HostRight(k)'
  BY <1>4, <1>6, <1>10 DEF HostRight, PairRight
<1> QED  BY <1>4, <1>11 DEF PairRight

\* A handler of the host: nothing of home moves, and nobody is left there.
LEMMA HostWorker ==
  ASSUME TypeOK, Places, NEW w \in Worker, NEW op \in ToHost, Handles(w, op),
         NEW k, k = job[w].k, End(w), PairRight(k),
         tasks' = tasks, request' = request, wants' = wants, out' = out,
         member'["home"][k] = member["home"][k]
  PROVE  /\ k \in Pair /\ job[w].rows = member["host"][k] /\ member["host"][k] \in {0, 1}
         /\ job[w].site = "host"
         /\ \A v \in Worker : ~Has(v, k, ToHost)'
         /\ ~Busy(k, ToHost)'
         /\ Busy(k, {"Reject"}) => Busy(k, {"Reject"})'
         /\ OneOp(k)' /\ AsWanted(k)' /\ HomeRight(k)' /\ (Sending(k)' <=> Sending(k))
         /\ HostEnds(k) => IF out[k] # <<>> THEN out[k][Len(out[k])] = Want(k)
                                            ELSE op = Want(k)
<1>0. ~Idle(w) /\ job[w].op = op  BY Somewhere
<1>1. k \in Pair /\ Placed(job[w]) /\ Has(w, k, ToHost)
  BY <1>0, Jobs DEF Places, Has
<1>2. job[w].site = "host"
  BY <1>0, <1>1 DEF Placed, Place, ToHost, ToHome
<1>3. /\ \A v \in Worker : Has(v, k, ToHost) => v = w
      /\ job[w].rows = member["host"][k] /\ member["host"][k] <= 1
  BY <1>1 DEF PairRight, HostRight, HostBase
<1>4. member["host"][k] \in Nat  BY <1>1 DEF TypeOK, Site
<1>5. Idle(w)' /\ Others(w)  BY Ending
<1>6. \A v \in Worker : ~Has(v, k, ToHost)'
  <2> SUFFICES ASSUME NEW v \in Worker, Has(v, k, ToHost)'  PROVE FALSE
    OBVIOUS
  <2>1. CASE v = w
    <3>1. ToHost \subseteq HomeOp \cup HandlerOp  BY DEF ToHost, HandlerOp
    <3> QED  BY <1>5, <2>1, <3>1, NotIdleNext
  <2>2. CASE v # w
    <3>1. job'[v] = job[v]  BY <1>5, <2>2 DEF Others
    <3> QED  BY <1>3, <2>2, <3>1, SameJob
  <2> QED  BY <2>1, <2>2
<1>7. ~Busy(k, ToHost)'  BY <1>6 DEF Busy, Has
<1>8. Busy(k, {"Reject"}) => Busy(k, {"Reject"})'
  <2> SUFFICES ASSUME Busy(k, {"Reject"})  PROVE Busy(k, {"Reject"})'
    OBVIOUS
  <2>1. PICK v \in Worker : job[v].op \in {"Reject"} /\ job[v].k = k  BY DEF Busy
  <2>2. v # w  BY <1>0, <2>1 DEF ToHost
  <2>3. job'[v] = job[v]  BY <1>5, <2>2 DEF Others
  <2> QED  BY <2>1, <2>3 DEF Busy
<1>9. OneOp(k)' /\ AsWanted(k)' /\ HomeRight(k)' /\ (Sending(k)' <=> Sending(k))
  <2>1. ~Has(w, k, HomeOp)'  BY <1>5, NotIdleNext
  <2>2. ~Has(w, k, HomeOp)  BY <1>0 DEF Has, ToHost, HomeOp
  <2> QED  BY <1>1, <1>5, <2>1, <2>2, HandlerStep, SameTasks, HomeStays DEF PairRight
<1>10. ASSUME HostEnds(k), out[k] = <<>>  PROVE op = Want(k)
  <2>1. Busy(k, ToHost)  BY <1>1 DEF Busy, Has
  <2>2. Busy(k, {Want(k)})  BY <1>10, <2>1 DEF HostEnds
  <2>3. PICK v \in Worker : job[v].op = Want(k) /\ job[v].k = k  BY <2>2 DEF Busy
  <2>4. Has(v, k, ToHost)  BY <2>3 DEF Has, Want, ToHost
  <2> QED  BY <1>0, <1>3, <2>3, <2>4
<1>11. HostEnds(k) => IF out[k] # <<>> THEN out[k][Len(out[k])] = Want(k)
                                       ELSE op = Want(k)
  BY <1>10 DEF HostEnds
<1>12. member["host"][k] \in {0, 1}  BY <1>3, <1>4
<1> QED  BY <1>1, <1>2, <1>3, <1>6, <1>7, <1>8, <1>9, <1>11, <1>12

\* Once no handler is left at the host and nothing is on its way to it.
LEMMA HostDone ==
  ASSUME NEW k \in Pair, \A v \in Worker : ~Has(v, k, ToHost)', ~Busy(k, ToHost)',
         member'["host"][k] \in {0, 1}, out'[k] = out[k], wants'[k] = wants[k],
         ~Sending(k)' =>
           \/ out[k] # <<>> /\ out[k][Len(out[k])] = Want(k)
           \/ out[k] = <<>> /\ member'["host"][k] = (IF wants[k] THEN 1 ELSE 0)
           \/ out[k] = <<>> /\ wants[k] /\ member'["host"][k] = 0 /\ Rejected(k)'
  PROVE  HostRight(k)'
<1>1. HostBase(k)'  BY DEF HostBase
<1>2. ~Sending(k)' => HostEnds(k)'  BY DEF HostEnds, Want
<1> QED  BY <1>1, <1>2 DEF HostRight

LEMMA FollowsRight ==
  ASSUME TypeOK, Places, Noted, NEW w \in Worker, HostFollows(w), NEW k, k = job[w].k,
         PairRight(k), Clean(k)'
  PROVE  PairRight(k)'
<1>0. /\ Handles(w, "Follow") /\ End(w) /\ tasks' = tasks /\ request' = request
      /\ wants' = wants /\ out' = out
  BY DEF HostFollows, Finish
<1>1. "Follow" \in ToHost /\ ~Idle(w)  BY <1>0, Somewhere DEF ToHost
<1>2. k \in Pair /\ member["host"][k] \in Nat  BY <1>1, Jobs DEF TypeOK, Site
<1>3. \/ k \in refused /\ member' = member /\ back' = [back EXCEPT ![k] = Append(@, "Reject")]
         /\ Note(k, "rejected member", member["host"][k] > 0)
      \/ k \notin refused /\ (job[w].rows > 0 \/ Clash(w)) /\ member' = member
      \/ /\ k \notin refused /\ ~(job[w].rows > 0)
         /\ member' = [member EXCEPT !["host"][k] = @ + 1]
  BY DEF HostFollows
<1>4. member'["home"][k] = member["home"][k]
      /\ (member' = [member EXCEPT !["host"][k] = @ + 1] =>
            member'["host"][k] = member["host"][k] + 1)
  <2>1. CASE member' # [member EXCEPT !["host"][k] = @ + 1]
    <3>1. member' = member  BY <1>3, <2>1
    <3> QED  BY <2>1, <3>1
  <2>2. CASE member' = [member EXCEPT !["host"][k] = @ + 1]
    <3> DEFINE n == member["host"][k] + 1
    <3>1. member' = [member EXCEPT !["host"][k] = n] /\ n \in Nat  BY <1>2, <2>2
    <3>2. member \in [Site -> [Pair -> Nat]] /\ "host" \in Site /\ "home" \in Site
      BY DEF TypeOK, Site
    <3>3. "home" # "host"  OBVIOUS
    <3> HIDE DEF n
    <3>4. member'["host"][k] = n /\ member'["home"][k] = member["home"][k]
      BY <1>2, <3>1, <3>2, <3>3, Within
    <3> QED  BY <3>4 DEF n
  <2> QED  BY <2>1, <2>2
<1>5. /\ job[w].rows = member["host"][k] /\ member["host"][k] \in {0, 1}
      /\ job[w].site = "host"
      /\ \A v \in Worker : ~Has(v, k, ToHost)'
      /\ ~Busy(k, ToHost)'
      /\ OneOp(k)' /\ AsWanted(k)' /\ HomeRight(k)' /\ (Sending(k)' <=> Sending(k))
      /\ HostEnds(k) => IF out[k] # <<>> THEN out[k][Len(out[k])] = Want(k)
                                         ELSE "Follow" = Want(k)
  BY <1>0, <1>1, <1>4, HostWorker
<1>6. /\ ~Sending(k)' /\ out[k] # <<>> => out[k][Len(out[k])] = Want(k)
      /\ ~Sending(k)' /\ out[k] = <<>> => wants[k]
  <2>1. ~Sending(k)' => HostEnds(k)  BY <1>5 DEF PairRight, HostRight
  <2> QED  BY <1>5, <2>1 DEF Want
<1>7. CASE k \in refused /\ member' = member /\ back' = [back EXCEPT ![k] = Append(@, "Reject")]
           /\ Note(k, "rejected member", member["host"][k] > 0)
  <2>1. member["host"][k] = 0
    <3>1. ~(member["host"][k] > 0)  BY <1>2, <1>7, Noting
    <3> QED  BY <1>5, <3>1
  <2>2. Rejected(k)'
    <3>1. back[k] \in Seq(ToHome) /\ "Reject" \in ToHome  BY <1>2 DEF TypeOK, ToHome
    <3>2. back'[k] = Append(back[k], "Reject")  BY <1>2, <1>7 DEF TypeOK
    <3>3. /\ Len(back[k]) \in Nat /\ Len(back'[k]) = Len(back[k]) + 1
          /\ back'[k] \in Seq(ToHome) /\ back'[k][Len(back[k]) + 1] = "Reject"
      BY <3>1, <3>2, AppendProperties
    <3>4. Len(back[k]) + 1 \in DOMAIN back'[k]  BY <3>3
    <3> QED  BY <3>3, <3>4 DEF Rejected
  <2>3. HostRight(k)'
    <3>1. member'["host"][k] = 0  BY <1>7, <2>1
    <3> QED  BY <1>0, <1>2, <1>5, <1>6, <2>2, <3>1, HostDone
  <2> QED  BY <1>5, <2>3 DEF PairRight
<1>8. CASE (job[w].rows > 0 \/ Clash(w)) /\ member' = member
  <2>1. member["host"][k] = 1  BY <1>5, <1>8 DEF Clash
  <2>2. member'["host"][k] = 1  BY <1>8, <2>1
  <2>3. HostRight(k)'  BY <1>0, <1>2, <1>5, <1>6, <2>2, HostDone
  <2> QED  BY <1>5, <2>3 DEF PairRight
<1>9. CASE ~(job[w].rows > 0) /\ member' = [member EXCEPT !["host"][k] = @ + 1]
  <2>1. member'["host"][k] = 1  BY <1>4, <1>5, <1>9
  <2>2. HostRight(k)'  BY <1>0, <1>2, <1>5, <1>6, <2>1, HostDone
  <2> QED  BY <1>5, <2>2 DEF PairRight
<1> QED  BY <1>3, <1>7, <1>8, <1>9

LEMMA UndoesRight ==
  ASSUME TypeOK, Places, NEW w \in Worker, HostUndoes(w), NEW k, k = job[w].k, PairRight(k)
  PROVE  PairRight(k)'
<1>0. /\ Handles(w, "Undo") /\ End(w) /\ tasks' = tasks /\ request' = request
      /\ wants' = wants /\ out' = out
  BY DEF HostUndoes, Finish
<1>1. "Undo" \in ToHost /\ ~Idle(w)  BY <1>0, Somewhere DEF ToHost
<1>2. k \in Pair /\ member["host"][k] \in Nat  BY <1>1, Jobs DEF TypeOK, Site
<1>3. \/ job[w].rows = 0 /\ member' = member
      \/ job[w].rows # 0 /\ member' = [member EXCEPT !["host"][k] = OneLess(@)]
  BY DEF HostUndoes
<1>4. member'["home"][k] = member["home"][k]
      /\ (job[w].rows # 0 => member'["host"][k] = OneLess(member["host"][k]))
  <2>1. CASE job[w].rows = 0  BY <1>2, <1>3, <2>1
  <2>2. CASE job[w].rows # 0
    <3> DEFINE n == OneLess(member["host"][k])
    <3>1. member' = [member EXCEPT !["host"][k] = n] /\ n \in Nat  BY <1>2, <1>3, <2>2 DEF OneLess
    <3>2. member \in [Site -> [Pair -> Nat]] /\ "host" \in Site /\ "home" \in Site
      BY DEF TypeOK, Site
    <3>3. "home" # "host"  OBVIOUS
    <3> HIDE DEF n
    <3>4. member'["host"][k] = n /\ member'["home"][k] = member["home"][k]
      BY <1>2, <3>1, <3>2, <3>3, Within
    <3> QED  BY <3>4 DEF n
  <2> QED  BY <2>1, <2>2
<1>5. /\ job[w].rows = member["host"][k] /\ member["host"][k] \in {0, 1}
      /\ \A v \in Worker : ~Has(v, k, ToHost)'
      /\ ~Busy(k, ToHost)'
      /\ OneOp(k)' /\ AsWanted(k)' /\ HomeRight(k)' /\ (Sending(k)' <=> Sending(k))
      /\ HostEnds(k) => IF out[k] # <<>> THEN out[k][Len(out[k])] = Want(k)
                                         ELSE "Undo" = Want(k)
  BY <1>0, <1>1, <1>4, HostWorker
<1>6. /\ ~Sending(k)' /\ out[k] # <<>> => out[k][Len(out[k])] = Want(k)
      /\ ~Sending(k)' /\ out[k] = <<>> => ~wants[k]
  <2>1. ~Sending(k)' => HostEnds(k)  BY <1>5 DEF PairRight, HostRight
  <2> QED  BY <1>5, <2>1 DEF Want
<1>7. member'["host"][k] = 0
  <2>1. CASE job[w].rows = 0  BY <1>3, <1>5, <2>1
  <2>2. CASE job[w].rows # 0  BY <1>4, <1>5, <2>2 DEF OneLess
  <2> QED  BY <2>1, <2>2
<1>8. HostRight(k)'  BY <1>0, <1>2, <1>5, <1>6, <1>7, HostDone
<1> QED  BY <1>5, <1>8 DEF PairRight

\* Who is accepted while nothing has crossed it still wants to be a member.
LEMMA AcceptedRight ==
  ASSUME TypeOK, Places, Noted, NEW w \in Worker, HomeAccepted(w), NEW k, k = job[w].k,
         PairRight(k), Clean(k)'
  PROVE  PairRight(k)'
<1>0. /\ Handles(w, "Accept") /\ End(w) /\ tasks' = tasks /\ request' = request
      /\ wants' = wants /\ out' = out /\ back' = back
  BY DEF HomeAccepted, Finish
<1>1. ~Idle(w) /\ job[w].op = "Accept"  BY <1>0, Somewhere
<1>2. /\ k \in Pair /\ member["home"][k] \in Nat /\ request[k] \in Nat
      /\ Placed(job[w]) /\ job[w].rows \in Nat /\ job[w].asks \in Nat
  BY <1>1, Jobs DEF TypeOK, Site, Places
<1>3. Idle(w)' /\ Others(w)  BY <1>0, Ending
<1>4. OneOp(k) /\ AsWanted(k) /\ HomeRight(k) /\ HostRight(k)  BY DEF PairRight
<1>5. ~Has(w, k, HomeOp) /\ ~Has(w, k, HomeOp)'
  BY <1>1, <1>3, NotIdleNext DEF Has, HomeOp
<1>6. HomeJobsKept(k) /\ TasksKept(k)
  BY <1>0, <1>2, <1>3, <1>5, HandlerStep, SameTasks
<1>7. HandlersKept(k)
  <2>1. ~Has(w, k, ToHost \cup {"Reject"})  BY <1>1 DEF Has, ToHost
  <2>2. ~Has(w, k, ToHost \cup {"Reject"})'
    <3>1. ToHost \cup {"Reject"} \subseteq HomeOp \cup HandlerOp  BY DEF ToHost, HandlerOp
    <3> QED  BY <1>3, <3>1, NotIdleNext
  <2> QED  BY <1>2, <1>3, <2>1, <2>2, HandlersStay
<1>8. CASE ~Awaited(w) \/ Clash(w)
  <2>1. member' = member  BY <1>8 DEF HomeAccepted
  <2>2. OneOp(k)' /\ AsWanted(k)' /\ HomeRight(k)' /\ (Sending(k)' <=> Sending(k))
    BY <1>0, <1>2, <1>4, <1>6, <2>1, HomeStays
  <2>3. HostRight(k)'  BY <1>0, <1>2, <1>4, <1>7, <2>1, <2>2, HostFrame
  <2> QED  BY <2>2, <2>3 DEF PairRight
<1>9. CASE Awaited(w) /\ ~Clash(w)
  <2>1. /\ member' = [member EXCEPT !["home"][k] = @ + 1]
        /\ ~Outdated(w) /\ ~Leaving(k)
    <3>1. Note(k, "accepted while leaving", Outdated(w) \/ Leaving(k))
      BY <1>9 DEF HomeAccepted
    <3>2. ~(Outdated(w) \/ Leaving(k))  BY <1>2, <3>1, Noting
    <3>3. member' = [member EXCEPT !["home"][k] = @ + 1]
      BY <1>9 DEF HomeAccepted
    <3> QED  BY <3>2, <3>3
  <2>2. member["home"][k] = 0 /\ request[k] > 0
    BY <1>2, <1>9, <2>1 DEF Outdated, Awaited
  <2>3. member'["home"][k] = 1 /\ member'["host"][k] = member["host"][k]
    <3>1. member' = [member EXCEPT !["home"][k] = 1] /\ 1 \in Nat  BY <2>1, <2>2
    <3>2. member \in [Site -> [Pair -> Nat]] /\ "host" \in Site /\ "home" \in Site
      BY DEF TypeOK, Site
    <3>3. "home" # "host"  OBVIOUS
    <3> QED  BY <1>2, <3>1, <3>2, <3>3, Within
  <2>4. wants[k] = TRUE
    <3>1. ~Withdrawing(k)
      <4>1. ASSUME TaskOf(k, "leave_task")  PROVE FALSE
        <5>1. PICK i \in DOMAIN tasks : tasks[i].op = "leave_task" /\ tasks[i].k = k
          BY <4>1 DEF TaskOf
        <5>2. tasks[i] \in Task  BY <5>1 DEF TypeOK
        <5>3. tasks[i] = [op |-> "leave_task", k |-> k]  BY <5>1, <5>2 DEF Task
        <5> QED  BY <2>1, <5>1, <5>3 DEF Leaving
      <4>2. ASSUME NEW v \in Worker, Withdraws(v, k)  PROVE FALSE
        BY <2>1, <4>2 DEF Leaving, Busy, Withdraws, Has
      <4> QED  BY <4>1, <4>2 DEF Withdrawing
    <3>2. wants[k] \/ request[k] = 0  BY <1>4, <3>1 DEF HomeRight
    <3>3. wants[k] \in BOOLEAN  BY <1>2 DEF TypeOK
    <3> QED  BY <2>2, <3>2, <3>3
  <2>5. \A v \in Worker : Has(v, k, HomeOp)' => Has(v, k, HomeOp) /\ job'[v] = job[v]
    BY <1>6 DEF HomeJobsKept
  <2>6. OneOp(k)' /\ AsWanted(k)'
    BY <1>0, <1>2, <1>4, <1>6, <2>5, OpsFrame
  <2>7. ASSUME NEW v \in Worker, Has(v, k, HomeOp)', job'[v].at = "enter"  PROVE Sees(v, k)'
    <3>1. Has(v, k, HomeOp) /\ job'[v] = job[v]  BY <2>5, <2>7
    <3>2. Sees(v, k)  BY <1>4, <2>7, <3>1 DEF HomeRight
    <3>3. job[v].op \notin {"subscribe", "import"}  BY <2>2, <3>2 DEF Sees
    <3> QED  BY <2>3, <3>1, <3>3 DEF Sees
  <2>8. HomeRight(k)'  BY <1>0, <2>3, <2>4, <2>7 DEF HomeRight
  <2>9. Sending(k) => Sending(k)'  BY <1>6, StillToDo
  <2>10. HostRight(k)'  BY <1>0, <1>2, <1>4, <1>7, <2>3, <2>9, HostFrame
  <2> QED  BY <2>6, <2>8, <2>10 DEF PairRight
<1> QED  BY <1>8, <1>9

\* A Reject that has crossed nothing is the host's last word.
LEMMA RejectedRight ==
  ASSUME TypeOK, Places, Noted, NEW w \in Worker, HomeRejected(w), NEW k, k = job[w].k,
         PairRight(k), Clean(k)'
  PROVE  PairRight(k)'
<1>0. /\ Handles(w, "Reject") /\ End(w) /\ tasks' = tasks /\ out' = out
      /\ wants' = [wants EXCEPT ![k] = FALSE]
  BY DEF HomeRejected, Finish
<1>1. ~Idle(w) /\ job[w].op = "Reject"  BY <1>0, Somewhere
<1>2. /\ k \in Pair /\ member["home"][k] \in Nat /\ request[k] \in Nat
      /\ member["host"][k] \in Nat
      /\ Placed(job[w]) /\ job[w].rows \in Nat /\ job[w].asks \in Nat
  BY <1>1, Jobs DEF TypeOK, Site, Places
<1>3. Idle(w)' /\ Others(w)  BY <1>0, Ending
<1>4. OneOp(k) /\ AsWanted(k) /\ HomeRight(k) /\ HostBase(k)
  BY DEF PairRight, HostRight
<1> DEFINE crossed == Outdated(w) \/ out[k] # <<>> \/ Busy(k, HomeOp \cup {"Follow"})
                         \/ Queued(k) \/ member["host"][k] > 0 \/ request[k] > 1
<1>5. ~crossed
  <2>1. Note(k, "crossed", crossed)  BY DEF HomeRejected
  <2> HIDE DEF crossed
  <2> QED  BY <1>2, <2>1, Noting
<1>6. /\ ~Outdated(w) /\ out[k] = <<>> /\ ~Busy(k, HomeOp \cup {"Follow"}) /\ ~Queued(k)
      /\ member["host"][k] = 0 /\ request[k] \in {0, 1}
  BY <1>2, <1>5
<1> HIDE DEF crossed
<1>7. request'[k] = 0 /\ member'["home"][k] = 0 /\ member'["host"][k] = 0
  <2> DEFINE n == IF job[w].rows > 0 THEN OneLess(member["home"][k]) ELSE member["home"][k]
             q == IF job[w].asks > 0 THEN OneLess(request[k]) ELSE request[k]
  <2>1. /\ member' = [member EXCEPT !["home"][k] = n]
        /\ request' = [request EXCEPT ![k] = q]
    BY DEF HomeRejected
  <2>2. job[w].rows = member["home"][k] /\ job[w].asks = request[k]
    BY <1>6 DEF Outdated
  <2>3. member["home"][k] \in {0, 1}
    <3>1. member["home"][k] <= 1  BY <1>4 DEF HomeRight
    <3> QED  BY <1>2, <3>1
  <2>4. n = 0 /\ q = 0  BY <1>6, <2>2, <2>3 DEF OneLess
  <2> HIDE DEF n, q
  <2>5. request'[k] = 0  BY <1>2, <2>1, <2>4 DEF TypeOK
  <2>6. member \in [Site -> [Pair -> Nat]] /\ "host" \in Site /\ "home" \in Site
    BY DEF TypeOK, Site
  <2>7. "home" # "host" /\ n \in Nat  BY <2>4
  <2>8. member'["home"][k] = n /\ member'["host"][k] = member["host"][k]
    BY <1>2, <2>1, <2>6, <2>7, Within
  <2> QED  BY <1>6, <2>4, <2>5, <2>8
<1>8. wants'[k] = FALSE  BY <1>0, <1>2 DEF TypeOK
<1>9. \A v \in Worker : ~Has(v, k, HomeOp)'
  <2> SUFFICES ASSUME NEW v \in Worker, Has(v, k, HomeOp)'  PROVE FALSE
    OBVIOUS
  <2>1. CASE v = w  BY <1>3, <2>1, NotIdleNext
  <2>2. CASE v # w
    <3>1. job'[v] = job[v]  BY <1>3, <2>2 DEF Others
    <3> QED  BY <1>6, <3>1 DEF Has, Busy
  <2> QED  BY <2>1, <2>2
<1>10. \A i \in DOMAIN tasks : tasks[i].k # k  BY <1>6 DEF Queued
<1>11. (\A op \in TaskOp : ~TaskOf(k, op)') /\ OneTask(k)'
  BY <1>0, <1>10 DEF TaskOf, OneTask
<1>12. OneOp(k)'  BY <1>9, <1>11 DEF OneOp
<1>13. AsWanted(k)'  BY <1>9, <1>11 DEF AsWanted
<1>14. HomeRight(k)'  BY <1>7, <1>8, <1>9 DEF HomeRight
<1>15. HostBase(k)'
  <2>1. ~Has(w, k, ToHost \cup {"Reject"})'
    <3>1. ToHost \cup {"Reject"} \subseteq HomeOp \cup HandlerOp  BY DEF ToHost, HandlerOp
    <3> QED  BY <1>3, <3>1, NotIdleNext
  <2>2. ASSUME NEW v \in Worker, Has(v, k, ToHost)'
        PROVE  v # w /\ Has(v, k, ToHost) /\ job'[v] = job[v]
    <3>1. v # w  BY <2>1, <2>2 DEF Has
    <3>2. job'[v] = job[v]  BY <1>3, <3>1 DEF Others
    <3> QED  BY <2>2, <3>1, <3>2 DEF Has
  <2> QED  BY <1>4, <1>6, <1>7, <2>2 DEF HostBase
<1>16. HostEnds(k)'
  <2>1. Want(k)' = "Undo" /\ out'[k] = <<>>  BY <1>0, <1>6, <1>8 DEF Want
  <2>2. CASE Busy(k, {"Undo"})'  BY <2>1, <2>2 DEF HostEnds, Busy
  <2>3. CASE ~Busy(k, {"Undo"})'
    <3>1. ~Busy(k, ToHost)'
      <4> SUFFICES ASSUME NEW v \in Worker, job'[v].op \in ToHost, job'[v].k = k
                   PROVE  FALSE
        BY DEF Busy
      <4>1. job'[v].op = "Follow"  BY <2>3 DEF Busy, ToHost
      <4>2. v # w  BY <1>3, <4>1 DEF Idle, NoJob
      <4>3. job'[v] = job[v]  BY <1>3, <4>2 DEF Others
      <4> QED  BY <1>6, <4>1, <4>3 DEF Busy
    <3> QED  BY <1>7, <1>8, <2>1, <3>1 DEF HostEnds
  <2> QED  BY <2>2, <2>3
<1>17. HostRight(k)'  BY <1>15, <1>16 DEF HostRight
<1> QED  BY <1>12, <1>13, <1>14, <1>17 DEF PairRight

(***************************************************************************)
(* Every step, for the pair it is about and for the others.                *)
(***************************************************************************)
SamePair(k) ==
  /\ member'["home"][k] = member["home"][k] /\ member'["host"][k] = member["host"][k]
  /\ request'[k] = request[k] /\ wants'[k] = wants[k]
  /\ out'[k] = out[k] /\ back'[k] = back[k]

LEMMA OtherPair ==
  ASSUME NEW w \in Worker, NEW l, NEW k \in Pair, k # l, Others(w),
         Idle(w) \/ job[w].k = l, Idle(w)' \/ job'[w].k = l,
         TasksKept(k), SamePair(k), PairRight(k)
  PROVE  PairRight(k)'
<1>1. ASSUME NEW v \in Worker  PROVE job'[v] = job[v] \/ (~About(v, k) /\ ~About(v, k)')
  <2>1. CASE v # w  BY <2>1 DEF Others
  <2>2. CASE v = w
    <3>1. ~About(w, k)
      <4>1. CASE Idle(w)  BY <4>1, NotIdle DEF About
      <4>2. CASE job[w].k = l  BY <4>2 DEF About, Has
      <4> QED  BY <4>1, <4>2
    <3>2. ~About(w, k)'
      <4>1. CASE Idle(w)'  BY <4>1, NotIdleNext DEF About
      <4>2. CASE job'[w].k = l  BY <4>2 DEF About, Has
      <4> QED  BY <4>1, <4>2
    <3> QED  BY <2>2, <3>1, <3>2
  <2> QED  BY <2>1, <2>2
<1> QED  BY <1>1, PairFrame DEF SamePair

LEMMA RowElsewhere ==
  ASSUME TypeOK, NEW s \in Site, NEW l \in Pair, NEW n \in Nat, NEW k \in Pair, k # l,
         member' = member \/ member' = [member EXCEPT ![s][l] = n]
  PROVE  member'["home"][k] = member["home"][k] /\ member'["host"][k] = member["host"][k]
<1>1. member \in [Site -> [Pair -> Nat]] /\ "host" \in Site /\ "home" \in Site
  BY DEF TypeOK, Site
<1>2. CASE member' = member  BY <1>2
<1>3. CASE member' = [member EXCEPT ![s][l] = n]  BY <1>1, <1>3, Within
<1> QED  BY <1>2, <1>3

LEMMA UserApart ==
  ASSUME TypeOK, NEW w \in Worker, NEW l \in Pair, UserAsks(w, l), NEW k \in Pair, k # l,
         PairRight(k)
  PROVE  PairRight(k)'
<1>1. PICK op \in HomeOp, at \in {"enter", "request", "send", "delete"} : Ask(w, op, l, at)
  BY DEF UserAsks, Subscribe, JoinThenAdd, Import, ApiJoin, Unsubscribe, ApiLeave, HomeOp
<1>2. Idle(w) /\ job'[w].k = l /\ Others(w)
  <2> DEFINE j == Job(op, l, at, "home")
  <2>1. j \in Running /\ j.k = l  BY NewJob DEF Site
  <2>2. job' = [job EXCEPT ![w] = j] /\ Idle(w)  BY <1>1 DEF Ask
  <2> HIDE DEF j
  <2>3. job'[w] = j /\ Others(w)  BY <2>1, <2>2, Taking
  <2> QED  BY <2>1, <2>2, <2>3
<1>3. SamePair(k)  BY <1>1 DEF Ask, SamePair, TypeOK
<1>4. TasksKept(k)
  <2>1. CASE tasks' = tasks  BY <2>1, SameTasks
  <2>2. ASSUME NEW t \in TaskOp, tasks' = Append(tasks, [op |-> t, k |-> l])
        PROVE  TasksKept(k)
    <3> DEFINE new == [op |-> t, k |-> l]
               n == Len(tasks) + 1
    <3>1. new \in Task /\ new.k = l  BY DEF Task, TaskOp
    <3> HIDE DEF new
    <3>2. /\ DOMAIN tasks' = DOMAIN tasks \cup {n} /\ n \notin DOMAIN tasks
          /\ \A i \in DOMAIN tasks : tasks'[i] = tasks[i]
          /\ tasks'[n] = new
      BY <2>2, <3>1, Appended DEF new
    <3> HIDE DEF n
    <3>3. \A i \in DOMAIN tasks' : tasks'[i].k = k => i \in DOMAIN tasks
      BY <3>1, <3>2
    <3>4. ASSUME NEW o  PROVE TaskOf(k, o)' <=> TaskOf(k, o)
      BY <3>2, <3>3 DEF TaskOf
    <3>5. OneTask(k) => OneTask(k)'  BY <3>2, <3>3 DEF OneTask
    <3> QED  BY <3>4, <3>5 DEF TasksKept
  <2>3. tasks' = tasks \/ \E t \in TaskOp : tasks' = Append(tasks, [op |-> t, k |-> l])
    BY DEF UserAsks, Subscribe, JoinThenAdd, Import, ApiJoin, Unsubscribe, ApiLeave, TaskOp
  <2> QED  BY <2>1, <2>2, <2>3
<1> QED  BY <1>2, <1>3, <1>4, OtherPair

LEMMA TakeApart ==
  ASSUME TypeOK, NEW w \in Worker, TakeTask(w), NEW k \in Pair, k # Head(tasks).k, PairRight(k)
  PROVE  PairRight(k)'
<1> DEFINE t == Head(tasks)
           at == IF t.op = "join_task" THEN "request" ELSE "withdraw"
<1>0. Idle(w) /\ tasks # <<>> /\ tasks' = Tail(tasks)  BY DEF TakeTask
<1>1. /\ 1 \in DOMAIN tasks /\ t = tasks[1] /\ t.op \in TaskOp /\ t.k \in Pair
      /\ \A i \in DOMAIN tasks' :
              i + 1 \in DOMAIN tasks /\ i + 1 # 1 /\ tasks'[i] = tasks[i + 1]
  BY <1>0, Taken, TasksOf DEF TaskOp
<1>2. job'[w].k = t.k /\ Others(w)
  <2> DEFINE j == Job(t.op, t.k, at, "home")
  <2>1. j \in Running /\ j.k = t.k
    BY <1>1, NewJob DEF Site, HomeOp, TaskOp
  <2>2. job' = [job EXCEPT ![w] = j]  BY DEF TakeTask
  <2> HIDE DEF j
  <2>3. job'[w] = j /\ Others(w)  BY <2>1, <2>2, Taking
  <2> QED  BY <2>1, <2>3
<1>3. SamePair(k)  BY DEF TakeTask, SamePair
<1>4. TasksKept(k)
  <2>1. \A i \in DOMAIN tasks : tasks[i].k = k =>
          i - 1 \in DOMAIN tasks' /\ tasks'[i - 1] = tasks[i]
    <3>1. /\ tasks \in Seq(Task) /\ Len(tasks) \in Nat /\ DOMAIN tasks = 1 .. Len(tasks)
      BY DEF TypeOK
    <3>2. tasks' \in Seq(Task) /\ Len(tasks') = Len(tasks) - 1
      BY <1>0, <3>1, HeadTailProperties
    <3>3. DOMAIN tasks' = 1 .. Len(tasks) - 1  BY <3>2
    <3> SUFFICES ASSUME NEW i \in DOMAIN tasks, tasks[i].k = k
                 PROVE  i - 1 \in DOMAIN tasks' /\ tasks'[i - 1] = tasks[i]
      OBVIOUS
    <3>4. i # 1  BY <1>1
    <3>5. i - 1 \in 1 .. Len(tasks) - 1 /\ (i - 1) + 1 = i  BY <3>1, <3>4
    <3> QED  BY <1>1, <3>3, <3>5
  <2>2. ASSUME NEW o  PROVE TaskOf(k, o)' <=> TaskOf(k, o)
    <3>1. TaskOf(k, o) => TaskOf(k, o)'  BY <2>1 DEF TaskOf
    <3>2. TaskOf(k, o)' => TaskOf(k, o)  BY <1>1 DEF TaskOf
    <3> QED  BY <3>1, <3>2
  <2>3. OneTask(k) => OneTask(k)'
    <3> SUFFICES ASSUME OneTask(k), NEW i \in DOMAIN tasks', NEW j \in DOMAIN tasks',
                        tasks'[i].k = k, tasks'[j].k = k
                 PROVE  i = j
      BY DEF OneTask
    <3>1. i + 1 \in DOMAIN tasks /\ j + 1 \in DOMAIN tasks
          /\ tasks[i + 1].k = k /\ tasks[j + 1].k = k
      BY <1>1
    <3>2. i + 1 = j + 1  BY <3>1 DEF OneTask
    <3>3. i \in Int /\ j \in Int
      <4>1. tasks' \in Seq(Task)  BY <1>0, Taken
      <4> QED  BY <4>1
    <3> QED  BY <3>2, <3>3
  <2> QED  BY <2>2, <2>3 DEF TasksKept
<1> QED  BY <1>0, <1>2, <1>3, <1>4, OtherPair

\* The steps of an operation that runs.
Steps(w) ==
  \/ Enter(w) \/ AddRequest(w) \/ Send(w) \/ Look(w) \/ Delete(w) \/ Withdraw(w)
  \/ HostFollows(w) \/ HostUndoes(w) \/ HomeAccepted(w) \/ HomeRejected(w)

LEMMA StepJob ==
  ASSUME TypeOK, NEW w \in Worker, Steps(w)
  PROVE  /\ ~Idle(w) /\ job[w].k \in Pair /\ Others(w) /\ tasks' = tasks
         /\ Idle(w)' \/ job'[w].k = job[w].k
<1>1. ~Idle(w)
  BY Somewhere DEF Steps, Enter, AddRequest, Send, Look, Delete, Withdraw,
     HostFollows, HostUndoes, HomeAccepted, HomeRejected
<1>2. job[w].k \in Pair /\ job[w].op \in HomeOp \cup HandlerOp  BY <1>1, Jobs
<1>3. tasks' = tasks
  BY DEF Steps, Enter, AddRequest, Send, Look, Delete, Withdraw,
     HostFollows, HostUndoes, HomeAccepted, HomeRejected, Finish
<1>4. CASE Look(w)
  <2> DEFINE j == Job(job[w].op, job[w].k, "enter", "home")
  <2>1. j \in Running /\ j.k = job[w].k  BY <1>2, NewJob DEF Site
  <2>2. job' = [job EXCEPT ![w] = j]  BY <1>4 DEF Look, TypeOK
  <2> HIDE DEF j
  <2>3. job'[w] = j /\ Others(w)  BY <2>1, <2>2, Taking
  <2> QED  BY <1>1, <1>2, <1>3, <2>1, <2>3
<1>5. CASE ~Look(w)
  <2>1. End(w) \/ \E at \in {"request", "send", "look", "delete"} : GoTo(w, at) \/ Forget(w, at)
    <3>1. CASE Enter(w)  BY <3>1 DEF Enter
    <3>2. CASE AddRequest(w)  BY <3>2 DEF AddRequest
    <3>3. CASE Send(w)  BY <3>3 DEF Send
    <3>4. CASE Delete(w)  BY <3>4 DEF Delete
    <3>5. CASE Withdraw(w)  BY <3>5 DEF Withdraw
    <3>6. CASE HostFollows(w) \/ HostUndoes(w) \/ HomeAccepted(w) \/ HomeRejected(w)
      BY <3>6 DEF HostFollows, HostUndoes, HomeAccepted, HomeRejected, Finish
    <3> QED  BY <1>5, <3>1, <3>2, <3>3, <3>4, <3>5, <3>6 DEF Steps
  <2>2. CASE End(w)  BY <1>1, <1>2, <1>3, <2>2, Ending
  <2>3. ASSUME NEW at \in {"request", "send", "look", "delete"}, GoTo(w, at) \/ Forget(w, at)
        PROVE  Moved(w, at) /\ Others(w)
    BY <1>1, <2>3, Going
  <2> QED  BY <1>1, <1>2, <1>3, <2>1, <2>2, <2>3 DEF Moved
<1> QED  BY <1>4, <1>5

LEMMA StepSame ==
  ASSUME TypeOK, NEW w \in Worker, Steps(w), NEW k \in Pair, k # job[w].k
  PROVE  SamePair(k)
<1> DEFINE l == job[w].k
           hm == member["home"][l]
           hs == member["host"][l]
<1>0. l \in Pair /\ "home" \in Site /\ "host" \in Site /\ hm \in Nat /\ hs \in Nat
      /\ request[l] \in Nat
  BY StepJob DEF TypeOK, Site
<1>1. /\ hm + 1 \in Nat /\ hs + 1 \in Nat /\ OneLess(hs) \in Nat /\ OneLess(hm) \in Nat
      /\ 0 \in Nat
  BY <1>0 DEF OneLess
<1>2. \/ member' = member
      \/ member' = [member EXCEPT !["home"][l] = hm + 1]
      \/ member' = [member EXCEPT !["home"][l] = 0]
      \/ member' = [member EXCEPT !["home"][l] = hm]
      \/ member' = [member EXCEPT !["home"][l] = OneLess(hm)]
      \/ member' = [member EXCEPT !["host"][l] = hs + 1]
      \/ member' = [member EXCEPT !["host"][l] = OneLess(hs)]
  BY DEF Steps, Enter, AddRequest, Send, Look, Delete, Withdraw,
     HostFollows, HostUndoes, HomeAccepted, HomeRejected
<1>3. member'["home"][k] = member["home"][k] /\ member'["host"][k] = member["host"][k]
  <2> HIDE DEF hm, hs
  <2> QED  BY <1>0, <1>1, <1>2, RowElsewhere
<1>4. request'[k] = request[k]
  BY DEF TypeOK, Steps, Enter, AddRequest, Send, Look, Delete, Withdraw,
     HostFollows, HostUndoes, HomeAccepted, HomeRejected
<1>5. wants'[k] = wants[k]
  BY DEF TypeOK, Steps, Enter, AddRequest, Send, Look, Delete, Withdraw,
     HostFollows, HostUndoes, HomeAccepted, HomeRejected
<1>6. out'[k] = out[k]
  BY DEF TypeOK, Steps, Enter, AddRequest, Send, Look, Delete, Withdraw,
     HostFollows, HostUndoes, HomeAccepted, HomeRejected
<1>7. back'[k] = back[k]
  BY DEF TypeOK, Steps, Enter, AddRequest, Send, Look, Delete, Withdraw,
     HostFollows, HostUndoes, HomeAccepted, HomeRejected
<1> QED  BY <1>3, <1>4, <1>5, <1>6, <1>7 DEF SamePair

LEMMA StepNotes ==
  ASSUME TypeOK, Noted, NEW w \in Worker, Steps(w)
  PROVE  Noted' /\ \A k \in Pair : Clean(k)' => Clean(k)
<1>0. job[w].k \in Pair  BY StepJob
<1>1. mishaps' = mishaps \/ \E what, when : Note(job[w].k, what, when)
  <2>1. CASE Enter(w) \/ AddRequest(w) \/ Send(w) \/ Look(w) \/ Delete(w) \/ HostUndoes(w)
    BY <2>1 DEF Enter, AddRequest, Send, Look, Delete, HostUndoes
  <2>2. CASE Withdraw(w)  BY <2>2 DEF Withdraw
  <2>3. CASE HostFollows(w)  BY <2>3 DEF HostFollows
  <2>4. CASE HomeAccepted(w)  BY <2>4 DEF HomeAccepted
  <2>5. CASE HomeRejected(w)  BY <2>5 DEF HomeRejected
  <2> QED  BY <2>1, <2>2, <2>3, <2>4, <2>5 DEF Steps
<1>2. CASE mishaps' = mishaps  BY <1>2 DEF Noted, Clean
<1>3. ASSUME NEW what, NEW when, Note(job[w].k, what, when)
      PROVE  Noted' /\ \A k \in Pair : Clean(k)' => Clean(k)
  BY <1>0, <1>3, Noting
<1> QED  BY <1>1, <1>2, <1>3

LEMMA StepsRight ==
  ASSUME TypeOK, Places, Noted, NEW w \in Worker, Steps(w), NEW k \in Pair,
         Clean(k) => PairRight(k), Clean(k)'
  PROVE  PairRight(k)'
<1>0. PairRight(k)  BY StepNotes
<1>1. CASE k = job[w].k
  BY <1>0, <1>1, EnterRight, RequestRight, SendRight, LookRight, DeleteRight, WithdrawRight,
     FollowsRight, UndoesRight, AcceptedRight, RejectedRight DEF Steps
<1>2. CASE k # job[w].k
  <2>1. SamePair(k)  BY <1>2, StepSame
  <2>2. /\ ~Idle(w) /\ Others(w) /\ tasks' = tasks
        /\ Idle(w)' \/ job'[w].k = job[w].k
    BY StepJob
  <2> QED  BY <1>0, <1>2, <2>1, <2>2, SameTasks, OtherPair
<1> QED  BY <1>1, <1>2

LEMMA UserRight ==
  ASSUME TypeOK, Places, Noted, NEW w \in Worker, NEW l \in Pair, UserAsks(w, l),
         NEW k \in Pair, Clean(k) => PairRight(k), Clean(k)'
  PROVE  Noted' /\ PairRight(k)'
<1>1. PICK op, at : Ask(w, op, l, at)
  BY DEF UserAsks, Subscribe, JoinThenAdd, Import, ApiJoin, Unsubscribe, ApiLeave
<1>2. mishaps' = [mishaps EXCEPT ![l] =
        IF Fresh(l) THEN {}
        ELSE IF Busy(l, HomeOp) \/ Queued(l) THEN mishaps[l] \cup {"overlap"} ELSE mishaps[l]]
  BY <1>1 DEF Ask
<1>3. Noted'  BY <1>2 DEF Noted
<1>4. /\ k # l => mishaps'[k] = mishaps[k]
      /\ mishaps'[l] = IF Fresh(l) THEN {}
                       ELSE IF Busy(l, HomeOp) \/ Queued(l)
                            THEN mishaps[l] \cup {"overlap"} ELSE mishaps[l]
  BY <1>2 DEF Noted
<1>5. CASE k # l
  <2>1. PairRight(k)  BY <1>4, <1>5 DEF Clean
  <2> QED  BY <1>3, <1>5, <2>1, UserApart
<1>6. CASE k = l
  <2>1. /\ ~Busy(k, HomeOp) /\ ~Queued(k)
        /\ HostBase(k) /\ member["home"][k] <= 1
    <3>1. CASE Fresh(k)
      <4>1. ~Busy(k, HomeOp \cup HandlerOp) /\ ~Queued(k)  BY <3>1 DEF Fresh, Settled
      <4>2. member["home"][k] <= 1 /\ member["host"][k] <= 1  BY <3>1 DEF Fresh, Site
      <4>3. ~Busy(k, HomeOp)  BY <4>1 DEF Busy
      <4>4. \A v \in Worker : ~Has(v, k, ToHost)
        BY <4>1 DEF Busy, Has, ToHost, HandlerOp
      <4>5. HostBase(k)  BY <4>2, <4>4 DEF HostBase
      <4> QED  BY <4>1, <4>2, <4>3, <4>5
    <3>2. CASE ~Fresh(k)
      <4>1. Clean(k) /\ ~Busy(k, HomeOp) /\ ~Queued(k)
        <5>1. CASE Busy(k, HomeOp) \/ Queued(k)
          <6>1. mishaps'[k] = mishaps[k] \cup {"overlap"}  BY <1>4, <1>6, <3>2, <5>1
          <6> QED  BY <6>1 DEF Clean
        <5>2. CASE ~(Busy(k, HomeOp) \/ Queued(k))
          <6>1. mishaps'[k] = mishaps[k]  BY <1>4, <1>6, <3>2, <5>2
          <6> QED  BY <5>2, <6>1 DEF Clean
        <5> QED  BY <5>1, <5>2
      <4> QED  BY <4>1 DEF PairRight, HomeRight, HostRight
    <3> QED  BY <3>1, <3>2
  <2>2. \A t \in TaskOp : ~TaskOf(k, t)  BY <2>1 DEF Queued, TaskOf
  <2>3. PairRight(k)'  BY <1>6, <2>1, <2>2, AskRight
  <2> QED  BY <1>3, <2>3
<1> QED  BY <1>5, <1>6

LEMMA ReceiveApart ==
  ASSUME TypeOK, NEW w \in Worker, NEW l \in Pair, NEW i \in 1..3,
         HostReceives(w, l, i) \/ HomeReceives(w, l, i),
         NEW k \in Pair, k # l, PairRight(k)
  PROVE  PairRight(k)'
<1>0. Idle(w) /\ tasks' = tasks  BY DEF HostReceives, HomeReceives
<1>1. PICK op \in HomeOp \cup HandlerOp, s \in Site :
        job' = [job EXCEPT ![w] = Job(op, l, "handle", s)]
  <2>1. CASE HostReceives(w, l, i)
    <3>1. out[l] \in Seq(ToHost) /\ i \in DOMAIN out[l]
      BY <2>1 DEF HostReceives, TypeOK, ToHost
    <3>2. out[l][i] \in HomeOp \cup HandlerOp  BY <3>1 DEF ToHost, HandlerOp
    <3>3. job' = [job EXCEPT ![w] = Job(out[l][i], l, "handle", "host")] /\ "host" \in Site
      BY <2>1 DEF HostReceives, Site
    <3> QED  BY <3>2, <3>3
  <2>2. CASE HomeReceives(w, l, i)
    <3>1. back[l] \in Seq(ToHome) /\ i \in DOMAIN back[l]
      BY <2>2 DEF HomeReceives, TypeOK, ToHome
    <3>2. back[l][i] \in HomeOp \cup HandlerOp  BY <3>1 DEF ToHome, HandlerOp
    <3>3. job' = [job EXCEPT ![w] = Job(back[l][i], l, "handle", "home")] /\ "home" \in Site
      BY <2>2 DEF HomeReceives, Site
    <3> QED  BY <3>2, <3>3
  <2> QED  BY <2>1, <2>2
<1>2. job'[w].k = l /\ Others(w)
  <2> DEFINE j == Job(op, l, "handle", s)
  <2>1. j \in Running /\ j.k = l  BY NewJob
  <2>2. job' = [job EXCEPT ![w] = j]  BY <1>1
  <2> HIDE DEF j
  <2>3. job'[w] = j /\ Others(w)  BY <2>1, <2>2, Taking
  <2> QED  BY <2>1, <2>3
<1>3. SamePair(k)
  <2>1. CASE HostReceives(w, l, i)  BY <2>1 DEF HostReceives, SamePair, TypeOK
  <2>2. CASE HomeReceives(w, l, i)  BY <2>2 DEF HomeReceives, SamePair, TypeOK
  <2> QED  BY <2>1, <2>2
<1> QED  BY <1>0, <1>2, <1>3, SameTasks, OtherPair

LEMMA ReceiveRight ==
  ASSUME TypeOK, Places, Noted, NEW w \in Worker, NEW l \in Pair, Receive(w, l),
         NEW k \in Pair, Clean(k) => PairRight(k), Clean(k)'
  PROVE  Noted' /\ PairRight(k)'
<1>1. PICK i \in 1..3 : HostReceives(w, l, i) \/ HomeReceives(w, l, i)
  BY DEF Receive
<1>2. Noted' /\ Clean(k)
  <2>1. \E what, when : Note(l, what, when)
    BY <1>1 DEF HostReceives, HomeReceives
  <2> QED  BY <2>1, Noting
<1>3. PairRight(k)  BY <1>2
<1>4. CASE k = l
  BY <1>1, <1>2, <1>3, <1>4, HostReceivesRight, HomeReceivesRight
<1>5. CASE k # l
  BY <1>1, <1>2, <1>3, <1>5, ReceiveApart
<1> QED  BY <1>4, <1>5

\* What goes wrong is noted of its pair, and is no business of the others.
LEMMA FaultRight ==
  ASSUME TypeOK, Noted, NEW k \in Pair, Clean(k) => PairRight(k), Clean(k)',
         \/ \E l \in Pair : Lose(l) \/ Repeat(l)
         \/ \E w \in Worker : Crash(w)
  PROVE  Noted' /\ PairRight(k)'
<1>1. ASSUME NEW l \in Pair, NEW what, Fault(l, what)
      PROVE  /\ Noted' /\ k # l /\ PairRight(k) /\ tasks' = tasks
             /\ member' = member /\ request' = request /\ wants' = wants
  <2>1. Note(l, what, TRUE)  BY <1>1 DEF Fault
  <2>2. Noted' /\ k # l /\ Clean(k)  BY <2>1, Noting
  <2> QED  BY <1>1, <2>2 DEF Fault
<1>2. ASSUME NEW l \in Pair, Lose(l) \/ Repeat(l)  PROVE Noted' /\ PairRight(k)'
  <2>1. job' = job /\ \E what : Fault(l, what)  BY <1>2 DEF Lose, Repeat
  <2>2. /\ Noted' /\ k # l /\ PairRight(k) /\ tasks' = tasks
        /\ member' = member /\ request' = request /\ wants' = wants
    BY <1>1, <2>1
  <2>3. out'[k] = out[k] /\ back'[k] = back[k]
    <3>1. CASE Lose(l)  BY <2>2, <3>1 DEF Lose, TypeOK
    <3>2. CASE Repeat(l)  BY <2>2, <3>2 DEF Repeat, TypeOK
    <3> QED  BY <1>2, <3>1, <3>2
  <2>4. TasksKept(k)  BY <2>2, SameTasks
  <2>5. \A v \in Worker : job'[v] = job[v]  BY <2>1
  <2>6. PairRight(k)'  BY <2>2, <2>3, <2>4, <2>5, PairFrame
  <2> QED  BY <2>2, <2>6
<1>3. ASSUME NEW w \in Worker, Crash(w)  PROVE Noted' /\ PairRight(k)'
  <2>1. ~Idle(w) /\ End(w) /\ Fault(job[w].k, "crash") /\ out' = out /\ back' = back
    BY <1>3 DEF Crash
  <2>2. job[w].k \in Pair  BY <2>1, Jobs
  <2>3. /\ Noted' /\ k # job[w].k /\ PairRight(k) /\ tasks' = tasks
        /\ member' = member /\ request' = request /\ wants' = wants
    BY <1>1, <2>1, <2>2
  <2>4. Idle(w)' /\ Others(w)  BY <2>1, Ending
  <2>5. SamePair(k)  BY <2>1, <2>3 DEF SamePair
  <2>6. PairRight(k)'  BY <2>3, <2>4, <2>5, SameTasks, OtherPair
  <2> QED  BY <2>3, <2>6
<1> QED  BY <1>2, <1>3

AllRight == \A k \in Pair : Clean(k) => PairRight(k)

LEMMA StepRight ==
  ASSUME TypeOK, Places, Noted, AllRight, [Next]_vars
  PROVE  Noted' /\ AllRight'
<1>0. \A k \in Pair : Clean(k) => PairRight(k)  BY DEF AllRight
<1>1. ASSUME UNCHANGED <<member, request, out, back, tasks, job, wants, mishaps>>
      PROVE  Noted' /\ AllRight'
  <2>1. ASSUME NEW k \in Pair, Clean(k)'  PROVE PairRight(k)'
    <3>1. PairRight(k)  BY <1>0, <1>1, <2>1 DEF Clean
    <3>2. TasksKept(k)  BY <1>1, SameTasks
    <3>3. \A v \in Worker : job'[v] = job[v]  BY <1>1
    <3> QED  BY <1>1, <3>1, <3>2, <3>3, PairFrame
  <2>2. Noted'  BY <1>1 DEF Noted
  <2> QED  BY <2>1, <2>2 DEF AllRight
<1>2. CASE UNCHANGED vars  BY <1>1, <1>2 DEF vars
<1>3. ASSUME NEW w \in Worker, NEW l \in Pair, UserAsks(w, l)  PROVE Noted' /\ AllRight'
  <2>1. \A k \in Pair : Clean(k)' => Noted' /\ PairRight(k)'
    BY <1>0, <1>3, UserRight
  <2>2. Noted'
    <3>1. PICK op, at : Ask(w, op, l, at)
      BY <1>3 DEF UserAsks, Subscribe, JoinThenAdd, Import, ApiJoin, Unsubscribe, ApiLeave
    <3> QED  BY <3>1 DEF Ask, Noted
  <2> QED  BY <2>1, <2>2 DEF AllRight
<1>4. ASSUME NEW w \in Worker, NEW l \in Pair, Receive(w, l)  PROVE Noted' /\ AllRight'
  <2>1. \A k \in Pair : Clean(k)' => Noted' /\ PairRight(k)'
    BY <1>0, <1>4, ReceiveRight
  <2>2. \E what, when : Note(l, what, when)
    BY <1>4 DEF Receive, HostReceives, HomeReceives
  <2>3. Noted'  BY <2>2, Noting
  <2> QED  BY <2>1, <2>3 DEF AllRight
<1>5. ASSUME NEW w \in Worker, Work(w)  PROVE Noted' /\ AllRight'
  <2>1. CASE TakeTask(w)
    <3>1. mishaps' = mishaps  BY <2>1 DEF TakeTask
    <3>2. ASSUME NEW k \in Pair, Clean(k)'  PROVE PairRight(k)'
      <4>1. PairRight(k)  BY <1>0, <3>1, <3>2 DEF Clean
      <4> QED  BY <2>1, <4>1, TakeRight, TakeApart
    <3> QED  BY <3>1, <3>2 DEF AllRight, Noted
  <2>2. CASE Steps(w)
    <3>1. \A k \in Pair : Clean(k)' => PairRight(k)'  BY <1>0, <2>2, StepsRight
    <3>2. Noted'  BY <2>2, StepNotes
    <3> QED  BY <3>1, <3>2 DEF AllRight
  <2> QED  BY <1>5, <2>1, <2>2 DEF Work, Steps
<1>6. ASSUME \/ \E l \in Pair : Lose(l) \/ Repeat(l)
             \/ \E w \in Worker : Crash(w)
      PROVE  Noted' /\ AllRight'
  <2>1. \A k \in Pair : Clean(k)' => Noted' /\ PairRight(k)'
    BY <1>0, <1>6, FaultRight
  <2>2. Noted'
    <3>1. PICK l \in Pair : \E what : Fault(l, what)
      BY <1>6, Jobs DEF Lose, Repeat, Crash
    <3>2. \E what : Note(l, what, TRUE)  BY <3>1 DEF Fault
    <3> QED  BY <3>2, Noting
  <2> QED  BY <2>1, <2>2 DEF AllRight
<1>7. ASSUME NEW l \in Pair, Refuse(l)  PROVE Noted' /\ AllRight'
  BY <1>1, <1>7 DEF Refuse
<1>8. ASSUME NEW s \in Site, NEW g \in Group, Recount(s, g)  PROVE Noted' /\ AllRight'
  BY <1>1, <1>8 DEF Recount
<1> QED  BY <1>2, <1>3, <1>4, <1>5, <1>6, <1>7, <1>8 DEF Next

LEMMA InitRight == Init => Noted /\ AllRight
<1> SUFFICES ASSUME Init PROVE Noted /\ AllRight
  OBVIOUS
<1>1. PICK in \in SUBSET Pair :
       /\ member = [s \in Site |-> [k \in Pair |-> IF k \in in THEN 1 ELSE 0]]
       /\ request = [k \in Pair |-> IF k \in in THEN 1 ELSE 0]
       /\ wants = [k \in Pair |-> k \in in]
  BY DEF Init
<1>2. ASSUME NEW k \in Pair  PROVE PairRight(k)
  <2>1. /\ \A w \in Worker : Idle(w)
        /\ tasks = <<>> /\ out[k] = <<>> /\ back[k] = <<>>
    BY DEF Init, Idle
  <2>2. \A w \in Worker : ~Has(w, k, HomeOp) /\ ~Has(w, k, ToHost)
    <3>1. ToHost \subseteq HomeOp \cup HandlerOp  BY DEF ToHost, HandlerOp
    <3> QED  BY <2>1, <3>1, NotIdle
  <2>3. (\A op : ~TaskOf(k, op)) /\ OneTask(k)  BY <2>1 DEF TaskOf, OneTask
  <2>4. /\ "home" \in Site /\ "host" \in Site /\ wants[k] \in BOOLEAN
        /\ member["home"][k] = (IF wants[k] THEN 1 ELSE 0)
        /\ member["host"][k] = (IF wants[k] THEN 1 ELSE 0)
        /\ request[k] = (IF wants[k] THEN 1 ELSE 0)
    <3>1. "home" \in Site /\ "host" \in Site  BY DEF Site
    <3>2. wants[k] = (k \in in)  BY <1>1
    <3>3. request[k] = IF k \in in THEN 1 ELSE 0  BY <1>1
    <3>4. \A s \in Site : member[s][k] = IF k \in in THEN 1 ELSE 0  BY <1>1
    <3>5. CASE k \in in
      <4>1. wants[k] = TRUE  BY <3>2, <3>5
      <4>2. request[k] = 1  BY <3>3, <3>5
      <4>3. \A s \in Site : member[s][k] = 1  BY <3>4, <3>5
      <4> QED  BY <3>1, <4>1, <4>2, <4>3
    <3>6. CASE k \notin in
      <4>0. (k \in in) = FALSE  BY <3>6
      <4>1. wants[k] = FALSE  BY <3>2, <4>0
      <4>2. request[k] = 0  BY <3>3, <3>6
      <4>3. \A s \in Site : member[s][k] = 0  BY <3>4, <3>6
      <4> QED  BY <3>1, <4>1, <4>2, <4>3
    <3> QED  BY <3>5, <3>6
  <2>5. OneOp(k) /\ AsWanted(k)  BY <2>2, <2>3 DEF OneOp, AsWanted
  <2>6. HomeRight(k)  BY <2>2, <2>4 DEF HomeRight
  <2>7. HostBase(k)  BY <2>2, <2>4 DEF HostBase
  <2>8. ~Busy(k, ToHost)  BY <2>2 DEF Busy, Has
  <2>9. HostEnds(k)  BY <2>1, <2>4, <2>8 DEF HostEnds
  <2> QED  BY <2>5, <2>6, <2>7, <2>9 DEF PairRight, HostRight
<1>3. Noted  BY DEF Init, Noted
<1> QED  BY <1>2, <1>3 DEF AllRight

LEMMA RightAgree ==
  ASSUME TypeOK, AllRight
  PROVE  InstancesAgree
<1> SUFFICES ASSUME NEW k \in Pair, Settled(k), mishaps[k] = {}
             PROVE  /\ (member["home"][k] > 0) = (member["host"][k] > 0)
                    /\ ~wants[k] => member["home"][k] = 0 /\ request[k] = 0
                    /\ wants[k] => member["home"][k] > 0
  BY DEF InstancesAgree
<1>1. OneOp(k) /\ AsWanted(k) /\ HomeRight(k) /\ HostRight(k)
  BY DEF AllRight, Clean, PairRight
<1>2. ~Busy(k, HomeOp \cup HandlerOp) /\ ~Queued(k) /\ out[k] = <<>> /\ back[k] = <<>>
  BY DEF Settled
<1>3. \A w \in Worker : ~Has(w, k, HomeOp)  BY <1>2 DEF Busy, Has
<1>4. ~Entering(k) /\ ~Deleting(k)  BY <1>3, HomeWork DEF Entering, Deleting
<1>5. \A op : ~TaskOf(k, op)  BY <1>2 DEF TaskOf, Queued
<1>6. ~Withdrawing(k) /\ ~Sending(k)  BY <1>3, <1>5, HomeWork DEF Withdrawing, Sending
<1>7. ~Busy(k, {Want(k)}) /\ ~Busy(k, {"Reject"})
  BY <1>2 DEF Busy, Want, HandlerOp
<1>8. ~Rejected(k)  BY <1>2, <1>7 DEF Rejected
<1>9. HostEnds(k)  BY <1>1, <1>6 DEF HostRight
<1>10. member["host"][k] = IF wants[k] THEN 1 ELSE 0
  BY <1>2, <1>7, <1>8, <1>9 DEF HostEnds
<1>11. /\ wants[k] => member["home"][k] = 1
       /\ ~wants[k] => member["home"][k] = 0 /\ request[k] = 0
  BY <1>1, <1>4, <1>6 DEF HomeRight
<1>12. CASE wants[k]  BY <1>10, <1>11, <1>12
<1>13. CASE ~wants[k]  BY <1>10, <1>11, <1>13
<1> QED  BY <1>12, <1>13

\* Once everything about a user and a group has come to rest, and nothing has
\* gone wrong on the way, both instances have him or neither, and it is what
\* he asked for last, however many requests, messages and workers there were.
THEOREM InstancesRight == Spec => []InstancesAgree
<1>1. Init => TypeOK /\ Places /\ Noted /\ AllRight  BY InitTypes, InitPlaces, InitRight
<1>2. TypeOK /\ Places /\ Noted /\ AllRight /\ [Next]_vars =>
        (TypeOK /\ Places /\ Noted /\ AllRight)'
  BY StepTypes, StepRight
<1>3. TypeOK /\ AllRight => InstancesAgree  BY RightAgree
<1> QED  BY <1>1, <1>2, <1>3, PTL DEF Spec
=============================================================================
