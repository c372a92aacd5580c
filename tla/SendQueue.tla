----------------------------- MODULE SendQueue -----------------------------
(***************************************************************************)
(* Sending activities to other instances: the task post_request of         *)
(* app/activitypub/signature.py, the table send_queue it puts activities   *)
(* in that are to be tried again, the command send-queue of app/cli.py     *)
(* that cron starts every minute to send those and the batched ones, and   *)
(* the daily cleanup_send_queue.                                           *)
(*                                                                         *)
(* Celery takes a task from the broker before it runs it, so a task whose  *)
(* worker is killed is gone.  A sending that failed is first committed to  *)
(* the log and then, in a second commit, put in the queue.  The command    *)
(* starts a task for each row that is due and deletes all of those rows    *)
(* together at the end; its redis lock keeps other runs out for 300 s.     *)
(*                                                                         *)
(* How the health of an instance is found out is left to another part of   *)
(* the program: here it may change at any time.                            *)
(***************************************************************************)
EXTENDS Integers, FiniteSets

CONSTANTS
  Activity,     \* activities to be sent
  Instance,     \* the instances they are for
  To,           \* which of them each activity is for
  Batched,      \* the activities that are sent in a batch: votes to PieFed
  Runner,       \* processes that cron starts to run send-queue
  MaxRetries,   \* max_retries of a row, 40
  Number,       \* bound: the numbers tasks and rows may have
  MaxCrashes,   \* bound: workers and runners killed, or failing on an error
  MaxChanges,   \* bound: changes in the health of an instance
  MayOverrun,   \* whether a run may, once, outlive the 300 s of its lock
  MaxTroubles   \* bound: crashes, changes and overruns together

ASSUME SendQueueAssumption ==
  /\ To \in [Activity -> Instance]
  /\ Batched \subseteq Activity
  /\ MaxRetries \in Nat /\ MaxCrashes \in Nat /\ MaxChanges \in Nat
  /\ MaxTroubles \in Nat
  /\ MayOverrun \in BOOLEAN
  /\ \A c \in Runner : c \notin {"free", "orphan"}

VARIABLES
  sent,       \* the activities the program has decided to send
  batch,      \* the rows of activity_batch
  queue,      \* the rows of send_queue
  tasks,      \* the post_request tasks, waiting or running
  health,     \* [Instance -> its dormant and gone_forever columns]
  memo,       \* [Instance -> the memoized instance_online, instance_gone_forever]
  lock,       \* the holder of lock:send-queue
  pc,         \* [Runner -> the next step of its run]
  rows,       \* [Runner -> the rows it has read and not yet dealt with]
  drop,       \* [Runner -> the rows it has yet to delete]
  dests,      \* [Runner -> the instances whose batches it has yet to send]
  packed,     \* [Runner -> the batched activities it sent and has yet to delete]
  crashes, changes,
  posted,     \* history: [Activity -> how often it was posted]
  received,   \* history: [Activity -> how often that was acknowledged]
  why,        \* history: [Activity -> the latest reason met for giving it up]
  mishaps     \* history: "crash" and "overrun", once they matter

net     == <<posted, received>>
env     == <<health, changes>>
session == <<rows, drop, dests, packed>>
run     == <<pc, session>>
vars == <<sent, batch, queue, tasks, env, memo, lock, run,
          crashes, net, why, mishaps>>

-----------------------------------------------------------------------------
Free   == "free"
Orphan == "orphan"     \* held by a runner that no longer exists

Reason == {"none", "refused", "unreachable", "gone", "exhausted", "aged", "crash"}
Health == {"online", "dormant", "gone"}
Answer == {"unknown", "yes", "no"}

Letter(stages) == [no : Number, to : Instance, acts : SUBSET Activity,
                   retries : Nat, stage : stages]
Task == Letter({"waiting", "failed"})
Row  == Letter({"fresh", "due", "old"})   \* send_after not yet come, come,
                                          \* created more than 7 days ago

Load(letters) == UNION {l.acts : l \in letters}
Blame(acts, reason) ==
  why' = [a \in Activity |->
            IF a \in acts /\ received[a] = 0 THEN reason ELSE why[a]]
Tally(f, acts) == [a \in Activity |-> IF a \in acts THEN f[a] + 1 ELSE f[a]]
\* The numbers of tasks and rows matter only while something bears them.
InUse == {l.no : l \in tasks \cup queue}
           \cup UNION {{r.no : r \in rows[c]} \cup drop[c] : c \in Runner}
NewNo == CHOOSE n \in Number \ InUse : TRUE
NewTask(to, acts, retries) ==
  /\ Number \ InUse # {}
  /\ tasks' = tasks \cup {[no |-> NewNo, to |-> to, acts |-> acts,
                           retries |-> retries, stage |-> "waiting"]}

Init ==
  /\ sent = {} /\ batch = {} /\ queue = {} /\ tasks = {}
  /\ health = [i \in Instance |-> "online"]
  /\ memo = [i \in Instance |-> [online |-> "unknown", gone |-> "unknown"]]
  /\ lock = Free
  /\ pc = [c \in Runner |-> "idle"]
  /\ rows = [c \in Runner |-> {}]
  /\ drop = [c \in Runner |-> {}]
  /\ dests = [c \in Runner |-> {}]
  /\ packed = [c \in Runner |-> {}]
  /\ crashes = 0 /\ changes = 0
  /\ posted = [a \in Activity |-> 0]
  /\ received = [a \in Activity |-> 0]
  /\ why = [a \in Activity |-> "none"]
  /\ mishaps = {}

-----------------------------------------------------------------------------
(***************************************************************************)
(* An activity is sent: to an instance that is online it is posted at once *)
(* or, when it may wait, entered in its batch.                             *)
(***************************************************************************)
Send(a) ==
  /\ a \notin sent
  /\ health[To[a]] = "online"
  /\ sent' = sent \cup {a}
  /\ IF a \in Batched
     THEN batch' = batch \cup {a} /\ UNCHANGED tasks
     ELSE NewTask(To[a], {a}, 0) /\ UNCHANGED batch
  /\ UNCHANGED <<queue, env, memo, lock, run, crashes, net, why, mishaps>>

-----------------------------------------------------------------------------
(***************************************************************************)
(* post_request: one attempt, by what comes of it.                         *)
(***************************************************************************)
Attempt(t) ==
  /\ t \in tasks /\ t.stage = "waiting"
  /\ posted' = Tally(posted, t.acts)
  /\ UNCHANGED <<sent, batch, changes, memo, lock, run, crashes, mishaps>>

\* 200, 202 or 204.
Accepted(t) ==
  /\ Attempt(t)
  /\ tasks' = tasks \ {t}
  /\ received' = Tally(received, t.acts)
  /\ UNCHANGED <<queue, health, why>>

\* Any other answer below 500 but 429, and any page of HTML: no retry; what the
\* answer says of followers and bans is no matter of the queue.  An exception,
\* which is what a connection that fails or times out ends in, is put down as
\* a 404 and not retried either.
GivenUp(t, reason) ==
  /\ Attempt(t)
  /\ tasks' = tasks \ {t}
  /\ Blame(t.acts, reason)
  /\ UNCHANGED <<queue, health, received>>

\* 410 or 418: nothing that is queued for the instance will be sent.
ToldGone(t) ==
  LET dropped == {r \in queue : r.to = t.to} IN
  /\ Attempt(t)
  /\ tasks' = tasks \ {t}
  /\ queue' = queue \ dropped
  /\ health' = [health EXCEPT ![t.to] = "gone"]
  /\ Blame(t.acts \cup Load(dropped), "gone")
  /\ UNCHANGED received

\* 429, or 500 and up: logged, and committed,
Failed(t) ==
  /\ Attempt(t)
  /\ tasks' = (tasks \ {t}) \cup {[t EXCEPT !.stage = "failed"]}
  /\ UNCHANGED <<queue, health, received, why>>

\* and then queued, to be sent when the backoff is over.
\* Faulty: the task itself is put in the queue.
SameLetter(t) == t
Queued(t) == [t EXCEPT !.no = NewNo, !.stage = "fresh"]
Requeue(t) ==
  /\ t \in tasks /\ t.stage = "failed"
  /\ Number \ InUse # {}
  /\ tasks' = tasks \ {t}
  /\ queue' = queue \cup {Queued(t)}
  /\ UNCHANGED <<sent, batch, env, memo, lock, run, crashes, net, why,
                 mishaps>>

Work(t) ==
  \/ Accepted(t) \/ ToldGone(t) \/ Failed(t) \/ Requeue(t)
  \/ \E reason \in {"refused", "unreachable"} : GivenUp(t, reason)

-----------------------------------------------------------------------------
(***************************************************************************)
(* send-queue: the lock is taken, or the run ends at once, as it does when *)
(* redis is short of memory: that closes the inbox for a while, no more.   *)
(***************************************************************************)
Goto(c, step) == pc' = [pc EXCEPT ![c] = step]
\* Faulty: nobody asks for the lock.
NotLocked == TRUE
Unlocked == lock = Free

Start(c) ==
  /\ pc[c] = "idle" /\ Unlocked
  /\ Goto(c, "started")
  /\ lock' = c
  /\ UNCHANGED <<sent, batch, queue, tasks, env, memo, session, crashes, net,
                 why, mishaps>>

\* The rows that are due are read.
ReadQueue(c) ==
  /\ pc[c] = "started"
  /\ Goto(c, "sending")
  /\ rows' = [rows EXCEPT ![c] = {r \in queue : r.stage # "fresh"}]
  /\ UNCHANGED <<sent, batch, queue, tasks, env, memo, lock, drop, dests,
                 packed, crashes, net, why, mishaps>>

\* instance_online and instance_gone_forever, each remembered for 150 s.
YesNo(b)  == IF b THEN "yes" ELSE "no"
Online(i) == IF memo[i].online # "unknown" THEN memo[i].online
             ELSE YesNo(health[i] = "online")
Gone(i)   == IF memo[i].gone # "unknown" THEN memo[i].gone
             ELSE YesNo(health[i] = "gone")

\* One of the rows read, in no particular order.
DealWith(c, r) ==
  /\ pc[c] = "sending" /\ r \in rows[c]
  /\ rows' = [rows EXCEPT ![c] = @ \ {r}]
  /\ memo' = [memo EXCEPT
       ![r.to].online = Online(r.to),
       ![r.to].gone = IF Online(r.to) = "no" THEN Gone(r.to) ELSE @]
  /\ UNCHANGED <<sent, batch, queue, env, lock, pc, dests, packed, crashes,
                 net, mishaps>>
Handled(c, r) == drop' = [drop EXCEPT ![c] = @ \cup {r.no}]

\* Faulty: a row is tried again however often it was.
OnceMore(r) == TRUE
MayRetry(r) == r.retries <= MaxRetries

SendAgain(c, r) ==
  /\ DealWith(c, r)
  /\ Online(r.to) = "yes" /\ MayRetry(r)
  /\ NewTask(r.to, r.acts, r.retries + 1)
  /\ Handled(c, r)
  /\ UNCHANGED why

Exhausted(c, r) ==
  /\ DealWith(c, r)
  /\ Online(r.to) = "yes" /\ ~MayRetry(r)
  /\ Blame(r.acts, "exhausted")
  /\ Handled(c, r)
  /\ UNCHANGED tasks

DropGone(c, r) ==
  /\ DealWith(c, r)
  /\ Online(r.to) = "no" /\ Gone(r.to) = "yes"
  /\ Blame(r.acts, "gone")
  /\ Handled(c, r)
  /\ UNCHANGED tasks

LeaveDormant(c, r) ==
  /\ DealWith(c, r)
  /\ Online(r.to) = "no" /\ Gone(r.to) = "no"
  /\ UNCHANGED <<tasks, drop, why>>

\* The rows dealt with are deleted by id; what has been queued again since is
\* another row.
\* Faulty: all rows that are due are deleted.
WholeQueue(c) == {r \in queue : r.stage = "fresh"}
QueueLeft(c) == {r \in queue : r.no \notin drop[c]}
DeleteHandled(c) ==
  /\ pc[c] = "sending" /\ rows[c] = {}
  /\ queue' = QueueLeft(c)
  /\ drop' = [drop EXCEPT ![c] = {}]
  /\ Goto(c, "deleted")
  /\ UNCHANGED <<sent, batch, tasks, env, memo, lock, rows, dests, packed,
                 crashes, net, why, mishaps>>

-----------------------------------------------------------------------------
(***************************************************************************)
(* send_batched_activities, later in the same run: the instances that have *)
(* batched activities are read; each gets all of its own in one Announce,  *)
(* whatever its health, and after that these are deleted.                  *)
(***************************************************************************)
ReadBatches(c) ==
  /\ pc[c] = "deleted"
  /\ Goto(c, "batching")
  /\ dests' = [dests EXCEPT ![c] = {To[a] : a \in batch}]
  /\ UNCHANGED <<sent, batch, queue, tasks, env, memo, lock, rows, drop,
                 packed, crashes, net, why, mishaps>>

SendBatch(c, i) ==
  LET acts == {a \in batch : To[a] = i} IN
  /\ pc[c] = "batching" /\ i \in dests[c]
  /\ Goto(c, "batched")
  /\ dests' = [dests EXCEPT ![c] = @ \ {i}]
  /\ packed' = [packed EXCEPT ![c] = acts]
  /\ NewTask(i, acts, 0)
  /\ UNCHANGED <<sent, batch, queue, env, memo, lock, rows, drop, crashes, net,
                 why, mishaps>>

BatchLeft(c) == batch \ packed[c]
DeleteBatch(c) ==
  /\ pc[c] = "batched"
  /\ Goto(c, "batching")
  /\ batch' = BatchLeft(c)
  /\ packed' = [packed EXCEPT ![c] = {}]
  /\ UNCHANGED <<sent, queue, tasks, env, memo, lock, rows, drop, dests,
                 crashes, net, why, mishaps>>

Finish(c) ==
  /\ pc[c] = "batching" /\ dests[c] = {}
  /\ Goto(c, "idle")
  /\ lock' = IF lock = c THEN Free ELSE lock
  /\ UNCHANGED <<sent, batch, queue, tasks, env, memo, session, crashes, net,
                 why, mishaps>>

RunOn(c) ==
  \/ ReadQueue(c)
  \/ \E r \in rows[c] : \/ SendAgain(c, r) \/ Exhausted(c, r)
                        \/ DropGone(c, r) \/ LeaveDormant(c, r)
  \/ DeleteHandled(c) \/ ReadBatches(c)
  \/ \E i \in dests[c] : SendBatch(c, i)
  \/ DeleteBatch(c) \/ Finish(c)

-----------------------------------------------------------------------------
(***************************************************************************)
(* What happens around it.  Time passes: rows become due, and old; the     *)
(* daily cleanup_send_queue deletes the old ones.                          *)
(***************************************************************************)
GrowOld(r) ==
  /\ r \in queue /\ r.stage # "old"
  /\ queue' = (queue \ {r}) \cup
       {[r EXCEPT !.stage = IF @ = "fresh" THEN "due" ELSE "old"]}
  /\ UNCHANGED <<sent, batch, tasks, env, memo, lock, run, crashes, net, why,
                 mishaps>>

\* Faulty: the cleanup spares the rows of an instance that is dormant.
OldAwake == {r \in queue : r.stage = "old" /\ health[r.to] # "dormant"}
Old == {r \in queue : r.stage = "old"}
Cleanup ==
  /\ Old # {}
  /\ queue' = queue \ Old
  /\ Blame(Load(Old), "aged")
  /\ UNCHANGED <<sent, batch, tasks, env, memo, lock, run, crashes, net,
                 mishaps>>

\* The memoized answers are forgotten,
Forget(i) ==
  /\ memo' = [memo EXCEPT ![i] = [online |-> "unknown", gone |-> "unknown"]]
  /\ UNCHANGED <<sent, batch, queue, tasks, env, lock, run, crashes, net, why,
                 mishaps>>

\* the program changes its mind about an instance,
Calm == crashes + changes + Cardinality(mishaps \cap {"overrun"}) < MaxTroubles
ChangeHealth(i) ==
  /\ changes < MaxChanges /\ Calm
  /\ \E h \in Health \ {health[i]} : health' = [health EXCEPT ![i] = h]
  /\ changes' = changes + 1
  /\ UNCHANGED <<sent, batch, queue, tasks, memo, lock, run, crashes, net, why,
                 mishaps>>

\* a worker dies with the task it had taken, or the task fails on an error,
TaskLost(t) ==
  /\ crashes < MaxCrashes /\ Calm
  /\ crashes' = crashes + 1
  /\ tasks' = tasks \ {t}
  /\ Blame(t.acts, "crash")
  /\ UNCHANGED <<sent, batch, queue, env, memo, lock, run, net, mishaps>>

\* a run fails on an error, which frees the lock, or is killed, which does not,
RunLost(c) ==
  /\ pc[c] # "idle" /\ crashes < MaxCrashes /\ Calm
  /\ crashes' = crashes + 1
  /\ Goto(c, "idle")
  /\ rows' = [rows EXCEPT ![c] = {}] /\ drop' = [drop EXCEPT ![c] = {}]
  /\ dests' = [dests EXCEPT ![c] = {}] /\ packed' = [packed EXCEPT ![c] = {}]
  /\ lock' \in IF lock = c THEN {Free, Orphan} ELSE {lock}
  /\ mishaps' = mishaps \cup
       (IF drop[c] # {} \/ pc[c] = "batched" THEN {"crash"} ELSE {})
  /\ UNCHANGED <<sent, batch, queue, tasks, env, memo, net, why>>

\* and redis lets the lock go 300 s after it was taken.
Expire ==
  /\ lock # Free
  /\ lock \in Runner => MayOverrun /\ Calm /\ "overrun" \notin mishaps
  /\ lock' = Free
  /\ mishaps' = mishaps \cup (IF lock \in Runner THEN {"overrun"} ELSE {})
  /\ UNCHANGED <<sent, batch, queue, tasks, env, memo, run, crashes, net, why>>

Next ==
  \/ \E a \in Activity : Send(a)
  \/ \E t \in tasks : Work(t) \/ TaskLost(t)
  \/ \E c \in Runner : Start(c) \/ RunOn(c) \/ RunLost(c)
  \/ \E r \in queue : GrowOld(r)
  \/ \E i \in Instance : Forget(i) \/ ChangeHealth(i)
  \/ Cleanup
  \/ Expire

Spec == Init /\ [][Next]_vars

\* Workers take the tasks there are, cron starts a run every minute and
\* maintenance every day, time passes, and redis forgets locks of the dead.
Fairness ==
  /\ WF_vars(\E t \in tasks : Work(t))
  /\ \A c \in Runner : WF_vars(Start(c)) /\ WF_vars(RunOn(c))
  /\ WF_vars(\E r \in queue : GrowOld(r))
  /\ WF_vars(Cleanup)
  /\ WF_vars(lock = Orphan /\ Expire)

FairSpec == Spec /\ Fairness

-----------------------------------------------------------------------------
(***************************************************************************)
(* Properties.                                                             *)
(***************************************************************************)
\* Every variable has its type.
TypeOK ==
  /\ sent \subseteq Activity /\ batch \subseteq Activity
  /\ queue \subseteq Row /\ tasks \subseteq Task
  /\ health \in [Instance -> Health]
  /\ memo \in [Instance -> [online : Answer, gone : Answer]]
  /\ lock \in Runner \cup {Free, Orphan}
  /\ pc \in [Runner -> {"idle", "started", "sending", "deleted", "batching",
                        "batched"}]
  /\ rows \in [Runner -> SUBSET Row] /\ drop \in [Runner -> SUBSET Number]
  /\ dests \in [Runner -> SUBSET Instance]
  /\ packed \in [Runner -> SUBSET Activity]
  /\ crashes \in Nat /\ changes \in Nat
  /\ posted \in [Activity -> Nat] /\ received \in [Activity -> Nat]
  /\ why \in [Activity -> Reason]
  /\ mishaps \subseteq {"crash", "overrun"}

Spared == mishaps = {}

\* An activity is acknowledged at most once: deleting the rows of a run after
\* it has started their tasks, and queueing failures meanwhile, repeats
\* nothing unless the run is cut short or outlives its lock.
ReceivedOnce == Spared => \A a \in Activity : received[a] <= 1

\* It is posted no more than MaxRetries + 2 times: once, and then for each
\* row whose retries (0, 1, ... MaxRetries) the command finds small enough.
PostsBounded == Spared => \A a \in Activity : posted[a] <= MaxRetries + 2

\* Where an activity still is: in the batch, with a worker, in the queue, or
\* read from the queue by a run that may yet send it.
Underway(a) ==
  \/ a \in batch \/ a \in Load(tasks) \/ a \in Load(queue)
  \/ \E c \in Runner : a \in Load(rows[c])
FateOf(a) ==
  IF a \notin sent THEN "unsent"
  ELSE IF received[a] > 0 THEN "received"
  ELSE IF Underway(a) THEN "underway"
  ELSE "abandoned"

Promise == INSTANCE Delivery WITH fate <- [a \in Activity |-> FateOf(a)]

\* The queue keeps the promise of Delivery: whatever commits, deletions and
\* failures come between, no activity disappears without one of the reasons.
KeepsPromise == Promise!Spec

\* Every activity that is sent is at some point acknowledged or given up: no
\* row stays in the queue for good, no batch stays unsent.
EverySendEnds ==
  \A a \in Activity : FateOf(a) = "underway" ~> FateOf(a) \in {"received", "abandoned"}

\* "Every minute PieFed will retry federation sending attempts that failed
\* previously": nothing is given up because its instance could not be reached.
FailuresRetried == \A a \in Activity : why[a] # "unreachable"
=============================================================================
