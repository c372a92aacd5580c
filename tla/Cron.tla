-------------------------------- MODULE Cron --------------------------------
(***************************************************************************)
(* What cron does once a minute besides sending the queue (send_queue in   *)
(* app/cli.py): it publishes the posts whose time has come and makes        *)
(* notifications of the reminders that are due; meanwhile authors edit and *)
(* delete their posts, readers ask to be reminded and old deleted posts    *)
(* are purged.                                                             *)
(*                                                                         *)
(* A run holds lock:send-queue, which lapses after 300 s whether the run   *)
(* has ended or not; an exception ends the whole run, with what was still  *)
(* to be done after it.  Time is counted in occurrences: 1, 2, ...          *)
(***************************************************************************)
EXTENDS Integers, FiniteSets

CONSTANTS
  Run,         \* processes that cron has started
  Post,        \* scheduled posts
  Repeats,     \* those that repeat daily, weekly or monthly
  Reminder,    \* what readers ask to be reminded of
  About,       \* [Reminder -> Post]
  MaxTime,     \* bound: how far the clock goes
  MaxEdits,    \* bound: what authors and readers do
  MaxFailures  \* bound: killed runs and locks that lapse

Never == 0
Free == "free"

ASSUME CronAssumption ==
  /\ IsFiniteSet(Run) /\ Free \notin Run
  /\ Repeats \subseteq Post /\ About \in [Reminder -> Post]
  /\ MaxTime \in Nat /\ MaxEdits \in Nat /\ MaxFailures \in Nat

VARIABLES
  clock,
  post,      \* [Post -> its row]
  public,    \* [Post -> [Time -> how often this occurrence became public]]
  sent,      \* [Post -> [Time -> how often make_post was asked to send it]]
  reminder,  \* [Reminder -> "none", "asked", "waiting" or "gone"]
  notified,  \* [Reminder -> how many notifications were made]
  lock,      \* who holds lock:send-queue
  run,       \* [Run -> what it is at]
  edits, failures,
  trouble    \* history: [Post -> what went wrong with it]

cronVars == <<clock, post, public, sent, reminder, notified, lock, run, edits,
              failures, trouble>>

Time == 1..MaxTime
Resting == [at |-> "idle"]
At(r, at) == run[r].at = at

Scheduled(p) == post[p].status = "scheduled" /\ ~post[p].deleted /\ ~post[p].purged
Due(p) == post[p].due \in 1..clock
Waiting == {x \in Reminder : reminder[x] = "waiting"}

CronInit ==
  /\ clock = 0
  /\ post = [p \in Post |->
       [status |-> "scheduled", due |-> 1, deleted |-> FALSE, purged |-> FALSE]]
  /\ public = [p \in Post |-> [t \in Time |-> 0]]
  /\ sent = [p \in Post |-> [t \in Time |-> 0]]
  /\ reminder = [x \in Reminder |-> "none"]
  /\ notified = [x \in Reminder |-> 0]
  /\ lock = Free
  /\ run = [r \in Run |-> Resting]
  /\ edits = 0 /\ failures = 0
  /\ trouble = [p \in Post |-> {}]

Tick ==
  /\ clock < MaxTime /\ clock' = clock + 1
  /\ UNCHANGED <<post, public, sent, reminder, notified, lock, run, edits,
                 failures, trouble>>

(***************************************************************************)
(* A run of cron.                                                          *)
(***************************************************************************)
\* Takes the lock, or goes home when it cannot be had within a second; the
\* posts are queried once.
Start(r) ==
  /\ lock = Free
  /\ run[r] = Resting /\ r = CHOOSE q \in Run : run[q] = Resting  \* they are alike
  /\ lock' = r
  /\ run' = [run EXCEPT ![r] = [at |-> "posts", todo |-> {p \in Post : Scheduled(p)}]]
  /\ UNCHANGED <<clock, post, public, sent, reminder, notified, edits, failures,
                 trouble>>

\* The run is over; it gives the lock back if it still has it.
Release(r) == lock' = IF lock = r THEN Free ELSE lock
Over(r) == run' = [run EXCEPT ![r] = Resting] /\ Release(r)

\* One that was purged after the query cannot be loaded any more: an exception.
LookGone(r) ==
  /\ At(r, "posts") /\ \E p \in run[r].todo : post[p].purged
  /\ Over(r)
  /\ UNCHANGED <<clock, post, public, sent, reminder, notified, edits, failures,
                 trouble>>
\* Comes upon a post whose time is over, passing over others; that it was
\* deleted, or published by another run, since the query is not looked at, but
\* what was published has no time.
LookDue(r, p) ==
  /\ At(r, "posts") /\ p \in run[r].todo /\ ~post[p].purged /\ Due(p)
  /\ run' = [run EXCEPT ![r] =
       [at |-> IF p \in Repeats THEN "copy" ELSE "publish",
        todo |-> @.todo \ {p}, post |-> p, due |-> post[p].due]]
  /\ UNCHANGED <<clock, post, public, sent, reminder, notified, lock, edits,
                 failures, trouble>>

Appears(p, t) == public' = [public EXCEPT ![p][t] = @ + 1]
Onward(r, at) == run' = [run EXCEPT ![r].at = at]

\* A post that is published once: its row becomes public and has no time.
Publish(r) ==
  /\ At(r, "publish")
  /\ LET p == run[r].post IN
     \/ /\ ~post[p].purged
        /\ post' = [post EXCEPT ![p].status = "published", ![p].due = Never]
        /\ Appears(p, run[r].due) /\ Onward(r, "send") /\ UNCHANGED lock
     \/ /\ post[p].purged /\ Over(r) /\ UNCHANGED <<post, public>>
  /\ UNCHANGED <<clock, sent, reminder, notified, edits, failures, trouble>>

\* A post that repeats: a copy becomes public, and in a second commit the post
\* gets the time of its next occurrence, counted from the one that was seen.
SameTime(t) == t  \* Faulty: a repetition that is not known adds nothing.
FromNow(t) == clock + 1  \* Faulty: counted from the time of the run.
NextTime(t) == t + 1
Copy(r) ==
  /\ At(r, "copy")
  /\ Appears(run[r].post, run[r].due) /\ Onward(r, "advance")
  /\ UNCHANGED <<clock, post, sent, reminder, notified, lock, edits, failures,
                 trouble>>
Advance(r) ==
  /\ At(r, "advance")
  /\ LET p == run[r].post IN
     \/ /\ ~post[p].purged
        /\ post' = [post EXCEPT ![p].due = NextTime(run[r].due)]
        /\ Onward(r, "send") /\ UNCHANGED <<lock, trouble>>
     \/ /\ post[p].purged /\ Over(r)
        /\ trouble' = [trouble EXCEPT ![p] = @ \cup {"purged"}]
        /\ UNCHANGED post
  /\ UNCHANGED <<clock, public, sent, reminder, notified, edits, failures>>

\* task_selector('make_post'), notify_about_post.  After the commit the row is
\* loaded again for its id, which fails when it was purged; a copy was not.
Silence(r) == UNCHANGED sent  \* Faulty: what was scheduled is not federated.
Federate(r) == sent' = [sent EXCEPT ![run[r].post][run[r].due] = @ + 1]
Send(r) ==
  /\ At(r, "send")
  /\ LET p == run[r].post IN
     \/ /\ p \in Repeats \/ ~post[p].purged
        /\ Federate(r) /\ UNCHANGED <<lock, trouble>>
        /\ run' = [run EXCEPT ![r] = [at |-> "posts", todo |-> @.todo]]
     \/ /\ p \notin Repeats /\ post[p].purged /\ Over(r)
        /\ trouble' = [trouble EXCEPT ![p] = @ \cup {"purged"}]
        /\ UNCHANGED sent
  /\ UNCHANGED <<clock, post, public, reminder, notified, edits, failures>>

\* When no post is left that is due: loads the reminders that are due, those that may
\* be for a time that has come, and looks at one of them.
BeginReminders(r) ==
  /\ At(r, "posts") /\ \A p \in run[r].todo : ~post[p].purged /\ ~Due(p)
  /\ \/ \E due \in SUBSET Waiting \ {{}} : \E x \in due :
          run' = [run EXCEPT ![r] =
                    [at |-> "notify", todo |-> due \ {x}, about |-> x]]
     \/ /\ clock < MaxTime \/ Waiting = {}
        /\ run' = [run EXCEPT ![r] = [at |-> "reminders", todo |-> {}]]
  /\ UNCHANGED <<clock, post, public, sent, reminder, notified, lock, edits,
                 failures, trouble>>

\* The notification is made and the reminder deleted, in one commit; that the
\* reminder is not there any more is only a warning, but the title of a post
\* that is not there is an exception.
Leave(x) == reminder  \* Faulty: the reminder stays.
Without(x) == [reminder EXCEPT ![x] = "gone"]
Notify(r) ==
  /\ At(r, "notify")
  /\ LET x == run[r].about IN
     \/ /\ ~post[About[x]].purged
        /\ reminder' = Without(x)
        /\ notified' = [notified EXCEPT ![x] = @ + 1]
        /\ run' = [run EXCEPT ![r] = [at |-> "reminders", todo |-> @.todo]]
        /\ UNCHANGED lock
     \/ post[About[x]].purged /\ Over(r) /\ UNCHANGED <<reminder, notified>>
  /\ UNCHANGED <<clock, post, public, sent, edits, failures, trouble>>

\* After a commit the next one is loaded again, which fails when it is gone.
NextReminder(r, x) ==
  /\ At(r, "reminders") /\ x \in run[r].todo
  /\ \/ /\ reminder[x] = "waiting" /\ UNCHANGED lock
        /\ run' = [run EXCEPT ![r] =
                     [at |-> "notify", todo |-> @.todo \ {x}, about |-> x]]
     \/ reminder[x] = "gone" /\ Over(r)
  /\ UNCHANGED <<clock, post, public, sent, reminder, notified, edits, failures,
                 trouble>>
End(r) ==
  /\ At(r, "reminders") /\ run[r].todo = {}
  /\ Over(r)
  /\ UNCHANGED <<clock, post, public, sent, reminder, notified, edits, failures,
                 trouble>>

RunOn(r) ==
  \/ LookGone(r) \/ \E p \in Post : LookDue(r, p)
  \/ Publish(r) \/ Copy(r) \/ Advance(r) \/ Send(r)
  \/ BeginReminders(r) \/ Notify(r)
  \/ (\E x \in Reminder : NextReminder(r, x)) \/ End(r)

(***************************************************************************)
(* What goes wrong: a run takes longer than 300 s, or is killed and keeps  *)
(* the lock until it lapses.                                               *)
(***************************************************************************)
NoTimeout == FALSE /\ UNCHANGED cronVars  \* Faulty: the lock does not lapse.
Lapse ==
  /\ lock # Free /\ lock' = Free
  /\ \/ run[lock] = Resting /\ UNCHANGED <<failures, trouble>>
     \/ /\ run[lock] # Resting /\ failures < MaxFailures /\ failures' = failures + 1
        /\ trouble' = [p \in Post |-> trouble[p] \cup {"overrun"}]
  /\ UNCHANGED <<clock, post, public, sent, reminder, notified, run, edits>>
Kill(r) ==
  /\ run[r] # Resting /\ failures < MaxFailures /\ failures' = failures + 1
  /\ run' = [run EXCEPT ![r] = Resting]
  /\ trouble' = IF run[r].at \in {"advance", "send"}
                THEN [trouble EXCEPT ![run[r].post] = @ \cup {"killed"}] ELSE trouble
  /\ UNCHANGED <<clock, post, public, sent, reminder, notified, lock, edits>>

(***************************************************************************)
(* Authors, readers and the nightly purge.                                 *)
(***************************************************************************)
Asked == edits < MaxEdits /\ edits' = edits + 1
\* edit_post with another time, which may be over by the time it is written; a
\* time that is to come makes the post a scheduled one (again).
Reschedule(p, t) ==
  /\ Asked /\ ~post[p].purged /\ ~post[p].deleted /\ t # post[p].due
  /\ post' = [post EXCEPT ![p].due = t,
       ![p].status = IF t > clock THEN "scheduled" ELSE @]
  /\ trouble' = [trouble EXCEPT ![p] = @ \cup {"edited"}]
  /\ UNCHANGED <<clock, public, sent, reminder, notified, lock, run, failures>>
Delete(p) ==
  /\ Asked /\ ~post[p].deleted
  /\ post' = [post EXCEPT ![p].deleted = TRUE]
  /\ UNCHANGED <<clock, public, sent, reminder, notified, lock, run, failures,
                 trouble>>

\* delete_old_soft_deleted_content, Post.delete_dependencies: the row goes, and
\* the reminders about it.
KeepReminders(p) == reminder  \* Faulty: they are not in delete_dependencies.
WithoutReminders(p) ==
  [x \in Reminder |-> IF About[x] = p /\ reminder[x] = "waiting"
                      THEN "gone" ELSE reminder[x]]
Alive(p) == ~post[p].purged  \* Faulty: that it was deleted is not asked.
IsDeleted(p) == post[p].deleted /\ ~post[p].purged
Purge(p) ==
  /\ IsDeleted(p)
  /\ post' = [post EXCEPT ![p].purged = TRUE]
  /\ reminder' = WithoutReminders(p)
  /\ UNCHANGED <<clock, public, sent, notified, lock, run, edits, failures,
                 trouble>>

\* post_reminder: the post is looked for before the form is read and the
\* reminder added.  Reminders are numbered in the order of asking.
AskReminder(x) ==
  /\ Asked /\ reminder[x] = "none" /\ ~post[About[x]].purged
  /\ x = CHOOSE y \in Reminder : reminder[y] = "none"
  /\ reminder' = [reminder EXCEPT ![x] = "asked"]
  /\ UNCHANGED <<clock, post, public, sent, notified, lock, run, failures, trouble>>
AddReminder(x) ==
  /\ reminder[x] = "asked"
  /\ reminder' = [reminder EXCEPT ![x] = "waiting"]
  /\ trouble' = IF post[About[x]].purged
                THEN [trouble EXCEPT ![About[x]] = @ \cup {"orphaned"}] ELSE trouble
  /\ UNCHANGED <<clock, post, public, sent, notified, lock, run, edits, failures>>

-----------------------------------------------------------------------------
CronNext ==
  \/ Tick \/ Lapse
  \/ \E r \in Run : Start(r) \/ RunOn(r) \/ Kill(r)
  \/ \E p \in Post : Delete(p) \/ Purge(p) \/ \E t \in Time : Reschedule(p, t)
  \/ \E x \in Reminder : AskReminder(x) \/ AddReminder(x)

CronSpec == CronInit /\ [][CronNext]_cronVars

\* Cron starts a run every minute, a run goes on, time passes, the lock of a
\* dead run lapses and a request is answered; nothing makes people ask.
FairSpec ==
  /\ CronSpec /\ WF_cronVars(Tick) /\ WF_cronVars(Lapse /\ UNCHANGED failures)
  /\ WF_cronVars(\E r \in Run : Start(r))
  /\ \A r \in Run : WF_cronVars(RunOn(r))
  /\ WF_cronVars(\E x \in Reminder : AddReminder(x))

-----------------------------------------------------------------------------
PostRow == [status : {"scheduled", "published"}, due : 0..MaxTime + 1,
        deleted : BOOLEAN, purged : BOOLEAN]
AtPost ==
  [at : {"publish", "copy", "advance", "send"}, todo : SUBSET Post, post : Post,
   due : Time]
Runs ==
  {Resting} \cup [at : {"posts"}, todo : SUBSET Post] \cup AtPost
    \cup [at : {"notify"}, todo : SUBSET Reminder, about : Reminder]
    \cup [at : {"reminders"}, todo : SUBSET Reminder]

CronTypeOK ==
  /\ clock \in 0..MaxTime
  /\ post \in [Post -> PostRow]
  /\ public \in [Post -> [Time -> Nat]] /\ sent \in [Post -> [Time -> Nat]]
  /\ \A p \in Post : post[p].purged => post[p].deleted
  /\ \A p \in Post, t \in Time : sent[p][t] <= public[p][t]
  /\ reminder \in [Reminder -> {"none", "asked", "waiting", "gone"}]
  /\ notified \in [Reminder -> Nat]
  /\ lock \in Run \cup {Free}
  /\ run \in [Run -> Runs]
  /\ edits \in 0..MaxEdits /\ failures \in 0..MaxFailures
  /\ trouble \in
       [Post -> SUBSET {"edited", "killed", "overrun", "purged", "orphaned"}]

Unharmed(p, what) == trouble[p] \cap what = {}

\* Every occurrence of a post is published once, unless its author has changed
\* its time, a run was killed between its two commits or outlived its lock.
PublishedOnce ==
  \A p \in Post : Unharmed(p, {"edited", "killed", "overrun"}) =>
    \A t \in Time : public[p][t] <= 1

\* No occurrence of a post that repeats is skipped.
NoneSkipped ==
  \A p \in Repeats : Unharmed(p, {"edited"}) =>
    \A t \in Time : t < post[p].due => public[p][t] > 0

ToSend(p, t) ==
  {r \in Run : run[r].at \in {"advance", "send"} /\ run[r].post = p /\ run[r].due = t}
\* What became public is federated, by the run that made it so.
PublicIsSent ==
  \A p \in Post, t \in Time : Unharmed(p, {"killed", "purged"}) =>
    sent[p][t] + Cardinality(ToSend(p, t)) = public[p][t]

\* A reader is reminded at most once, unless a run outlived its lock.
RemindedOnce ==
  \A x \in Reminder : Unharmed(About[x], {"overrun"}) => notified[x] <= 1

\* A post whose time has come is published, unless it is deleted first.
DueIsPublished ==
  \A p \in Post : Scheduled(p) /\ Due(p) ~> (~Due(p) \/ post[p].deleted)

\* A reminder is dealt with, unless some reminder is about a post that was
\* purged while it was being asked for: that one ends every run before the
\* others have their turn.
RemindersEnd ==
  \A x \in Reminder : (reminder[x] = "waiting") ~>
    (reminder[x] = "gone" \/ \E p \in Post : ~Unharmed(p, {"orphaned"}))
=============================================================================
