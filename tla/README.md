# PieFed in TLA+

Formal models of PieFed, a federated link aggregator (Flask, Celery, Redis,
PostgreSQL, ActivityPub).  This directory holds TLA+ modules translated from the
code under `src/piefed/app`, TLC configurations that check them on small
instances, and theorems that TLAPS proves for every instance.

## 1. The system

PieFed runs as several operating-system processes that share one PostgreSQL
database and one Redis server: gunicorn web workers (`app/*/routes.py`,
`app/api`), Celery workers (`app/shared/tasks`, the inbox task of
`app/activitypub/routes.py`), cron jobs (`app/cli.py`: `send-queue` every
minute, `daily-maintenance-celery` every night), and a FastAPI notification
server (`fastapi_server.py`).  Nothing else coordinates them: database
transactions run at READ COMMITTED, ORM objects are private copies that a commit
or a rollback expires, and mutual exclusion is by Redis locks of the form
`redis_client.lock("lock:post:17", timeout=10, blocking_timeout=6)`, which run
out after ten seconds and whose acquisition fails after six.  The sessions of web
requests write at the commit; those of Celery tasks (`get_task_session`) flush
before each query.  Celery takes a task off the broker before it runs it, so the
task of a killed worker is gone.

### Inventory

| Part | Code | State | Operations | What is hard | What makes it correct |
|---|---|---|---|---|---|
| Voting | `models.py` `Post.vote`, `PostReply.vote`; `activitypub/util.py` `undo_vote`; `shared/post.py`, `shared/reply.py` | vote rows, `up_votes`, `down_votes`, `score`, `reputation`, `votes_cast_*` in Redis | vote, reverse, withdraw, undo from the inbox | several commits under one lock, copies read before the lock, an undo without a lock, lock expiry | one row per user and object; counters and reputation agree with the rows |
| Outgoing queue | `activitypub/signature.py` `post_request`; `cli.py` `send_queue`, `send_batched_activities` | `send_queue`, `activity_batch`, Celery tasks, `lock:send-queue`, memoized health | send, retry, batch, drop, clean up | rows deleted after their tasks were started, two commits per failure, lock expiry, 410s | nothing vanishes without a reason, nothing is delivered twice without a mishap, everything ends |
| Health of instances | `shared/tasks/maintenance.py` `check_instance_health`, `monitor_healthy_instances`; `utils.py` `awaken_dormant_instance`; `models.py` `update_dormant_gone` | `failures`, `dormant`, `gone_forever`, `start_trying_again`, `nodeinfo_href` | probe, recheck, awaken, hear from | rows changed while a probe waits, rollbacks that hit other rows, four thresholds on one counter | one bad day is survived; what recovers comes back online |
| Posts and comments | `models.py` `Post.new`, `PostReply.new`; `shared/post.py`, `shared/reply.py`; `activitypub/util.py`; `update_community_stats` | rows, `post_count`, `reply_count`, `post_reply_count`, `child_count` | create, edit, delete, restore, remove, ban, purge, count again | rows and counters written in different commits from copies, locks with different names, operations that forget a counter | counters agree with the rows that are visible; what is deleted stays so until it is restored |
| Lists of cross posts | `models.py` `calculate_cross_posts` and its callers | `cross_posts` of each post | link, unlink | row locks in two orders, lists written as a whole from before the lock | lists agree with URLs; no deadlock that nobody resolves |
| Subscription | `community/routes.py`, `shared/community.py`, `shared/feed.py`, `shared/tasks/follows.py`; Follow, Accept, Reject, Undo in the inbox | members, join requests, `subscriptions_count` on both sides | join, leave, accept, reject | a protocol over messages that are lost, repeated and late; looks that are old when used | both sides agree at rest; the count is the number of members |
| Inbox | `activitypub/routes.py` `shared_inbox`, `process_inbox_request`, `process_new_content` | ids in Redis (90 s), Celery queue, rows | receive, refuse, create, update, delete, restore, announce | concurrent duplicates, retries within 90 s, an Update that overtakes its Create | each activity has its effect once, the newest edit shows, followers are told |
| Cron | `cli.py` `publish_scheduled_posts` and the reminders; `shared/tasks/maintenance.py` purge | status and time of scheduled posts, reminders, `lock:send-queue` | publish, repeat, remind, reschedule, purge | several commits per post, a lock of 300 s, an exception that ends the whole run | every occurrence is published once and sent; every reminder is given once |
| Bans | `community/routes.py`, API, `activitypub/util.py` `ban_user`, `unban_user`; `process_expired_bans` | ban rows, `is_banned` of members, memoized `communities_banned_from` | ban, unban, expire, ask, join | caches cleared before or never, row and flag in two commits, Block and Undo over the network | cache, flag and row agree; both instances have the same ban |
| Polls | `shared/post.py` `vote_for_poll`, `edit_post`; `models.py` `Poll`; `activitypub/routes.py` `process_poll_vote`; `activitypub/util.py` `update_post_from_activity` | choices, modes, rows of `poll_choice_vote`, `num_votes`, on each instance | vote, pass on, tell totals, edit, update | looks that are old when used, counters written from copies, an Update that may be an edit or mere totals | no choice shows more votes than people chose it; all instances end up with the same poll |
| Conversations | `chat/util.py`, `chat/routes.py`; `api/alpha/utils/private_message.py`; `shared/tasks/deletes.py`; `process_chat` | conversations and messages of each instance, notifications, `unread_notifications` | send, edit, delete, restore, read, leave | both sides open conversations at once, changes overtake each other, the number of unread ones is read and written | both sides see the same messages; the bell tells how many are unread |
| Others | see the components of `PROJECT.json` | | | | |

The parts meet in a few places.  A web request or an inbox task votes, joins, bans or
writes content, and hands the activity to the outgoing queue, directly or in a batch; the
queue asks for the health of the destination and a 410 changes it; any activity that
arrives sets its instance healthy; `send_queue` publishes scheduled posts under the lock
that protects the queue.  These meetings are free choices where the other side is not
the subject: `SendQueue!ChangeHealth` is any change that `InstanceHealth` could make,
the messages of `Subscription` and `Bans` may be lost because the queue may give them up,
`Inbox!Flag` stands for operations whose counters are in `Content`.

## 2. Modules

| Module | What it is |
|---|---|
| `Voting`, `VotingProofs` | votes on posts and comments |
| `Delivery` | abstract: what the sending side promises of an activity |
| `SendQueue` | the outgoing queue, which implements `Delivery` |
| `InstanceHealth` | what PieFed believes of other instances |
| `Content` | posts, comments and the counters that follow them |
| `PublishingProofs` | theorems on `SendQueue` and on `Content`, whose `ContentInit`, `ContentNext`, `ContentSpec` and `ContentTypeOK` have these names so that one module can extend both |
| `CrossPosts`, `CrossPostsProofs` | lists of cross posts, their row locks and deadlocks |
| `Subscription`, `SubscriptionProofs` | joining and leaving, on two instances |
| `Inbox` | duplicate suppression and the processing of content |
| `Cron` | scheduled posts and reminders |
| `JobsProofs` | theorems on `Inbox` and on `Cron`, whose `CronInit`, `CronNext`, `CronSpec` and `CronTypeOK` have these names so that one module can extend both |
| `Bans` | bans from a community, on two instances |
| `InstancesProofs` | theorems on `InstanceHealth` and on `Bans`, whose `BanInit`, `BanNext`, `BanSpec` and `BanTypeOK` have these names so that one module can extend both |
| `Polls`, `PollsProofs` | a poll and its copies on the instances that follow |
| `Chat`, `ChatProofs` | private messages and the number of unread notifications |
| `MC...` | model values, functions, symmetries and constraints for TLC |

In all of them an action is what happens between two points at which another
process can see or change shared state: the body of one transaction up to its
commit, a Redis command, a row lock, or the arrival of an answer.  What a worker has
read and will use later is part of the state (`copy`, `seen`, `saw`, `loaded`), because the
code uses it after others have written.  History variables (`mishaps`, `tainted`,
`skewed`, `posted`, `handled`, `wants`, `why`, `quiet` and the like) are marked as such;
no guard of the program depends on them.

A *mishap* is something the code does not defend against (a crash between two commits,
a lock that outlived its timeout, a stale copy written back, a message that overtakes
another).  Safety properties that only hold without certain mishaps name them, for the
object they happened to.  This says precisely which hazards the bookkeeping survives
and which it does not; most of the mishaps were first met as counterexamples of the plain
property.  Such an exception is where the code does go wrong, and section 5 says how.  A definition commented
"Faulty:" is a plausible mistake that the properties are tested against, and is used
nowhere.

### Voting

State: `votes` are the rows of `post_vote` and `post_reply_vote`, `tally` the
committed counters, `copy` the private ORM copies of each worker, `lock` the Redis
lock of each object.  A request is `Begin` (load the object, before the lock),
then either `EnterNew`, `Cast`, `CountVotes`, `Bump`, `Insert`, or
`EnterExisting`, `Revoke`, `Reload`, `Flip`, `Retally`, `Store`; each step ends in
a commit or a Redis command.  A vote on a post that is turned around is committed before the
counters are adjusted, so that its row has to be read once more for what they are adjusted by:
`Reread`, or `RereadGone` if an undo, which takes no lock, has deleted it meanwhile; that error
ends the request and the counters stay as they were.  `BeginUndo` and `Undo` are `undo_vote`, without a
lock.  `NoUserLock` and `GiveUp` are failed lock acquisitions, `Crash` a killed
worker, `Expire` the loss of a lock.

Properties: `OneVotePerUser` (no two rows of one user on one object unless a
holder outlived its lock); `TallyMatchesVotes` and `ReputationMatchesVotes`
(counters equal what the rows add up to unless a named mishap happened: for the tally
a crash, an overrun lock, a copy read before the lock, or a row that another request has
moved, which includes the row that `RereadGone` does not find; for reputation a crash, a moved row or a reversed vote, whatever becomes of the lock of the
object, since reputation is changed in single steps under the lock of its owner);
`LowQualityNeverGains` (an author who writes only in low quality communities stays at
or below zero reputation whatever votes come and go, as long as no vote was turned
around or undone twice).

### Delivery and SendQueue

`Delivery` knows only a `fate` per activity (unsent, underway, received,
abandoned) and the reason `why`.  `SendQueue` is `post_request` with its
outcomes (`Accepted`, `GivenUp`, `ToldGone`, `Failed` and then, in a second commit,
`Requeue`), the cron command (`Start`, `ReadQueue`, one of `SendAgain`,
`Exhausted`, `DropGone`, `LeaveDormant` per row, `DeleteHandled`, `ReadBatches`,
`SendBatch`, `DeleteBatch`, `Finish`), and its surroundings (`GrowOld`, `Cleanup`,
`Forget`, `ChangeHealth`, `TaskLost`, `RunLost`, `Expire`).

Refinement: `FateOf(a)` is computed from where the activity is (a batch, a task, a
row, or the hands of a run).  `KeepsPromise` says that every step of the queue is
a step of `Delivery`: an activity becomes abandoned only with a reason on record,
and never turns up again.  `ReceivedOnce` and `PostsBounded` bound duplicates when
no run is cut short and none outlives its lock.  `EverySendEnds` is liveness.

Two remarks on the code.  `PostsBounded` is `MaxRetries + 2`: a row whose
`retries` equal `max_retries` is sent once more.  `FailuresRetried` fails: a
connection that cannot be made is put down as a 404 and not retried.

Not in `SendQueue`: the branch of `send-queue` that pauses federation when Redis is
short of memory, the stand-alone command `send-batched-activities` (no lock, for
debugging), more than one community per batch, what an error body says of followers
and bans.

### InstanceHealth

State: `inst` holds the rows; `loaded` and `mine` the rows as the session of a
task has loaded and changed them.  `Written` is a commit: only changed columns are
written, over whatever is there now.  The monitor is `StartMonitor`, and per
instance `Probe`, then `Locate` (`.well-known/nodeinfo`) and `Examine` (nodeinfo),
then the list of admins (`AdminsListed`, `AdminsFailed`, `MonitorAborted`).  The
check is `StartCheck`, and per instance `Recheck` and `Rechecked`, whose outcomes
are `Back`, `StillBad`, `StillSilent` and `Unparsable`; what is pending is committed
by the next silent instance or by `CheckDone`.  `NeighbourSilent` and `NeighbourGarbles` are
instances other than the modelled ones that the check comes to in between: the silence of one
commits what is pending (`CommitAll`), an answer that is not JSON rolls it back, for
each of them and every night.  `Heard`, `Awaken`, `ProfileGarbled`,
`ToldGone` and `Edit` are the other writers.  Time is in days.

Properties: `OneBadDay` says that an instance that gave a good sign today is online,
in whatever order probes and activities fall.  It is a matter of arithmetic
across four functions: one silent probe is two or three failures, the list of
admins one more, and the thresholds are at more than 2, 5, 7 and 12.  A nodeinfo document
of unknown links counts once for each: with up to four (`Links`) one bad day is survived,
with five a single such answer puts a healthy instance to sleep.  Instances in
`Moved` (Lemmy whose nodeinfo is looked for twice) are excepted, because for them
one silence is enough.  `mishap` names the six things the code does not defend against;
one of them needs two instances: the list of those to recheck is made before the first
is asked, and one that has come back by the time it is its turn is asked all the same and
its silence written over the good news.  The proof shows this one, the run with its single
instance cannot.  `BackOnline` is liveness: an instance that has recovered comes back, unless it is
given up first or the check finds it back and forgets that again for ever (`LosesReturn`).  The exception
is what the code does: one neighbour that answers 200 with something that is not JSON and comes after it
each night is enough, since `session.rollback()` (`maintenance.py:494`) is for the whole session.

### Content

State: `status` of each object and `count`, every counter that follows the rows, of a
community, its users, posts and comments.  An operation is a program of transactions
(`Program`): `MakePost`, `NewPost`, `NewReply`, `Backfill`, `DeletePost` and so on are
those programs, one per function of the code, each transaction with the rows it writes,
what it adds through ORM objects and what by `UPDATE` statements.  `ReadObjects` is the
load, `Commit` writes what was read plus the change.  SQLAlchemy sends no `UPDATE` for a column
that gets the value it was loaded with, so an operation that finds its row as it wants it
(`AsRead`) writes only the others (`Sent`), and counts all the same.  The `Begin...` actions are the ways
in, with what each looks at first.  `BeginStats` is the nightly count, `FindsNothing` a
query without a result, `Conflict` the unique key on `ap_id`, `Abort` an exception, a lock
that cannot be had or a killed worker, `EditRaises` the refused edit after which
`make_post` deletes its post but not its counts, `Quieten` a community that falls inactive and is
no longer counted.  The Redis locks are asked for after the objects were read and enclose
single commits, so they forbid none of these steps.

Properties: `CountersAgree` (each counter says how many rows there are, as soon as nobody
who still has to change it is half way, unless a named mishap happened to that very
counter; one of them is an operation whose row was what it should become already, when it was
read or when it was written: a restoration of what another request then deletes is counted, and
the deletion stands); `OnlyRestoringRevives`, an action property.

### CrossPosts

State: `row` (state, URL, whether the list is NULL, and how often each post is in it),
`scheduled` (the posts whose status keeps them out of the queries), `job`, `left` (the
transactions still to do) and `held` (row locks).  The kinds of
`Program` are the callers of `calculate_cross_posts`.  Each transaction is `Look` (the
query), one `Lock` per row and `Commit`; `Skip` is an unlink with nothing to clear, `Flush`
the early write of a Celery session, which locks the own row before the query.  `Schedule` makes a post for later and `Edit` may make one so;
`Postpone`, `Publish` and `PublishCopy` (cron, of a post that is published once or repeats)
change the status and look for no cross posts.  `Published` is the filter of both queries: a
scheduled post gets a list of its own but is found neither as a peer nor when it is to be
unlinked.  A cycle of waiting workers is `InCycle`; `Victim` is PostgreSQL rolling one of them back.
Only the locks on rows of posts are there: without those on other tables and in Redis
more can happen, not less.  Posts are born with rising ids, a ban takes its posts one at a
time, bare domains and the one excluded community are left out.

Properties: `NoDeadlock` says which requests can be in a cycle at all: one of them takes its
own row out of turn, because it flushed first or because its post is older than one it
lists; new posts that have all found an older one of their URL are in none.
`LinksAgree`: lists say exactly which posts have the same URL unless a named mishap
happened to one of the two (`Stale`, `Missed`, `Skipped`, `Again`, `Full`, `Crossed`).  `Missed` and
`Skipped` are also what becomes of scheduled posts: one that is scheduled when another of its URL is linked
or unlinked is passed over, and nothing makes up for it when it is published.  The copy of a
post that repeats takes over its list and is in nobody else's, so nothing is promised of it.
`EveryRequestEnds` is liveness.

### Subscription

One user's account is at home, the community or feed at the host; both run this code.
State: member rows and counts of both, join requests at home, the messages in each
direction and the Celery queue at home.  `Subscribe`, `JoinThenAdd`, `Import`, `ApiJoin`,
`Unsubscribe` and `ApiLeave` begin with what the code looks at; `Enter`, `AddRequest`,
`Send`, `Look`, `Delete`, `Withdraw` are their commits, in the order each function has
them.  `HostFollows`, `HostUndoes`, `HomeAccepted`, `HomeRejected` are the handlers of the
inbox, which look when they take a message and write later.  `Refuse` is a host that
changes its mind; `Lose`, `Repeat`, late receipt and `Crash` are the faults; `Recount`
is the night.

Properties: `InstancesAgree` (at rest, without a mishap since the last rest, both sides have
the same member and it is who the user last asked for); `CountsAgree`.

### Inbox

`Ask`, `Remember`, `HandOver`, `Refuse` are `shared_inbox`: the look in Redis and the entry
are two calls, and the entry is made before the signature is verified.  `Take` decides by what is
there, `Insert`, `Edit`, `Flag`, `Announce` are the commits of the Celery task, `Fail` an
exception or a killed worker, `Expire` the 90 seconds.  `Script` are the sets of activities
that may come, in any order; none has two deletions or two restorations of one object
(`ScriptAssumption`), of which nothing in an activity would tell which is the later.

Properties: `AnsweredIsHandled`, `HandledOnce`, `NewestShows` (an Update is not lost to a
Create that comes later or at the same time), `FollowersKnow`.

### Cron

`Start` takes the lock; `LookDue` comes upon the next post of the query and `LookGone` upon one that was
purged since,
`Publish` (once) or `Copy` and `Advance` (repeating) the commits, `Send` the federation, which
raises if a post that is published once was purged since its commit;
`BeginReminders`, `Notify`, `NextReminder` the reminders; `End`, `Lapse`, `Kill`.
Authors `Reschedule` and `Delete`; the night's `Purge` takes the reminders along;
`AskReminder` and `AddReminder` are two steps, so that a reminder can be about a post
that has been purged in between.  Time is counted in occurrences (`NextTime` is the next one; that
monthly dates drift to the end of short months is left out).  A reminder that raises
ends the run (`RemindersEnd` names this case).

Properties: `PublishedOnce`, `NoneSkipped`, `PublicIsSent`, `RemindedOnce`; `DueIsPublished`
and `RemindersEnd` are liveness.

### Bans

`Order` is a moderator on either instance, by web or API, `Receive` a Block or Undo,
`BeginNight` the nightly task; each looks at the row first.  `Insert`, `Again`, `Remove`,
`NightDeletes`, `WriteFlag`, `Clear` are their commits and cache operations.  `Read` and
`Fill` are a request that memoizes, `AskToJoin` and `Join` one that joins; `Tick`, `Lapse`,
`Lose`, `Die`.  Orders are numbered as they are written so that one that was overtaken is
known; `last` is the newest that each instance has seen, also when a Block finds the same
ban there already.

Properties: `CacheTells`, `FlagsAgree`, `BansAgree`.

### Polls

One poll, its home, and the instances that follow its community.  `Vote` is
`vote_for_poll`, `NoteVote` the choice of somebody on a microblog, `ReceiveVote` the
handlers of the inbox; all of them go through `Look`, `Insert`, `Commit` and `Send` once
for each choice.  `Insert` waits for a row with the same key that another transaction has
written, and reads `num_votes`; `Commit` writes that plus one.  `Edit`, `Wipe`
and `Refill` are `edit_post`, whose choices are deleted and made anew in two
commits; `SendUpdate` is the task that tells the followers and `ReceiveUpdate`
`update_post_from_activity`, which takes an Update whose totals are all zero for an edit.
`gen` counts how often the rows of the choices were replaced, so that a worker
that holds a deleted one is known.

Properties: `NeverAhead` (a choice at home shows at most as many votes as people chose it);
`CopiesAgree` (at rest, followers have the poll, votes and numbers of home).  Mishaps:
`lost count`, two votes counted at once; `edited amid votes`, `totals amid votes`, an
Update and a vote under way together.  Crashes, `end_poll` and the purge of users are left
out.

### Chat

Conversations and messages of each instance, the notifications of each person and the number
at the bell.  `Send`, `Open`, `StoreSent`, `Address`, `Post` are `send_message` and its
callers, `Edit` and `Delete` the changes of a sender, `Receive`, `StoreReceived`,
`ReceiveFlag` the inbox; `View`, `Mark`, `MarkAll` with `Count` and `Write` the ways to
read, `Leave`, `LookLeft`, `DeleteChat`, `Remove` the ways to leave.  History: `crossed` are
messages changed while an earlier change was under way, `left` who has left a
conversation with whom, `muddled` for whom two requests have counted at once.
A notification is looked for by `url LIKE '/chat/1%'`, which would also find those of
`/chat/10`; the module has the conversation itself, as it is while there are less than ten.

Properties: `SidesAgree` (at rest, a message is on the other instance as its sender has it,
whatever conversations both have opened at once); `UnreadAgrees`.

## 3. Runs

| Run | Instance | Shows |
|---|---|---|
| `voting_race` | 2 workers, a local and a remote voter, a low quality post and a comment, 3 requests, 1 crash, locks that run out | the five invariants of Voting |
| `queue_ends` | 2 runners of which one may outlive its lock, 1 batched activity, one trouble (crash, change of health or overrun), fair | `ReceivedOnce`, `PostsBounded`, `KeepsPromise`, `EverySendEnds` |
| `queue_unreachable` | 1 runner, a direct and a batched activity | `FailuresRetried` fails: a refused connection is not retried |
| `health_daily` | 1 instance that may answer anything and recovers some day, its neighbours, 1 intervention, fair | `OneBadDay`, `BackOnline` |
| `content_counts` | 2 workers, a post, a comment by somebody else and an answer to it, each absent, live or deleted at first, and a post of another instance that is yet to arrive; a bot; 2 operations, the nightly count, 1 abort | `CountersAgree`, `OnlyRestoringRevives` |
| `crossposts_links` | 2 workers, 3 posts that may be scheduled, 2 URLs, lists of at most 2, 2 requests, 1 crash, fair | `NoDeadlock`, `LinksAgree`, `EveryRequestEnds` |
| `subscription_agree` | 2 workers, 1 user, a community and a feed, 3 requests, 1 fault | `InstancesAgree`, `CountsAgree` |
| `inbox` | 2 web and 2 Celery workers, up to 3 activities on 2 objects, 1 repeat, 1 fault | `AnsweredIsHandled`, `HandledOnce`, `NewestShows`, `FollowersKnow` |
| `cron` | 2 runs, a post that is published once and one that repeats, 2 reminders, 2 occurrences, 2 requests, 1 fault, fair | all properties of Cron |
| `bans` | 2 workers, 2 instances, 2 orders, 1 fault, one mishap at most | `CacheTells`, `FlagsAgree`, `BansAgree` |
| `polls` | 2 workers, a follower, voters at home, there and on a microblog, 2 choices, 2 requests, 1 edit | `NeverAhead`, `CopiesAgree` |
| `chat` | 2 workers, 3 people of 2 instances, 3 requests of which 2 may be messages | `SidesAgree`, `UnreadAgrees` |

Bounds.  Two workers or runs are enough for most races in the code, since each lock, row
and copy is touched pairwise.
Three vote requests allow a first vote, a change of mind and an undo.  `MaxRetries` is 0
(40 in the code): the test `retries <= max_retries` is then met on both sides of the
limit, and the theorems hold for all values.  `MaxTroubles` admits one trouble to a
history; batches that are joined while they are sent need two activities, and are
covered by the theorem `PromiseKept`.  `Meddling` bounds what steps in: an administrator, a
410, a task that is lost, an answer that is not understood.  `Moved` is empty, since what it
stands for is excepted anyway.  In `Bans` an order that finds its own ban there needs three
orders, in `InstanceHealth` a recheck of what has come back two instances: these too are
covered by theorems only.  `Number` only has to be large enough that a number is free whenever
one is taken.  `MaxFailures` is 13, the first value beyond the last threshold; a
count that has reached it stands for all greater ones, which is why
`awaken_dormant_instance` may then choose any wait.  `Content` begins with content in every
state, so that two operations reach what longer histories would; a post with a comment and an
answer by different people touches every counter there is.  In `CrossPosts` a limit of 2 instead of 9
is reached with three posts.  In `Subscription` three requests are join, leave and join
again; the feed has no unique key, the community has.  In `Bans`, `FewMishaps` stops at states
with two mishaps, which no property says anything about that it does not say about one.
`SYMMETRY` is over workers or runners, which are alike and only in runs without
liveness; in `MCCrossPosts`, which has liveness, `FirstIdle` lets the first of two idle workers take
the request instead, and `FirstPage` leaves out initial states that differ by the names of the URLs.
In `MCInstanceHealth`, `NeighboursMatter` lets the check meet a neighbour only while something is
pending: all else it does is to have a row loaded a little later.  `CHECK_DEADLOCK FALSE` is set everywhere because the bounds on requests,
crashes and interventions, and the completion of all work, let the system stop.

Fairness.  `SendQueue!Fairness`: Celery workers take what tasks there are, cron
starts a run every minute and maintenance every day, time passes, and Redis
forgets the locks of the dead; all weak, per runner.  `InstanceHealth!FairSpec`:
cron starts both tasks every day and they run to their end (requests have time
limits).  `Cron!FairSpec`: the same, and a request for a reminder that was begun
commits.  `CrossPosts!FairSpec`: a worker that can go on does, and the database looks for
deadlocks (`deadlock_timeout`).  Nothing is assumed of crashes, answers, activities that arrive,
requests, or changes of health: those are never fair.  `BackOnline` assumes of the instance
itself that it has recovered (`well`), and nothing of its neighbours.

## 4. Proofs

All theorems hold for every value of the constants and rest on the assumption the
component's module names (`VotingAssumption`, `SendQueueAssumption`, ...), only.  All
invariants were first checked with TLC on the instances of the runs.

`VotingProofs`:

* `TypeCorrect`: `Spec => [](TypeOK /\ Busy)`, where `Busy` says that a worker
  inside a request has a real job.  `TypeOK` alone is not inductive: the steps of
  a request look up the author of its object.
* `OneVote`: `Spec => []OneVotePerUser`.  The inductive invariant `OneVoteInv` has
  three parts, all under `Sound` (no holder has outlived its lock):
  `HoldersInside`, a worker is inside the locked part of a request exactly as long
  as the lock bears its name; `NoRowYet`, while it is on the path of a first vote
  its user has no row on the object; `Unique`, the property.  The first gives mutual
  exclusion, mutual exclusion keeps the second true while other workers move, and
  the second makes `Insert` safe.  The undo, which takes no lock, only deletes
  rows and so disturbs none of them.  `SoundBefore` lets the induction assume that
  no mishap has happened yet.
* `TallyCounted`: `Spec => []TallyMatchesVotes`, for plain effects and spicy ones.
  `Balanced(t)`: at most one worker owes the counters of `t` something (`Due`, between
  the commit of a row and that of its count, or the other way round), and what the counters
  say plus what it owes is what the rows add up to.  Mutual exclusion, from `OneVoteInv`, is why
  it is one at most; the lemmas on `Count` (one vote more, one less, one turned around) are why a
  commit of a row changes the sum by what is then owed.
* `ReputationCounted`: `Spec => []ReputationMatchesVotes`, if there are finitely many posts and
  comments, since the property adds up over all those of an author.  No lock is needed: reputation
  is what the standing votes are worth (`Standing`), plus those counted but not yet there
  (`Coming`), minus those taken out but still there (`Leaving`), whoever runs meanwhile.
  `RowsInv` says that ids are not used twice and that what a worker remembers of a row
  is still so, or the row is gone.
* `LowQualityCounted`: `Spec => []LowQualityNeverGains`, by the same account with
  an inequality (`LowInv`).

`PublishingProofs`, on `SendQueue`:

* `TypeCorrect`: `Spec => []TypeOK`.
* `AcknowledgedOnce`: `Spec => []ReceivedOnce`.  The inductive
  invariant `OnceInv` holds while `Spared` does (no run was cut short with its work
  half done, none outlived its lock).  `Alone`: only the holder of the lock has
  rows, ids to delete or packed activities in its hands, each in its step.  `Named`: a
  number names one letter, and a row in the hands of a run has neither been handed
  over nor changed but for its age.  `OneCopy`: an activity waits in the batch, or one
  number carries it, or neither, and neither once it is acknowledged.  The rows that a
  run has handed over and not yet deleted carry nothing (`Ready` excludes them): this
  is why the late `DELETE` by id is harmless.  The lemmas `Fewer` and `HandedOver` are
  the two ways in which a step may preserve `OneCopy`, and each action is one of them
  but `Send` and `Accepted`.
* `BoundedPosts`: `Spec => []PostsBounded`.  On top of `OnceInv`,
  `Ranked` says that a letter's `retries` bound how often its activities were posted,
  that a letter that failed was posted once more, and that no letter has more than
  `MaxRetries + 1`.
* `PromiseKept`: `Spec => KeepsPromise`, the refinement of
  `Delivery`, without any assumption about mishaps.  `PromiseInv` has three parts:
  `Told`, only what was sent is anywhere; `SameRow`, a row that was read still stands
  for the row of the queue with its number; `Kept`, what was sent and is neither
  acknowledged nor given up for a reason is `Alive`, in a task, a row that no run is
  about to delete, or the batch and not packed.  `Moves` is what any step may do as seen
  from outside; `FateMoves` turns it into a step of `Delivery` or a stutter.

`InstancesProofs`, on `InstanceHealth`:

* `TypeCorrect`; `SurvivesOneBadDay`: `Spec => []OneBadDay`, for any number of instances, if a
  document has at most four links (with five it is false) and quiet days are counted at all
  (`Days > 0`).  `HealthInv` says of an instance that had a good sign today that
  its row is `Fresh`, few failures for what the two tasks can still add before tomorrow, or
  that the check has found it back and will commit so (`PendingBack`); and, as long as
  no mishap has occurred, that what a task is about to write is no worse than the row
  (`NoWorse`), that a good answer it holds is one of today (`FoundByCheck`), and that the check only
  changes rows it loaded as dormant (`Asleep`).

`PublishingProofs`, on `Content`:

* `ContentTypeCorrect`; `CountersRight`: `ContentSpec => []CountersAgree`, for finitely many posts and comments,
  since the counters are compared with numbers of rows.  `Balanced` is the account: a counter, plus the
  workers that have written a row and not yet counted it (`InDebt(c, 1)`), minus those that
  have not yet taken it out again (`InDebt(c, -1)`), is the number of rows.  It is not inductive alone.
  `Tails`: what is left of a request is the end of its program; `ProgramsRight`, a fact about
  all 12 kinds of request about one row rather than about states: a program writes its row in its first
  transaction and then counts it once, in one of them, in each counter the row
  belongs to.  `AllRead`, `FreshRight`: what a worker has loaded is what its next transaction needs, and
  nobody has committed since, or the counter is named.  `NoneToReset`, `UnevenTainted`: the bans and
  the creations that count unevenly have named what they miss.  A counter that is computed anew
  (`sets`) forgets its debts only if it is named.
* `OnlyRestoring`: `ContentSpec => OnlyRestoringRevives`, an action property, from `Tails` and `AllRead`:
  only the first transaction of a program names a state for its row, and it is `live` only for what
  creates a row that is not there and for the restorations.

`CrossPostsProofs`:

* `DeadlocksAreOutOfTurn`: `Spec => []NoDeadlock`, for any number of workers and posts.
  The invariant is `InOrder`: a worker that did not flush first has locked only rows of
  what it looked at, each older than all it has yet to lock in turn.  `HeldIsOlder`: then
  all it has locked is older than what it waits for, unless its own row comes out of turn.
  `NoCycle`: of the workers of a cycle, the one that waits for the newest row waits for
  one that waits for a newer row still, which cannot be (`GreatestOf`, from the
  well-foundedness of the natural numbers).  For new posts with a common older one, `p`: if
  somebody has locked `p` he waits for a row after `p`, whose holder has yet to lock `p`
  and so has nothing after it; if nobody has, all wait for rows in turn.
* `TypeCorrect`: `TypeInv` adds that what a worker has loaded is as proper as what the rows
  hold, and that a link has found no more posts than fit.  That a list with room takes one more
  (`OneMore`) and that the newest `n` are no more than `n` (`NewestFew`) are counted on
  the finite sets of a list's entries.
* `LinksRight`: `Spec => []LinksAgree`, of scheduled posts too.  `LinksAgree` alone is not inductive: it says nothing
  of a post that is worked on.  `LinkInv` adds `Mutual` (of two posts that nothing went wrong
  with, each lists the other or neither does, also while they are worked on), `OneJob`
  and `Planned` (such a post has one request, which is at one of the points its program
  has, with the row saying what it must at that point), `Found` (a worker that unlinks has
  found its post in the lists it is to be taken out of, or has locked its own list since,
  which says so no longer) and `Unlisted` (a post that is not there or has no URL is in no
  list unless a request that looks after lists is at work on it).  `CommitOthers`,
  `CommitUnlinks` and `CommitLinked` say what a commit without a mishap does to each pair
  of lists, and `CommitFinal`, one case per kind of request, that the last one leaves its post in
  the lists it belongs in.

`SubscriptionProofs`:

* `TypeCorrect`; `CountsRight`: `Spec => []CountsAgree`, for finitely many users, since a count is
  compared with the rows of all of them.  The rows of a group are counted as pairs of a
  user and a number, so that one row more is one element more, and the count that a worker writes
  is one off the one it copied; what else may come to pass is in `skewed`.
* `InstancesRight`: `Spec => []InstancesAgree`.  `InstancesAgree` says nothing as long as anything is
  on its way, so the invariant follows a request from the moment it is made.  Of a pair of user
  and group without a mishap it says (`PairRight`): `OneOp`, one operation at a time, but for the
  task beside an operation of the API; `AsWanted`, it is what the user asked for last; `HomeRight`,
  the rows at home are as he wants, or an operation has yet to put them in or take them
  out, and one that is about to put one in has seen that there is none; `HostRight`, one handler
  at a time, with the row as it saw it, and, once home has sent what it had to, the
  last message under way, or the handler at work, or the row at the host is what he wants, or else a
  Reject is on its way to him.  The proof goes along home's steps, the host's and the messages
  between them; each handler is shown to be the only one that its pair has.  The attempt found a gap in the
  module: a Reject that is handled late takes out a member whom the host has accepted
  meanwhile.  `HomeRejected` named it only if the host still refused him or not at all; with six requests (a
  join that is refused, a leave, the refusal taken back, a join that is accepted, a second
  refusal) the property was false.  It is a mishap whenever the host has the row or a Follow
  is on its way.

`JobsProofs`, on `Inbox`:

* `TypeCorrect`; `NothingForgotten`: `Spec => []AnsweredIsHandled`, from
  `KnownIsAccounted`: whatever Redis remembers was handed over, is in a worker's hands, or
  was refused.
* `HandledAtMostOnce`: `Spec => []HandledOnce`, from `Once`: unless two workers asked
  together or Redis forgot, an activity is in one place at most (a web worker, the queue, a
  Celery worker, or announced), and what was handed over Redis still knows.
* `NewestWins`: `Spec => []NewestShows`; `FollowersTold`: `Spec => []FollowersKnow`.  Of an object
  whose activities never crossed, `Steady` says: two edits, or a deletion and a
  restoration, are never in hands together (`InTurn`); a worker has in hand what came last, and
  the row is as it saw it (`Hand`); who came last has seen to the row or is at it (`Shown`); who
  made the row what it is has told the followers or is about to (`Made`).  A Create and an
  Update may be in hands together: the Update finds the row and edits it, or inserts
  and the Create comes upon the unique key.

`JobsProofs`, on `Cron`:

* `CronTypeCorrect`; `AllSent`: `CronSpec => []PublicIsSent`, from `Balanced`: what is sent and what runs
  are about to send add up to what became public, unless a run was killed.
* `OnceReminded`: `AloneUnlessOverrun` is mutual exclusion by the lock as long as nothing outlived
  it; with it, `GivenOnce` says that a reminder that is still there has not been given, and that a run that is
  about to give one still finds it, or its post was purged.
* `NothingSkipped`: `AllAhead`, all occurrences before the time of a post, and the one that is
  about to be passed, are public.
* `OncePublished`: `AllFresh`, no occurrence at or after the time of a post is public yet,
  but the one of a run between its two commits; a run between query and commit still has
  the time of the row.

`InstancesProofs`, on `Bans`:

* `BanTypeCorrect`: with it, that the ban the night looks at was over when it began.
* `CacheRight`: `BanSpec => []CacheTells` and `FlagsRight`: `BanSpec => []FlagsAgree`.  Both are
  inductive together with `BanTypeOK`: who changes a row is `Clearing` or `Busy` with the
  flag in that very step, until it writes; all else is a named mishap.
* `BansRight`: `BanSpec => []BansAgree` if the community's host and the user's home are the only two
  instances, which is all the code tells of a ban.  `BanInv`: an order under way is
  known where it comes from and not where it goes, and the row there is as it asks if it is the newest
  (`Sent`, `Borne`); it is under way once (`Alone`); an instance that is behind has
  the newest under way to it (`Caught`), and two that are level have the same ban (`Even`).
  The attempt to prove this found a gap in the module: a Block that finds the same
  ban in place writes no row, yet the instance has then seen that order.

`PollsProofs`:

* `TypeCorrect`; `CountsNeverAhead`: `Spec => []NeverAhead`.  Whoever is about to commit has
  read a number no greater than the rows then justify, and rows only go when the counters
  go with them.
* `CopiesCorrect`: `Spec => []CopiesAgree`.  What is out of step depends on what has begun since
  all was last quiet, so `CopyInv` has a phase for each.  `Renewed`, an edit alone: home is being wiped,
  filled or told, and a follower has the new poll or a message that brings it.
  `Voted`, votes on their way: of each vote that is not yet everywhere `Down` and `Up` say which
  message or handler brings it, or who is about to tell it; `LetterRight` and `JobRight` say that
  what these carry is known where it comes from.  `Alike`: the difference between a number
  and the votes behind it (`Tally`) is the same on all instances.  `OneNote`: one vote from a
  microblog, with the total that home then tells.  When nothing is under way, each phase
  gives agreement (`Agreed`, `Tallied`), so that the next may begin.

`ChatProofs`:

* `TypeCorrect`: `Spec => []TypeOK`; a message lies in a conversation of its instance
  that exists (a conversation is only deleted with the messages that were seen in it, and the foreign
  key holds others back), and of the two it is between, which takes `MessagesRight`.
* `UnreadRight`: `Spec => []UnreadAgrees`, from `BellsRight`: of somebody who is not `muddled`, at
  most one request is about to write the number (`Counting`), and what it has in its hands is
  the number of unread rows; one that views has yet to count and repairs whatever was.  The lemmas
  on `UnreadRows` say by how much a row that is added, turned or marked read changes their number:
  rows are compared by value, so two that are alike count twice.
* `SidesRight`: `Spec => []SidesAgree`.  The inductive invariant `IInv` has, besides the types,
  `Places` (which request can be at which step), `Numbered` (a message is not there
  before it is sent, and what is under way is between two instances), `Rooms` (a conversation nobody has
  left has both its members, and a request that goes on with a conversation means one of the
  right two) and `MessagesRight`: each message that was sent is between two people wherever it
  shows (`Of`), and if its changes never crossed and neither has left, one request or activity at
  most carries it (`Alone`), the rows of both sides differ by no more than what that one brings
  (`Does`, `Brings`), and agree when there is none (`Side`).  That both open conversations at once
  does no harm because the argument is about the message and the pair, never about
  the number of the conversation.

Only model-checked: liveness under fairness (`EverySendEnds`, `BackOnline`,
`EveryRequestEnds`, `DueIsPublished`, `RemindersEnd`), which is out of the prover's
reach.

## 5. What the models show of the code

What the exceptions in the properties stand for, and what else was met on the way; the
first is the one that a run of its own shows.

* A timeout or refused connection becomes a 404 and is not retried
  (`activitypub/signature.py:143`; run `queue_unreachable`).
* Votes: turning a vote on a post around is lost to the counters when the vote is undone between
  the commit and the next reading of its row (`models.py:2601`, `2615`); the counters lose one of two first votes that queue for the lock; a reversal
  does not give the author the new effect; the `assert` in `PostReply.vote`
  (`models.py:3131`) can be met by an API request that takes back a vote that is not there.
* Health: an instance is gone forever after about two silent days (`models.py:146`), a
  rollback forgets instances that were found back, every night if the same neighbour garbles every
  night (`maintenance.py:494`), an
  exception before the first assignment leaves the monitor with an unbound name
  (`maintenance.py:657`), and the check asks instances that have come back since it made its
  list, and takes their silence for a reason to wait longer.
* Content: a moderator's removal and any restoration leave the comment count of the
  community alone; `make_post` leaves its counts when `edit_post` refuses; what is deleted
  twice is counted twice; a restoration that has read a comment as live is counted although it writes
  nothing, so that a deletion in between stands (`post/routes.py:1963`); the night's count repairs two of the counters.
* Cross posts: the first two posts of a URL can deadlock, and so can tasks that flush
  first, although the comment at `models.py:2251` says that the order of the ids
  prevents it; lists lose, repeat or keep entries (`Wrong` names how), and two web posts made at
  once do not see each other, since their URL is committed last; scheduled posts get a list but are in
  none, also after they are published (`models.py:2249`, `cli.py:588`).
* Subscription: `leave_community` without a join request deletes `None` and raises
  (`shared/tasks/follows.py:125`), so no Undo is sent; a Reject takes the member out but
  not out of the count; an Accept that comes while the user leaves makes him a member
  again; feeds can have two rows of one member.
* Inbox: a resend within 90 seconds of a refused activity is answered as known and lost;
  two edits at once are not compared; two Updates that race before the Create lose the newer one.
* Cron: a post deleted after the query is still published and sent (`cli.py:565`); a
  reminder for a purged post raises in every run and keeps all later reminders back
  (`cli.py:681`); a run killed between the copy and the new time publishes twice.
* Bans: the night clears the cache before it deletes, and not at all for people of other
  instances; a Block that is late for its own end becomes one without an end
  (`activitypub/util.py:2198`); a ban for one who has an old row is ignored
  (`util.py:2174`); an unban by the API is not federated (its expiry is a string where a
  time is needed); `do_subscribe` tells a banned user so and joins him all the same
  (`community/routes.py:844`); the night deletes a ban that was renewed meanwhile.
* Polls: a poll of one choice takes two votes of a person whose second comes from another
  instance or before the first is committed (`shared/post.py:1146`,
  `activitypub/routes.py:2392`); an edit that is followed by a vote before its task runs is
  read as mere totals, and followers keep the old choices
  (`activitypub/util.py:3008`, whose comment at line 2987 takes totals of zero for the sign of an
  edit); the Update of an edit is lost when a vote at the follower is not yet committed.
* Conversations: one that all have left stays when a message comes while it is deleted: its
  messages are loaded and deleted one by one, and the new one then refers to it still
  (`models.py:238`; the comment at line 222 says that it is deleted);
  `new_message` compares a number with rows (`chat/routes.py:86`) and always opens
  another conversation; an edit that overtakes its message is undone by it, and a deletion that
  does is ignored.

## 6. Plan

Done: all of the modules above.  Left, in the order of use: the Follow of people and
the Move of accounts (the protocol of `Subscription` over other tables); bans from a whole
instance with the content they remove; Announce and the activities
about microblogs in the inbox.

## 7. Not modelled

Text, media, templates, mail, cryptography, forms, and the serialisation in the REST
API are input and output around the functions above.  Ranking is floating point.
Recurrence is calendar arithmetic of a library.  `dedupe_post_ids` and pagination are pure
functions of one request.  With `NOTIF_SERVER` set, votes go out through `fastapi_server.py`, which
does not retry (`shared/tasks/likes.py:145`, `activitypub/routes.py:1922`), and not through the queue: that
path is not in `SendQueue`.  Of the inbox, Flag, Add, Remove, Lock and Move are left
out; of content, hard deletion and the counters of topics and tags.
Unread notifications other than those of `Chat` are lost updates of the same kind.  `PROJECT.json` lists
every part with the reason, and every hazard with the properties that cover it.
