----------------------------- MODULE CrossPosts -----------------------------
(***************************************************************************)
(* The lists of cross posts: each post keeps the ids of the other posts of *)
(* the same URL.  Post.calculate_cross_posts (app/models.py) and the       *)
(* requests and tasks that call it (app/models.py, app/shared/post.py,     *)
(* app/shared/tasks/deletes.py, app/activitypub/util.py); and the cron job *)
(* that publishes scheduled posts (app/cli.py) and does not call it.       *)
(*                                                                         *)
(* A request is a program of database transactions.  Each reads rows into  *)
(* ORM objects, then takes the locks of the rows it writes one by one, and *)
(* its commit writes the columns it has changed, a list as a whole.  The   *)
(* sessions of web requests write at the commit; those of celery tasks     *)
(* (get_task_session) flush before each query, so that a task that has     *)
(* changed its post locks it before it looks at the others.  The rows of   *)
(* other tables and the redis locks on single posts are left out: without  *)
(* them more can happen, not less.                                         *)
(***************************************************************************)
EXTENDS Integers, Sequences, FiniteSets

CONSTANTS
  Worker,       \* web workers and celery processes
  Posts,        \* how many posts there can be; their ids are 1..Posts
  Url,          \* the addresses a post can have, but no bare domains
  Limit,        \* no more cross posts than this in a list (9 in the code)
  MaxRequests,  \* bound: requests begun
  MaxCrashes    \* bound: workers killed

Post == 1..Posts
NoUrl == "none"

ASSUME CrossPostsAssumption ==
  /\ Posts \in Nat \ {0} /\ Limit \in Nat \ {0}
  /\ {NoUrl, "same"} \cap Url = {}
  /\ MaxRequests \in Nat /\ MaxCrashes \in Nat

VARIABLES
  row,       \* [Post -> the row: state, url, whether its list is NULL, and
             \*   how often each post is in the list]
  scheduled, \* the posts whose status is not "published" yet
  job,       \* [Worker -> the request it serves]
  left,      \* [Worker -> the transactions that are still to do]
  held,      \* [Worker -> the rows it has locked]
  requests, crashes,
  tainted    \* history: the posts something has gone wrong with

vars == <<row, scheduled, job, left, held, requests, crashes, tainted>>

-----------------------------------------------------------------------------
Nobody == [p \in Post |-> 0]
Only(S) == [p \in Post |-> IF p \in S THEN 1 ELSE 0]
Listed(list) == {p \in Post : list[p] > 0}
Length(list) == Cardinality({e \in Post \X (1..Limit) : e[2] <= list[e[1]]})
\* Faulty: the limit is not looked at.
AlwaysRoom(list) == TRUE
Room(list) == Length(list) < Limit
\* Faulty: it is the copy of a query that is thrown away.
NotRemoved(list, me) == list
Removed(list, me) == [list EXCEPT ![me] = @ - 1]
Newest(S, n) == {p \in S : Cardinality({q \in S : q > p}) < n}

\* The other posts a post of this address belongs with, and those of them that
\* a query for published ones finds.
Together(me, url) ==
  {p \in Post \ {me} : row[p].state = "live" /\ row[p].url = url /\ url # NoUrl}
Published(S) == S \ scheduled
Peers(me, url) == Published(Together(me, url))

\* A transaction: what it does to the lists, and what the request has changed
\* of the state and the URL of its own row and has to write with it.
Tx(does, state, url) == [does |-> does, state |-> state, url |-> url]
\* Without a URL there are no cross posts to look after.
IfUrl(me, program, plain) == IF row[me].url = NoUrl THEN <<plain>> ELSE program
Program(kind, me, url) ==
  LET gone == Tx("write", "deleted", "same")
      back == Tx("write", "live", "same")
      unlink(to) == Tx("unlink", to, "same")
      link(to) == Tx("link", to, "same") IN
  [new           |-> <<link("same")>>,
   make          |-> <<Tx("link", "same", url)>>,
   schedule      |-> <<Tx("link", "same", url)>>,
   edit          |-> <<Tx("unlink", "same", url), Tx("link", "same", url)>>,
   update        |-> IF row[me].null THEN <<Tx("write", "same", url)>>
                     ELSE <<Tx("unlink", "same", url), Tx("link", "same", url)>>,
   update_away   |-> <<Tx("unlink", "same", NoUrl)>>,
   delete        |-> IfUrl(me, <<unlink("same"), gone>>, gone),
   inbox_delete  |-> IfUrl(me, <<gone, unlink("same")>>, gone),
   ban           |-> IfUrl(me, <<unlink("deleted")>>, gone),
   restore       |-> IfUrl(me, <<link("same"), back>>, back),
   inbox_restore |-> IfUrl(me, <<link("live")>>, back)][kind]

\* Tasks that have changed their post before the first query.
FlushEarly == {"update", "update_away", "ban", "inbox_restore"}

-----------------------------------------------------------------------------
NoJob == [kind |-> "none", of |-> 0]
Idle(w) == job[w] = NoJob
At(w, at) == ~Idle(w) /\ job[w].at = at
Does(w, what) == Head(left[w]).does = what

\* Posts of the same address know each other at first, and no others.
Init ==
  /\ \E n \in 0..Posts, url \in [Post -> Url] :
       LET live == 1..n
           others(p) == {q \in live \ {p} : url[q] = url[p]} IN
       /\ \A p \in live : Cardinality(others(p)) <= Limit
       /\ row = [p \in Post |->
            IF p \in live
            THEN [state |-> "live", url |-> url[p], null |-> others(p) = {},
                  links |-> Only(others(p))]
            ELSE [state |-> "absent", url |-> NoUrl, null |-> TRUE, links |-> Nobody]]
  /\ scheduled = {}
  /\ job = [w \in Worker |-> NoJob]
  /\ left = [w \in Worker |-> <<>>]
  /\ held = [w \in Worker |-> {}]
  /\ requests = 0 /\ crashes = 0
  /\ tainted = {}

\* dirty: nothing of what it changes has been written yet.  Nothing is promised
\* of a post that two requests are at work on.
Begin(w, kind, me, url) ==
  /\ Idle(w) /\ requests < MaxRequests
  /\ requests' = requests + 1
  /\ job' = [job EXCEPT ![w] =
       [kind |-> kind, of |-> me, url |-> url, at |-> "start", dirty |-> TRUE, seen |-> {},
        copy |-> [p \in Post |-> IF p = me /\ kind \in FlushEarly THEN row[me].links
                                ELSE Nobody]]]
  /\ left' = [left EXCEPT ![w] = Program(kind, me, url)]
  /\ tainted' = IF \E v \in Worker : job[v].of = me THEN tainted \cup {me} ELSE tainted
  /\ UNCHANGED <<held, crashes>>

\* Post.new commits the post before it looks for others; what make_post has
\* committed has no URL yet.
Create(w, kind, me, url) ==
  /\ row[me].state = "absent"
  /\ row' = [row EXCEPT ![me].state = "live",
                        ![me].url = IF kind = "new" THEN url ELSE NoUrl]
  /\ Begin(w, kind, me, url)
  /\ UNCHANGED scheduled
New(w, me, url)      == Create(w, "new", me, url)
Make(w, me, url)     == Create(w, "make", me, url)
\* A post for later gets its status with its URL.
Schedule(w, me, url) == Create(w, "schedule", me, url)

\* edit_post commits before it looks for others: the status, if the post is
\* now for later, and the row must be nobody's.
Unlocked(p) == \A v \in Worker : p \notin held[v]
Edit(w, me, url, later) ==
  /\ row[me].state = "live" /\ url # row[me].url /\ Unlocked(me)
  /\ scheduled' = scheduled \cup later
  /\ Begin(w, "edit", me, url) /\ UNCHANGED row

OnLive(w, kind, me, url) ==
  row[me].state = "live" /\ Begin(w, kind, me, url) /\ UNCHANGED <<row, scheduled>>
Update(w, me, url) == url # row[me].url /\ OnLive(w, "update", me, url)
UpdateAway(w, me)  == row[me].url # NoUrl /\ OnLive(w, "update_away", me, NoUrl)
InboxDelete(w, me) == OnLive(w, "inbox_delete", me, row[me].url)
Ban(w, me)         == OnLive(w, "ban", me, row[me].url)

\* delete_post, mod_remove_post and the task for blocked images do not look
\* whether the post is deleted already, nor do the ways to restore one.
OnAny(w, kind, me) ==
  row[me].state \in {"live", "deleted"} /\ Begin(w, kind, me, row[me].url)
  /\ UNCHANGED <<row, scheduled>>
Delete(w, me)  == OnAny(w, "delete", me)
Restore(w, me) == OnAny(w, "restore", me)
InboxRestore(w, me) ==
  row[me].state = "deleted" /\ Begin(w, "inbox_restore", me, row[me].url)
  /\ UNCHANGED <<row, scheduled>>

(***************************************************************************)
(* What changes the status alone, and looks for no cross posts: an edit    *)
(* that leaves the URL as it is, and the cron job, which has read the post *)
(* before somebody deleted it, perhaps.                                    *)
(***************************************************************************)
Postpone(me) ==
  /\ row[me].state = "live" /\ me \notin scheduled /\ Unlocked(me)
  /\ requests < MaxRequests /\ requests' = requests + 1
  /\ scheduled' = scheduled \cup {me}
  /\ UNCHANGED <<row, job, left, held, crashes, tainted>>
Publish(me) ==
  /\ me \in scheduled /\ row[me].state \in {"live", "deleted"} /\ Unlocked(me)
  /\ scheduled' = scheduled \ {me}
  /\ UNCHANGED <<row, job, left, held, requests, crashes, tainted>>
\* Of a post that repeats a copy is published, list and all (nobody lists an id
\* that is new), that no other post lists: nothing is promised of it.
PublishCopy(me, p) ==
  /\ me \in scheduled /\ row[me].state = "live" /\ row[p].state = "absent"
  /\ row' = [row EXCEPT ![p] = [row[me] EXCEPT !.links[p] = 0]]
  /\ tainted' = tainted \cup {p}
  /\ UNCHANGED <<scheduled, job, left, held, requests, crashes>>

-----------------------------------------------------------------------------
(***************************************************************************)
(* calculate_cross_posts.                                                  *)
(***************************************************************************)
Early(w) == job[w].dirty /\ job[w].kind \in FlushEarly
Own(w) == IF Early(w) THEN job[w].copy[job[w].of] ELSE row[job[w].of].links
Free(w, p) == \A v \in Worker \ {w} : p \notin held[v]

\* An empty list is not cleared, and nothing is committed.
NothingToClear(w) ==
  Does(w, "unlink") /\ Len(left[w]) > 1 /\ Own(w) = Nobody
Skip(w) ==
  /\ At(w, "start") /\ NothingToClear(w)
  /\ left' = [left EXCEPT ![w] = Tail(@)]
  /\ UNCHANGED <<row, scheduled, job, held, requests, crashes, tainted>>

\* The query of a task flushes its own row first.
FlushesFirst(w) == Early(w) /\ ~Does(w, "write") /\ job[w].of \notin held[w]
Flush(w) ==
  /\ At(w, "start") /\ ~NothingToClear(w) /\ FlushesFirst(w)
  /\ Free(w, job[w].of)
  /\ held' = [held EXCEPT ![w] = {job[w].of}]
  /\ UNCHANGED <<row, scheduled, job, left, requests, crashes, tainted>>

Sought(w) ==
  LET me == job[w].of IN
  CASE Does(w, "unlink") -> Published(Listed(Own(w)))
    [] Does(w, "link")   -> Newest(Peers(me, job[w].url), Limit)
    [] Does(w, "write")  -> job[w].seen
Look(w) ==
  /\ At(w, "start") /\ ~NothingToClear(w) /\ ~FlushesFirst(w)
  /\ job' = [job EXCEPT ![w].at = "lock", ![w].seen = Sought(w),
       ![w].copy = [p \in Post |-> CASE p = job[w].of    -> Own(w)
                                     [] p \in Sought(w) -> row[p].links
                                     [] OTHER           -> Nobody]]
  /\ UNCHANGED <<row, scheduled, left, held, requests, crashes, tainted>>

\* The rows whose list it has changed, and to what; the others' lists are as
\* they were when it looked.  The lists of others are added to without a look
\* whether the post is there already.
Changed(w) ==
  LET j == job[w]  me == j.of IN
  CASE Does(w, "unlink") -> IF j.copy[me] = Nobody THEN {}
                            ELSE {me} \cup {p \in j.seen : j.copy[p][me] > 0}
    [] Does(w, "link")   -> IF j.seen = {} THEN {}
                            ELSE {me} \cup {p \in j.seen : Room(j.copy[p])}
    [] Does(w, "write")  -> {}
ListOf(w, p) ==
  LET j == job[w]  me == j.of IN
  CASE Does(w, "unlink") -> IF p = me THEN Nobody ELSE Removed(j.copy[p], me)
    [] Does(w, "link")   -> IF p = me THEN Only(j.seen) ELSE [j.copy[p] EXCEPT ![me] = @ + 1]

\* What is still to lock, and what of it comes first.  SELECT ... FOR UPDATE
\* takes the others in the order of their ids; the own row comes with the
\* commit, whose UPDATEs go by id too.
ToLock(w) ==
  ({job[w].of} \cup Changed(w) \cup (IF Does(w, "link") THEN job[w].seen ELSE {})) \ held[w]
\* Faulty: in the order in which the query has found them.
NewestFirst(S) == CHOOSE p \in S : \A q \in S : q <= p
First(S) == CHOOSE p \in S : \A q \in S : p <= q
NextRow(w) ==
  LET others == ToLock(w) \cap job[w].seen IN
  IF Does(w, "link") /\ others # {} THEN First(others) ELSE First(ToLock(w))
Lock(w) ==
  /\ At(w, "lock") /\ ToLock(w) # {}
  /\ Free(w, NextRow(w))
  /\ held' = [held EXCEPT ![w] = @ \cup {NextRow(w)}]
  /\ UNCHANGED <<row, scheduled, job, left, requests, crashes, tainted>>

\* Faulty: the connection goes back to the pool without a rollback.
KeepLocks(w) == /\ job' = [job EXCEPT ![w] = NoJob]
                /\ left' = [left EXCEPT ![w] = <<>>]
                /\ UNCHANGED held
End(w) == /\ job' = [job EXCEPT ![w] = NoJob]
          /\ left' = [left EXCEPT ![w] = <<>>]
          /\ held' = [held EXCEPT ![w] = {}]

(***************************************************************************)
(* What can go wrong with a commit: a list was changed since it was read   *)
(* (Stale); posts of the address came or went since it looked, or are not  *)
(* published (Missed); a listed post was passed over because it is not     *)
(* published (Skipped); it is in the list already (Again); the list is     *)
(* full (Full); somebody else has been at the own list between two commits *)
(* (Crossed).                                                              *)
(***************************************************************************)
Apart(S, T) == (S \ T) \cup (T \ S)
Stale(w) ==
  LET j == job[w]  me == j.of IN
  {p \in Changed(w) : p # me /\ j.copy[p] # row[p].links}
    \cup (CASE Does(w, "unlink") -> {p \in Post : j.copy[me][p] # row[me].links[p]}
            [] Does(w, "link")   -> Listed(row[me].links) \ j.seen
            [] Does(w, "write")  -> {})
Missed(w) ==
  LET j == job[w] IN
  IF Does(w, "link") \/ (Does(w, "write") /\ Head(left[w]).state # "deleted")
  THEN Apart(Together(j.of, j.url), j.seen) ELSE {}
Skipped(w) ==
  LET j == job[w] IN IF Does(w, "unlink") THEN Listed(j.copy[j.of]) \ j.seen ELSE {}
Again(w) ==
  IF Does(w, "link") THEN {p \in job[w].seen : job[w].copy[p][job[w].of] > 0} ELSE {}
Full(w) ==
  IF Does(w, "link") THEN {p \in job[w].seen : ~Room(job[w].copy[p])} ELSE {}
Crossed(w) ==
  LET j == job[w]  now == row[j.of].links IN
  CASE j.kind = "restore" /\ Does(w, "write") -> Apart(Listed(now), j.seen)
    [] j.kind \in {"delete", "update"} /\ Does(w, "write") -> Listed(now)
    [] OTHER -> {}
Wrong(w) == Stale(w) \cup Missed(w) \cup Skipped(w) \cup Again(w) \cup Full(w) \cup Crossed(w)

Commit(w) ==
  LET t == Head(left[w])  me == job[w].of IN
  /\ At(w, "lock") /\ ToLock(w) = {}
  /\ row' = [p \in Post |->
       [state |-> IF p = me /\ t.state # "same" THEN t.state ELSE row[p].state,
        url   |-> IF p = me /\ t.url # "same" THEN t.url ELSE row[p].url,
        null  |-> row[p].null /\ p \notin Changed(w),
        links |-> IF p \in Changed(w) THEN ListOf(w, p) ELSE row[p].links]]
  /\ scheduled' = IF job[w].kind = "schedule" THEN scheduled \cup {me} ELSE scheduled
  /\ tainted' = IF Wrong(w) = {} THEN tainted ELSE tainted \cup Wrong(w) \cup {me}
  /\ IF Len(left[w]) = 1
     THEN End(w)
     ELSE /\ left' = [left EXCEPT ![w] = Tail(@)]
          /\ held' = [held EXCEPT ![w] = {}]
          /\ job' = [job EXCEPT ![w].at = "start", ![w].dirty = FALSE,
                                ![w].copy = [p \in Post |-> Nobody]]
  /\ UNCHANGED <<requests, crashes>>

(***************************************************************************)
(* Deadlocks: PostgreSQL finds them and rolls one of the transactions      *)
(* back.  make_post then deletes its post, if its session still lets it.   *)
(***************************************************************************)
Wants(w) ==
  IF At(w, "lock") /\ ToLock(w) # {} THEN {NextRow(w)}
  ELSE IF At(w, "start") /\ ~NothingToClear(w) /\ FlushesFirst(w) THEN {job[w].of}
  ELSE {}
InCycle(S) ==
  S # {} /\ \A w \in S : \E v \in S \ {w} : Wants(w) \cap held[v] # {}
Deadlocked(w) == \E S \in SUBSET Worker : w \in S /\ InCycle(S)

Fails(w) ==
  /\ tainted' = tainted \cup {job[w].of}
  /\ End(w)
Victim(w) ==
  /\ Deadlocked(w) /\ Fails(w)
  /\ \/ UNCHANGED row
     \/ job[w].kind \in {"make", "schedule"} /\ row' = [row EXCEPT ![job[w].of].state = "gone"]
  /\ UNCHANGED <<scheduled, requests, crashes>>
Crash(w) ==
  /\ ~Idle(w) /\ crashes < MaxCrashes /\ crashes' = crashes + 1
  /\ Fails(w)
  /\ UNCHANGED <<row, scheduled, requests>>

Work(w) == Skip(w) \/ Flush(w) \/ Look(w) \/ Lock(w) \/ Commit(w)
BeginAny(w, me) ==
  \/ \E url \in Url :
       \/ New(w, me, url) \/ Make(w, me, url) \/ Schedule(w, me, url) \/ Update(w, me, url)
       \/ \E later \in {{}, {me}} : Edit(w, me, url, later)
  \/ UpdateAway(w, me) \/ InboxDelete(w, me) \/ Ban(w, me)
  \/ Delete(w, me) \/ Restore(w, me) \/ InboxRestore(w, me)

StatusOnly(me) == Postpone(me) \/ Publish(me) \/ \E p \in Post : PublishCopy(me, p)

Next ==
  \/ \E w \in Worker :
       (\E me \in Post : BeginAny(w, me)) \/ Work(w) \/ Victim(w) \/ Crash(w)
  \/ \E me \in Post : StatusOnly(me)

Spec == Init /\ [][Next]_vars

\* A worker that can go on does, and the database looks for deadlocks.
FairSpec ==
  /\ Spec
  /\ \A w \in Worker : WF_vars(Work(w))
  /\ WF_vars(\E w \in Worker : Victim(w))

-----------------------------------------------------------------------------
\* The shape of the rows: no list is longer than the limit or holds its own
\* post; a NULL list is empty; no row is locked by two workers.
TypeOK ==
  /\ \A p \in Post :
       /\ row[p].state \in {"absent", "live", "deleted", "gone"}
       /\ row[p].url \in Url \cup {NoUrl}
       /\ row[p].null => row[p].links = Nobody
       /\ row[p].links \in [Post -> 0..Limit]
       /\ Length(row[p].links) <= Limit /\ row[p].links[p] = 0
  /\ \A w \in Worker :
       /\ Idle(w) <=> left[w] = <<>>
       /\ held[w] \subseteq Post
       /\ \A v \in Worker \ {w} : held[v] \cap held[w] = {}
  /\ requests \in 0..MaxRequests /\ crashes \in 0..MaxCrashes
  /\ tainted \subseteq Post /\ scheduled \subseteq Post

\* Requests deadlock on each other only if one of them takes its own row out
\* of turn: it is a task that has flushed it first, or its post is older than
\* one it lists.  And when the same URL comes to several communities at once,
\* which the comment in calculate_cross_posts is about, the new posts do not
\* deadlock if there is an older one that all of them have found.
OutOfTurn(w) ==
  \/ job[w].kind \in FlushEarly
  \/ Does(w, "link") /\ \E p \in job[w].seen : p > job[w].of
IsNew(w) == job[w].kind \in {"new", "make", "schedule"}
NoDeadlock ==
  \A S \in SUBSET Worker : InCycle(S) =>
    /\ \E w \in S : OutOfTurn(w)
    /\ (\A w \in S : IsNew(w)) =>
         ~ \E p \in Post : \A w \in S : p \in job[w].seen /\ p < job[w].of

\* A post lists another if and only if both are there and have the same URL,
\* and just once, when no request is at work on either, unless one of the
\* things above went wrong with one of them.  That holds of a scheduled post
\* too, until a query for published posts has passed over it: what is made or
\* unlinked meanwhile is not put right when it is published.
LinksAgree ==
  \A p, q \in Post \ tainted :
    (\A w \in Worker : job[w].of \notin {p, q}) =>
      row[p].links[q] =
        IF row[p].state = "live" /\ q \in Together(p, row[p].url) THEN 1 ELSE 0

\* Every request ends, whatever deadlock it is in.
EveryRequestEnds == \A w \in Worker : []<>Idle(w)
=============================================================================
