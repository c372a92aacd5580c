---------------------------- MODULE Subscription ----------------------------
(***************************************************************************)
(* Joining and leaving communities and feeds of another instance, where    *)
(* both instances run this code: the ways in and out a user has on the     *)
(* instance at home (app/community/routes.py, app/shared/community.py,     *)
(* app/shared/tasks/follows.py, app/shared/feed.py, app/feed/routes.py,    *)
(* app/user/routes.py), the Follow, Undo, Accept and Reject between the    *)
(* two and what their inboxes do with them (app/activitypub/routes.py).    *)
(*                                                                         *)
(* An operation looks at the tables once when it begins and writes in one  *)
(* or two commits later; a handler of the inbox looks when it takes a      *)
(* message and commits later.  What became of messages on the way is       *)
(* SendQueue's business; here they may be lost, late or repeated.          *)
(***************************************************************************)
EXTENDS Integers, Sequences, FiniteSets

CONSTANTS
  Worker,       \* web workers and celery processes of both instances
  User,         \* people who have their account at home
  Group,        \* communities and feeds of the host
  Feed,         \* those that are feeds: their member rows have no unique key
  MaxRequests,  \* bound: what users and moderators ask for
  MaxFaults     \* bound: messages lost, late or repeated, and crashes

Pair == User \X Group

ASSUME SubscriptionAssumption ==
  /\ IsFiniteSet(User) /\ Feed \subseteq Group
  /\ MaxRequests \in Nat /\ MaxFaults \in Nat

VARIABLES
  member,    \* [Site -> [Pair -> how many member rows]]
  request,   \* [Pair -> how many join requests: rows at home]
  tally,     \* [Site -> [Group -> subscriptions_count]]
  refused,   \* the pairs whose Follow the host rejects: banned, or not public
  out, back, \* [Pair -> messages to the host and to home, in order]
  tasks,     \* the queue of celery at home
  job,       \* [Worker -> the operation or handler it runs]
  requests, faults,
  wants,     \* history: [Pair -> whether the last word was to be a member: the
             \*   user's, or the host's when it has rejected]
  mishaps,   \* history: [Pair -> what went wrong since all was quiet]
  skewed     \* history: the tallies something has gone wrong with

home == <<member, request, tally>>
net  == <<out, back, tasks>>
vars == <<member, request, tally, refused, out, back, tasks, job, requests,
          faults, wants, mishaps, skewed>>

Site == {"home", "host"}
NoJob == [op |-> "none"]
Idle(w) == job[w] = NoJob

-----------------------------------------------------------------------------
(***************************************************************************)
(* What an operation has seen of the tables when it began, as far as it    *)
(* still has a use for it.                                                 *)
(***************************************************************************)
Job(op, k, at, s) ==
  [op |-> op, k |-> k, at |-> at, site |-> s,
   rows |-> IF at \in {"enter", "handle"} THEN member[s][k] ELSE 0,
   asks |-> IF op \in {"Accept", "Reject"} THEN request[k] ELSE 0,
   copy |-> IF at \in {"enter", "handle", "send", "delete"} THEN tally[s][k[2]] ELSE 0]
At(w, at) == ~Idle(w) /\ job[w].at = at
GoTo(w, at) == job' = [job EXCEPT ![w].at = at]
\* Goes on to a step that needs nothing of what was seen.
Forget(w, at) ==
  job' = [job EXCEPT ![w] = [@ EXCEPT !.at = at, !.rows = 0, !.copy = 0]]
End(w) == job' = [job EXCEPT ![w] = NoJob]

Status(k) ==
  IF member["home"][k] > 0 THEN "member"
  ELSE IF request[k] > 0 THEN "pending" ELSE "nonmember"

HomeOp == {"subscribe", "join_then_add", "import", "api_join", "unsubscribe",
           "api_leave", "join_task", "leave_task"}
HandlerOp == {"Follow", "Undo", "Accept", "Reject"}
Joins(op)  == op \in {"subscribe", "join_then_add", "import", "api_join"}
\* join_then_add and both ways of the API leave the count of a community alone.
Counted(op, g) ==
  op \in {"subscribe", "import", "unsubscribe"} \/ (op = "api_leave" /\ g \in Feed)

Busy(k, ops) == \E w \in Worker : job[w].op \in ops /\ job[w].k = k
Queued(k) == \E i \in DOMAIN tasks : tasks[i].k = k
Leaving(k) ==
  \/ Busy(k, {"unsubscribe", "api_leave", "leave_task"})
  \/ \E i \in DOMAIN tasks : tasks[i] = [op |-> "leave_task", k |-> k]
Settled(k) ==
  /\ ~Busy(k, HomeOp \cup HandlerOp) /\ ~Queued(k)
  /\ out[k] = <<>> /\ back[k] = <<>>

Note(k, what, when) ==
  mishaps' = IF when THEN [mishaps EXCEPT ![k] = @ \cup {what}] ELSE mishaps

\* Sets the count from the copy the session has; what others have counted in
\* the meantime is lost.
Count(s, g, copy, d) ==
  /\ tally' = [tally EXCEPT ![s][g] = copy + d]
  /\ skewed' = IF copy = tally[s][g] THEN skewed ELSE skewed \cup {<<s, g>>}
CountIf(w, s, d, rows) ==
  LET g == job[w].k[2] IN
  IF Counted(job[w].op, g)
  THEN /\ tally' = [tally EXCEPT ![s][g] = job[w].copy + d]
       /\ skewed' = IF job[w].copy = tally[s][g] /\ rows = 1
                    THEN skewed ELSE skewed \cup {<<s, g>>}
  ELSE /\ skewed' = IF rows = 0 THEN skewed ELSE skewed \cup {<<s, g>>}
       /\ UNCHANGED tally

-----------------------------------------------------------------------------
Init ==
  /\ \E in \in SUBSET Pair :
       /\ member = [s \in Site |-> [k \in Pair |-> IF k \in in THEN 1 ELSE 0]]
       /\ request = [k \in Pair |-> IF k \in in THEN 1 ELSE 0]
       /\ tally = [s \in Site |-> [g \in Group |->
                     Cardinality({k \in in : k[2] = g})]]
       /\ wants = [k \in Pair |-> k \in in]
  /\ refused = {}
  /\ out = [k \in Pair |-> <<>>] /\ back = [k \in Pair |-> <<>>]
  /\ tasks = <<>>
  /\ job = [w \in Worker |-> NoJob]
  /\ requests = 0 /\ faults = 0
  /\ mishaps = [k \in Pair |-> {}]
  /\ skewed = {}

(***************************************************************************)
(* At home: what the user asks for.                                        *)
(***************************************************************************)
\* A request that begins when everything about the pair has come to rest
\* makes a fresh start: nothing of what went wrong before must still matter,
\* except the second row that people can get in a feed.
Fresh(k) == Settled(k) /\ \A s \in Site : member[s][k] <= 1
Ask(w, op, k, at) ==
  /\ Idle(w) /\ requests < MaxRequests
  /\ requests' = requests + 1
  /\ job' = [job EXCEPT ![w] = Job(op, k, at, "home")]
  /\ wants' = [wants EXCEPT ![k] = Joins(op)]
  /\ mishaps' = [mishaps EXCEPT ![k] =
       IF Fresh(k) THEN {}
       ELSE IF Busy(k, HomeOp) \/ Queued(k) THEN @ \cup {"overlap"} ELSE @]
  /\ UNCHANGED <<member, request, tally, refused, out, back, faults, skewed>>

\* do_subscribe, join_feed
Subscribe(w, k) ==
  /\ Status(k) = "nonmember"
  /\ Ask(w, "subscribe", k, "enter") /\ UNCHANGED tasks
JoinThenAdd(w, k) ==
  /\ k[2] \notin Feed /\ Status(k) = "nonmember"
  /\ Ask(w, "join_then_add", k, "request") /\ UNCHANGED tasks
Import(w, k) ==
  /\ k[2] \notin Feed /\ Status(k) = "nonmember"
  /\ Ask(w, "import", k, "enter") /\ UNCHANGED tasks
\* join_community of the API hands the Follow to celery and looks at nothing.
ApiJoin(w, k) ==
  /\ k[2] \notin Feed
  /\ Ask(w, "api_join", k, "enter")
  /\ tasks' = Append(tasks, [op |-> "join_task", k |-> k])
Unsubscribe(w, k) ==
  /\ Status(k) # "nonmember"
  /\ Ask(w, "unsubscribe", k, "send") /\ UNCHANGED tasks
\* leave_community and leave_feed: .one() raises unless there is just one row.
ApiLeave(w, k) ==
  /\ member["home"][k] = 1
  /\ Ask(w, "api_leave", k, "delete")
  /\ tasks' = Append(tasks, [op |-> "leave_task", k |-> k])

TakeTask(w) ==
  /\ Idle(w) /\ tasks # <<>>
  /\ \E t \in {Head(tasks)} :
       job' = [job EXCEPT ![w] =
         Job(t.op, t.k, IF t.op = "join_task" THEN "request" ELSE "withdraw", "home")]
  /\ tasks' = Tail(tasks)
  /\ UNCHANGED <<member, request, tally, refused, out, back, requests, faults,
                 wants, mishaps, skewed>>

(***************************************************************************)
(* The steps of these operations.                                          *)
(***************************************************************************)
\* The key of community_member keeps a second row out: the commit raises, and
\* the operation ends.
Clash(w) ==
  LET j == job[w] IN
  j.k[2] \notin Feed /\ j.rows = 0 /\ member[j.site][j.k] > 0
Enter(w) ==
  LET k == job[w].k IN
  /\ At(w, "enter")
  /\ IF job[w].rows > 0 \/ Clash(w)
     THEN End(w) /\ UNCHANGED <<member, request, tally, skewed>>
     ELSE /\ member' = [member EXCEPT !["home"][k] = @ + 1]
          /\ request' = [request EXCEPT ![k] =
                           IF job[w].op = "import" THEN @ + 1 ELSE @]
          /\ CountIf(w, "home", 1, 1)
          /\ CASE job[w].op = "subscribe" -> Forget(w, "request")
               [] job[w].op = "import"    -> Forget(w, "send")
               [] OTHER                   -> End(w)
  /\ UNCHANGED <<refused, out, back, tasks, requests, faults, wants, mishaps>>

AddRequest(w) ==
  /\ At(w, "request")
  /\ request' = [request EXCEPT ![job[w].k] = @ + 1]
  /\ GoTo(w, "send")
  /\ UNCHANGED <<member, tally, refused, out, back, tasks, requests, faults,
                 wants, mishaps, skewed>>

Send(w) ==
  LET k == job[w].k IN
  /\ At(w, "send")
  /\ out' = [out EXCEPT ![k] = Append(@,
               IF job[w].op \in {"unsubscribe", "leave_task"} THEN "Undo" ELSE "Follow")]
  /\ CASE job[w].op = "unsubscribe"   -> GoTo(w, "delete")
       [] job[w].op = "join_then_add" -> GoTo(w, "look")
       [] OTHER                       -> End(w)
  /\ UNCHANGED <<member, request, tally, refused, back, tasks, requests,
                 faults, wants, mishaps, skewed>>

\* join_then_add asks whether there is a member only now.
Look(w) ==
  /\ At(w, "look")
  /\ job' = [job EXCEPT ![w] = Job(@.op, @.k, "enter", "home")]
  /\ UNCHANGED <<member, request, tally, refused, out, back, tasks, requests,
                 faults, wants, mishaps, skewed>>

Delete(w) ==
  LET k == job[w].k IN
  /\ At(w, "delete")
  /\ member' = [member EXCEPT !["home"][k] = 0]
  /\ request' = [request EXCEPT ![k] =
       IF job[w].op = "unsubscribe" THEN 0 ELSE @]
  /\ CountIf(w, "home", -1, member["home"][k])
  /\ End(w)
  /\ UNCHANGED <<refused, out, back, tasks, requests, faults, wants, mishaps>>

\* The task of leave_community deletes the first join request and raises when
\* there is none; that of leave_feed deletes them all, and has no name for the
\* one it needs when there was none.  Neither sends an Undo then.
Withdraw(w) ==
  LET k == job[w].k IN
  /\ At(w, "withdraw")
  /\ IF request[k] = 0
     THEN End(w) /\ Note(k, "no request", TRUE) /\ UNCHANGED request
     ELSE /\ request' = [request EXCEPT ![k] = IF k[2] \in Feed THEN 0 ELSE @ - 1]
          /\ GoTo(w, "send")
          /\ Note(k, "one of several", k[2] \notin Feed /\ request[k] > 1)
  /\ UNCHANGED <<member, tally, refused, out, back, tasks, requests, faults,
                 wants, skewed>>

(***************************************************************************)
(* The inboxes.  A message that is late is handled before earlier ones are *)
(* or while one of them is.                                                *)
(***************************************************************************)
Without(q, i) == SubSeq(q, 1, i - 1) \o SubSeq(q, i + 1, Len(q))
Late(k, i, s) == i > 1 \/ \E w \in Worker :
                   job[w].op \in HandlerOp /\ job[w].k = k /\ job[w].site = s

HostReceives(w, k, i) ==
  /\ Idle(w) /\ i \in DOMAIN out[k]
  /\ Late(k, i, "host") => faults < MaxFaults
  /\ faults' = IF Late(k, i, "host") THEN faults + 1 ELSE faults
  /\ Note(k, "late", Late(k, i, "host"))
  /\ out' = [out EXCEPT ![k] = Without(@, i)]
  /\ job' = [job EXCEPT ![w] = Job(out[k][i], k, "handle", "host")]
  /\ UNCHANGED <<member, request, tally, refused, back, tasks, requests, wants,
                 skewed>>

HomeReceives(w, k, i) ==
  /\ Idle(w) /\ i \in DOMAIN back[k]
  /\ Late(k, i, "home") => faults < MaxFaults
  /\ faults' = IF Late(k, i, "home") THEN faults + 1 ELSE faults
  /\ Note(k, "late", Late(k, i, "home"))
  /\ back' = [back EXCEPT ![k] = Without(@, i)]
  /\ job' = [job EXCEPT ![w] = Job(back[k][i], k, "handle", "home")]
  /\ UNCHANGED <<member, request, tally, refused, out, tasks, requests, wants,
                 skewed>>

Handles(w, what) == At(w, "handle") /\ job[w].op = what
Finish(w) ==
  End(w) /\ UNCHANGED <<refused, tasks, requests, faults>>

\* Only a Follow that makes a member is answered; one that finds it there, or
\* loses the race for the row, is not.
HostFollows(w) ==
  LET k == job[w].k IN
  /\ Handles(w, "Follow")
  /\ IF k \in refused
     THEN /\ back' = [back EXCEPT ![k] = Append(@, "Reject")]
          /\ Note(k, "rejected member", member["host"][k] > 0)
          /\ UNCHANGED <<member, tally, skewed>>
     ELSE IF job[w].rows > 0 \/ Clash(w)
     THEN UNCHANGED <<member, tally, skewed, back, mishaps>>
     ELSE /\ member' = [member EXCEPT !["host"][k] = @ + 1]
          /\ Count("host", k[2], job[w].copy, 1)
          /\ back' = [back EXCEPT ![k] = Append(@, "Accept")]
          /\ UNCHANGED mishaps
  /\ Finish(w) /\ UNCHANGED <<request, out, wants>>

\* Faulty: the member is counted out but stays.
MemberStays(n) == n
OneLess(n) == IF n > 0 THEN n - 1 ELSE 0
HostUndoes(w) ==
  LET k == job[w].k IN
  /\ Handles(w, "Undo")
  /\ IF job[w].rows = 0
     THEN UNCHANGED <<member, tally, skewed>>
     ELSE /\ member' = [member EXCEPT !["host"][k] = OneLess(@)]
          /\ tally' = [tally EXCEPT !["host"][k[2]] = job[w].copy - 1]
          /\ skewed' = IF job[w].copy = tally["host"][k[2]] /\ member["host"][k] > 0
                       THEN skewed ELSE skewed \cup {<<"host", k[2]>>}
  /\ Finish(w) /\ UNCHANGED <<request, out, back, wants, mishaps>>

\* What the handler saw is no longer so when it writes.
Outdated(w) ==
  job[w].rows # member["home"][job[w].k] \/ job[w].asks # request[job[w].k]

\* Faulty: whoever is accepted becomes a member.
AcceptsAnybody(w) == job[w].rows = 0
Awaited(w) == job[w].asks > 0 /\ job[w].rows = 0
HomeAccepted(w) ==
  LET k == job[w].k IN
  /\ Handles(w, "Accept")
  /\ IF ~Awaited(w) \/ Clash(w)
     THEN UNCHANGED <<member, tally, skewed, mishaps>>
     ELSE /\ member' = [member EXCEPT !["home"][k] = @ + 1]
          /\ Count("home", k[2], job[w].copy, 1)
          /\ Note(k, "accepted while leaving", Outdated(w) \/ Leaving(k))
  /\ Finish(w) /\ UNCHANGED <<request, out, back, wants>>

\* A Reject takes the member out again but not out of the count.  It may be
\* for a Follow the user has taken back, and meet one that will be accepted.
HomeRejected(w) ==
  LET k == job[w].k IN
  /\ Handles(w, "Reject")
  /\ request' = [request EXCEPT ![k] = IF job[w].asks > 0 THEN OneLess(@) ELSE @]
  /\ member' = [member EXCEPT !["home"][k] = IF job[w].rows > 0 THEN OneLess(@) ELSE @]
  /\ skewed' = IF member' = member THEN skewed ELSE skewed \cup {<<"home", k[2]>>}
  /\ Note(k, "crossed", Outdated(w) \/ out[k] # <<>> \/ Busy(k, HomeOp \cup {"Follow"})
                         \/ Queued(k) \/ member["host"][k] > 0 \/ request[k] > 1)
  /\ wants' = [wants EXCEPT ![k] = FALSE]
  /\ Finish(w) /\ UNCHANGED <<tally, out, back>>

(***************************************************************************)
(* The host changes its mind about somebody, and the faults.               *)
(***************************************************************************)
Refuse(k) ==
  /\ requests < MaxRequests /\ requests' = requests + 1
  /\ refused' = IF k \in refused THEN refused \ {k} ELSE refused \cup {k}
  /\ UNCHANGED <<member, request, tally, out, back, tasks, job, faults, wants,
                 mishaps, skewed>>

Fault(k, what) ==
  /\ faults < MaxFaults /\ faults' = faults + 1
  /\ Note(k, what, TRUE)
  /\ UNCHANGED <<member, request, tally, refused, tasks, requests, wants, skewed>>
Lose(k) ==
  /\ \/ out[k] # <<>> /\ out' = [out EXCEPT ![k] = Tail(@)] /\ UNCHANGED back
     \/ back[k] # <<>> /\ back' = [back EXCEPT ![k] = Tail(@)] /\ UNCHANGED out
  /\ Fault(k, "lost") /\ UNCHANGED job
Repeat(k) ==
  /\ \/ out[k] # <<>> /\ out' = [out EXCEPT ![k] = Append(@, Head(@))] /\ UNCHANGED back
     \/ back[k] # <<>> /\ back' = [back EXCEPT ![k] = Append(@, Head(@))] /\ UNCHANGED out
  /\ Fault(k, "repeated") /\ UNCHANGED job
Crash(w) ==
  /\ ~Idle(w) /\ Fault(job[w].k, "crash") /\ End(w) /\ UNCHANGED <<out, back>>

\* update_community_stats counts the rows every night.
Recount(s, g) ==
  /\ g \notin Feed /\ <<s, g>> \in skewed
  /\ tally' = [tally EXCEPT ![s][g] =
                 Cardinality({u \in User : member[s][<<u, g>>] > 0})]
  /\ skewed' = skewed \ {<<s, g>>}
  /\ UNCHANGED <<member, request, refused, out, back, tasks, job, requests,
                 faults, wants, mishaps>>

UserAsks(w, k) ==
  \/ Subscribe(w, k) \/ JoinThenAdd(w, k) \/ Import(w, k) \/ ApiJoin(w, k)
  \/ Unsubscribe(w, k) \/ ApiLeave(w, k)
Work(w) ==
  \/ TakeTask(w) \/ Enter(w) \/ AddRequest(w) \/ Send(w) \/ Look(w)
  \/ Delete(w) \/ Withdraw(w)
  \/ HostFollows(w) \/ HostUndoes(w) \/ HomeAccepted(w) \/ HomeRejected(w)
Receive(w, k) ==
  \E i \in 1..3 : HostReceives(w, k, i) \/ HomeReceives(w, k, i)

Next ==
  \/ \E w \in Worker :
       \/ \E k \in Pair : UserAsks(w, k) \/ Receive(w, k)
       \/ Work(w) \/ Crash(w)
  \/ \E k \in Pair : Refuse(k) \/ Lose(k) \/ Repeat(k)
  \/ \E s \in Site, g \in Group : Recount(s, g)

Spec == Init /\ [][Next]_vars

-----------------------------------------------------------------------------
Task == [op : {"join_task", "leave_task"}, k : Pair]
Running ==
  [op : HomeOp \cup HandlerOp, k : Pair, site : Site,
   at : {"enter", "request", "send", "look", "delete", "withdraw", "handle"},
   rows : Nat, asks : Nat, copy : Int]

TypeOK ==
  /\ member \in [Site -> [Pair -> Nat]]
  /\ \A s \in Site, k \in Pair : k[2] \notin Feed => member[s][k] <= 1
  /\ request \in [Pair -> Nat]
  /\ tally \in [Site -> [Group -> Int]]
  /\ refused \subseteq Pair
  /\ out \in [Pair -> Seq({"Follow", "Undo"})]
  /\ back \in [Pair -> Seq({"Accept", "Reject"})]
  /\ tasks \in Seq(Task)
  /\ job \in [Worker -> Running \cup {NoJob}]
  /\ requests \in 0..MaxRequests /\ faults \in 0..MaxFaults
  /\ wants \in [Pair -> BOOLEAN]
  /\ skewed \subseteq Site \X Group

\* When everything has come to rest, and nothing has gone wrong since it last
\* did, the two instances agree on who is a member, and it is whom it should
\* be: who joined and was not rejected, and nobody who has left, however soon
\* after joining and whatever answer was still on its way.
InstancesAgree ==
  \A k \in Pair : Settled(k) /\ mishaps[k] = {} =>
    /\ (member["home"][k] > 0) = (member["host"][k] > 0)
    /\ ~wants[k] => member["home"][k] = 0 /\ request[k] = 0
    /\ wants[k] => member["home"][k] > 0

\* The count of a group is that of its member rows, unless one of these has
\* happened to it: a stale copy was written back, the operation was one of
\* those that do not count, or somebody was rejected.
MemberRows(s, g) == UNION {{u} \X (1 .. member[s][<<u, g>>]) : u \in User}
CountsAgree ==
  \A s \in Site, g \in Group : <<s, g>> \notin skewed =>
    tally[s][g] = Cardinality(MemberRows(s, g))
=============================================================================
