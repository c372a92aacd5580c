------------------------------ MODULE Content ------------------------------
(***************************************************************************)
(* The life of posts and comments and the counters that follow it:         *)
(* creation, deletion and restoration by their authors, by moderators and  *)
(* by other instances (app/shared/post.py, app/shared/reply.py,            *)
(* app/models.py, app/activitypub/util.py), the removal of the content of  *)
(* banned or leaving people, and the task that counts again every night    *)
(* (app/shared/tasks/maintenance.py).                                      *)
(*                                                                         *)
(* Each operation is a program of transactions.  A transaction reads the   *)
(* counters it is going to change into ORM objects, and its commit writes  *)
(* what was read plus the change; changes made by an UPDATE statement are  *)
(* applied to what is stored.  The redis locks these functions take are    *)
(* asked for after the objects were read and enclose single commits, so    *)
(* they restrict none of the steps below: all they add is that asking may  *)
(* time out, which Abort does.  One community.                             *)
(***************************************************************************)
EXTENDS Integers, Sequences, FiniteSets

CONSTANTS
  Worker,       \* web workers and celery processes
  User,
  Local,        \* the users who have their account here
  Bot,          \* the users who are marked as bots
  Post, Reply,
  AuthorOf,     \* who wrote each post and each comment
  PostOf,       \* the post each comment belongs to
  Above,        \* the comments each comment is below: path without itself
  MaxRequests,  \* bound: operations begun
  MaxAborts     \* bound: operations that end half way

Object == Post \cup Reply

ASSUME ContentAssumption ==
  /\ IsFiniteSet(Post) /\ IsFiniteSet(Reply) /\ Post \cap Reply = {}
  /\ Local \subseteq User /\ Bot \subseteq User
  /\ AuthorOf \in [Object -> User]
  /\ PostOf \in [Reply -> Post]
  /\ Above \in [Reply -> SUBSET Reply]
  /\ MaxRequests \in Nat /\ MaxAborts \in Nat

VARIABLES
  status,    \* [Object -> the row: "absent", "live", or "deleted" (softly)]
  count,     \* [Counter -> the committed value of the column]
  job,       \* [Worker -> the operation it performs]
  left,      \* [Worker -> the transactions of it that are still to do]
  tx,        \* [Worker -> the transaction it has read the objects for]
  active,    \* whether the community was active in the last three days
  requests, aborts,
  tainted,   \* history: the counters something has gone wrong with
  fresh      \* history: the workers nobody has committed behind the back of

contentVars ==
  <<status, count, job, left, tx, active, requests, aborts, tainted,
    fresh>>

-----------------------------------------------------------------------------
(***************************************************************************)
(* Counters.                                                               *)
(***************************************************************************)
Posts    == <<"community", "post_count">>
Comments == <<"community", "post_reply_count">>
PostsBy(u)    == <<"post_count", u>>
CommentsBy(u) == <<"post_reply_count", u>>
RepliesTo(p)  == <<"reply_count", p>>
Below(r)      == <<"child_count", r>>

OfCommunity == {Posts, Comments}
Counter == OfCommunity \cup {PostsBy(u) : u \in User}
             \cup {CommentsBy(u) : u \in User} \cup {RepliesTo(p) : p \in Post}
             \cup {Below(r) : r \in Reply}

Mine(o) == IF o \in Post THEN PostsBy(AuthorOf[o]) ELSE CommentsBy(AuthorOf[o])
IsBot(o) == AuthorOf[o] \in Bot
Parents(r) == {Below(a) : a \in Above[r]}
\* Comments by bots count neither for the post nor, as a rule, for the community.
OnPost(r) == IF IsBot(r) THEN {} ELSE {RepliesTo(PostOf[r])}
OnPostAndCommunity(r) ==
  IF IsBot(r) THEN {} ELSE {RepliesTo(PostOf[r]), Comments}

\* What each counter is there to say.
Live(S) == {o \in S : status[o] = "live"}
Says ==
  [c \in Counter |->
     {p \in Post : c \in {Posts, Mine(p)}}
       \cup {r \in Reply : c \in {Comments, Mine(r)} \cup OnPost(r) \cup Parents(r)}]
Actual(c) == Cardinality(Live(Says[c]))

-----------------------------------------------------------------------------
(***************************************************************************)
(* Transactions: the rows it writes and to what, what it adds to counters  *)
(* through ORM objects (orm) and by UPDATE statements (sql), the counters  *)
(* it sets and to what, and, once the objects are read, their copies and   *)
(* the rows that have already got the value they are given (same).         *)
(***************************************************************************)
Zero == [c \in Counter |-> 0]
Shift(S, d) == [c \in Counter |-> IF c \in S THEN d ELSE 0]

Tx(objs, to, orm, sql) ==
  [rows |-> objs, to |-> to, orm |-> orm, sql |-> sql,
   sets |-> {}, value |-> Zero, copy |-> Zero, same |-> {}, read |-> FALSE]
Nothing == Tx({}, "live", Zero, Zero)
Counts(S, d) == Tx({}, "live", Shift(S, d), Zero)

\* Faulty: what is edited counts as not deleted.
EditRevives(o) == Tx({o}, "live", Zero, Zero)
\* What edit_post commits touches none of these counters.
EditPost(o) == Nothing
\* make_post: the row; then the counts; then edit_post fills in the rest.
MakePost(o) ==
  <<Tx({o}, "live", Zero, Zero), Counts({Posts, Mine(o)}, 1), EditPost(o)>>
\* Post.new: everything that counts in one commit.
NewPost(o) == <<Tx({o}, "live", Shift({Posts}, 1), Shift({Mine(o)}, 1))>>
\* PostReply.new: the row; the parents' child_count, committed while people
\* are notified; the counts.
NewReply(o) ==
  <<Tx({o}, "live", Zero, Zero),
    Tx({}, "live", Zero, Shift(Parents(o), 1)),
    Tx({}, "live", Shift(OnPostAndCommunity(o), 1), Shift({Mine(o)}, 1))>>
\* retrieve_mods_and_backfill counts once more what PostReply.new has counted.
Backfill(o) == NewReply(o) \o <<Counts({Comments}, 1)>>

\* Faulty: the author's count is left alone.
ForgetAuthor(o) == <<Tx({o}, "deleted", Shift({Posts}, -1), Zero)>>
DeletePost(o) == <<Tx({o}, "deleted", Shift({Posts, Mine(o)}, -1), Zero)>>
RestorePost(o) == <<Tx({o}, "live", Shift({Posts, Mine(o)}, 1), Zero)>>
InboxDeletePost(o) ==
  <<Tx({o}, "deleted", Zero, Zero), Counts({Posts, Mine(o)}, -1)>>

DeleteReply(o) ==
  <<Tx({o}, "deleted", Shift(OnPostAndCommunity(o) \cup {Mine(o)}, -1),
       Shift(Parents(o), -1))>>
ModRemoveReply(o) ==
  <<Tx({o}, "deleted", Shift(OnPost(o) \cup {Mine(o)}, -1),
       Shift(Parents(o), -1))>>
RestoreReply(o) ==
  <<Tx({o}, "live", Shift(OnPost(o) \cup {Mine(o)}, 1), Shift(Parents(o), 1))>>
InboxDeleteReply(o) ==
  <<Tx({o}, "deleted", Zero, Shift(Parents(o), -1)),
    Counts({Mine(o)}, -1), Counts(OnPost(o), -1), Counts({Comments}, -1)>>

\* The bans that remove content delete what is live when they get to it, first
\* the comments and then the posts: what that is only shows when they read.
\* site_ban_remove_data resets post_count, but of comments it resets an
\* attribute that is no column.
By(u, S) == {o \in S : AuthorOf[o] = u}
Removal(objs, S) ==
  Tx(objs, "deleted",
     [c \in Counter |-> IF c \in S
                        THEN -Cardinality({o \in objs : c \in {Mine(o)} \cup
                          (IF o \in Post THEN {Posts} ELSE {Comments} \cup OnPost(o))})
                        ELSE 0],
     [c \in Counter |-> -Cardinality({o \in objs \cap Reply : c \in Parents(o)})])
BanReplies(kind, u) ==
  Removal(Live(By(u, Reply)),
       IF kind = "site_ban" THEN Counter \ {CommentsBy(u)} ELSE Counter)
BanPosts(kind, u) ==
  IF kind = "site_ban"
  THEN [Removal(Live(By(u, Post)), {Posts}) EXCEPT !.sets = {PostsBy(u)}]
  ELSE Removal(Live(By(u, Post)), Counter)
\* User.purge_content(soft) changes no counter at all.
PurgeContent(u) ==
  Tx({o \in By(u, Object) : status[o] # "absent"}, "deleted", Zero, Zero)
\* update_community_stats counts the rows.
CountAgain ==
  [Nothing EXCEPT !.sets = OfCommunity, !.value = [c \in Counter |-> Actual(c)]]

Program(j) ==
  CASE j.kind = "make_post"          -> MakePost(j.of)
    [] j.kind = "new_post"           -> NewPost(j.of)
    [] j.kind = "new_reply"          -> NewReply(j.of)
    [] j.kind = "backfill"           -> Backfill(j.of)
    [] j.kind = "delete_post"        -> DeletePost(j.of)
    [] j.kind = "inbox_delete_post"  -> InboxDeletePost(j.of)
    [] j.kind = "restore_post"       -> RestorePost(j.of)
    [] j.kind = "delete_reply"       -> DeleteReply(j.of)
    [] j.kind = "mod_remove_reply"   -> ModRemoveReply(j.of)
    [] j.kind = "inbox_delete_reply" -> InboxDeleteReply(j.of)
    [] j.kind \in {"restore_reply", "restore_any_reply"} -> RestoreReply(j.of)
    [] j.kind \in {"site_ban", "community_ban"} -> <<Nothing, Nothing>>
    [] OTHER -> <<Nothing>>

\* The transaction a worker is about to read for.
Due(w) ==
  LET j == job[w] IN
  CASE j.kind \in {"site_ban", "community_ban"} ->
         IF Len(left[w]) = 2 THEN BanReplies(j.kind, j.of) ELSE BanPosts(j.kind, j.of)
    [] j.kind = "purge_content" -> PurgeContent(j.of)
    [] j.kind = "stats" -> CountAgain
    [] OTHER -> Head(left[w])

\* The operations whose query finds no row unless it is live, or deleted.
Finds(j) ==
  /\ j.kind \in {"delete_reply", "mod_remove_reply"} => status[j.of] = "live"
  /\ j.kind = "restore_reply" => status[j.of] = "deleted"
  /\ j.kind = "stats" => active
Creating == {"make_post", "new_post", "new_reply", "backfill"}

\* The counters that an operation leaves out although the rows it changes are
\* what they count, or counts twice.
Uneven(j) ==
  CASE j.kind \in {"mod_remove_reply", "restore_reply", "restore_any_reply",
                   "backfill"} -> {Comments}
    [] j.kind \in {"new_reply", "delete_reply", "inbox_delete_reply"} ->
         IF IsBot(j.of) THEN {Comments} ELSE {}
    [] j.kind = "site_ban" -> {CommentsBy(j.of)}
    [] j.kind = "purge_content" ->
         OfCommunity \cup {PostsBy(j.of), CommentsBy(j.of)}
           \cup UNION {OnPost(r) \cup Parents(r) : r \in By(j.of, Reply)}
    [] OTHER -> {}

-----------------------------------------------------------------------------
(***************************************************************************)
(* Workers.                                                                *)
(***************************************************************************)
NoJob == [kind |-> "none", of |-> "nothing"]
Idle(w)   == job[w] = NoJob
HalfWay(w) == ~Idle(w) /\ Len(left[w]) < Len(Program(job[w]))
Touches(t) == {c \in Counter : t.orm[c] # 0 \/ t.sql[c] # 0 \/ c \in t.sets}
StillToCount(w) == UNION {Touches(left[w][i]) : i \in DOMAIN left[w]}

\* Some content is there already, and counted.
ContentInit ==
  /\ status \in [Object -> {"absent", "live", "deleted"}]
  /\ \A r \in Reply : status[r] # "absent" =>
       status[PostOf[r]] # "absent" /\ \A a \in Above[r] : status[a] # "absent"
  /\ count = [c \in Counter |-> Actual(c)]
  /\ job = [w \in Worker |-> NoJob]
  /\ left = [w \in Worker |-> <<>>]
  /\ tx = [w \in Worker |-> Nothing]
  /\ active = TRUE
  /\ requests = 0 /\ aborts = 0
  /\ tainted = {}
  /\ fresh = {}

Begin(w, j) ==
  /\ Idle(w) /\ requests < MaxRequests
  /\ job' = [job EXCEPT ![w] = j]
  /\ left' = [left EXCEPT ![w] = Program(j)]
  /\ requests' = requests + 1
  /\ UNCHANGED <<status, count, tx, active, aborts, tainted, fresh>>

OnObject(w, kind, o) == Begin(w, [kind |-> kind, of |-> o])

\* An object made here is new; one from elsewhere may arrive more than once.
Unheard(o) == status[o] = "absent"
             /\ (AuthorOf[o] \in Local => \A v \in Worker : job[v].of # o)
BeginMakePost(w, p) ==
  AuthorOf[p] \in Local /\ Unheard(p) /\ OnObject(w, "make_post", p)
BeginNewPost(w, p) ==
  AuthorOf[p] \notin Local /\ Unheard(p) /\ OnObject(w, "new_post", p)
BeginNewReply(w, r) ==
  /\ Unheard(r) /\ status[PostOf[r]] # "absent"
  /\ \A a \in Above[r] : status[a] # "absent"
  /\ OnObject(w, "new_reply", r)
BeginBackfill(w, r) ==
  /\ AuthorOf[r] \notin Local /\ Unheard(r) /\ status[PostOf[r]] # "absent"
  /\ \A a \in Above[r] : status[a] # "absent"
  /\ OnObject(w, "backfill", r)

\* Neither delete_post nor mod_remove_post nor their reverses look whether the
\* post is deleted already; the inbox looks before it calls.
BeginDeletePost(w, p) ==
  AuthorOf[p] \in Local /\ status[p] # "absent" /\ OnObject(w, "delete_post", p)
BeginModRemovePost(w, p) == status[p] # "absent" /\ OnObject(w, "delete_post", p)
BeginBlockedImage(w, p) == status[p] # "absent" /\ OnObject(w, "delete_post", p)
BeginRemoveOld(w, p) == status[p] = "live" /\ OnObject(w, "delete_post", p)
BeginRestorePost(w, p) ==
  AuthorOf[p] \in Local /\ status[p] # "absent" /\ OnObject(w, "restore_post", p)
BeginModRestorePost(w, p) == status[p] # "absent" /\ OnObject(w, "restore_post", p)
BeginInboxDeletePost(w, p) == status[p] = "live" /\ OnObject(w, "inbox_delete_post", p)
BeginInboxRestorePost(w, p) == status[p] = "deleted" /\ OnObject(w, "restore_post", p)

BeginDeleteReply(w, r) ==
  AuthorOf[r] \in Local /\ status[r] = "live" /\ OnObject(w, "delete_reply", r)
BeginModRemoveReply(w, r) == status[r] = "live" /\ OnObject(w, "mod_remove_reply", r)
BeginRestoreReply(w, r) ==
  AuthorOf[r] \in Local /\ status[r] = "deleted" /\ OnObject(w, "restore_reply", r)
BeginModRestoreReply(w, r) ==
  status[r] = "deleted" /\ OnObject(w, "restore_reply", r)
BeginInboxDeleteReply(w, r) == status[r] = "live" /\ OnObject(w, "inbox_delete_reply", r)
BeginInboxRestoreReply(w, r) ==
  status[r] = "deleted" /\ OnObject(w, "restore_any_reply", r)
\* The page's own way to restore looks at nothing.
BeginPageRestoreReply(w, r) ==
  status[r] # "absent" /\ OnObject(w, "restore_any_reply", r)

BeginSiteBan(w, u) == u \notin Local /\ OnObject(w, "site_ban", u)
BeginCommunityBan(w, u) == OnObject(w, "community_ban", u)
BeginPurge(w, u) == OnObject(w, "purge_content", u)

\* cron starts the count every night; it is no request.
BeginStats(w) ==
  /\ Idle(w) /\ active
  /\ \A v \in Worker : job[v].kind # "stats"
  /\ job' = [job EXCEPT ![w] = [kind |-> "stats", of |-> "nothing"]]
  /\ left' = [left EXCEPT ![w] = <<Nothing>>]
  /\ UNCHANGED <<status, count, tx, active, requests, aborts, tainted, fresh>>

\* Ends the operation: what is left of it is never done.
End(w) ==
  /\ job' = [job EXCEPT ![w] = NoJob]
  /\ left' = [left EXCEPT ![w] = <<>>]
  /\ tx' = [tx EXCEPT ![w] = Nothing]

\* The objects of the next transaction are read.  The ORM sends no UPDATE for
\* a value that equals the one it has read.
Copied(t) ==
  [c \in Counter |-> IF t.orm[c] # 0 \/ c \in t.sets THEN count[c] ELSE 0]
Inserts(w) == job[w].kind \in Creating /\ ~HalfWay(w)
AsRead(w, t) == IF Inserts(w) THEN {} ELSE {o \in t.rows : status[o] = t.to}
ReadObjects(w) ==
  /\ ~Idle(w) /\ ~tx[w].read
  /\ HalfWay(w) \/ Finds(job[w])
  /\ \E t \in {Due(w)} :
         /\ tx' = [tx EXCEPT ![w] =
                      [t EXCEPT !.copy = Copied(t), !.same = AsRead(w, t), !.read = TRUE]]
         /\ fresh' = IF t.sets = {} THEN fresh ELSE fresh \cup {w}
  /\ UNCHANGED <<status, count, job, left, active, requests, aborts, tainted>>

FindsNothing(w) ==
  /\ ~Idle(w) /\ ~tx[w].read /\ ~HalfWay(w) /\ ~Finds(job[w])
  /\ End(w)
  /\ UNCHANGED <<status, count, active, requests, aborts, tainted, fresh>>

\* An insert finds the row there, or an update finds it gone: nothing is
\* written, and the operation ends.  (Other columns of a row that is the same
\* may have changed or not, so its UPDATE may be sent or not.)
Conflicts(w, objs) == \E o \in objs : (status[o] # "absent") = Inserts(w)
Conflict(w) ==
  /\ tx[w].read /\ Conflicts(w, tx[w].rows)
  /\ End(w)
  /\ UNCHANGED <<status, count, active, requests, aborts, tainted, fresh>>

\* What is set without regard to what is stored is right only if nobody else
\* is half way or has committed since the objects were read.
Written(t) == {c \in t.sets : t.value[c] # t.copy[c]}
Undisturbed(w) == w \in fresh /\ \A v \in Worker \ {w} : ~HalfWay(v)
Stale(t) == {c \in Counter : t.orm[c] # 0 /\ t.copy[c] # count[c]}
Sent(t) == t.rows \ t.same
Again(t) == t.same # {} \/ \E o \in t.rows : status[o] = t.to

Stored(t, c) ==
  IF c \in Written(t) THEN t.value[c]
  ELSE t.sql[c] + (IF t.orm[c] = 0 THEN count[c] ELSE t.copy[c] + t.orm[c])

Commit(w) ==
  LET t == tx[w] IN
  /\ t.read /\ ~Conflicts(w, Sent(t))
  /\ status' = [o \in Object |-> IF o \in Sent(t) THEN t.to ELSE status[o]]
  /\ count' = [c \in Counter |-> Stored(t, c)]
  /\ tainted' =
       (IF Undisturbed(w) THEN tainted \ t.sets ELSE tainted \cup Written(t))
         \cup Stale(t) \cup Uneven(job[w])
         \cup (IF Again(t) THEN Touches(t) \cup StillToCount(w) ELSE {})
  /\ fresh' = {}
  /\ active' = (active \/ job[w].kind \in Creating)
  /\ IF Len(left[w]) = 1
     THEN End(w)
     ELSE /\ left' = [left EXCEPT ![w] = Tail(@)]
          /\ tx' = [tx EXCEPT ![w] = Nothing]
          /\ UNCHANGED job
  /\ UNCHANGED <<requests, aborts>>

\* The process dies, a lock cannot be had in time, or a request to elsewhere
\* raises: the session is rolled back and the rest is not done.
Abort(w) ==
  /\ ~Idle(w) /\ aborts < MaxAborts
  /\ aborts' = aborts + 1
  /\ tainted' = tainted \cup (IF HalfWay(w) THEN StillToCount(w) ELSE {})
  /\ End(w)
  /\ UNCHANGED <<status, count, active, requests, fresh>>

\* edit_post refuses (a blocked domain or image): make_post deletes the row it
\* has inserted and leaves what it has counted.  In the moment since nobody
\* has commented on it.
EditRaises(w) ==
  LET p == job[w].of IN
  /\ job[w].kind = "make_post" /\ Len(left[w]) = 1
  /\ status[p] # "absent" /\ aborts < MaxAborts
  /\ \A r \in Reply : PostOf[r] = p =>
       status[r] = "absent" /\ \A v \in Worker : job[v].of # r
  /\ status' = [status EXCEPT ![p] = "absent"]
  /\ tainted' = tainted \cup {Posts, Mine(p)}
  /\ aborts' = aborts + 1
  /\ fresh' = {}
  /\ End(w)
  /\ UNCHANGED <<count, active, requests>>

\* Three days pass without activity.
Quieten == active /\ active' = FALSE
           /\ UNCHANGED <<status, count, job, left, tx, requests, aborts, tainted, fresh>>

BeginPost(w, p) ==
  \/ BeginMakePost(w, p) \/ BeginNewPost(w, p)
  \/ BeginDeletePost(w, p) \/ BeginModRemovePost(w, p)
  \/ BeginBlockedImage(w, p) \/ BeginRemoveOld(w, p)
  \/ BeginInboxDeletePost(w, p) \/ BeginRestorePost(w, p)
  \/ BeginModRestorePost(w, p) \/ BeginInboxRestorePost(w, p)
BeginReply(w, r) ==
  \/ BeginNewReply(w, r) \/ BeginBackfill(w, r)
  \/ BeginDeleteReply(w, r) \/ BeginModRemoveReply(w, r)
  \/ BeginInboxDeleteReply(w, r)
  \/ BeginRestoreReply(w, r) \/ BeginModRestoreReply(w, r)
  \/ BeginInboxRestoreReply(w, r) \/ BeginPageRestoreReply(w, r)
BeginForUser(w, u) ==
  BeginSiteBan(w, u) \/ BeginCommunityBan(w, u) \/ BeginPurge(w, u)
Proceed(w) ==
  ReadObjects(w) \/ FindsNothing(w) \/ Conflict(w) \/ Commit(w)

ContentNext ==
  \/ \E w \in Worker :
       \/ \E p \in Post : BeginPost(w, p)
       \/ \E r \in Reply : BeginReply(w, r)
       \/ \E u \in User : BeginForUser(w, u)
       \/ BeginStats(w) \/ Proceed(w) \/ Abort(w) \/ EditRaises(w)
  \/ Quieten

ContentSpec == ContentInit /\ [][ContentNext]_contentVars

-----------------------------------------------------------------------------
Delta == [Counter -> Int]
Transaction ==
  [rows : SUBSET Object, to : {"live", "deleted"}, orm : Delta, sql : Delta,
   sets : SUBSET Counter, value : Delta, copy : Delta, same : SUBSET Object,
   read : BOOLEAN]
OfPost == {"make_post", "new_post", "delete_post", "inbox_delete_post", "restore_post"}
OfReply ==
  {"new_reply", "backfill", "delete_reply", "mod_remove_reply", "inbox_delete_reply",
   "restore_reply", "restore_any_reply"}
OfUser == {"site_ban", "community_ban", "purge_content"}
Job ==
  [kind : OfPost, of : Post] \cup [kind : OfReply, of : Reply]
    \cup [kind : OfUser, of : User] \cup [kind : {"stats", "none"}, of : {"nothing"}]

ContentTypeOK ==
  /\ status \in [Object -> {"absent", "live", "deleted"}]
  /\ count \in Delta
  /\ job \in [Worker -> Job]
  /\ left \in [Worker -> Seq(Transaction)]
  /\ tx \in [Worker -> Transaction]
  /\ \A w \in Worker : (Idle(w) <=> left[w] = <<>>) /\ (tx[w].read => ~Idle(w))
  /\ active \in BOOLEAN
  /\ requests \in 0..MaxRequests /\ aborts \in 0..MaxAborts
  /\ tainted \subseteq Counter
  /\ fresh \subseteq Worker

\* A counter says how many rows there are, as soon as no operation that still
\* has to change it is half way, unless one of these has happened to it: an
\* operation ended half way, its ORM copy was stale, a row was deleted or
\* restored that already was, when it was read or when it was written, it was
\* set while somebody else was at work, or the operation is one of those (see
\* Uneven) that forget it.
CountersAgree ==
  \A c \in Counter \ tainted :
    (\A w \in Worker : HalfWay(w) => c \notin StillToCount(w))
      => count[c] = Actual(c)

\* A comment or post that was deleted comes back only when somebody restores
\* it: not by its Create arriving once more, nor by a request that had read it
\* before.
OnlyRestoringRevives ==
  [][\A o \in Object : status[o] = "deleted" /\ status'[o] = "live" =>
       \E w \in Worker : /\ job[w].of = o
                         /\ job[w].kind \in {"restore_post", "restore_reply",
                                             "restore_any_reply"}]_contentVars
=============================================================================
