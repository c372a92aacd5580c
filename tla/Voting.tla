------------------------------- MODULE Voting -------------------------------
(***************************************************************************)
(* Votes on posts and comments: Post.vote and PostReply.vote of            *)
(* app/models.py as web, API and inbox requests call them, and undo_vote   *)
(* of app/activitypub/util.py, which the inbox calls for an Undo.          *)
(*                                                                         *)
(* A vote is several transactions run under the redis lock of the object   *)
(* (lock:post:{id} or lock:post_reply:{id}); undo_vote is one transaction  *)
(* and takes no lock.  Every request works on its own ORM copy of the      *)
(* object: the copy is loaded before the lock is asked for, and is loaded  *)
(* again only after the request itself has committed.                      *)
(*                                                                         *)
(* lock:vote:{id} is asked for only inside the object's lock, so it admits *)
(* one holder anyway and has no variable; lock:user:{id} is shared with    *)
(* every other part of the program, so asking for it may simply fail after *)
(* its blocking_timeout.                                                   *)
(***************************************************************************)
EXTENDS Integers, FiniteSets

CONSTANTS
  Worker,        \* processes that serve requests (web workers, celery)
  User,          \* the people who vote
  Remote,        \* those of them whose votes arrive at the inbox
  Target,        \* the posts and comments voted on
  Reply,         \* those of them that are comments
  LowQuality,    \* those of them that are posts of a low quality community
  AuthorOf,      \* who wrote each target
  SpicyUnder10, SpicyUnder30, SpicyUnder60,   \* the SPICY_UNDER_* settings
  VoteQuota,     \* VOTE_QUOTA: votes a day
  MaxRequests,   \* bound: requests started
  MaxCrashes,    \* bound: workers killed
  MayOverrun     \* whether a holder may outlive the 10 s of its lock

ASSUME VotingAssumption ==
  /\ Remote \subseteq User
  /\ Reply \subseteq Target
  /\ LowQuality \subseteq Target \ Reply
  /\ AuthorOf \in [Target -> User]
  /\ SpicyUnder10 \in Nat /\ SpicyUnder30 \in Nat /\ SpicyUnder60 \in Nat
  /\ VoteQuota \in Nat /\ MaxRequests \in Nat /\ MaxCrashes \in Nat
  /\ MayOverrun \in BOOLEAN
  /\ \A w \in Worker : w \notin {"free", "orphan"}

VARIABLES
  votes,       \* [Target -> rows of post_vote or post_reply_vote]
  nextId,      \* [Target -> the id of the next row]
  tally,       \* [Target -> the committed up_votes, down_votes and score]
  reputation,  \* [User -> the committed reputation]
  votesCast,   \* [User -> the redis counter votes_cast_{date}_{user}]
  lock,        \* [Target -> the worker that holds the object's redis lock]
  pc,          \* [Worker -> the next step of its request]
  job,         \* [Worker -> the request it serves]
  copy,        \* [Worker -> the counters of its ORM copy of the object]
  found,       \* [Worker -> the vote row its request read]
  seen,        \* [Worker -> the votesCast its request read]
  requests, crashes,
  mishaps      \* history: what has gone wrong so far, see Mishap

vars == <<votes, nextId, tally, reputation, votesCast, lock, pc, job, copy,
          found, seen, requests, crashes, mishaps>>

db      == <<votes, nextId, tally, reputation>>
session == <<copy, found, seen>>

-----------------------------------------------------------------------------
(***************************************************************************)
(* Data.                                                                   *)
(***************************************************************************)
Free   == "free"
Orphan == "orphan"     \* held by a worker that no longer exists

Effect    == {1, -1}
Direction == {"upvote", "downvote", "reversal"}
Tally     == [up : Int, down : Int, score : Int]
Vote      == [id : Nat, user : User, effect : Effect]
Read      == [id : Nat, effect : Effect]
Job       == [user : User, target : Target, dir : Direction, emoji : BOOLEAN]

NoVotes == [up |-> 0, down |-> 0, score |-> 0]
NoRead  == [id |-> 0, effect |-> 1]
NoJob   == [user |-> "nobody", target |-> "nothing", dir |-> "upvote",
            emoji |-> FALSE]

\* The steps a request takes while it holds the object's lock.
Revoking == {"revoke", "reload", "flip", "retally", "reread", "store", "adjust"}
Casting  == {"cast", "quota", "bump", "insert"}
Inside   == Revoking \cup Casting
Step     == Inside \cup {"idle", "waiting", "undoing"}

\* What can spoil the bookkeeping: a crash between two commits, a lock that
\* ran out under its holder, counters written from a stale copy, a row that
\* was changed or deleted by another request after it was read, a vote that
\* was turned around, and an exception raised by the assert of vote().
Mishap == {"crash", "overrun", "stale", "moved", "reversed", "assertion"}

\* Faulty: a down vote is stored without an effect.
EffectlessDown(dir) == IF dir = "upvote" THEN 1 ELSE 0
EffectOf(dir) == IF dir = "upvote" THEN 1 ELSE -1
DirOf(effect) == IF effect = 1 THEN "upvote" ELSE "downvote"

RowsOf(u, t)  == {v \in votes[t] : v.user = u}

\* Early votes count for more in the score of a post, by its votes so far; a
\* comment has no such rule.  The down vote has no "under 10" step and is
\* already counted when its own step is chosen.
Spice(t, effect, n) ==
  IF t \in Reply THEN effect
  ELSE IF effect = 1 /\ n <= 10 THEN effect * SpicyUnder10
  ELSE IF effect = 1 /\ n <= 30 THEN effect * SpicyUnder30
  ELSE IF effect = 1 /\ n <= 60 THEN effect * SpicyUnder60
  ELSE IF effect = -1 /\ n + 1 <= 30 THEN effect * SpicyUnder30
  ELSE IF effect = -1 /\ n + 1 <= 60 THEN effect * SpicyUnder60
  ELSE effect

\* What a first vote does for the author's reputation.
\* Faulty: an up vote in a low quality community earns as much as anywhere.
EarnsAnywhere(t, effect) == effect
\* Faulty: a down vote costs nothing.
CostsNothing(t, effect) == IF t \in LowQuality \/ effect = -1 THEN 0 ELSE 1
Earned(t, effect) == IF t \in LowQuality /\ effect = 1 THEN 0 ELSE effect

\* The UPDATE the ORM sends: the columns a request has changed get the value
\* of its copy plus the change, the others keep what is stored.
Change(up, down, score) == [up |-> up, down |-> down, score |-> score]
Stored(now, mine, ch) ==
  [c \in {"up", "down", "score"} |->
     IF ch[c] = 0 THEN now[c] ELSE mine[c] + ch[c]]
IsStale(now, mine, ch) ==
  \E c \in {"up", "down", "score"} : ch[c] # 0 /\ now[c] # mine[c]

-----------------------------------------------------------------------------
(***************************************************************************)
(* A post or a comment starts with the vote of its author.                 *)
(***************************************************************************)
Init ==
  /\ votes = [t \in Target |-> {[id |-> 1, user |-> AuthorOf[t], effect |-> 1]}]
  /\ nextId = [t \in Target |-> 2]
  /\ tally = [t \in Target |-> [up |-> 1, down |-> 0, score |-> 1]]
  /\ reputation = [u \in User |-> 0]
  /\ votesCast = [u \in User |-> 0]
  /\ lock = [t \in Target |-> Free]
  /\ pc = [w \in Worker |-> "idle"]
  /\ job = [w \in Worker |-> NoJob]
  /\ copy = [w \in Worker |-> NoVotes]
  /\ found = [w \in Worker |-> NoRead]
  /\ seen = [w \in Worker |-> 0]
  /\ requests = 0
  /\ crashes = 0
  /\ mishaps = {}

Goto(w, step)   == pc' = [pc EXCEPT ![w] = step]
Note(oops, name) == mishaps' = IF oops THEN mishaps \cup {name} ELSE mishaps

\* The request is over: the worker's session is closed, and with it goes
\* everything it has not committed.
Close(w) ==
  /\ Goto(w, "idle")
  /\ job' = [job EXCEPT ![w] = NoJob]
  /\ copy' = [copy EXCEPT ![w] = NoVotes]
  /\ found' = [found EXCEPT ![w] = NoRead]
  /\ seen' = [seen EXCEPT ![w] = 0]

\* Leaving the "with" block, by a return or an exception, deletes the key of
\* the lock if it is still the worker's own.
Release(w) ==
  lock' = [lock EXCEPT ![job[w].target] = IF @ = w THEN Free ELSE @]

-----------------------------------------------------------------------------
(***************************************************************************)
(* The request arrives: vote_for_post, vote_for_reply, process_upvote or   *)
(* process_downvote.  Who may vote here at all (bans, can_upvote,          *)
(* can_downvote, blocks) only decides which requests there are.  An inbox  *)
(* request is an up or a down vote, and only an up vote carries an emoji.  *)
(***************************************************************************)
Begin(w, u, t, dir, emoji) ==
  /\ pc[w] = "idle"
  /\ requests < MaxRequests
  /\ u \in Remote => dir # "reversal" /\ (emoji => dir = "upvote")
  /\ votesCast[u] <= VoteQuota
  /\ Goto(w, "waiting")
  /\ job' = [job EXCEPT ![w] = [user |-> u, target |-> t, dir |-> dir,
                                emoji |-> emoji]]
  /\ copy' = [copy EXCEPT ![w] = tally[t]]
  /\ requests' = requests + 1
  /\ UNCHANGED <<db, votesCast, lock, found, seen, crashes, mishaps>>

\* The lock is still taken after blocking_timeout: LockError.
GiveUp(w) ==
  /\ pc[w] = "waiting"
  /\ lock[job[w].target] # Free
  /\ Close(w)
  /\ UNCHANGED <<db, votesCast, lock, requests, crashes, mishaps>>

-----------------------------------------------------------------------------
(***************************************************************************)
(* The lock is taken and the vote row is looked for.  The request may end  *)
(* there and then, which leaves the lock as it was.                        *)
(***************************************************************************)
\* Faulty: the vote is cast without waiting for the lock.
ReadyAnyway(w) == pc[w] = "waiting"
Ready(w) == pc[w] = "waiting" /\ lock[job[w].target] = Free
Voted(w) == RowsOf(job[w].user, job[w].target)
Wanted(w, v) == IF job[w].dir = "reversal" THEN DirOf(v.effect) ELSE job[w].dir
OnlyEmoji(w, v) == job[w].emoji /\ DirOf(v.effect) = Wanted(w, v)

\* A reversal without a vote: a post returns; a comment goes on to the
\* assert on the direction, which fails.
NothingToReverse(w) ==
  /\ Ready(w)
  /\ job[w].dir = "reversal" /\ Voted(w) = {}
  /\ Close(w)
  /\ Note(job[w].target \in Reply, "assertion")
  /\ UNCHANGED <<db, votesCast, lock, requests, crashes>>

\* The same vote again with an emoji only changes the emoji.
ChangeEmoji(w) ==
  /\ Ready(w)
  /\ \E v \in Voted(w) : OnlyEmoji(w, v)
  /\ Close(w)
  /\ UNCHANGED <<db, votesCast, lock, requests, crashes, mishaps>>

Enter(w, step) ==
  /\ Goto(w, step)
  /\ lock' = [lock EXCEPT ![job[w].target] = w]

\* A first vote.
EnterNew(w) ==
  /\ Ready(w)
  /\ job[w].dir # "reversal" /\ Voted(w) = {}
  /\ Enter(w, "cast")
  /\ UNCHANGED <<db, votesCast, job, session, requests, crashes, mishaps>>

\* A vote on top of a vote.  In a low quality community the reputation is
\* not touched, so there is no commit and no reload before the row changes.
EnterExisting(w) ==
  /\ Ready(w)
  /\ \E v \in Voted(w) :
       /\ ~OnlyEmoji(w, v)
       /\ found' = [found EXCEPT ![w] = [id |-> v.id, effect |-> v.effect]]
       /\ job' = [job EXCEPT ![w].dir = Wanted(w, v)]
  /\ Enter(w, IF job[w].target \in LowQuality THEN "flip" ELSE "revoke")
  /\ UNCHANGED <<db, votesCast, copy, seen, requests, crashes, mishaps>>

-----------------------------------------------------------------------------
(***************************************************************************)
(* The rest of a vote on top of a vote.                                    *)
(***************************************************************************)
RowRead(w) == {v \in Voted(w) : v.id = found[w].id}
Withdraws(w) == DirOf(found[w].effect) = job[w].dir
\* Faulty: whatever is taken back is taken from the up votes.
WithdrawnUp(e) == Change(-1, 0, -e)
Withdrawn(e) == Change(IF e = 1 THEN -1 ELSE 0, IF e = -1 THEN -1 ELSE 0, -e)
Reversed(e)  == Change(-e, e, -2 * e)
\* The score of a post follows the effect the row has when it is read again.
Turned(dir, e) == Change(EffectOf(dir), -EffectOf(dir), 2 * e)

\* Under lock:user of the author the old vote is taken out of the author's
\* reputation and this is committed; the effect of a vote that is turned
\* around is not put in later.
Revoke(w) ==
  /\ pc[w] = "revoke"
  /\ Goto(w, "reload")
  /\ reputation' =
       [reputation EXCEPT ![AuthorOf[job[w].target]] = @ - found[w].effect]
  /\ Note(~Withdraws(w), "reversed")
  /\ UNCHANGED <<votes, nextId, tally, votesCast, lock, job, session,
                 requests, crashes>>

\* lock:user is not to be had: LockError before anything was committed.
NoUserLock(w) ==
  /\ pc[w] \in {"revoke", "cast"}
  /\ Close(w)
  /\ Release(w)
  /\ UNCHANGED <<db, votesCast, requests, crashes, mishaps>>

\* The commit expired the row's copy; looking at its effect reads it again,
\* and raises ObjectDeletedError when it is gone.
Reload(w) ==
  /\ pc[w] = "reload"
  /\ \E v \in RowRead(w) :
       found' = [found EXCEPT ![w].effect = v.effect]
  /\ Goto(w, "flip")
  /\ UNCHANGED <<db, votesCast, lock, job, copy, seen, requests, crashes,
                 mishaps>>

ReloadGone(w) ==
  /\ pc[w] = "reload"
  /\ RowRead(w) = {}
  /\ Close(w)
  /\ Release(w)
  /\ Note(TRUE, "moved")
  /\ UNCHANGED <<db, votesCast, requests, crashes>>

\* The row is deleted or its effect is turned around, and committed.
\* Deleting a row that is gone only warns; updating one is a StaleDataError.
Flip(w) ==
  LET t == job[w].target
      rest == votes[t] \ RowRead(w)
      turned == [id |-> found[w].id, user |-> job[w].user,
                 effect |-> -found[w].effect]
  IN
  /\ pc[w] = "flip"
  /\ \/ /\ Withdraws(w)
        /\ votes' = [votes EXCEPT ![t] = rest]
        /\ Note(\A v \in RowRead(w) : v.effect # found[w].effect, "moved")
     \/ /\ ~Withdraws(w) /\ RowRead(w) # {}
        /\ votes' = [votes EXCEPT ![t] = rest \cup {turned}]
        /\ mishaps' = mishaps \cup {"reversed"} \cup
             (IF \A v \in RowRead(w) : v.effect # found[w].effect
              THEN {"moved"} ELSE {})
  /\ Goto(w, "retally")
  /\ UNCHANGED <<nextId, tally, reputation, votesCast, lock, job, session,
                 requests, crashes>>

FlipGone(w) ==
  /\ pc[w] = "flip"
  /\ ~Withdraws(w) /\ RowRead(w) = {}
  /\ Close(w)
  /\ Release(w)
  /\ Note(TRUE, "moved")
  /\ UNCHANGED <<db, votesCast, requests, crashes>>

\* The commit expired the object's copy too: its counters are read again,
Retally(w) ==
  /\ pc[w] = "retally"
  /\ Goto(w, IF Withdraws(w) \/ job[w].target \in Reply THEN "store" ELSE "reread")
  /\ copy' = [copy EXCEPT ![w] = tally[job[w].target]]
  /\ UNCHANGED <<db, votesCast, lock, job, found, seen, requests, crashes,
                 mishaps>>

\* and so is the row of a vote on a post that was turned around, whose effect
\* the score is to follow.  (A comment's score just moves by two, and a row
\* that was deleted is not read again.)
Reread(w) ==
  /\ pc[w] = "reread"
  /\ \E v \in RowRead(w) :
       /\ found' = [found EXCEPT ![w].effect = v.effect]
       /\ Note(v.effect # -found[w].effect, "moved")
  /\ Goto(w, "adjust")
  /\ UNCHANGED <<db, votesCast, lock, job, copy, seen, requests, crashes>>

\* If undo_vote, which asks for no lock, has deleted the row meanwhile, that
\* raises ObjectDeletedError and the counters never hear of the turn.
RereadGone(w) ==
  /\ pc[w] = "reread"
  /\ RowRead(w) = {}
  /\ Close(w)
  /\ Release(w)
  /\ Note(TRUE, "moved")
  /\ UNCHANGED <<db, votesCast, requests, crashes>>

\* The changed counters are written back.  That is the last commit that
\* matters: last_seen of the voter follows and the lock is given back.
Correction(w) ==
  IF pc[w] = "adjust" THEN Turned(job[w].dir, found[w].effect)
  ELSE IF Withdraws(w) THEN Withdrawn(found[w].effect)
  ELSE Reversed(found[w].effect)
Store(w) ==
  LET t == job[w].target
      change == Correction(w)
  IN
  /\ pc[w] \in {"store", "adjust"}
  /\ tally' = [tally EXCEPT ![t] = Stored(@, copy[w], change)]
  /\ Note(IsStale(tally[t], copy[w], change), "stale")
  /\ Close(w)
  /\ Release(w)
  /\ UNCHANGED <<votes, nextId, reputation, votesCast, requests, crashes>>

-----------------------------------------------------------------------------
(***************************************************************************)
(* The rest of a first vote.                                               *)
(***************************************************************************)
\* The counters of the copy read before the lock are changed and, under
\* lock:user of the author, committed together with the reputation.
Cast(w) ==
  LET t == job[w].target
      e == EffectOf(job[w].dir)
      change == Change(IF e = 1 THEN 1 ELSE 0, IF e = -1 THEN 1 ELSE 0,
                       Spice(t, e, copy[w].up + copy[w].down))
  IN
  /\ pc[w] = "cast"
  /\ tally' = [tally EXCEPT ![t] = Stored(@, copy[w], change)]
  /\ reputation' = [reputation EXCEPT ![AuthorOf[t]] = @ + Earned(t, e)]
  /\ Note(IsStale(tally[t], copy[w], change), "stale")
  /\ Goto(w, "quota")
  /\ UNCHANGED <<votes, nextId, votesCast, lock, job, session, requests,
                 crashes>>

\* The count of the day is read,
CountVotes(w) ==
  /\ pc[w] = "quota"
  /\ Goto(w, "bump")
  /\ seen' = [seen EXCEPT ![w] = votesCast[job[w].user]]
  /\ UNCHANGED <<db, votesCast, lock, job, copy, found, requests, crashes,
                 mishaps>>

\* and set to 1 if it was nothing, incremented in redis otherwise.
Bump(w) ==
  /\ pc[w] = "bump"
  /\ Goto(w, "insert")
  /\ votesCast' =
       [votesCast EXCEPT ![job[w].user] = IF seen[w] = 0 THEN 1 ELSE @ + 1]
  /\ UNCHANGED <<db, lock, job, session, requests, crashes, mishaps>>

\* The last commit inserts the row, with the new ranking.
Insert(w) ==
  LET t == job[w].target IN
  /\ pc[w] = "insert"
  /\ votes' = [votes EXCEPT ![t] = @ \cup
       {[id |-> nextId[t], user |-> job[w].user,
         effect |-> EffectOf(job[w].dir)]}]
  /\ nextId' = [nextId EXCEPT ![t] = @ + 1]
  /\ Close(w)
  /\ Release(w)
  /\ UNCHANGED <<tally, reputation, votesCast, requests, crashes, mishaps>>

-----------------------------------------------------------------------------
(***************************************************************************)
(* undo_vote: the object and the row are read,                             *)
(***************************************************************************)
BeginUndo(w, u, t) ==
  /\ pc[w] = "idle"
  /\ requests < MaxRequests
  /\ u \in Remote
  /\ \E v \in RowsOf(u, t) :
       found' = [found EXCEPT ![w] = [id |-> v.id, effect |-> v.effect]]
  /\ Goto(w, "undoing")
  /\ job' = [job EXCEPT ![w] = [user |-> u, target |-> t, dir |-> "upvote",
                                emoji |-> FALSE]]
  /\ copy' = [copy EXCEPT ![w] = tally[t]]
  /\ requests' = requests + 1
  /\ UNCHANGED <<db, votesCast, lock, seen, crashes, mishaps>>

\* and one transaction takes the vote back, whatever the community.
Undo(w) ==
  LET t == job[w].target
      e == found[w].effect
  IN
  /\ pc[w] = "undoing"
  /\ reputation' = [reputation EXCEPT ![AuthorOf[t]] = @ - e]
  /\ tally' = [tally EXCEPT ![t] = Stored(@, copy[w], Withdrawn(e))]
  /\ votes' = [votes EXCEPT ![t] = @ \ RowRead(w)]
  /\ mishaps' = mishaps
       \cup (IF IsStale(tally[t], copy[w], Withdrawn(e)) THEN {"stale"} ELSE {})
       \cup (IF \A v \in RowRead(w) : v.effect # e THEN {"moved"} ELSE {})
  /\ Close(w)
  /\ UNCHANGED <<nextId, votesCast, lock, requests, crashes>>

-----------------------------------------------------------------------------
(***************************************************************************)
(* The environment: workers are killed, and redis lets a lock go 10 s      *)
(* after it was taken, whether or not its holder has finished.             *)
(***************************************************************************)
Crash(w) ==
  /\ pc[w] # "idle"
  /\ crashes < MaxCrashes
  /\ crashes' = crashes + 1
  /\ lock' = [t \in Target |-> IF lock[t] = w THEN Orphan ELSE lock[t]]
  /\ Note(pc[w] \in Inside \ {"revoke", "cast"}, "crash")
  /\ Close(w)
  /\ UNCHANGED <<db, votesCast, requests>>

Expire(t) ==
  /\ lock[t] # Free
  /\ lock[t] \in Worker => MayOverrun
  /\ lock' = [lock EXCEPT ![t] = Free]
  /\ Note(lock[t] \in Worker, "overrun")
  /\ UNCHANGED <<db, votesCast, pc, job, session, requests, crashes>>

Arrive(w) == \E u \in User, t \in Target :
  \/ BeginUndo(w, u, t)
  \/ \E dir \in Direction, emoji \in BOOLEAN : Begin(w, u, t, dir, emoji)

Serve(w) ==
  \/ GiveUp(w) \/ NothingToReverse(w) \/ ChangeEmoji(w)
  \/ EnterNew(w) \/ EnterExisting(w) \/ NoUserLock(w)
  \/ Revoke(w) \/ Reload(w) \/ ReloadGone(w)
  \/ Flip(w) \/ FlipGone(w)
  \/ Retally(w) \/ Reread(w) \/ RereadGone(w) \/ Store(w)
  \/ Cast(w) \/ CountVotes(w) \/ Bump(w) \/ Insert(w)
  \/ Undo(w)

Next ==
  \/ \E w \in Worker : Arrive(w) \/ Serve(w) \/ Crash(w)
  \/ \E t \in Target : Expire(t)

Spec == Init /\ [][Next]_vars

-----------------------------------------------------------------------------
(***************************************************************************)
(* Properties.                                                             *)
(***************************************************************************)
\* Every variable has its type.
TypeOK ==
  /\ votes \in [Target -> SUBSET Vote]
  /\ nextId \in [Target -> Nat]
  /\ tally \in [Target -> Tally]
  /\ reputation \in [User -> Int]
  /\ votesCast \in [User -> Nat]
  /\ lock \in [Target -> Worker \cup {Free, Orphan}]
  /\ pc \in [Worker -> Step]
  /\ job \in [Worker -> Job \cup {NoJob}]
  /\ copy \in [Worker -> Tally]
  /\ found \in [Worker -> Read]
  /\ seen \in [Worker -> Nat]
  /\ requests \in Nat /\ crashes \in Nat
  /\ mishaps \in SUBSET Mishap

Spared(names) == mishaps \cap names = {}
Settled(t) == \A w \in Worker : ~(pc[w] \in Inside /\ job[w].target = t)

\* A user has at most one vote on a post or comment.  The tables have no
\* such constraint: it is vote()'s look before it inserts, under the lock of
\* the object, that keeps a second row out, for as long as no holder has
\* outlived its lock.
OneVotePerUser ==
  Spared({"overrun"}) =>
    \A t \in Target, u \in User : Cardinality(RowsOf(u, t)) <= 1

\* When nobody is voting on an object its counters agree with its vote rows,
\* unless a crash, an overrun, a stale copy or a row that changed after it
\* was read has come in between: those four are the only ways in which the
\* commits of vote() and undo_vote, in any order, can drift apart.
TallyMatchesVotes ==
  Spared({"crash", "overrun", "stale", "moved"}) =>
    \A t \in Target : Settled(t) =>
      LET rows(e) == Cardinality({v \in votes[t] : v.effect = e}) IN
      /\ tally[t].up = rows(1)
      /\ tally[t].down = rows(-1)
      /\ ({SpicyUnder10, SpicyUnder30, SpicyUnder60} = {1})
           => tally[t].score = rows(1) - rows(-1)

\* The reputation of an author is what the standing votes on their posts and
\* comments add up to, not counting the vote each of these started with;
\* stale counters and overrun locks do not matter here, a vote that was turned
\* around does.  Low quality communities keep another account.
ReputationMatchesVotes ==
  Spared({"crash", "moved", "reversed"}) =>
    \A a \in User :
      LET own == {t \in Target : AuthorOf[t] = a}
          standing(e) == UNION {{<<t, v>> : v \in {x \in votes[t] : x.effect = e}}
                                  : t \in own}
      IN  (own \cap LowQuality = {} /\ \A t \in own : Settled(t)) =>
            reputation[a] = Cardinality(standing(1)) - Cardinality(standing(-1))
                              - Cardinality(own)

\* "Upvotes earned in low quality communities don't improve reputation": who
\* writes only there stays at or below zero whatever votes come and go, as
\* long as no vote was turned around or undone twice.
LowQualityNeverGains ==
  Spared({"reversed", "moved"}) =>
    \A a \in User :
      {t \in Target : AuthorOf[t] = a} \subseteq LowQuality => reputation[a] <= 0
=============================================================================
