---------------------------- MODULE VotingProofs ----------------------------
(***************************************************************************)
(* Voting for every value of its constants: its types, that a user never   *)
(* has two votes on one post or comment unless a lock was overrun, and     *)
(* that counters and reputations are what the rows of votes add up to.     *)
(***************************************************************************)
EXTENDS Voting, FiniteSetTheorems, FunctionTheorems, TLAPS

\* A worker that is not idle serves a request.
Busy == \A w \in Worker : pc[w] # "idle" => job[w] \in Job

TypeInv == TypeOK /\ Busy

\* The actions that end a request without having changed the tables.
LEMMA CloseTypes ==
  ASSUME TypeInv, NEW w \in Worker, Close(w)
  PROVE  /\ pc' \in [Worker -> Step]
         /\ job' \in [Worker -> Job \cup {NoJob}]
         /\ copy' \in [Worker -> Tally]
         /\ found' \in [Worker -> Read]
         /\ seen' \in [Worker -> Nat]
         /\ Busy'
  BY DEF TypeInv, TypeOK, Busy, Close, Goto, Step, NoVotes, NoRead, Tally,
         Read, Effect

\* Giving a lock back leaves the locks well typed.
LEMMA ReleaseTypes ==
  ASSUME TypeInv, NEW w \in Worker, Release(w)
  PROVE  lock' \in [Target -> Worker \cup {Free, Orphan}]
  BY DEF TypeInv, TypeOK, Release

\* What the ORM writes back is a tally.
LEMMA StoredType ==
  ASSUME NEW now \in Tally, NEW mine \in Tally, NEW ch \in Tally
  PROVE  Stored(now, mine, ch) \in Tally
  BY DEF Stored, Tally

LEMMA ChangeTypes ==
  /\ \A e \in Effect : Withdrawn(e) \in Tally /\ Reversed(e) \in Tally
  /\ \A dir : \A e \in Effect : Turned(dir, e) \in Tally
  /\ \A up, down, score \in Int : Change(up, down, score) \in Tally
  BY DEF Effect, Withdrawn, Reversed, Turned, EffectOf, Change, Tally

\* The scores that Spice gives are integers.
LEMMA SpiceType ==
  ASSUME NEW t \in Target, NEW e \in Effect, NEW n \in Int
  PROVE  Spice(t, e, n) \in Int
  BY VotingAssumption DEF Spice, Effect

-----------------------------------------------------------------------------
LEMMA InitType == Init => TypeInv
  BY VotingAssumption
  DEF Init, TypeInv, TypeOK, Busy, Vote, Effect, Tally, Free, Step, NoJob,
      NoVotes, NoRead, Read, Mishap

LEMMA ArriveType ==
  ASSUME TypeInv, NEW w \in Worker, Arrive(w)
  PROVE  TypeInv'
<1> USE DEF TypeInv, TypeOK, Busy, Goto, db
<1>1. ASSUME NEW u \in User, NEW t \in Target, BeginUndo(w, u, t)
      PROVE  TypeInv'
  BY <1>1 DEF BeginUndo, RowsOf, Vote, Read, Step, Job, Direction
<1>2. ASSUME NEW u \in User, NEW t \in Target, NEW dir \in Direction,
             NEW emoji \in BOOLEAN, Begin(w, u, t, dir, emoji)
      PROVE  TypeInv'
  BY <1>2 DEF Begin, Step, Job
<1> QED  BY <1>1, <1>2 DEF Arrive

LEMMA ServeType ==
  ASSUME TypeInv, NEW w \in Worker, Serve(w)
  PROVE  TypeInv'
<1>0. pc[w] # "idle" => job[w] \in Job /\ job[w].target \in Target
                          /\ job[w].user \in User
  BY DEF TypeInv, TypeOK, Busy, Job
<1>a. AuthorOf \in [Target -> User]
  BY VotingAssumption
<1>b. \A name \in Mishap : mishaps \cup {name} \in SUBSET Mishap
  BY DEF TypeInv, TypeOK
<1>1. CASE GiveUp(w)
  BY <1>1, CloseTypes DEF GiveUp, TypeInv, TypeOK, db
<1>2. CASE NothingToReverse(w)
  BY <1>2, <1>b, CloseTypes DEF NothingToReverse, TypeInv, TypeOK, db, Note, Mishap
<1>3. CASE ChangeEmoji(w)
  BY <1>3, CloseTypes DEF ChangeEmoji, TypeInv, TypeOK, db
<1>4. CASE EnterNew(w)
  BY <1>4, <1>0 DEF EnterNew, Ready, Enter, Goto, TypeInv, TypeOK, Busy, db,
                    session, Step, Inside, Casting
<1>5. CASE EnterExisting(w)
  <2>1. PICK v \in Voted(w) :
          /\ found' = [found EXCEPT ![w] = [id |-> v.id, effect |-> v.effect]]
          /\ job' = [job EXCEPT ![w].dir = Wanted(w, v)]
    BY <1>5 DEF EnterExisting
  <2>2. pc[w] = "waiting"
    BY <1>5 DEF EnterExisting, Ready
  <2>3. v \in Vote /\ Wanted(w, v) \in Direction
    BY <1>0, <2>2 DEF Voted, RowsOf, TypeInv, TypeOK, Wanted, DirOf, Direction, Job
  <2>4. job'[w] \in Job /\ found'[w] \in Read
    BY <1>0, <2>1, <2>2, <2>3 DEF TypeInv, TypeOK, Job, Vote, Read
  <2>5. job' \in [Worker -> Job \cup {NoJob}] /\ found' \in [Worker -> Read]
    BY <2>1, <2>4 DEF TypeInv, TypeOK
  <2>6. Busy'
    BY <1>5, <2>1, <2>4 DEF TypeInv, TypeOK, Busy, EnterExisting, Enter, Goto
  <2> QED
    BY <1>0, <1>5, <2>2, <2>5, <2>6
    DEF EnterExisting, Enter, Goto, TypeInv, TypeOK, db, Step, Inside, Revoking
<1>6. CASE NoUserLock(w)
  BY <1>6, CloseTypes, ReleaseTypes DEF NoUserLock, TypeInv, TypeOK, db
<1>7. CASE Revoke(w)
  BY <1>7, <1>0, <1>a, <1>b
  DEF Revoke, Goto, Note, TypeInv, TypeOK, Busy, session, Step, Inside,
      Revoking, Read, Effect, Mishap
<1>8. CASE Reload(w)
  BY <1>8, <1>0
  DEF Reload, RowRead, Voted, RowsOf, Goto, TypeInv, TypeOK, Busy, db, Step,
      Inside, Revoking, Read, Vote
<1>9. CASE ReloadGone(w)
  BY <1>9, <1>b, CloseTypes, ReleaseTypes
  DEF ReloadGone, TypeInv, TypeOK, db, Note, Mishap
<1>10. CASE Flip(w)
  <2> DEFINE t == job[w].target
             rest == votes[t] \ RowRead(w)
             turned == [id |-> found[w].id, user |-> job[w].user,
                        effect |-> -found[w].effect]
  <2>1. t \in Target /\ turned \in Vote
    BY <1>0, <1>10 DEF Flip, TypeInv, TypeOK, Read, Effect, Vote
  <2>2. rest \in SUBSET Vote /\ rest \cup {turned} \in SUBSET Vote
    BY <2>1 DEF TypeInv, TypeOK
  <2>3. votes' = [votes EXCEPT ![t] = rest]
          \/ votes' = [votes EXCEPT ![t] = rest \cup {turned}]
    BY <1>10 DEF Flip
  <2>4. votes' \in [Target -> SUBSET Vote]
    BY <2>1, <2>2, <2>3 DEF TypeInv, TypeOK
  <2>5. mishaps' \in SUBSET Mishap
    BY <1>10 DEF Flip, Note, TypeInv, TypeOK, Mishap
  <2> QED
    BY <1>0, <1>10, <2>4, <2>5
    DEF Flip, Goto, TypeInv, TypeOK, Busy, session, Step, Inside, Revoking
<1>11. CASE FlipGone(w)
  BY <1>11, <1>b, CloseTypes, ReleaseTypes
  DEF FlipGone, TypeInv, TypeOK, db, Note, Mishap
<1>12. CASE Retally(w)
  BY <1>12, <1>0
  DEF Retally, Goto, TypeInv, TypeOK, Busy, db, Step, Inside, Revoking
<1>19. CASE Reread(w)
  BY <1>19, <1>0, <1>b
  DEF Reread, RowRead, Voted, RowsOf, Goto, Note, TypeInv, TypeOK, Busy, db, Step,
      Inside, Revoking, Read, Vote, Mishap
<1>20. CASE RereadGone(w)
  BY <1>20, <1>b, CloseTypes, ReleaseTypes
  DEF RereadGone, TypeInv, TypeOK, db, Note, Mishap
<1>13. CASE Store(w)
  <2> DEFINE t == job[w].target
             change == Correction(w)
  <2>1. t \in Target /\ change \in Tally
    <3>1. t \in Target /\ found[w].effect \in Effect
      BY <1>0, <1>13 DEF Store, TypeInv, TypeOK, Read
    <3> QED  BY <3>1, ChangeTypes DEF Correction
  <2>2. Stored(tally[t], copy[w], change) \in Tally
    BY <2>1, StoredType DEF TypeInv, TypeOK
  <2>3. tally' \in [Target -> Tally]
    BY <1>13, <2>1, <2>2 DEF Store, TypeInv, TypeOK
  <2> QED
    BY <1>13, <1>b, <2>3, CloseTypes, ReleaseTypes
    DEF Store, TypeInv, TypeOK, Note, Mishap
<1>14. CASE Cast(w)
  <2> DEFINE t == job[w].target
             e == EffectOf(job[w].dir)
             change == Change(IF e = 1 THEN 1 ELSE 0, IF e = -1 THEN 1 ELSE 0,
                              Spice(t, e, copy[w].up + copy[w].down))
             earned == Earned(t, e)
  <2>1. t \in Target /\ e \in Effect /\ earned \in Int
    BY <1>0, <1>14 DEF Cast, EffectOf, Effect, Earned
  <2>2. copy[w].up + copy[w].down \in Int
    BY DEF TypeInv, TypeOK, Tally
  <2>3. change \in Tally
    <3> HIDE DEF t, e
    <3>1. Spice(t, e, copy[w].up + copy[w].down) \in Int
      BY <2>1, <2>2, SpiceType
    <3> QED  BY <3>1, ChangeTypes
  <2>4. Stored(tally[t], copy[w], change) \in Tally
    BY <2>1, <2>3, StoredType DEF TypeInv, TypeOK
  <2>a. /\ tally' = [tally EXCEPT ![t] = Stored(tally[t], copy[w], change)]
        /\ reputation' = [reputation EXCEPT ![AuthorOf[t]] = @ + earned]
    BY <1>14 DEF Cast
  <2> HIDE DEF change, earned, e
  <2>b. tally' \in [Target -> Tally]
    BY <2>a, <2>1, <2>4 DEF TypeInv, TypeOK
  <2>5. tally' \in [Target -> Tally] /\ reputation' \in [User -> Int]
    BY <2>a, <2>b, <1>a, <2>1 DEF TypeInv, TypeOK
  <2> USE DEF change, earned, e
  <2> QED
    BY <1>0, <1>14, <1>b, <2>5
    DEF Cast, Goto, Note, TypeInv, TypeOK, Busy, session, Step, Inside,
        Casting, Mishap
<1>15. CASE CountVotes(w)
  BY <1>15, <1>0
  DEF CountVotes, Goto, TypeInv, TypeOK, Busy, db, Step, Inside, Casting
<1>16. CASE Bump(w)
  BY <1>16, <1>0
  DEF Bump, Goto, TypeInv, TypeOK, Busy, db, session, Step, Inside, Casting
<1>17. CASE Insert(w)
  <2> DEFINE t == job[w].target
             row == [id |-> nextId[t], user |-> job[w].user,
                     effect |-> EffectOf(job[w].dir)]
  <2>1. t \in Target /\ row \in Vote
    BY <1>0, <1>17 DEF Insert, EffectOf, Effect, TypeInv, TypeOK, Vote
  <2>2. votes' \in [Target -> SUBSET Vote] /\ nextId' \in [Target -> Nat]
    BY <1>17, <2>1 DEF Insert, TypeInv, TypeOK
  <2> QED
    BY <1>17, <2>2, CloseTypes, ReleaseTypes DEF Insert, TypeInv, TypeOK
<1>18. CASE Undo(w)
  <2> DEFINE t == job[w].target
             e == found[w].effect
  <2>0. t \in Target /\ e \in Effect
    BY <1>0, <1>18 DEF Undo, TypeInv, TypeOK, Read
  <2>1. t \in Target /\ e \in Int /\ Withdrawn(e) \in Tally
    BY <2>0, ChangeTypes DEF Effect
  <2>2. Stored(tally[t], copy[w], Withdrawn(e)) \in Tally
    BY <2>1, StoredType DEF TypeInv, TypeOK
  <2>a. /\ tally' = [tally EXCEPT ![t] = Stored(tally[t], copy[w], Withdrawn(e))]
        /\ reputation' = [reputation EXCEPT ![AuthorOf[t]] = @ - e]
        /\ votes' = [votes EXCEPT ![t] = @ \ RowRead(w)]
    BY <1>18 DEF Undo
  <2>b. tally' \in [Target -> Tally]
    BY <2>a, <2>1, <2>2 DEF TypeInv, TypeOK
  <2>c. reputation' \in [User -> Int]
    <3> HIDE DEF t, e
    <3>1. AuthorOf[t] \in User /\ reputation \in [User -> Int]
      BY <2>1, <1>a DEF TypeInv, TypeOK
    <3> QED  BY <2>a, <2>1, <3>1
  <2>3. /\ tally' \in [Target -> Tally]
        /\ reputation' \in [User -> Int]
        /\ votes' \in [Target -> SUBSET Vote]
    BY <2>a, <2>b, <2>c, <2>1 DEF TypeInv, TypeOK
  <2>4. mishaps' \in SUBSET Mishap
    BY <1>18 DEF Undo, TypeInv, TypeOK, Mishap
  <2>5. Close(w) /\ UNCHANGED <<nextId, votesCast, lock, requests, crashes>>
    BY <1>18 DEF Undo
  <2> QED
    BY <2>3, <2>4, <2>5, CloseTypes DEF TypeInv, TypeOK
<1> QED
  BY <1>1, <1>2, <1>3, <1>4, <1>5, <1>6, <1>7, <1>8, <1>9, <1>10, <1>11,
     <1>12, <1>13, <1>14, <1>15, <1>16, <1>17, <1>18, <1>19, <1>20 DEF Serve

LEMMA EnvironmentType ==
  /\ \A w \in Worker : TypeInv /\ Crash(w) => TypeInv'
  /\ \A t \in Target : TypeInv /\ Expire(t) => TypeInv'
<1>1. ASSUME NEW w \in Worker, TypeInv, Crash(w)
      PROVE  TypeInv'
  BY <1>1, CloseTypes DEF Crash, TypeInv, TypeOK, db, Note, Mishap
<1>2. ASSUME NEW t \in Target, TypeInv, Expire(t)
      PROVE  TypeInv'
  BY <1>2 DEF Expire, TypeInv, TypeOK, Busy, db, session, Note, Mishap
<1> QED  BY <1>1, <1>2

LEMMA NextType == TypeInv /\ [Next]_vars => TypeInv'
<1>1. TypeInv /\ UNCHANGED vars => TypeInv'
  BY DEF TypeInv, TypeOK, Busy, vars
<1> QED  BY <1>1, ArriveType, ServeType, EnvironmentType DEF Next

\* In every reachable state the variables are well typed, and a worker that
\* is not idle has a request.
THEOREM TypeCorrect == Spec => [](TypeOK /\ Busy)
<1>1. TypeInv /\ [][Next]_vars => []TypeInv
  BY NextType, PTL
<1> QED  BY <1>1, InitType, PTL DEF Spec, TypeInv

-----------------------------------------------------------------------------
(***************************************************************************)
(* One vote per user.  Unless a lock was overrun, whoever is inside vote() *)
(* holds the lock of its object; so between the look for a row and the     *)
(* insertion of one no other request can insert one for the same user.     *)
(***************************************************************************)
Sound == "overrun" \notin mishaps

HoldersInside ==
  \A w \in Worker : pc[w] \in Inside => lock[job[w].target] = w
NoRowYet ==
  \A w \in Worker : pc[w] \in Casting => Voted(w) = {}
Unique ==
  \A t \in Target : \A v1, v2 \in votes[t] : v1.user = v2.user => v1 = v2

OneVoteInv == Sound => HoldersInside /\ NoRowYet /\ Unique

\* A set without two different elements has at most one.
LEMMA AtMostOne ==
  ASSUME NEW S, \A x, y \in S : x = y
  PROVE  Cardinality(S) <= 1
<1>1. CASE S = {}
  BY <1>1, FS_EmptySet
<1>2. CASE S # {}
  <2>1. PICK x : S = {x}
    BY <1>2
  <2> QED  BY <2>1, FS_Singleton
<1> QED  BY <1>1, <1>2

LEMMA InvImpliesOneVote == OneVoteInv => OneVotePerUser
<1> SUFFICES ASSUME OneVoteInv, Sound, NEW t \in Target, NEW u \in User
             PROVE  Cardinality(RowsOf(u, t)) <= 1
  BY DEF OneVotePerUser, Spared, Sound
<1>1. \A x, y \in RowsOf(u, t) : x = y
  BY DEF OneVoteInv, Unique, RowsOf
<1> QED  BY <1>1, AtMostOne

LEMMA InitOneVote == Init => OneVoteInv
  BY DEF Init, OneVoteInv, HoldersInside, NoRowYet, Unique, Inside, Revoking,
         Casting

\* Mishaps are never forgotten, so a sound state has a sound past.
LEMMA MishapsStay == [Next]_vars => mishaps \subseteq mishaps'
<1>1. ASSUME NEW w \in Worker, Arrive(w)
      PROVE  mishaps' = mishaps
  BY <1>1 DEF Arrive, Begin, BeginUndo
<1>2. ASSUME NEW w \in Worker, Serve(w)
      PROVE  mishaps \subseteq mishaps'
  <2>1. CASE Flip(w)
    BY <2>1 DEF Flip, Note
  <2>2. CASE Store(w)
    BY <2>2 DEF Store, Note
  <2>3. CASE Cast(w)
    BY <2>3 DEF Cast, Note
  <2>4. CASE Undo(w)
    BY <2>4 DEF Undo
  <2> QED
    BY <1>2, <2>1, <2>2, <2>3, <2>4
    DEF Serve, Note, GiveUp, NothingToReverse, ChangeEmoji, EnterNew,
        EnterExisting, NoUserLock, Revoke, Reload, ReloadGone, FlipGone,
        Retally, Reread, RereadGone, CountVotes, Bump, Insert
<1>3. ASSUME NEW w \in Worker, Crash(w)
      PROVE  mishaps \subseteq mishaps'
  BY <1>3 DEF Crash, Note
<1>4. ASSUME NEW t \in Target, Expire(t)
      PROVE  mishaps \subseteq mishaps'
  BY <1>4 DEF Expire, Note
<1> QED  BY <1>1, <1>2, <1>3, <1>4 DEF Next, vars

LEMMA SoundBefore == [Next]_vars /\ Sound' => Sound
  BY MishapsStay DEF Sound

\* Two workers inside are inside for two objects.
LEMMA Exclusion ==
  ASSUME TypeInv, HoldersInside, NEW w \in Worker, NEW x \in Worker, w # x,
         pc[w] \in Inside, pc[x] \in Inside
  PROVE  job[w].target # job[x].target
  BY DEF HoldersInside

\* A request that closes without having changed a row: its lock, if it had
\* it, is free again, and the other requests are where they were.
LEMMA CloseKeeps ==
  ASSUME TypeInv, HoldersInside, NoRowYet, Unique, NEW w \in Worker, Close(w),
         votes' = votes,
         \/ Release(w) /\ pc[w] # "idle"
         \/ UNCHANGED lock
  PROVE  HoldersInside' /\ NoRowYet' /\ Unique'
<1>1. \A x \in Worker : pc'[x] # "idle" => x # w /\ pc'[x] = pc[x] /\ job'[x] = job[x]
  BY DEF TypeInv, TypeOK, Close, Goto
<1>2. \A x \in Worker : pc'[x] \in Inside =>
        job[x].target \in Target /\ lock'[job[x].target] = lock[job[x].target]
  BY <1>1 DEF TypeInv, TypeOK, Busy, Job, Release, HoldersInside, Inside,
              Revoking, Casting
<1>3. HoldersInside'
  BY <1>1, <1>2 DEF HoldersInside, Inside, Revoking, Casting
<1>4. NoRowYet'
  BY <1>1 DEF NoRowYet, Casting, Voted, RowsOf
<1>5. Unique'
  BY DEF Unique
<1> QED  BY <1>3, <1>4, <1>5

\* A step from one place inside vote() to another that leaves rows, locks and
\* requests alone.
LEMMA StepKeeps ==
  ASSUME TypeInv, HoldersInside, NoRowYet, Unique, NEW w \in Worker,
         NEW step \in Inside, Goto(w, step), pc[w] \in Inside,
         step \in Casting => pc[w] \in Casting, UNCHANGED <<votes, lock, job>>
  PROVE  HoldersInside' /\ NoRowYet' /\ Unique'
  BY DEF TypeInv, TypeOK, HoldersInside, NoRowYet, Unique, Goto, Voted, RowsOf

LEMMA ArriveOneVote ==
  ASSUME TypeInv, HoldersInside, NoRowYet, Unique, NEW w \in Worker, Arrive(w)
  PROVE  HoldersInside' /\ NoRowYet' /\ Unique'
<1>1. PICK step \in {"waiting", "undoing"} :
        Goto(w, step) /\ UNCHANGED <<votes, lock>>
  BY DEF Arrive, Begin, BeginUndo, db
<1>2. \A x \in Worker : x # w => job'[x] = job[x]
  BY DEF Arrive, Begin, BeginUndo, TypeInv, TypeOK
<1>3. \A x \in Worker : pc'[x] \in Inside => x # w /\ pc'[x] = pc[x]
  BY <1>1 DEF Goto, TypeInv, TypeOK, Inside, Revoking, Casting
<1>4. Casting \subseteq Inside
  BY DEF Inside
<1>5. HoldersInside'
  BY <1>1, <1>2, <1>3 DEF HoldersInside
<1>6. NoRowYet'
  BY <1>1, <1>2, <1>3, <1>4 DEF NoRowYet, Voted, RowsOf
<1> QED  BY <1>1, <1>5, <1>6 DEF Unique

LEMMA ServeOneVote ==
  ASSUME TypeInv, HoldersInside, NoRowYet, Unique, NEW w \in Worker, Serve(w)
  PROVE  HoldersInside' /\ NoRowYet' /\ Unique'
<1>0. pc[w] # "idle" => job[w] \in Job /\ job[w].target \in Target
                          /\ job[w].user \in User
  BY DEF TypeInv, TypeOK, Busy, Job
<1>a. Inside = {"revoke", "reload", "flip", "retally", "reread", "store", "adjust",
                "cast", "quota", "bump", "insert"}
  BY DEF Inside, Revoking, Casting
<1>1. CASE GiveUp(w) \/ NothingToReverse(w) \/ ChangeEmoji(w)
  BY <1>1, CloseKeeps DEF GiveUp, NothingToReverse, ChangeEmoji, db
<1>2. CASE NoUserLock(w) \/ ReloadGone(w) \/ FlipGone(w) \/ RereadGone(w) \/ Store(w)
  BY <1>2, CloseKeeps DEF NoUserLock, ReloadGone, FlipGone, RereadGone, Store, db
<1>3. CASE Revoke(w) \/ Reload(w) \/ Retally(w) \/ Reread(w)
  BY <1>3, <1>a, StepKeeps
  DEF Revoke, Reload, Retally, Reread, db, session, Casting
<1>4. CASE Cast(w) \/ CountVotes(w) \/ Bump(w)
  BY <1>4, <1>a, StepKeeps DEF Cast, CountVotes, Bump, db, session, Casting
<1>5. CASE EnterNew(w)
  <2>1. /\ pc' = [pc EXCEPT ![w] = "cast"]
        /\ lock' = [lock EXCEPT ![job[w].target] = w]
        /\ UNCHANGED <<votes, job>>
        /\ pc[w] = "waiting" /\ lock[job[w].target] = Free /\ Voted(w) = {}
    BY <1>5 DEF EnterNew, Enter, Goto, Ready, db
  <2>2. HoldersInside'
    BY <1>0, <2>1, VotingAssumption
    DEF HoldersInside, TypeInv, TypeOK, Busy, Job, Free
  <2>3. NoRowYet'
    BY <2>1 DEF NoRowYet, Voted, RowsOf, TypeInv, TypeOK
  <2> QED  BY <2>1, <2>2, <2>3 DEF Unique
<1>6. CASE EnterExisting(w)
  <2>1. PICK dir : job' = [job EXCEPT ![w].dir = dir]
    BY <1>6 DEF EnterExisting
  <2>2. PICK step \in {"flip", "revoke"} : pc' = [pc EXCEPT ![w] = step]
    BY <1>6 DEF EnterExisting, Enter, Goto
  <2>3. /\ lock' = [lock EXCEPT ![job[w].target] = w]
        /\ votes' = votes
        /\ pc[w] = "waiting" /\ lock[job[w].target] = Free
    BY <1>6 DEF EnterExisting, Enter, Ready, db
  <2>4. \A x \in Worker : pc[x] # "idle" =>
          job'[x].target = job[x].target /\ job'[x].user = job[x].user
    BY <2>1 DEF TypeInv, TypeOK, Busy, Job
  <2>5. HoldersInside'
    BY <1>0, <1>a, <2>2, <2>3, <2>4, VotingAssumption
    DEF HoldersInside, TypeInv, TypeOK, Busy, Job, Free
  <2>6. NoRowYet'
    BY <2>2, <2>3, <2>4 DEF NoRowYet, Voted, RowsOf, TypeInv, TypeOK, Casting
  <2> QED  BY <2>3, <2>5, <2>6 DEF Unique
<1>7. CASE Flip(w)
  <2> DEFINE t == job[w].target
             rest == votes[t] \ RowRead(w)
             turned == [id |-> found[w].id, user |-> job[w].user,
                        effect |-> -found[w].effect]
  <2>1. /\ pc[w] = "flip" /\ pc' = [pc EXCEPT ![w] = "retally"]
        /\ UNCHANGED <<lock, job>> /\ t \in Target
    BY <1>0, <1>7 DEF Flip, Goto, session
  <2>2. \/ votes' = [votes EXCEPT ![t] = rest]
        \/ votes' = [votes EXCEPT ![t] = rest \cup {turned}] /\ RowRead(w) # {}
    BY <1>7 DEF Flip
  <2>3. \A v \in rest : RowRead(w) # {} => v.user # job[w].user
    BY <2>1 DEF Unique, RowRead, Voted, RowsOf
  <2>4. Unique'
    BY <2>1, <2>2, <2>3 DEF Unique, TypeInv, TypeOK
  <2>5. HoldersInside'
    BY <1>a, <2>1 DEF HoldersInside, TypeInv, TypeOK
  <2>6. \A x \in Worker : pc'[x] \in Casting =>
          pc'[x] = pc[x] /\ job[x].target \in Target /\ job[x].target # t
    BY <1>a, <2>1, Exclusion DEF Casting, TypeInv, TypeOK, Busy, Job
  <2>7. NoRowYet'
    BY <2>1, <2>2, <2>6 DEF NoRowYet, Voted, RowsOf, TypeInv, TypeOK
  <2> QED  BY <2>4, <2>5, <2>7
<1>8. CASE Insert(w)
  <2> DEFINE t == job[w].target
             row == [id |-> nextId[t], user |-> job[w].user,
                     effect |-> EffectOf(job[w].dir)]
  <2>1. /\ pc[w] = "insert" /\ Close(w) /\ Release(w) /\ t \in Target
        /\ votes' = [votes EXCEPT ![t] = @ \cup {row}]
    BY <1>0, <1>8 DEF Insert
  <2>2. Voted(w) = {}
    BY <2>1 DEF NoRowYet, Casting
  <2>3. Unique'
    BY <2>1, <2>2 DEF Unique, Voted, RowsOf, TypeInv, TypeOK
  <2>4. \A x \in Worker : pc'[x] # "idle" =>
          x # w /\ pc'[x] = pc[x] /\ job'[x] = job[x]
    BY <2>1 DEF Close, Goto, TypeInv, TypeOK
  <2>5. \A x \in Worker : pc'[x] \in Inside =>
          job[x].target \in Target /\ job[x].target # t
    BY <1>a, <2>1, <2>4, Exclusion DEF TypeInv, TypeOK, Busy, Job
  <2>6. HoldersInside'
    BY <1>a, <2>1, <2>4, <2>5 DEF HoldersInside, Release, TypeInv, TypeOK
  <2>7. NoRowYet'
    BY <1>a, <2>1, <2>4, <2>5
    DEF NoRowYet, Casting, Voted, RowsOf, TypeInv, TypeOK
  <2> QED  BY <2>3, <2>6, <2>7
<1>9. CASE Undo(w)
  <2>1. /\ pc[w] = "undoing" /\ Close(w) /\ lock' = lock
        /\ votes' = [votes EXCEPT ![job[w].target] = @ \ RowRead(w)]
    BY <1>9 DEF Undo
  <2>2. \A t \in Target : votes'[t] \subseteq votes[t]
    BY <1>0, <2>1 DEF TypeInv, TypeOK
  <2>3. \A x \in Worker : pc'[x] # "idle" =>
          x # w /\ pc'[x] = pc[x] /\ job'[x] = job[x]
    BY <2>1 DEF Close, Goto, TypeInv, TypeOK
  <2>4. HoldersInside'
    BY <1>a, <2>1, <2>3 DEF HoldersInside
  <2>5. NoRowYet'
    BY <2>2, <2>3 DEF NoRowYet, Casting, Voted, RowsOf, TypeInv, Busy, Job,
                      TypeOK
  <2>6. Unique'
    BY <2>2 DEF Unique
  <2> QED  BY <2>4, <2>5, <2>6
<1> QED
  BY <1>1, <1>2, <1>3, <1>4, <1>5, <1>6, <1>7, <1>8, <1>9 DEF Serve

LEMMA CrashOneVote ==
  ASSUME TypeInv, HoldersInside, NoRowYet, Unique, NEW w \in Worker, Crash(w)
  PROVE  HoldersInside' /\ NoRowYet' /\ Unique'
<1>1. /\ votes' = votes /\ Close(w)
      /\ lock' = [t \in Target |-> IF lock[t] = w THEN Orphan ELSE lock[t]]
  BY DEF Crash, db
<1>2. \A x \in Worker : pc'[x] # "idle" => x # w /\ pc'[x] = pc[x] /\ job'[x] = job[x]
  BY <1>1 DEF TypeInv, TypeOK, Close, Goto
<1>3. HoldersInside'
  BY <1>1, <1>2 DEF HoldersInside, Inside, Revoking, Casting, TypeInv, TypeOK,
                    Busy, Job
<1>4. NoRowYet'
  BY <1>1, <1>2 DEF NoRowYet, Casting, Voted, RowsOf
<1> QED  BY <1>1, <1>3, <1>4 DEF Unique

LEMMA ExpireOneVote ==
  ASSUME TypeInv, HoldersInside, NoRowYet, Unique, NEW t \in Target, Expire(t),
         Sound'
  PROVE  HoldersInside' /\ NoRowYet' /\ Unique'
<1>1. lock[t] \notin Worker
  BY DEF Expire, Note, Sound
<1>2. /\ lock' = [lock EXCEPT ![t] = Free]
      /\ UNCHANGED <<votes, pc, job>>
  BY DEF Expire, db
<1>3. HoldersInside'
  BY <1>1, <1>2 DEF HoldersInside, TypeInv, TypeOK
<1> QED  BY <1>2, <1>3 DEF NoRowYet, Unique, Voted, RowsOf

LEMMA NextOneVote == TypeInv /\ OneVoteInv /\ [Next]_vars => OneVoteInv'
<1> SUFFICES ASSUME TypeInv, OneVoteInv, [Next]_vars, Sound'
             PROVE  HoldersInside' /\ NoRowYet' /\ Unique'
  BY DEF OneVoteInv
<1>1. HoldersInside /\ NoRowYet /\ Unique
  BY SoundBefore DEF OneVoteInv
<1>2. CASE UNCHANGED vars
  BY <1>1, <1>2 DEF vars, HoldersInside, NoRowYet, Unique, Voted, RowsOf
<1> QED
  BY <1>1, <1>2, ArriveOneVote, ServeOneVote, CrashOneVote, ExpireOneVote
  DEF Next

\* A user never has two votes on one post or comment, however many workers,
\* users and requests there are and whenever they crash, unless a holder
\* outlived its lock.
THEOREM OneVote == Spec => []OneVotePerUser
<1>1. TypeInv /\ OneVoteInv /\ [][Next]_vars => []OneVoteInv
  <2>1. TypeInv /\ [][Next]_vars => []TypeInv
    BY NextType, PTL
  <2> QED  BY <2>1, NextOneVote, PTL
<1> QED  BY <1>1, InitType, InitOneVote, InvImpliesOneVote, PTL DEF Spec

-----------------------------------------------------------------------------
(***************************************************************************)
(* The counters.  Whoever is inside vote() between the commit that changes *)
(* the counters and the one that changes the rows owes the counters a      *)
(* change, and it alone: with what is owed they always agree with the rows *)
(* of votes.                                                               *)
(***************************************************************************)
Owing == {"retally", "reread", "store", "adjust", "quota", "bump", "insert"}
Due(w, t) == pc[w] \in Owing /\ job[w].target = t
Owed(w) ==
  IF pc[w] \in {"retally", "reread", "store", "adjust"} THEN Correction(w)
  ELSE Withdrawn(EffectOf(job[w].dir))

Count(S, e) == Cardinality({v \in S : v.effect = e})
Plain == {SpicyUnder10, SpicyUnder30, SpicyUnder60} = {1}
Agrees(t, ch) ==
  /\ tally[t].up + ch.up = Count(votes[t], 1)
  /\ tally[t].down + ch.down = Count(votes[t], -1)
  /\ Plain => tally[t].score + ch.score = Count(votes[t], 1) - Count(votes[t], -1)
Balanced(t) ==
  /\ IsFiniteSet(votes[t])
  /\ \A w \in Worker : Due(w, t) => Agrees(t, Owed(w))
  /\ (\A w \in Worker : ~Due(w, t)) => Agrees(t, NoVotes)

\* Whoever changes a vote has made up its mind which way, and only a vote that
\* is turned around is read again.
Directed ==
  \A w \in Worker :
    /\ pc[w] \in Revoking => job[w].dir \in {"upvote", "downvote"}
    /\ pc[w] = "reread" => ~Withdraws(w)

Straight == Spared({"crash", "overrun", "stale", "moved"})
TallyInv == Straight => \A t \in Target : Balanced(t)

\* One vote more, one vote less.
LEMMA CountType ==
  ASSUME NEW S, IsFiniteSet(S), NEW e
  PROVE  Count(S, e) \in Nat
<1>1. IsFiniteSet({v \in S : v.effect = e})
  BY FS_Subset
<1> QED  BY <1>1, FS_CardinalityType DEF Count

LEMMA CountMore ==
  ASSUME NEW S, IsFiniteSet(S), NEW v, v \notin S, NEW e
  PROVE  /\ IsFiniteSet(S \cup {v})
         /\ Count(S \cup {v}, e) = Count(S, e) + IF v.effect = e THEN 1 ELSE 0
<1> DEFINE of(X) == {x \in X : x.effect = e}
<1>1. IsFiniteSet(S \cup {v}) /\ IsFiniteSet(of(S))
  BY FS_AddElement, FS_Subset
<1>2. CASE v.effect = e
  <2>1. of(S \cup {v}) = of(S) \cup {v} /\ v \notin of(S)
    BY <1>2
  <2>2. Cardinality(of(S) \cup {v}) = Cardinality(of(S)) + 1
    BY <1>1, <2>1, FS_AddElement
  <2> QED  BY <1>1, <1>2, <2>1, <2>2 DEF Count
<1>3. CASE v.effect # e
  <2>1. of(S \cup {v}) = of(S)
    BY <1>3
  <2>2. Count(S, e) \in Nat /\ Count(S \cup {v}, e) = Count(S, e)
    BY <2>1, CountType DEF Count
  <2> QED  BY <1>1, <1>3, <2>2
<1> QED  BY <1>2, <1>3

LEMMA CountLess ==
  ASSUME NEW S, IsFiniteSet(S), NEW v \in S, NEW e
  PROVE  /\ IsFiniteSet(S \ {v})
         /\ Count(S \ {v}, e) = Count(S, e) - IF v.effect = e THEN 1 ELSE 0
<1>1. IsFiniteSet(S \ {v}) /\ v \notin S \ {v} /\ S = (S \ {v}) \cup {v}
  BY FS_RemoveElement
<1>2. Count(S, e) = Count(S \ {v}, e) + IF v.effect = e THEN 1 ELSE 0
  BY <1>1, CountMore
<1>3. Count(S, e) \in Nat /\ Count(S \ {v}, e) \in Nat
  BY <1>1, CountType
<1> QED  BY <1>1, <1>2, <1>3

\* What the ORM writes when its copy is not stale.
LEMMA StoredFresh ==
  ASSUME NEW now \in Tally, NEW copied \in Tally, NEW ch \in Tally, ~IsStale(now, copied, ch)
  PROVE  /\ Stored(now, copied, ch).up = now.up + ch.up
         /\ Stored(now, copied, ch).down = now.down + ch.down
         /\ Stored(now, copied, ch).score = now.score + ch.score
<1>1. /\ Stored(now, copied, ch).up = IF ch.up = 0 THEN now.up ELSE copied.up + ch.up
      /\ Stored(now, copied, ch).down = IF ch.down = 0 THEN now.down ELSE copied.down + ch.down
      /\ Stored(now, copied, ch).score = IF ch.score = 0 THEN now.score ELSE copied.score + ch.score
  BY DEF Stored
<1>2. /\ ch.up # 0 => now.up = copied.up
      /\ ch.down # 0 => now.down = copied.down
      /\ ch.score # 0 => now.score = copied.score
  BY DEF IsStale
<1> QED  BY <1>1, <1>2 DEF Tally

\* The other workers stay where they are.
LEMMA OthersStay ==
  ASSUME TypeInv, NEW w \in Worker, Arrive(w) \/ Serve(w) \/ Crash(w),
         NEW x \in Worker, x # w
  PROVE  pc'[x] = pc[x] /\ job'[x] = job[x] /\ found'[x] = found[x]
<1>1. CASE Arrive(w)
  BY <1>1 DEF Arrive, Begin, BeginUndo, Goto, TypeInv, TypeOK
<1>2. CASE Crash(w)
  BY <1>2 DEF Crash, Close, Goto, TypeInv, TypeOK
<1>3. CASE Serve(w)
  <2>1. ASSUME Close(w) PROVE pc'[x] = pc[x] /\ job'[x] = job[x] /\ found'[x] = found[x]
    BY <2>1 DEF Close, Goto, TypeInv, TypeOK
  <2>2. CASE EnterNew(w) \/ EnterExisting(w)
    BY <2>2 DEF EnterNew, EnterExisting, Enter, Goto, session, TypeInv, TypeOK
  <2>3. CASE Revoke(w) \/ Reload(w) \/ Flip(w) \/ Retally(w) \/ Reread(w)
    BY <2>3 DEF Revoke, Reload, Flip, Retally, Reread, Goto, session, TypeInv, TypeOK
  <2>4. CASE Cast(w) \/ CountVotes(w) \/ Bump(w)
    BY <2>4 DEF Cast, CountVotes, Bump, Goto, session, TypeInv, TypeOK
  <2> QED
    BY <1>3, <2>1, <2>2, <2>3, <2>4
    DEF Serve, GiveUp, NothingToReverse, ChangeEmoji, NoUserLock, ReloadGone,
        FlipGone, RereadGone, Store, Insert, Undo
<1> QED  BY <1>1, <1>2, <1>3

LEMMA NextDirected ==
  ASSUME TypeInv, Directed, [Next]_vars
  PROVE  Directed'
<1>1. ASSUME NEW w \in Worker, NEW x \in Worker, x # w,
             pc'[x] = pc[x], job'[x] = job[x], found'[x] = found[x]
      PROVE  /\ pc'[x] \in Revoking => job'[x].dir \in {"upvote", "downvote"}
             /\ pc'[x] = "reread" => ~Withdraws(x)'
  BY <1>1 DEF Directed, Withdraws
<1>2. ASSUME NEW w \in Worker, Arrive(w) \/ Serve(w) \/ Crash(w),
             /\ pc'[w] \in Revoking => job'[w].dir \in {"upvote", "downvote"}
             /\ pc'[w] = "reread" => ~Withdraws(w)'
      PROVE  Directed'
  BY <1>1, <1>2, OthersStay DEF Directed
<1>3. ASSUME NEW w \in Worker, pc'[w] \notin Revoking, Arrive(w) \/ Serve(w) \/ Crash(w)
      PROVE  Directed'
  BY <1>2, <1>3 DEF Revoking
<1>4. ASSUME NEW w \in Worker, Close(w), Arrive(w) \/ Serve(w) \/ Crash(w)
      PROVE  Directed'
  BY <1>3, <1>4 DEF Close, Goto, TypeInv, TypeOK, Revoking
<1>5. ASSUME NEW w \in Worker, Arrive(w) PROVE Directed'
  BY <1>3, <1>5 DEF Arrive, Begin, BeginUndo, Goto, TypeInv, TypeOK, Revoking
<1>6. ASSUME NEW w \in Worker, Serve(w) PROVE Directed'
  <2>1. CASE \/ GiveUp(w) \/ NothingToReverse(w) \/ ChangeEmoji(w) \/ NoUserLock(w)
             \/ ReloadGone(w) \/ FlipGone(w) \/ RereadGone(w) \/ Store(w) \/ Insert(w)
             \/ Undo(w)
    BY <1>4, <1>6, <2>1 DEF GiveUp, NothingToReverse, ChangeEmoji, NoUserLock, ReloadGone,
                            FlipGone, RereadGone, Store, Insert, Undo
  <2>2. CASE EnterNew(w) \/ Cast(w) \/ CountVotes(w) \/ Bump(w)
    BY <1>3, <1>6, <2>2 DEF EnterNew, Enter, Cast, CountVotes, Bump, Goto, TypeInv, TypeOK,
                            Revoking
  <2>3. CASE EnterExisting(w)
    <3>1. /\ pc'[w] \in {"flip", "revoke"} /\ pc[w] = "waiting"
      BY <2>3 DEF EnterExisting, Enter, Ready, Goto, TypeInv, TypeOK
    <3>2. PICK v : job' = [job EXCEPT ![w].dir = Wanted(w, v)]
      BY <2>3 DEF EnterExisting
    <3>3. Wanted(w, v) \in {"upvote", "downvote"} /\ job[w] \in Job
      BY <3>1 DEF Wanted, DirOf, TypeInv, TypeOK, Busy, Job, Direction
    <3>4. job'[w].dir = Wanted(w, v)
      BY <3>2, <3>3 DEF TypeInv, TypeOK, Job
    <3> QED  BY <1>2, <1>6, <3>1, <3>3, <3>4
  <2>4. CASE Revoke(w) \/ Reload(w) \/ Flip(w) \/ Reread(w)
    <3>1. /\ pc[w] \in Revoking /\ pc'[w] # "reread" /\ job' = job
      BY <2>4 DEF Revoke, Reload, Flip, Reread, Goto, session, TypeInv, TypeOK, Revoking
    <3> QED  BY <1>2, <1>6, <3>1 DEF Directed
  <2>5. CASE Retally(w)
    <3>1. /\ pc[w] \in Revoking /\ job' = job /\ found' = found
          /\ pc'[w] = "reread" => ~Withdraws(w)
      BY <2>5 DEF Retally, Goto, TypeInv, TypeOK, Revoking
    <3> QED  BY <1>2, <1>6, <3>1 DEF Directed, Withdraws
  <2> QED  BY <1>6, <2>1, <2>2, <2>3, <2>4, <2>5 DEF Serve
<1>7. ASSUME NEW w \in Worker, Crash(w) PROVE Directed'
  BY <1>4, <1>7 DEF Crash
<1>8. CASE UNCHANGED <<pc, job, found>>
  BY <1>8 DEF Directed, Withdraws
<1>9. ASSUME NEW t \in Target, Expire(t) PROVE Directed'
  BY <1>8, <1>9 DEF Expire, session
<1> QED  BY <1>5, <1>6, <1>7, <1>8, <1>9 DEF Next, vars

LEMMA SameDue ==
  ASSUME NEW x, NEW t, pc'[x] = pc[x], job'[x] = job[x], found'[x] = found[x]
  PROVE  (Due(x, t)' <=> Due(x, t)) /\ Owed(x)' = Owed(x)
  BY DEF Due, Owed, Correction, Withdraws

\* A step that changes neither rows nor counters of t, nor what is owed them.
LEMMA SameBalance ==
  ASSUME NEW t \in Target, Balanced(t), votes'[t] = votes[t], tally'[t] = tally[t],
         \A x \in Worker : (Due(x, t)' <=> Due(x, t)) /\ (Due(x, t) => Owed(x)' = Owed(x))
  PROVE  Balanced(t)'
  BY DEF Balanced, Agrees

\* The steps that change neither rows nor counters.
LEMMA PassingBalance ==
  ASSUME TypeInv, NEW w \in Worker, NEW t \in Target, Balanced(t),
         \/ Arrive(w) \/ GiveUp(w) \/ NothingToReverse(w) \/ ChangeEmoji(w)
         \/ EnterNew(w) \/ EnterExisting(w) \/ NoUserLock(w)
         \/ Revoke(w) \/ Reload(w) \/ ReloadGone(w) \/ FlipGone(w)
  PROVE  Balanced(t)'
<1>1. /\ UNCHANGED <<votes, tally>>
      /\ pc[w] \notin Owing /\ pc'[w] \notin Owing
  <2>1. ASSUME Close(w) PROVE pc'[w] \notin Owing
    BY <2>1 DEF Close, Goto, TypeInv, TypeOK, Owing
  <2>2. CASE Arrive(w)
    BY <2>2 DEF Arrive, Begin, BeginUndo, Goto, TypeInv, TypeOK, Owing, db
  <2>3. CASE EnterNew(w) \/ EnterExisting(w)
    BY <2>3 DEF EnterNew, EnterExisting, Enter, Ready, Goto, TypeInv, TypeOK, Owing, db
  <2>4. CASE Revoke(w) \/ Reload(w)
    BY <2>4 DEF Revoke, Reload, Goto, TypeInv, TypeOK, Owing, db
  <2>5. CASE \/ GiveUp(w) \/ NothingToReverse(w) \/ ChangeEmoji(w) \/ NoUserLock(w)
             \/ ReloadGone(w) \/ FlipGone(w)
    BY <2>1, <2>5 DEF GiveUp, NothingToReverse, ChangeEmoji, NoUserLock, ReloadGone,
                      FlipGone, Ready, Owing, db
  <2> QED  BY <2>2, <2>3, <2>4, <2>5
<1>2. ~Due(w, t) /\ ~Due(w, t)'
  BY <1>1 DEF Due
<1>3. \A x \in Worker : x # w => (Due(x, t)' <=> Due(x, t)) /\ Owed(x)' = Owed(x)
  BY OthersStay, SameDue DEF Serve
<1> QED  BY <1>1, <1>2, <1>3, SameBalance

\* A step within vote() that changes neither, and owes what it owed.
LEMMA OwingBalance ==
  ASSUME TypeInv, NEW w \in Worker, NEW t \in Target, Balanced(t),
         Retally(w) \/ CountVotes(w) \/ Bump(w)
  PROVE  Balanced(t)'
<1>1. /\ UNCHANGED <<votes, tally, job, found>>
      /\ \/ pc[w] = "retally" /\ pc'[w] \in {"store", "reread"}
         \/ pc[w] \in {"quota", "bump"} /\ pc'[w] \in {"bump", "insert"}
  BY DEF Retally, CountVotes, Bump, Goto, TypeInv, TypeOK, db, session
<1>2. (Due(w, t)' <=> Due(w, t)) /\ Owed(w)' = Owed(w)
  BY <1>1 DEF Due, Owing, Owed, Correction, Withdraws
<1>3. \A x \in Worker : x # w => (Due(x, t)' <=> Due(x, t)) /\ Owed(x)' = Owed(x)
  BY OthersStay, SameDue DEF Serve
<1> QED  BY <1>1, <1>2, <1>3, SameBalance

\* The row that was turned around is read again as it was written.
LEMMA RereadBalance ==
  ASSUME TypeInv, NEW w \in Worker, NEW t \in Target, Balanced(t), Directed,
         Reread(w), "moved" \notin mishaps'
  PROVE  Balanced(t)'
<1> DEFINE e == found[w].effect
<1>1. /\ UNCHANGED <<votes, tally, job>> /\ pc[w] = "reread" /\ pc'[w] = "adjust"
      /\ found'[w].effect = -e
  BY DEF Reread, Note, Goto, TypeInv, TypeOK, Read, db
<1>2. e \in Effect /\ ~Withdraws(w)
  BY <1>1 DEF TypeInv, TypeOK, Read, Directed
<1>3. EffectOf(job[w].dir) = -e
  BY <1>1, <1>2 DEF Directed, Withdraws, DirOf, EffectOf, Effect, Revoking
<1>4. Owed(w) = Reversed(e)
  BY <1>1, <1>2 DEF Owed, Correction
<1>5. Owed(w)' = Turned(job[w].dir, -e)
  BY <1>1 DEF Owed, Correction
<1>6. Turned(job[w].dir, -e) = Reversed(e)
  <2> HIDE DEF e
  <2> QED  BY <1>2, <1>3 DEF Turned, Reversed, Effect
<1>7. (Due(w, t)' <=> Due(w, t)) /\ Owed(w)' = Owed(w)
  BY <1>1, <1>4, <1>5, <1>6 DEF Due, Owing
<1>8. \A x \in Worker : x # w => (Due(x, t)' <=> Due(x, t)) /\ Owed(x)' = Owed(x)
  BY OthersStay, SameDue DEF Serve
<1> QED  BY <1>1, <1>7, <1>8, SameBalance

\* A step that changes rows or counters of one object.
LEMMA ElsewhereBalance ==
  ASSUME TypeInv, NEW w \in Worker, NEW t \in Target, Balanced(t),
         Serve(w), t # job[w].target, job'[w].target = job[w].target \/ pc'[w] \notin Owing,
         votes'[t] = votes[t], tally'[t] = tally[t]
  PROVE  Balanced(t)'
<1>1. ~Due(w, t) /\ ~Due(w, t)'
  BY DEF Due
<1>2. \A x \in Worker : x # w => (Due(x, t)' <=> Due(x, t)) /\ Owed(x)' = Owed(x)
  BY OthersStay, SameDue
<1> QED  BY <1>1, <1>2, SameBalance

\* Inside vote() a worker is alone with its object, and its voter has at most
\* one row.
LEMMA AloneThere ==
  ASSUME TypeInv, HoldersInside, NEW w \in Worker, pc[w] \in Inside, NEW x \in Worker, x # w
  PROVE  ~Due(x, job[w].target)
  BY Exclusion DEF Due, Owing, Inside, Revoking, Casting

LEMMA OnlyRow ==
  ASSUME TypeInv, Unique, NEW w \in Worker, pc[w] # "idle", NEW v \in RowRead(w)
  PROVE  RowRead(w) = {v} /\ v \in votes[job[w].target] /\ v \in Vote
  BY DEF TypeInv, TypeOK, Busy, Job, Unique, RowRead, Voted, RowsOf

LEMMA WithdrawnParts ==
  ASSUME NEW e \in Effect
  PROVE  /\ Withdrawn(e) \in Tally /\ Reversed(e) \in Tally
         /\ Withdrawn(e).up = (IF e = 1 THEN -1 ELSE 0)
         /\ Withdrawn(e).down = (IF e = -1 THEN -1 ELSE 0)
         /\ Withdrawn(e).score = -e
         /\ Reversed(e).up = -e /\ Reversed(e).down = e /\ Reversed(e).score = -2 * e
  BY ChangeTypes DEF Withdrawn, Reversed, Change

LEMMA OwedAgrees ==
  ASSUME NEW w, NEW t, NEW ch, Owed(w)' = ch,
         tally'[t].up + ch.up = Count(votes'[t], 1),
         tally'[t].down + ch.down = Count(votes'[t], -1),
         Plain => tally'[t].score + ch.score = Count(votes'[t], 1) - Count(votes'[t], -1)
  PROVE  Agrees(t, Owed(w))'
  BY DEF Agrees

\* The row of votes is taken away or turned around: the counters are owed that.
LEMMA FlipBalance ==
  ASSUME TypeInv, HoldersInside, Unique, NEW w \in Worker, NEW t \in Target, Balanced(t),
         Flip(w), "moved" \notin mishaps'
  PROVE  Balanced(t)'
<1> DEFINE s == job[w].target
           e == found[w].effect
           turned == [id |-> found[w].id, user |-> job[w].user, effect |-> -e]
<1>1. /\ pc[w] = "flip" /\ pc'[w] = "retally" /\ UNCHANGED <<tally, job, found>>
      /\ s \in Target /\ e \in Effect
  BY DEF Flip, Goto, session, TypeInv, TypeOK, Busy, Job, Read
<1>2. \E v \in RowRead(w) : v.effect = e
  BY DEF Flip, Note
<1>3. PICK v \in RowRead(w) : v.effect = e
  BY <1>2
<1>4. RowRead(w) = {v} /\ v \in votes[s] /\ v.user = job[w].user
  BY <1>1, <1>3, OnlyRow DEF RowRead, Voted, RowsOf
<1>5. \/ Withdraws(w) /\ votes' = [votes EXCEPT ![s] = @ \ {v}]
      \/ ~Withdraws(w) /\ votes' = [votes EXCEPT ![s] = (@ \ {v}) \cup {turned}]
  BY <1>4 DEF Flip
<1>6. CASE t # s
  <2>1. votes'[t] = votes[t] /\ tally'[t] = tally[t] /\ job'[w].target = s
    BY <1>1, <1>5, <1>6 DEF TypeInv, TypeOK
  <2> QED  BY <1>6, <2>1, ElsewhereBalance DEF Serve
<1>7. CASE t = s
  <2>1. \A x \in Worker : ~Due(x, t)
    BY <1>1, <1>7, AloneThere DEF Due, Owing, Inside, Revoking
  <2>2. Agrees(t, NoVotes) /\ IsFiniteSet(votes[t])
    BY <2>1 DEF Balanced
  <2>3. \A x \in Worker : x # w => ~Due(x, t)'
    BY <2>1, OthersStay, SameDue DEF Serve
  <2>4. Owed(w)' = IF Withdraws(w) THEN Withdrawn(e) ELSE Reversed(e)
    BY <1>1 DEF Owed, Correction, Withdraws
  <2>5. Due(w, t)'
    BY <1>1, <1>7 DEF Due, Owing
  <2>6. /\ IsFiniteSet(votes[t] \ {v})
        /\ Count(votes[t] \ {v}, 1) = Count(votes[t], 1) - IF e = 1 THEN 1 ELSE 0
        /\ Count(votes[t] \ {v}, -1) = Count(votes[t], -1) - IF e = -1 THEN 1 ELSE 0
        /\ Count(votes[t], 1) \in Nat /\ Count(votes[t], -1) \in Nat
    <3>1. v \in votes[t] /\ v.effect = e
      BY <1>3, <1>4, <1>7
    <3> HIDE DEF e
    <3> QED  BY <2>2, <3>1, CountLess, CountType
  <2>7. tally[t] \in Tally
    BY DEF TypeInv, TypeOK
  <2>8. CASE Withdraws(w)
    <3>1. votes'[t] = votes[t] \ {v} /\ tally'[t] = tally[t]
      BY <1>1, <1>5, <1>7, <2>8 DEF TypeInv, TypeOK
    <3>2. Agrees(t, Owed(w))'
      <4>1. PICK ch : ch = Withdrawn(e)
        OBVIOUS
      <4>2. /\ ch.up = (IF e = 1 THEN -1 ELSE 0) /\ ch.down = (IF e = -1 THEN -1 ELSE 0)
            /\ ch.score = -e /\ Owed(w)' = ch
        BY <1>1, <2>4, <2>8, <4>1, WithdrawnParts
      <4> HIDE DEF e
      <4>3. /\ tally'[t].up + ch.up = Count(votes'[t], 1)
            /\ tally'[t].down + ch.down = Count(votes'[t], -1)
            /\ Plain => tally'[t].score + ch.score = Count(votes'[t], 1) - Count(votes'[t], -1)
        BY <1>1, <2>2, <2>6, <2>7, <3>1, <4>2 DEF Agrees, NoVotes, Effect, Tally
      <4> QED  BY <4>2, <4>3, OwedAgrees
    <3> QED  BY <2>3, <2>5, <2>6, <3>1, <3>2 DEF Balanced
  <2>9. CASE ~Withdraws(w)
    <3>1. votes'[t] = (votes[t] \ {v}) \cup {turned} /\ tally'[t] = tally[t]
      BY <1>1, <1>5, <1>7, <2>9 DEF TypeInv, TypeOK
    <3>2. turned \notin votes[t] \ {v}
      BY <1>4, <1>7 DEF Unique
    <3>3. /\ IsFiniteSet(votes'[t])
          /\ Count(votes'[t], 1) = Count(votes[t], 1) - e
          /\ Count(votes'[t], -1) = Count(votes[t], -1) + e
      <4>1. turned.effect = -e
        OBVIOUS
      <4> HIDE DEF turned, e
      <4> DEFINE rest == votes[t] \ {v}
      <4>2. /\ IsFiniteSet(rest \cup {turned})
            /\ Count(rest \cup {turned}, 1) = Count(rest, 1) + IF -e = 1 THEN 1 ELSE 0
            /\ Count(rest \cup {turned}, -1) = Count(rest, -1) + IF -e = -1 THEN 1 ELSE 0
        <5>1. IsFiniteSet(rest) /\ turned \notin rest
          BY <2>6, <3>2
        <5> HIDE DEF rest
        <5> QED  BY <4>1, <5>1, CountMore
      <4>3. votes'[t] = rest \cup {turned}
        BY <3>1
      <4> QED  BY <1>1, <2>6, <4>2, <4>3 DEF Effect
    <3>4. Agrees(t, Owed(w))'
      <4>1. PICK ch : ch = Reversed(e)
        OBVIOUS
      <4>2. ch.up = -e /\ ch.down = e /\ ch.score = -2 * e /\ Owed(w)' = ch
        BY <1>1, <2>4, <2>9, <4>1, WithdrawnParts
      <4> HIDE DEF e
      <4>3. /\ tally'[t].up + ch.up = Count(votes'[t], 1)
            /\ tally'[t].down + ch.down = Count(votes'[t], -1)
            /\ Plain => tally'[t].score + ch.score = Count(votes'[t], 1) - Count(votes'[t], -1)
        BY <1>1, <2>2, <2>6, <2>7, <3>1, <3>3, <4>2 DEF Agrees, NoVotes, Effect, Tally
      <4> QED  BY <4>2, <4>3, OwedAgrees
    <3> QED  BY <2>3, <2>5, <3>3, <3>4 DEF Balanced
  <2> QED  BY <2>8, <2>9
<1> QED  BY <1>6, <1>7

LEMMA ClosedIdle ==
  ASSUME TypeInv, NEW w \in Worker, Close(w)
  PROVE  pc'[w] = "idle" /\ \A t : ~Due(w, t)'
  BY DEF Close, Goto, TypeInv, TypeOK, Due, Owing

\* Nobody is left to owe the counters of t anything.
LEMMA SettledUp ==
  ASSUME NEW t \in Target, \A x \in Worker : ~Due(x, t)', IsFiniteSet(votes'[t]),
         tally'[t].up = Count(votes'[t], 1), tally'[t].down = Count(votes'[t], -1),
         Plain => tally'[t].score = Count(votes'[t], 1) - Count(votes'[t], -1),
         tally'[t] \in Tally
  PROVE  Balanced(t)'
  BY DEF Balanced, Agrees, NoVotes, Tally

\* What is owed is written to the counters.
LEMMA StoreBalance ==
  ASSUME TypeInv, TypeInv', HoldersInside, NEW w \in Worker, NEW t \in Target, Balanced(t),
         Store(w), "stale" \notin mishaps'
  PROVE  Balanced(t)'
<1> DEFINE s == job[w].target
           change == Correction(w)
<1>1. /\ pc[w] \in {"store", "adjust"} /\ votes' = votes /\ s \in Target /\ found[w].effect \in Effect
      /\ tally' = [tally EXCEPT ![s] = Stored(@, copy[w], change)]
      /\ ~IsStale(tally[s], copy[w], change) /\ Close(w)
  BY DEF Store, Note, TypeInv, TypeOK, Busy, Job, Read
<1>2. change \in Tally /\ tally[s] \in Tally /\ copy[w] \in Tally /\ tally'[t] \in Tally
  BY <1>1, ChangeTypes DEF TypeInv, TypeOK, Correction
<1>3. Owed(w) = change /\ Due(w, s) /\ pc[w] \in Inside
  BY <1>1 DEF Owed, Due, Owing, Inside, Revoking
<1>4. pc'[w] = "idle" /\ ~Due(w, t)'
  BY <1>1, ClosedIdle
<1>5. CASE t # s
  <2>1. votes'[t] = votes[t] /\ tally'[t] = tally[t] /\ pc'[w] \notin Owing
    BY <1>1, <1>4, <1>5 DEF TypeInv, TypeOK, Owing
  <2> QED  BY <1>5, <2>1, ElsewhereBalance DEF Serve
<1>6. CASE t = s
  <2>1. \A x \in Worker : x # w => ~Due(x, t)'
    BY <1>3, <1>6, AloneThere, OthersStay, SameDue DEF Serve
  <2>2. Agrees(t, change) /\ IsFiniteSet(votes[t]) /\ votes'[t] = votes[t]
    BY <1>1, <1>3, <1>6 DEF Balanced
  <2>3. /\ tally'[t].up = tally[t].up + change.up
        /\ tally'[t].down = tally[t].down + change.down
        /\ tally'[t].score = tally[t].score + change.score
    <3>1. tally'[t] = Stored(tally[t], copy[w], change)
      BY <1>1, <1>6 DEF TypeInv, TypeOK
    <3> HIDE DEF change
    <3> QED  BY <1>1, <1>2, <1>6, <3>1, StoredFresh
  <2> HIDE DEF change
  <2> QED  BY <1>2, <1>4, <2>1, <2>2, <2>3, SettledUp DEF Agrees
<1> QED  BY <1>5, <1>6

\* The counters are changed before the row is there.
LEMMA CastBalance ==
  ASSUME TypeInv, TypeInv', HoldersInside, NEW w \in Worker, NEW t \in Target, Balanced(t),
         Cast(w), "stale" \notin mishaps'
  PROVE  Balanced(t)'
<1> DEFINE s == job[w].target
           e == EffectOf(job[w].dir)
           n == copy[w].up + copy[w].down
           change == Change(IF e = 1 THEN 1 ELSE 0, IF e = -1 THEN 1 ELSE 0, Spice(s, e, n))
<1>1. /\ pc[w] = "cast" /\ pc'[w] = "quota" /\ UNCHANGED <<votes, job, found>>
      /\ s \in Target /\ e \in Effect
      /\ tally' = [tally EXCEPT ![s] = Stored(@, copy[w], change)]
      /\ ~IsStale(tally[s], copy[w], change)
  BY DEF Cast, Note, Goto, session, TypeInv, TypeOK, Busy, Job, EffectOf, Effect
<1>2. tally[s] \in Tally /\ copy[w] \in Tally /\ tally'[t] \in Tally /\ n \in Int
  BY <1>1 DEF TypeInv, TypeOK, Tally
<1>3. /\ Spice(s, e, n) \in Int
      /\ Plain => Spice(s, e, n) = e
  <2>1. Plain => SpicyUnder10 = 1 /\ SpicyUnder30 = 1 /\ SpicyUnder60 = 1
    BY DEF Plain
  <2> HIDE DEF s, e, n
  <2> QED  BY <1>1, <1>2, <2>1, SpiceType DEF Spice, Effect
<1>4. change \in Tally /\ change.up = (IF e = 1 THEN 1 ELSE 0)
        /\ change.down = (IF e = -1 THEN 1 ELSE 0) /\ change.score = Spice(s, e, n)
  <2> HIDE DEF s, e, n
  <2> QED  BY <1>3 DEF Change, Tally
<1>5. \A x \in Worker : ~Due(x, s)
  BY <1>1, AloneThere DEF Due, Owing, Inside, Casting
<1>6. CASE t # s
  <2>1. votes'[t] = votes[t] /\ tally'[t] = tally[t] /\ job'[w].target = s
    BY <1>1, <1>6 DEF TypeInv, TypeOK
  <2> QED  BY <1>6, <2>1, ElsewhereBalance DEF Serve
<1>7. CASE t = s
  <2>1. \A x \in Worker : x # w => ~Due(x, t)'
    BY <1>5, <1>7, OthersStay, SameDue DEF Serve
  <2>2. Agrees(t, NoVotes) /\ IsFiniteSet(votes[t]) /\ votes'[t] = votes[t]
    BY <1>1, <1>5, <1>7 DEF Balanced
  <2>3. /\ tally'[t].up = tally[t].up + change.up
        /\ tally'[t].down = tally[t].down + change.down
        /\ tally'[t].score = tally[t].score + change.score
    <3>1. tally'[t] = Stored(tally[t], copy[w], change)
      BY <1>1, <1>7 DEF TypeInv, TypeOK
    <3> HIDE DEF change
    <3> QED  BY <1>1, <1>2, <1>4, <1>7, <3>1, StoredFresh
  <2>4. Due(w, t)' /\ Owed(w)' = Withdrawn(e)
    BY <1>1, <1>7 DEF Due, Owing, Owed
  <2>5. PICK ch : ch = Withdrawn(e)
    OBVIOUS
  <2>6. /\ ch.up = (IF e = 1 THEN -1 ELSE 0) /\ ch.down = (IF e = -1 THEN -1 ELSE 0)
        /\ ch.score = -e /\ Owed(w)' = ch
    BY <1>1, <2>4, <2>5, WithdrawnParts
  <2>7. Count(votes[t], 1) \in Nat /\ Count(votes[t], -1) \in Nat /\ tally[t] \in Tally
    BY <2>2, CountType DEF TypeInv, TypeOK
  <2>8. Agrees(t, Owed(w))'
    <3> HIDE DEF e, change, n
    <3>1. /\ tally'[t].up + ch.up = Count(votes'[t], 1)
          /\ tally'[t].down + ch.down = Count(votes'[t], -1)
          /\ Plain => tally'[t].score + ch.score = Count(votes'[t], 1) - Count(votes'[t], -1)
      BY <1>1, <1>3, <1>4, <2>2, <2>3, <2>6, <2>7 DEF Agrees, NoVotes, Effect, Tally
    <3> QED  BY <2>6, <3>1, OwedAgrees
  <2> QED  BY <2>1, <2>2, <2>4, <2>8 DEF Balanced
<1> QED  BY <1>6, <1>7

\* The row that the counters wait for.
LEMMA InsertBalance ==
  ASSUME TypeInv, TypeInv', HoldersInside, NoRowYet, NEW w \in Worker, NEW t \in Target,
         Balanced(t), Insert(w)
  PROVE  Balanced(t)'
<1> DEFINE s == job[w].target
           e == EffectOf(job[w].dir)
           row == [id |-> nextId[s], user |-> job[w].user, effect |-> e]
<1>1. /\ pc[w] = "insert" /\ tally' = tally /\ s \in Target /\ e \in Effect /\ Close(w)
      /\ votes' = [votes EXCEPT ![s] = @ \cup {row}]
  BY DEF Insert, TypeInv, TypeOK, Busy, Job, EffectOf, Effect
<1>2. row \notin votes[s] /\ row.effect = e
  BY <1>1 DEF NoRowYet, Casting, Voted, RowsOf
<1>3. Owed(w) = Withdrawn(e) /\ Due(w, s) /\ pc[w] \in Inside
  BY <1>1 DEF Owed, Due, Owing, Inside, Casting
<1>4. pc'[w] = "idle" /\ ~Due(w, t)'
  BY <1>1, ClosedIdle
<1>5. CASE t # s
  <2>1. votes'[t] = votes[t] /\ tally'[t] = tally[t] /\ pc'[w] \notin Owing
    BY <1>1, <1>4, <1>5 DEF TypeInv, TypeOK, Owing
  <2> QED  BY <1>5, <2>1, ElsewhereBalance DEF Serve
<1>6. CASE t = s
  <2>1. \A x \in Worker : x # w => ~Due(x, t)'
    BY <1>3, <1>6, AloneThere, OthersStay, SameDue DEF Serve
  <2>2. Agrees(t, Withdrawn(e)) /\ IsFiniteSet(votes[t])
    BY <1>3, <1>6 DEF Balanced
  <2>3. /\ IsFiniteSet(votes'[t])
        /\ Count(votes'[t], 1) = Count(votes[t], 1) + IF e = 1 THEN 1 ELSE 0
        /\ Count(votes'[t], -1) = Count(votes[t], -1) + IF e = -1 THEN 1 ELSE 0
    <3>1. votes'[t] = votes[t] \cup {row} /\ row \notin votes[t] /\ row.effect = e
      BY <1>1, <1>2, <1>6 DEF TypeInv, TypeOK
    <3> HIDE DEF row, e
    <3>2. /\ IsFiniteSet(votes[t] \cup {row})
          /\ Count(votes[t] \cup {row}, 1) = Count(votes[t], 1) + IF e = 1 THEN 1 ELSE 0
          /\ Count(votes[t] \cup {row}, -1) = Count(votes[t], -1) + IF e = -1 THEN 1 ELSE 0
      <4>1. PICK S, v : S = votes[t] /\ v = row
        OBVIOUS
      <4>2. IsFiniteSet(S) /\ v \notin S /\ v.effect = e
        BY <2>2, <3>1, <4>1
      <4>3. \A f : /\ IsFiniteSet(S \cup {v})
                  /\ Count(S \cup {v}, f) = Count(S, f) + IF v.effect = f THEN 1 ELSE 0
        BY <4>2, CountMore
      <4> QED  BY <4>1, <4>2, <4>3
    <3> QED  BY <3>1, <3>2
  <2>4. Count(votes[t], 1) \in Nat /\ Count(votes[t], -1) \in Nat
    BY <2>2, CountType
  <2>5. tally[t] \in Tally /\ tally'[t] = tally[t]
    BY <1>1 DEF TypeInv, TypeOK
  <2>6. /\ tally'[t].up = Count(votes'[t], 1) /\ tally'[t].down = Count(votes'[t], -1)
        /\ Plain => tally'[t].score = Count(votes'[t], 1) - Count(votes'[t], -1)
    <3> HIDE DEF e
    <3> QED  BY <1>1, <2>2, <2>3, <2>4, <2>5, WithdrawnParts DEF Agrees, Effect, Tally
  <2> QED  BY <1>4, <2>1, <2>3, <2>5, <2>6, SettledUp
<1> QED  BY <1>5, <1>6

\* undo_vote takes row and counters back in one transaction, whoever is inside.
LEMMA UndoBalance ==
  ASSUME TypeInv, TypeInv', Unique, NEW w \in Worker, NEW t \in Target, Balanced(t),
         Undo(w), "stale" \notin mishaps', "moved" \notin mishaps'
  PROVE  Balanced(t)'
<1> DEFINE s == job[w].target
           e == found[w].effect
<1>1. /\ pc[w] = "undoing" /\ s \in Target /\ e \in Effect /\ Close(w)
      /\ tally' = [tally EXCEPT ![s] = Stored(@, copy[w], Withdrawn(e))]
      /\ votes' = [votes EXCEPT ![s] = @ \ RowRead(w)]
      /\ ~IsStale(tally[s], copy[w], Withdrawn(e))
      /\ \E v \in RowRead(w) : v.effect = e
  BY DEF Undo, TypeInv, TypeOK, Busy, Job, Read
<1>2. PICK v \in RowRead(w) : v.effect = e
  BY <1>1
<1>3. RowRead(w) = {v} /\ v \in votes[s]
  BY <1>1, <1>2, OnlyRow
<1>4. ~Due(w, t) /\ ~Due(w, t)'
  BY <1>1, ClosedIdle DEF Due, Owing
<1>5. \A x \in Worker : x # w => (Due(x, t)' <=> Due(x, t)) /\ Owed(x)' = Owed(x)
  BY OthersStay, SameDue DEF Serve
<1>6. CASE t # s
  <2>1. votes'[t] = votes[t] /\ tally'[t] = tally[t]
    BY <1>1, <1>6 DEF TypeInv, TypeOK
  <2> QED  BY <1>4, <1>5, <2>1, SameBalance
<1>7. CASE t = s
  <2>1. /\ tally[t] \in Tally /\ copy[w] \in Tally /\ Withdrawn(e) \in Tally
        /\ IsFiniteSet(votes[t]) /\ tally'[t] \in Tally
    BY <1>1, WithdrawnParts DEF TypeInv, TypeOK, Balanced
  <2>2. /\ tally'[t].up = tally[t].up + (IF e = 1 THEN -1 ELSE 0)
        /\ tally'[t].down = tally[t].down + (IF e = -1 THEN -1 ELSE 0)
        /\ tally'[t].score = tally[t].score - e
    <3>1. tally'[t] = Stored(tally[t], copy[w], Withdrawn(e))
      BY <1>1, <1>7 DEF TypeInv, TypeOK
    <3>2. /\ tally'[t].up = tally[t].up + Withdrawn(e).up
          /\ tally'[t].down = tally[t].down + Withdrawn(e).down
          /\ tally'[t].score = tally[t].score + Withdrawn(e).score
      BY <1>1, <1>7, <2>1, <3>1, StoredFresh
    <3> HIDE DEF e
    <3> QED  BY <1>1, <2>1, <3>2, WithdrawnParts DEF Effect, Tally
  <2>3. /\ IsFiniteSet(votes'[t])
        /\ Count(votes'[t], 1) = Count(votes[t], 1) - IF e = 1 THEN 1 ELSE 0
        /\ Count(votes'[t], -1) = Count(votes[t], -1) - IF e = -1 THEN 1 ELSE 0
        /\ Count(votes[t], 1) \in Nat /\ Count(votes[t], -1) \in Nat
    <3>1. votes'[t] = votes[t] \ {v} /\ v \in votes[t] /\ v.effect = e
      BY <1>1, <1>2, <1>3, <1>7 DEF TypeInv, TypeOK
    <3> HIDE DEF e
    <3>2. /\ IsFiniteSet(votes[t] \ {v})
          /\ Count(votes[t] \ {v}, 1) = Count(votes[t], 1) - IF e = 1 THEN 1 ELSE 0
          /\ Count(votes[t] \ {v}, -1) = Count(votes[t], -1) - IF e = -1 THEN 1 ELSE 0
      BY <2>1, <3>1, CountLess
    <3> QED  BY <2>1, <3>1, <3>2, CountType
  <2>4. ASSUME NEW x \in Worker, Due(x, t) PROVE Agrees(t, Owed(x))'
    <3>1. Agrees(t, Owed(x)) /\ x # w
      BY <1>4, <2>4 DEF Balanced
    <3>2. PICK ch : ch = Owed(x)
      OBVIOUS
    <3>3. ch \in Tally
      <4>1. found[x].effect \in Effect /\ EffectOf(job[x].dir) \in Effect
        BY DEF TypeInv, TypeOK, Read, EffectOf, Effect
      <4> QED  BY <3>2, <4>1, WithdrawnParts, ChangeTypes DEF Owed, Correction
    <3> HIDE DEF e
    <3>4. /\ tally'[t].up + ch.up = Count(votes'[t], 1)
          /\ tally'[t].down + ch.down = Count(votes'[t], -1)
          /\ Plain => tally'[t].score + ch.score = Count(votes'[t], 1) - Count(votes'[t], -1)
      <4>1. ch.up \in Int /\ ch.down \in Int /\ ch.score \in Int
        BY <3>3 DEF Tally
      <4>2. tally[t].up \in Int /\ tally[t].down \in Int /\ tally[t].score \in Int
        BY <2>1 DEF Tally
      <4>3. /\ tally[t].up + ch.up = Count(votes[t], 1)
            /\ tally[t].down + ch.down = Count(votes[t], -1)
            /\ Plain => tally[t].score + ch.score = Count(votes[t], 1) - Count(votes[t], -1)
        BY <3>1, <3>2 DEF Agrees
      <4>4. CASE e = 1
        <5>1. /\ tally'[t].up = tally[t].up - 1 /\ tally'[t].down = tally[t].down
              /\ tally'[t].score = tally[t].score - 1
          BY <2>2, <4>2, <4>4
        <5>2. /\ Count(votes'[t], 1) = Count(votes[t], 1) - 1
              /\ Count(votes'[t], -1) = Count(votes[t], -1)
              /\ Count(votes[t], 1) \in Nat /\ Count(votes[t], -1) \in Nat
          BY <2>3, <4>4
        <5> QED  BY <4>1, <4>2, <4>3, <5>1, <5>2
      <4>5. CASE e = -1
        <5>1. /\ tally'[t].up = tally[t].up /\ tally'[t].down = tally[t].down - 1
              /\ tally'[t].score = tally[t].score + 1
          BY <2>2, <4>2, <4>5
        <5>2. /\ Count(votes'[t], 1) = Count(votes[t], 1)
              /\ Count(votes'[t], -1) = Count(votes[t], -1) - 1
              /\ Count(votes[t], 1) \in Nat /\ Count(votes[t], -1) \in Nat
          BY <2>3, <4>5
        <5> QED  BY <4>1, <4>2, <4>3, <5>1, <5>2
      <4> QED  BY <1>1, <4>4, <4>5 DEF Effect
    <3>5. Owed(x)' = ch
      BY <1>5, <3>1, <3>2
    <3> QED  BY <3>4, <3>5, OwedAgrees
  <2>5. ASSUME \A x \in Worker : ~Due(x, t) PROVE Balanced(t)'
    <3>1. Agrees(t, NoVotes)
      BY <2>5 DEF Balanced
    <3>2. /\ tally'[t].up = Count(votes'[t], 1) /\ tally'[t].down = Count(votes'[t], -1)
          /\ Plain => tally'[t].score = Count(votes'[t], 1) - Count(votes'[t], -1)
      <4> HIDE DEF e
      <4> QED  BY <1>1, <2>1, <2>2, <2>3, <3>1 DEF Agrees, NoVotes, Effect, Tally
    <3> QED  BY <1>4, <1>5, <2>1, <2>3, <2>5, <3>2, SettledUp
  <2> QED  BY <1>4, <1>5, <2>3, <2>4, <2>5 DEF Balanced
<1> QED  BY <1>6, <1>7

LEMMA CrashBalance ==
  ASSUME TypeInv, NEW w \in Worker, NEW t \in Target, Balanced(t), Crash(w),
         "crash" \notin mishaps'
  PROVE  Balanced(t)'
<1>1. /\ UNCHANGED <<votes, tally>> /\ pc[w] \notin Owing /\ Close(w)
  BY DEF Crash, Note, db, Owing, Inside, Revoking, Casting
<1>2. ~Due(w, t) /\ ~Due(w, t)'
  BY <1>1, ClosedIdle DEF Due
<1>3. \A x \in Worker : x # w => (Due(x, t)' <=> Due(x, t)) /\ Owed(x)' = Owed(x)
  BY OthersStay, SameDue
<1> QED  BY <1>1, <1>2, <1>3, SameBalance

LEMMA InitBalance == Init => TallyInv
<1> SUFFICES ASSUME Init, NEW t \in Target PROVE Balanced(t)
  BY DEF TallyInv
<1> DEFINE row == [id |-> 1, user |-> AuthorOf[t], effect |-> 1]
<1>1. votes[t] = {} \cup {row} /\ tally[t] = [up |-> 1, down |-> 0, score |-> 1]
  BY DEF Init
<1>2. /\ IsFiniteSet(votes[t]) /\ Count(votes[t], 1) = 1 /\ Count(votes[t], -1) = 0
  <2>1. Count({}, 1) = 0 /\ Count({}, -1) = 0 /\ IsFiniteSet({})
    BY FS_EmptySet DEF Count
  <2>2. row.effect = 1 /\ row \notin {}
    OBVIOUS
  <2> HIDE DEF row
  <2> QED  BY <1>1, <2>1, <2>2, CountMore
<1>3. \A w \in Worker : ~Due(w, t)
  BY DEF Init, Due, Owing
<1> QED  BY <1>1, <1>2, <1>3 DEF Balanced, Agrees, NoVotes

LEMMA NextBalance ==
  ASSUME TypeInv, OneVoteInv, Directed, TallyInv, [Next]_vars
  PROVE  TallyInv'
<1> SUFFICES ASSUME Straight', NEW t \in Target PROVE Balanced(t)'
  BY DEF TallyInv
<1>1. TypeInv'
  BY NextType
<1>2. /\ HoldersInside /\ NoRowYet /\ Unique /\ Balanced(t)
      /\ {"crash", "overrun", "stale", "moved"} \cap mishaps' = {}
  BY MishapsStay DEF Straight, Spared, OneVoteInv, Sound, TallyInv
<1>3. ASSUME NEW w \in Worker, Serve(w) PROVE Balanced(t)'
  <2>1. ~RereadGone(w)
    BY <1>2 DEF RereadGone, Note
  <2> QED
    BY <1>1, <1>2, <1>3, <2>1, PassingBalance, OwingBalance, RereadBalance, FlipBalance,
     StoreBalance, CastBalance, InsertBalance, UndoBalance DEF Serve
<1>4. ASSUME NEW w \in Worker, Arrive(w) \/ Crash(w) PROVE Balanced(t)'
  BY <1>2, <1>4, PassingBalance, CrashBalance
<1>5. CASE UNCHANGED <<votes, tally, pc, job, found>>
  BY <1>2, <1>5, SameBalance, SameDue
<1>6. ASSUME NEW s \in Target, Expire(s) PROVE Balanced(t)'
  BY <1>5, <1>6 DEF Expire, db, session
<1>7. CASE UNCHANGED vars
  BY <1>5, <1>7 DEF vars
<1> QED  BY <1>3, <1>4, <1>6, <1>7 DEF Next

LEMMA InvImpliesTally == TypeInv /\ TallyInv => TallyMatchesVotes
<1> SUFFICES ASSUME TypeInv, TallyInv, Straight, NEW t \in Target, Settled(t)
             PROVE  /\ tally[t].up = Count(votes[t], 1)
                    /\ tally[t].down = Count(votes[t], -1)
                    /\ Plain => tally[t].score = Count(votes[t], 1) - Count(votes[t], -1)
  BY DEF TallyMatchesVotes, Straight, Count, Plain
<1>1. \A w \in Worker : ~Due(w, t)
  BY DEF Settled, Due, Owing, Inside, Revoking, Casting
<1>2. Agrees(t, NoVotes) /\ tally[t] \in Tally
  BY <1>1 DEF TallyInv, Balanced, TypeInv, TypeOK
<1> QED  BY <1>2 DEF Agrees, NoVotes, Tally

\* When nobody is inside vote() for an object its counters are what its rows
\* of votes add up to, however many workers, users, objects and requests there
\* are, unless a crash, an overrun lock, a stale copy or a row changed by
\* another request came in between.
THEOREM TallyCounted == Spec => []TallyMatchesVotes
<1>1. TypeInv /\ OneVoteInv /\ Directed /\ TallyInv /\ [][Next]_vars
        => [](TypeInv /\ TallyInv)
  <2>1. TypeInv /\ OneVoteInv /\ Directed /\ TallyInv /\ [Next]_vars
          => (TypeInv /\ OneVoteInv /\ Directed /\ TallyInv)'
    BY NextType, NextOneVote, NextDirected, NextBalance
  <2> QED  BY <2>1, PTL
<1>2. Init => Directed
  BY DEF Init, Directed, Revoking
<1> QED
  BY <1>1, <1>2, InitType, InitOneVote, InitBalance, InvImpliesTally, PTL DEF Spec

-----------------------------------------------------------------------------
(***************************************************************************)
(* The author's reputation.  It is an account to which every commit of     *)
(* vote() and undo_vote makes one entry, before or after the row itself    *)
(* comes or goes: so what is coming (counted, no row yet) and what is      *)
(* leaving (taken out, row still there) make up the difference.  No lock   *)
(* is needed for that, only that the ids of rows are never used twice.     *)
(***************************************************************************)
Own(a) == {t \in Target : AuthorOf[t] = a}
Standing(a, e) ==
  {r \in Target \X Vote : AuthorOf[r[1]] = a /\ r[2] \in votes[r[1]] /\ r[2].effect = e}
Coming(a, e) ==
  {w \in Worker : /\ pc[w] \in {"quota", "bump", "insert"}
                  /\ AuthorOf[job[w].target] = a /\ EffectOf(job[w].dir) = e}
Leaving(a, e) ==
  {w \in Worker : /\ pc[w] \in {"reload", "flip"} /\ job[w].target \notin LowQuality
                  /\ AuthorOf[job[w].target] = a /\ found[w].effect = e}
Account(a, e) ==
  Cardinality(Standing(a, e)) + Cardinality(Coming(a, e)) - Cardinality(Leaving(a, e))
Finite(a) ==
  \A e \in Effect : /\ IsFiniteSet(Standing(a, e)) /\ IsFiniteSet(Coming(a, e))
                    /\ IsFiniteSet(Leaving(a, e))

\* Ids are unique, and what a request remembers of a row is still so.
Numbered ==
  \A t \in Target : \A v1 \in votes[t] :
    v1.id < nextId[t] /\ \A v2 \in votes[t] : v1.id = v2.id => v1 = v2
Remembered ==
  \A w \in Worker : pc[w] \in {"revoke", "reload"} =>
    /\ job[w].target \notin LowQuality
    /\ found[w].id < nextId[job[w].target]
    /\ \A v \in RowRead(w) : v.effect = found[w].effect
RowsInv == Spared({"reversed"}) => Numbered /\ Remembered

ReputationInv ==
  Spared({"crash", "moved", "reversed"}) =>
    \A a \in User : Own(a) \cap LowQuality = {} =>
      /\ Finite(a)
      /\ reputation[a] = Account(a, 1) - Account(a, -1) - Cardinality(Own(a))

LowInv ==
  Spared({"moved", "reversed"}) =>
    \A a \in User : Own(a) \subseteq LowQuality =>
      /\ IsFiniteSet(Standing(a, -1)) /\ IsFiniteSet(Coming(a, -1))
      /\ reputation[a] + Cardinality(Standing(a, -1)) + Cardinality(Coming(a, -1)) <= 0

\* The size of a set of which at most the membership of x has changed.
LEMMA Shift ==
  ASSUME NEW S, NEW T, NEW x, IsFiniteSet(S), S \ {x} = T \ {x}
  PROVE  /\ IsFiniteSet(T) /\ Cardinality(S) \in Nat /\ Cardinality(T) \in Nat
         /\ Cardinality(T) = Cardinality(S) + (IF x \in T THEN 1 ELSE 0)
                                            - (IF x \in S THEN 1 ELSE 0)
<1>1. ASSUME NEW U, IsFiniteSet(U)
      PROVE  /\ IsFiniteSet(U \ {x}) /\ Cardinality(U) \in Nat
             /\ Cardinality(U \ {x}) = Cardinality(U) - (IF x \in U THEN 1 ELSE 0)
  <2>1. Cardinality(U) \in Nat /\ IsFiniteSet(U \ {x})
    BY <1>1, FS_CardinalityType, FS_RemoveElement
  <2>2. CASE x \in U
    BY <1>1, <2>1, <2>2, FS_RemoveElement
  <2>3. CASE x \notin U
    <3>1. Cardinality(U \ {x}) = Cardinality(U)
      <4>1. U \ {x} = U
        BY <2>3
      <4> QED  BY <4>1
    <3> QED  BY <2>1, <2>3, <3>1
  <2> QED  BY <2>1, <2>2, <2>3
<1>2. IsFiniteSet(T)
  <2>1. IsFiniteSet((S \ {x}) \cup {x})
    BY <1>1, FS_AddElement
  <2>2. T \subseteq (S \ {x}) \cup {x}
    OBVIOUS
  <2> QED  BY <2>1, <2>2, FS_Subset
<1>3. /\ Cardinality(S \ {x}) = Cardinality(S) - (IF x \in S THEN 1 ELSE 0)
      /\ Cardinality(T \ {x}) = Cardinality(T) - (IF x \in T THEN 1 ELSE 0)
      /\ Cardinality(S) \in Nat /\ Cardinality(T) \in Nat
  BY <1>1, <1>2
<1>4. Cardinality(S \ {x}) = Cardinality(T \ {x})
  OBVIOUS
<1> QED  BY <1>2, <1>3, <1>4

\* A step of one worker moves no other in or out.
LEMMA OnlyOneMoves ==
  ASSUME TypeInv, NEW w \in Worker, Arrive(w) \/ Serve(w) \/ Crash(w), NEW a, NEW e
  PROVE  /\ Coming(a, e)' \ {w} = Coming(a, e) \ {w}
         /\ Leaving(a, e)' \ {w} = Leaving(a, e) \ {w}
  BY OthersStay DEF Coming, Leaving

LEMMA SameRowsStand ==
  ASSUME votes' = votes, NEW a, NEW e
  PROVE  Standing(a, e)' = Standing(a, e)
  BY DEF Standing

-----------------------------------------------------------------------------
\* Rows and what is remembered of them.
LEMMA InitRows == Init => RowsInv
  BY DEF Init, RowsInv, Numbered, Remembered

\* The other workers remember what they did, as long as rows only go, or come
\* with a new id.
LEMMA OthersRemember ==
  ASSUME TypeInv, Numbered, Remembered, NEW w \in Worker, Arrive(w) \/ Serve(w) \/ Crash(w),
         \A t \in Target : /\ nextId[t] <= nextId'[t]
                           /\ \A v \in votes'[t] : v \in votes[t] \/ v.id = nextId[t],
         NEW x \in Worker, x # w, pc'[x] \in {"revoke", "reload"}
  PROVE  /\ job'[x].target \notin LowQuality
         /\ found'[x].id < nextId'[job'[x].target]
         /\ \A v \in RowRead(x)' : v.effect = found'[x].effect
<1>1. pc'[x] = pc[x] /\ job'[x] = job[x] /\ found'[x] = found[x]
  BY OthersStay
<1>2. PICK t : t = job[x].target
  OBVIOUS
<1>3. /\ t \in Target /\ t \notin LowQuality /\ found[x].id < nextId[t] /\ found[x].id \in Nat
      /\ nextId[t] \in Nat /\ nextId'[t] \in Nat
  BY <1>1, <1>2, NextType DEF Remembered, TypeInv, TypeOK, Busy, Job, Read, Next
<1>4. RowRead(x)' \subseteq RowRead(x)
  BY <1>1, <1>2, <1>3 DEF RowRead, Voted, RowsOf
<1> QED  BY <1>1, <1>2, <1>3, <1>4 DEF Remembered

\* A request that steps where it does not look back at its row.
LEMMA ForgetfulRows ==
  ASSUME TypeInv, Numbered, Remembered, NEW w \in Worker, Arrive(w) \/ Serve(w) \/ Crash(w),
         UNCHANGED <<votes, nextId>>, pc'[w] \notin {"revoke", "reload"}
  PROVE  Numbered' /\ Remembered'
<1>1. \A t \in Target : /\ nextId[t] <= nextId'[t]
                        /\ \A v \in votes'[t] : v \in votes[t] \/ v.id = nextId[t]
  BY DEF TypeInv, TypeOK
<1>2. Numbered'
  BY DEF Numbered
<1> QED  BY <1>1, <1>2, OthersRemember DEF Remembered

LEMMA ClosedRows ==
  ASSUME TypeInv, Numbered, Remembered, NEW w \in Worker, Serve(w) \/ Crash(w), Close(w),
         NEW t \in Target, nextId'[t] \in Nat, nextId[t] <= nextId'[t],
         \A s \in Target : s # t => votes'[s] = votes[s] /\ nextId'[s] = nextId[s],
         \A v \in votes'[t] : v \in votes[t] \/ (v.id = nextId[t] /\ nextId[t] < nextId'[t]),
         \A v1, v2 \in votes'[t] : v1 \in votes[t] \/ v2 \in votes[t] \/ v1 = v2
  PROVE  Numbered' /\ Remembered'
<1>1. \A s \in Target : /\ nextId[s] \in Nat /\ nextId[s] <= nextId'[s]
                        /\ votes[s] \subseteq Vote
  BY DEF TypeInv, TypeOK
<1>2. \A s \in Target : /\ nextId[s] <= nextId'[s]
                        /\ \A v \in votes'[s] : v \in votes[s] \/ v.id = nextId[s]
  BY <1>1
<1>3. pc'[w] = "idle"
  BY ClosedIdle
<1>4. Numbered'
  <2> SUFFICES ASSUME NEW s \in Target, NEW v1 \in votes'[s]
               PROVE  /\ v1.id < nextId'[s]
                      /\ \A v2 \in votes'[s] : v1.id = v2.id => v1 = v2
    BY DEF Numbered
  <2>0. \A v \in votes[s] : v.id \in Nat /\ v.id < nextId[s]
    BY <1>1 DEF Numbered, Vote
  <2>1. CASE s # t
    BY <1>1, <2>1 DEF Numbered
  <2>2. CASE s = t
    <3>1. \A v \in votes'[t] : v.id < nextId'[t]
      BY <1>1, <2>0, <2>2
    <3>2. ASSUME NEW v2 \in votes'[t], v1.id = v2.id PROVE v1 = v2
      <4>1. v1 \in votes'[t]
        BY <2>2
      <4>2. CASE v1 \in votes[t] /\ v2 \in votes[t]
        BY <3>2, <4>2 DEF Numbered
      <4>3. CASE ~(v1 \in votes[t] /\ v2 \in votes[t])
        BY <1>1, <2>0, <2>2, <3>2, <4>1, <4>3
      <4> QED  BY <4>2, <4>3
    <3> QED  BY <1>1, <2>2, <3>1, <3>2
  <2> QED  BY <2>1, <2>2
<1> QED  BY <1>2, <1>3, <1>4, OthersRemember DEF Remembered

LEMMA NextRows ==
  ASSUME TypeInv, RowsInv, [Next]_vars
  PROVE  RowsInv'
<1> SUFFICES ASSUME Spared({"reversed"})' PROVE Numbered' /\ Remembered'
  BY DEF RowsInv
<1>1. Numbered /\ Remembered /\ "reversed" \notin mishaps'
  BY MishapsStay DEF RowsInv, Spared
<1>2. CASE UNCHANGED <<votes, nextId, pc, job, found>>
  BY <1>1, <1>2 DEF Numbered, Remembered, RowRead, Voted, RowsOf
<1>3. ASSUME NEW w \in Worker, Arrive(w) PROVE Numbered' /\ Remembered'
  <2>1. UNCHANGED <<votes, nextId>> /\ pc'[w] \notin {"revoke", "reload"}
    BY <1>3 DEF Arrive, Begin, BeginUndo, Goto, TypeInv, TypeOK, db
  <2> QED  BY <1>1, <1>3, <2>1, ForgetfulRows
<1>4. ASSUME NEW w \in Worker, Crash(w) PROVE Numbered' /\ Remembered'
  <2>1. UNCHANGED <<votes, nextId>> /\ pc'[w] = "idle"
    BY <1>4, ClosedIdle DEF Crash, db
  <2> QED  BY <1>1, <1>4, <2>1, ForgetfulRows
<1>5. ASSUME NEW w \in Worker, Serve(w) PROVE Numbered' /\ Remembered'
  <2>0. pc[w] # "idle" => job[w].target \in Target /\ job[w].user \in User
    BY DEF TypeInv, TypeOK, Busy, Job
  <2>1. CASE \/ GiveUp(w) \/ NothingToReverse(w) \/ ChangeEmoji(w) \/ NoUserLock(w)
             \/ ReloadGone(w) \/ FlipGone(w) \/ RereadGone(w) \/ Store(w)
    <3>1. UNCHANGED <<votes, nextId>> /\ Close(w)
      BY <2>1 DEF GiveUp, NothingToReverse, ChangeEmoji, NoUserLock, ReloadGone, FlipGone,
                  RereadGone, Store, db
    <3>2. pc'[w] = "idle"
      BY <3>1, ClosedIdle
    <3> QED  BY <1>1, <1>5, <3>1, <3>2, ForgetfulRows
  <2>2. CASE \/ EnterNew(w) \/ Reload(w) \/ Retally(w) \/ Reread(w)
             \/ Cast(w) \/ CountVotes(w) \/ Bump(w)
    <3>1. UNCHANGED <<votes, nextId>> /\ pc'[w] \notin {"revoke", "reload"}
      BY <2>2 DEF EnterNew, Enter, Reload, Retally, Reread, Cast, CountVotes, Bump, Goto,
                  TypeInv, TypeOK, db
    <3> QED  BY <1>1, <1>5, <3>1, ForgetfulRows
  <2>3. CASE EnterExisting(w)
    <3>1. /\ UNCHANGED <<votes, nextId>> /\ pc[w] = "waiting"
          /\ pc'[w] = IF job[w].target \in LowQuality THEN "flip" ELSE "revoke"
      BY <2>3 DEF EnterExisting, Enter, Ready, Goto, TypeInv, TypeOK, db
    <3>2. PICK v \in Voted(w) :
            /\ found' = [found EXCEPT ![w] = [id |-> v.id, effect |-> v.effect]]
            /\ job' = [job EXCEPT ![w].dir = Wanted(w, v)]
      BY <2>3 DEF EnterExisting
    <3>3. /\ job'[w].target = job[w].target /\ job'[w].user = job[w].user
          /\ found'[w].id = v.id /\ found'[w].effect = v.effect
      BY <3>1, <3>2 DEF TypeInv, TypeOK, Busy, Job
    <3>4. v \in votes[job[w].target] /\ job[w].target \in Target
      BY <2>0, <3>1 DEF Voted, RowsOf
    <3>5. v.id < nextId[job[w].target] /\ \A y \in RowRead(w)' : y = v
      BY <1>1, <3>1, <3>3, <3>4 DEF Numbered, RowRead, Voted, RowsOf
    <3>6. \A x \in Worker : x # w /\ pc'[x] \in {"revoke", "reload"} =>
            /\ job'[x].target \notin LowQuality
            /\ found'[x].id < nextId'[job'[x].target]
            /\ \A y \in RowRead(x)' : y.effect = found'[x].effect
      <4>1. \A t \in Target : /\ nextId[t] <= nextId'[t]
                              /\ \A y \in votes'[t] : y \in votes[t] \/ y.id = nextId[t]
        BY <3>1 DEF TypeInv, TypeOK
      <4> QED  BY <1>1, <1>5, <4>1, OthersRemember
    <3> QED  BY <1>1, <3>1, <3>3, <3>5, <3>6 DEF Numbered, Remembered
  <2>4. CASE Revoke(w)
    <3>1. /\ UNCHANGED <<votes, nextId, job, found>> /\ pc[w] = "revoke"
          /\ \A x \in Worker : x # w => pc'[x] = pc[x]
      BY <2>4 DEF Revoke, Goto, session, TypeInv, TypeOK
    <3> QED  BY <1>1, <3>1 DEF Numbered, Remembered, RowRead, Voted, RowsOf
  <2>5. CASE Flip(w)
    <3>1. /\ pc[w] = "flip" /\ pc' = [pc EXCEPT ![w] = "retally"]
          /\ UNCHANGED <<nextId, job, found>> /\ job[w].target \in Target
          /\ votes' = [votes EXCEPT ![job[w].target] = @ \ RowRead(w)]
      BY <1>1, <2>0, <2>5 DEF Flip, Goto, session
    <3>2. \A t \in Target : votes'[t] \subseteq votes[t]
      BY <3>1 DEF TypeInv, TypeOK
    <3>3. \A x \in Worker : pc'[x] \in {"revoke", "reload"} => pc'[x] = pc[x]
      BY <3>1 DEF TypeInv, TypeOK
    <3> QED  BY <1>1, <3>1, <3>2, <3>3
             DEF Numbered, Remembered, RowRead, Voted, RowsOf, TypeInv, TypeOK, Busy, Job
  <2>6. CASE Insert(w)
    <3> DEFINE t == job[w].target
               row == [id |-> nextId[t], user |-> job[w].user, effect |-> EffectOf(job[w].dir)]
    <3>1. /\ pc[w] = "insert" /\ Close(w) /\ t \in Target /\ nextId[t] \in Nat
          /\ votes' = [votes EXCEPT ![t] = votes[t] \cup {row}]
          /\ nextId' = [nextId EXCEPT ![t] = @ + 1]
      BY <2>0, <2>6 DEF Insert, TypeInv, TypeOK
    <3>2. nextId'[t] = nextId[t] + 1 /\ \A s \in Target : s # t => nextId'[s] = nextId[s]
      BY <3>1 DEF TypeInv, TypeOK
    <3>3. row.id = nextId[t]
      OBVIOUS
    <3> HIDE DEF row, t
    <3>4. votes'[t] = votes[t] \cup {row} /\ \A u \in Target : u # t => votes'[u] = votes[u]
      BY <3>1 DEF TypeInv, TypeOK
    <3>5. /\ \A v \in votes'[t] : v \in votes[t] \/ (v.id = nextId[t] /\ nextId[t] < nextId'[t])
          /\ \A v1, v2 \in votes'[t] : v1 \in votes[t] \/ v2 \in votes[t] \/ v1 = v2
          /\ nextId'[t] \in Nat /\ nextId[t] <= nextId'[t]
      BY <3>1, <3>2, <3>3, <3>4
    <3> QED  BY <1>1, <1>5, <3>1, <3>2, <3>4, <3>5, ClosedRows
  <2>7. CASE Undo(w)
    <3> DEFINE t == job[w].target
    <3>1. /\ pc[w] = "undoing" /\ Close(w) /\ t \in Target /\ nextId[t] \in Nat
          /\ votes' = [votes EXCEPT ![t] = votes[t] \ RowRead(w)] /\ nextId' = nextId
      BY <2>0, <2>7 DEF Undo, TypeInv, TypeOK
    <3> HIDE DEF t
    <3>2. /\ votes'[t] \subseteq votes[t] /\ \A u \in Target : u # t => votes'[u] = votes[u]
          /\ nextId'[t] \in Nat /\ nextId[t] <= nextId'[t]
          /\ \A u \in Target : u # t => nextId'[u] = nextId[u]
      BY <3>1 DEF TypeInv, TypeOK
    <3>3. \A v \in votes'[t] : v \in votes[t] \/ (v.id = nextId[t] /\ nextId[t] < nextId'[t])
      BY <3>2
    <3>4. \A v1, v2 \in votes'[t] : v1 \in votes[t] \/ v2 \in votes[t] \/ v1 = v2
      BY <3>2
    <3>5. \A u \in Target : u # t => votes'[u] = votes[u] /\ nextId'[u] = nextId[u]
      BY <3>2
    <3> QED  BY <1>1, <1>5, <3>1, <3>2, <3>3, <3>4, <3>5, ClosedRows
  <2> QED
    BY <1>5, <2>1, <2>2, <2>3, <2>4, <2>5, <2>6, <2>7 DEF Serve
<1>6. ASSUME NEW t \in Target, Expire(t) PROVE Numbered' /\ Remembered'
  BY <1>2, <1>6 DEF Expire, db, session
<1>7. CASE UNCHANGED vars
  BY <1>2, <1>7 DEF vars
<1> QED  BY <1>3, <1>4, <1>5, <1>6, <1>7 DEF Next

-----------------------------------------------------------------------------
\* The entries.  Whether its worker is coming or leaving:
IsComing(w, a, e) ==
  pc[w] \in {"quota", "bump", "insert"} /\ AuthorOf[job[w].target] = a
    /\ EffectOf(job[w].dir) = e
IsLeaving(w, a, e) ==
  pc[w] \in {"reload", "flip"} /\ job[w].target \notin LowQuality
    /\ AuthorOf[job[w].target] = a /\ found[w].effect = e

\* What a step of worker w does to who is coming and leaving, in numbers.
LEMMA WorkersCount ==
  ASSUME TypeInv, NEW w \in Worker, Arrive(w) \/ Serve(w) \/ Crash(w), NEW a, NEW e
  PROVE  /\ IsFiniteSet(Coming(a, e)) =>
              /\ IsFiniteSet(Coming(a, e)') /\ Cardinality(Coming(a, e)) \in Nat
              /\ Cardinality(Coming(a, e)') = Cardinality(Coming(a, e))
                   + (IF IsComing(w, a, e)' THEN 1 ELSE 0) - (IF IsComing(w, a, e) THEN 1 ELSE 0)
         /\ IsFiniteSet(Leaving(a, e)) =>
              /\ IsFiniteSet(Leaving(a, e)') /\ Cardinality(Leaving(a, e)) \in Nat
              /\ Cardinality(Leaving(a, e)') = Cardinality(Leaving(a, e))
                   + (IF IsLeaving(w, a, e)' THEN 1 ELSE 0) - (IF IsLeaving(w, a, e) THEN 1 ELSE 0)
<1>1. /\ (w \in Coming(a, e) <=> IsComing(w, a, e))
      /\ (w \in Coming(a, e)' <=> IsComing(w, a, e)')
      /\ (w \in Leaving(a, e) <=> IsLeaving(w, a, e))
      /\ (w \in Leaving(a, e)' <=> IsLeaving(w, a, e)')
  BY DEF Coming, Leaving, IsComing, IsLeaving
<1>2. /\ Coming(a, e) \ {w} = Coming(a, e)' \ {w}
      /\ Leaving(a, e) \ {w} = Leaving(a, e)' \ {w}
  BY OnlyOneMoves
<1>3. ASSUME IsFiniteSet(Coming(a, e))
      PROVE  /\ IsFiniteSet(Coming(a, e)') /\ Cardinality(Coming(a, e)) \in Nat
             /\ Cardinality(Coming(a, e)') = Cardinality(Coming(a, e))
                  + (IF w \in Coming(a, e)' THEN 1 ELSE 0) - (IF w \in Coming(a, e) THEN 1 ELSE 0)
  BY <1>2, <1>3, Shift
<1>4. ASSUME IsFiniteSet(Leaving(a, e))
      PROVE  /\ IsFiniteSet(Leaving(a, e)') /\ Cardinality(Leaving(a, e)) \in Nat
             /\ Cardinality(Leaving(a, e)') = Cardinality(Leaving(a, e))
                  + (IF w \in Leaving(a, e)' THEN 1 ELSE 0) - (IF w \in Leaving(a, e) THEN 1 ELSE 0)
  BY <1>2, <1>4, Shift
<1> QED  BY <1>1, <1>3, <1>4

\* A row that comes or goes.
LEMMA RowsCount ==
  ASSUME TypeInv, TypeInv', NEW t \in Target, NEW v \in Vote,
         votes'[t] \ {v} = votes[t] \ {v}, \A s \in Target : s # t => votes'[s] = votes[s],
         NEW a, NEW e, IsFiniteSet(Standing(a, e))
  PROVE  /\ IsFiniteSet(Standing(a, e)') /\ Cardinality(Standing(a, e)) \in Nat
         /\ Cardinality(Standing(a, e)') = Cardinality(Standing(a, e))
              + (IF AuthorOf[t] = a /\ v.effect = e /\ v \in votes'[t] THEN 1 ELSE 0)
              - (IF AuthorOf[t] = a /\ v.effect = e /\ v \in votes[t] THEN 1 ELSE 0)
<1> DEFINE r == <<t, v>>
<1>1. Standing(a, e) \ {r} = Standing(a, e)' \ {r}
  <2>1. ASSUME NEW x \in Target \X Vote, x # r
        PROVE  x[2] \in votes[x[1]] <=> x[2] \in votes'[x[1]]
    <3>1. x[1] \in Target /\ (x[1] # t \/ x[2] # v)
      BY <2>1
    <3> QED  BY <3>1
  <2> QED  BY <2>1 DEF Standing
<1>2. /\ (r \in Standing(a, e) <=> AuthorOf[t] = a /\ v.effect = e /\ v \in votes[t])
      /\ (r \in Standing(a, e)' <=> AuthorOf[t] = a /\ v.effect = e /\ v \in votes'[t])
  BY DEF Standing
<1>3. /\ IsFiniteSet(Standing(a, e)') /\ Cardinality(Standing(a, e)) \in Nat
      /\ Cardinality(Standing(a, e)') = Cardinality(Standing(a, e))
           + (IF r \in Standing(a, e)' THEN 1 ELSE 0) - (IF r \in Standing(a, e) THEN 1 ELSE 0)
  <2> HIDE DEF r
  <2> QED  BY <1>1, Shift
<1> QED  BY <1>2, <1>3

\* The steps that make no entry.
Entryless(w) ==
  \/ GiveUp(w) \/ NothingToReverse(w) \/ ChangeEmoji(w) \/ EnterNew(w) \/ NoUserLock(w)
  \/ EnterExisting(w) \/ Retally(w) \/ Reread(w) \/ RereadGone(w) \/ Store(w)
  \/ CountVotes(w) \/ Bump(w)

LEMMA EntrylessStep ==
  ASSUME TypeInv, NEW w \in Worker,
         \/ Entryless(w) \/ Arrive(w)
         \/ Crash(w) /\ pc[w] \notin Inside \ {"revoke", "cast"}
  PROVE  /\ UNCHANGED <<votes, reputation>>
         /\ \A a, e : /\ (IsComing(w, a, e)' <=> IsComing(w, a, e))
                      /\ ~IsLeaving(w, a, e)' /\ ~IsLeaving(w, a, e)
<1>1. ASSUME Close(w), pc[w] \notin {"quota", "bump", "insert", "reload", "flip"}
      PROVE  \A a, e : /\ ~IsComing(w, a, e) /\ ~IsComing(w, a, e)'
                       /\ ~IsLeaving(w, a, e) /\ ~IsLeaving(w, a, e)'
  BY <1>1, ClosedIdle DEF IsComing, IsLeaving
<1>2. CASE Arrive(w)
  BY <1>2 DEF Arrive, Begin, BeginUndo, Goto, db, TypeInv, TypeOK, IsComing, IsLeaving
<1>3. CASE Crash(w) /\ pc[w] \notin Inside \ {"revoke", "cast"}
  BY <1>1, <1>3 DEF Crash, db, Inside, Revoking, Casting
<1>4. CASE \/ GiveUp(w) \/ NothingToReverse(w) \/ ChangeEmoji(w) \/ NoUserLock(w)
           \/ RereadGone(w) \/ Store(w)
  BY <1>1, <1>4 DEF GiveUp, NothingToReverse, ChangeEmoji, NoUserLock, RereadGone, Store,
                    Ready, db
<1>5. CASE EnterNew(w) \/ Retally(w) \/ Reread(w)
  BY <1>5 DEF EnterNew, Enter, Ready, Retally, Reread, Goto, db, TypeInv, TypeOK, IsComing, IsLeaving
<1>6. CASE CountVotes(w) \/ Bump(w)
  BY <1>6 DEF CountVotes, Bump, Goto, db, session, TypeInv, TypeOK, IsComing, IsLeaving
<1>7. CASE EnterExisting(w)
  <2>1. /\ pc[w] = "waiting" /\ UNCHANGED <<votes, reputation>>
        /\ pc'[w] = IF job[w].target \in LowQuality THEN "flip" ELSE "revoke"
    BY <1>7 DEF EnterExisting, Enter, Ready, Goto, db, TypeInv, TypeOK
  <2>2. PICK dir : job' = [job EXCEPT ![w].dir = dir]
    BY <1>7 DEF EnterExisting
  <2>3. job'[w].target = job[w].target
    BY <2>1, <2>2 DEF TypeInv, TypeOK, Busy, Job
  <2> QED  BY <2>1, <2>3 DEF IsComing, IsLeaving
<1> QED  BY <1>2, <1>3, <1>4, <1>5, <1>6, <1>7 DEF Entryless

\* The entries of a step, from its effect on rows, worker and reputation.
Books(a) ==
  Finite(a) /\ reputation[a] = Account(a, 1) - Account(a, -1) - Cardinality(Own(a))

Bit(P) == IF P THEN 1 ELSE 0
Entry(w, a, e) ==
  Bit(IsComing(w, a, e)') - Bit(IsComing(w, a, e))
    - Bit(IsLeaving(w, a, e)') + Bit(IsLeaving(w, a, e))

LEMMA AccountAfter ==
  ASSUME TypeInv, NEW w \in Worker, Arrive(w) \/ Serve(w) \/ Crash(w),
         NEW a, Finite(a), NEW e \in Effect, NEW d \in Int, IsFiniteSet(Standing(a, e)'),
         Cardinality(Standing(a, e)') = Cardinality(Standing(a, e)) + d
  PROVE  /\ IsFiniteSet(Coming(a, e)') /\ IsFiniteSet(Leaving(a, e)')
         /\ Account(a, e) \in Int
         /\ Account(a, e)' = Account(a, e) + d + Entry(w, a, e)
<1>1. Cardinality(Standing(a, e)) \in Nat
  BY FS_CardinalityType DEF Finite
<1>2. /\ IsFiniteSet(Coming(a, e)') /\ Cardinality(Coming(a, e)) \in Nat
      /\ Cardinality(Coming(a, e)') = Cardinality(Coming(a, e))
           + Bit(IsComing(w, a, e)') - Bit(IsComing(w, a, e))
  BY WorkersCount DEF Finite, Bit
<1>3. /\ IsFiniteSet(Leaving(a, e)') /\ Cardinality(Leaving(a, e)) \in Nat
      /\ Cardinality(Leaving(a, e)') = Cardinality(Leaving(a, e))
           + Bit(IsLeaving(w, a, e)') - Bit(IsLeaving(w, a, e))
  BY WorkersCount DEF Finite, Bit
<1>4. /\ Bit(IsComing(w, a, e)') \in Int /\ Bit(IsComing(w, a, e)) \in Int
      /\ Bit(IsLeaving(w, a, e)') \in Int /\ Bit(IsLeaving(w, a, e)) \in Int
  BY DEF Bit
<1> QED  BY <1>1, <1>2, <1>3, <1>4 DEF Account, Entry

LEMMA BooksAfter ==
  ASSUME TypeInv, NEW w \in Worker, Arrive(w) \/ Serve(w) \/ Crash(w),
         NEW a \in User, IsFiniteSet(Own(a)), Books(a), NEW d \in Int, NEW f \in Int,
         IsFiniteSet(Standing(a, 1)'), IsFiniteSet(Standing(a, -1)'),
         Cardinality(Standing(a, 1)') = Cardinality(Standing(a, 1)) + d,
         Cardinality(Standing(a, -1)') = Cardinality(Standing(a, -1)) + f,
         reputation'[a] = reputation[a] + (d + Entry(w, a, 1)) - (f + Entry(w, a, -1))
  PROVE  Books(a)'
<1>1. 1 \in Effect /\ -1 \in Effect /\ \A e \in Effect : e = 1 \/ e = -1
  BY DEF Effect
<1>2. /\ IsFiniteSet(Coming(a, 1)') /\ IsFiniteSet(Leaving(a, 1)') /\ Account(a, 1) \in Int
      /\ Account(a, 1)' = Account(a, 1) + d + Entry(w, a, 1)
  BY <1>1, AccountAfter DEF Books
<1>3. /\ IsFiniteSet(Coming(a, -1)') /\ IsFiniteSet(Leaving(a, -1)') /\ Account(a, -1) \in Int
      /\ Account(a, -1)' = Account(a, -1) + f + Entry(w, a, -1)
  BY <1>1, AccountAfter DEF Books
<1>4. Finite(a)'
  BY <1>1, <1>2, <1>3 DEF Finite
<1>5. Entry(w, a, 1) \in Int /\ Entry(w, a, -1) \in Int
  BY DEF Entry, Bit
<1>6. Cardinality(Own(a)) \in Nat /\ Cardinality(Own(a))' = Cardinality(Own(a))
  BY FS_CardinalityType DEF Own
<1>7. reputation[a] = Account(a, 1) - Account(a, -1) - Cardinality(Own(a))
  BY DEF Books
<1> QED  BY <1>2, <1>3, <1>4, <1>5, <1>6, <1>7 DEF Books

\* A step that changes no row.
LEMMA BooksSameRows ==
  ASSUME TypeInv, NEW w \in Worker, Arrive(w) \/ Serve(w) \/ Crash(w),
         NEW a \in User, IsFiniteSet(Own(a)), Books(a), votes' = votes,
         reputation'[a] = reputation[a] + Entry(w, a, 1) - Entry(w, a, -1)
  PROVE  Books(a)'
<1>1. \A e \in {1, -1} : /\ Standing(a, e)' = Standing(a, e) /\ IsFiniteSet(Standing(a, e))
                         /\ Cardinality(Standing(a, e)) \in Nat
  BY SameRowsStand, FS_CardinalityType DEF Books, Finite, Effect
<1>2. /\ IsFiniteSet(Standing(a, 1)') /\ IsFiniteSet(Standing(a, -1)')
      /\ Cardinality(Standing(a, 1)') = Cardinality(Standing(a, 1)) + 0
      /\ Cardinality(Standing(a, -1)') = Cardinality(Standing(a, -1)) + 0
  BY <1>1
<1>3. Entry(w, a, 1) \in Int /\ Entry(w, a, -1) \in Int /\ reputation[a] \in Int
  BY DEF Entry, Bit, TypeInv, TypeOK
<1>4. reputation'[a] = reputation[a] + (0 + Entry(w, a, 1)) - (0 + Entry(w, a, -1))
  BY <1>3
<1> QED  BY <1>2, <1>4, BooksAfter

\* A step that adds or removes the row v of t.
LEMMA BooksOneRow ==
  ASSUME TypeInv, TypeInv', NEW w \in Worker, Serve(w),
         NEW a \in User, IsFiniteSet(Own(a)), Books(a),
         NEW t \in Target, NEW v \in Vote, votes'[t] \ {v} = votes[t] \ {v},
         \A s \in Target : s # t => votes'[s] = votes[s], NEW c \in Int,
         c = IF AuthorOf[t] = a THEN Bit(v \in votes'[t]) - Bit(v \in votes[t]) ELSE 0,
         reputation'[a] = reputation[a] + c * v.effect + Entry(w, a, 1) - Entry(w, a, -1)
  PROVE  Books(a)'
<1>1. v.effect \in Effect
  BY DEF Vote
<1>2. ASSUME NEW e \in Effect
      PROVE  /\ IsFiniteSet(Standing(a, e)')
             /\ Cardinality(Standing(a, e)')
                  = Cardinality(Standing(a, e)) + (IF v.effect = e THEN c ELSE 0)
  <2>1. IsFiniteSet(Standing(a, e))
    BY DEF Books, Finite
  <2>2. /\ IsFiniteSet(Standing(a, e)') /\ Cardinality(Standing(a, e)) \in Nat
        /\ Cardinality(Standing(a, e)') = Cardinality(Standing(a, e))
             + (IF AuthorOf[t] = a /\ v.effect = e /\ v \in votes'[t] THEN 1 ELSE 0)
             - (IF AuthorOf[t] = a /\ v.effect = e /\ v \in votes[t] THEN 1 ELSE 0)
    BY <2>1, RowsCount
  <2> QED  BY <2>2 DEF Bit
<1>3. Entry(w, a, 1) \in Int /\ Entry(w, a, -1) \in Int /\ reputation[a] \in Int
  BY DEF Entry, Bit, TypeInv, TypeOK
<1>4. CASE v.effect = 1
  <2>1. /\ IsFiniteSet(Standing(a, 1)') /\ IsFiniteSet(Standing(a, -1)')
        /\ Cardinality(Standing(a, 1)') = Cardinality(Standing(a, 1)) + c
        /\ Cardinality(Standing(a, -1)') = Cardinality(Standing(a, -1)) + 0
    BY <1>2, <1>4 DEF Effect
  <2>2. reputation'[a] = reputation[a] + (c + Entry(w, a, 1)) - (0 + Entry(w, a, -1))
    BY <1>3, <1>4
  <2> QED  BY <2>1, <2>2, BooksAfter
<1>5. CASE v.effect = -1
  <2>1. /\ IsFiniteSet(Standing(a, 1)') /\ IsFiniteSet(Standing(a, -1)')
        /\ Cardinality(Standing(a, 1)') = Cardinality(Standing(a, 1)) + 0
        /\ Cardinality(Standing(a, -1)') = Cardinality(Standing(a, -1)) + c
    BY <1>2, <1>5 DEF Effect
  <2>2. reputation'[a] = reputation[a] + (0 + Entry(w, a, 1)) - (c + Entry(w, a, -1))
    BY <1>3, <1>5
  <2> QED  BY <2>1, <2>2, BooksAfter
<1> QED  BY <1>1, <1>4, <1>5 DEF Effect

\* Of several rows with one id there is only one.
LEMMA TheRow ==
  ASSUME TypeInv, Numbered, NEW w \in Worker, pc[w] # "idle", NEW v \in RowRead(w)
  PROVE  /\ RowRead(w) = {v} /\ v \in votes[job[w].target] /\ v \in Vote
         /\ job[w].target \in Target
  BY DEF TypeInv, TypeOK, Busy, Job, Numbered, RowRead, Voted, RowsOf

LEMMA EntrylessBooks ==
  ASSUME TypeInv, NEW w \in Worker, NEW a \in User, IsFiniteSet(Own(a)), Books(a),
         \/ Entryless(w) \/ Arrive(w)
         \/ Crash(w) /\ pc[w] \notin Inside \ {"revoke", "cast"}
  PROVE  Books(a)'
<1>1. /\ UNCHANGED <<votes, reputation>>
      /\ \A e : Entry(w, a, e) = 0
  BY EntrylessStep DEF Entry, Bit
<1>2. reputation[a] \in Int
  BY DEF TypeInv, TypeOK
<1>3. Arrive(w) \/ Serve(w) \/ Crash(w)
  BY DEF Entryless, Serve
<1> QED  BY <1>1, <1>2, <1>3, BooksSameRows

LEMMA RevokeBooks ==
  ASSUME TypeInv, Remembered, NEW w \in Worker, NEW a \in User, IsFiniteSet(Own(a)), Books(a),
         Revoke(w)
  PROVE  Books(a)'
<1>1. /\ pc[w] = "revoke" /\ pc'[w] = "reload" /\ UNCHANGED <<votes, job, found>>
      /\ reputation' = [reputation EXCEPT ![AuthorOf[job[w].target]] = @ - found[w].effect]
      /\ job[w].target \notin LowQuality /\ job[w].target \in Target
      /\ found[w].effect \in Effect
  BY DEF Revoke, Goto, session, Remembered, TypeInv, TypeOK, Busy, Job, Read
<1>2. \A e : Entry(w, a, e) = -Bit(AuthorOf[job[w].target] = a /\ found[w].effect = e)
  BY <1>1 DEF Entry, Bit, IsComing, IsLeaving
<1>3. reputation'[a] = reputation[a] + Entry(w, a, 1) - Entry(w, a, -1)
  <2>1. reputation[a] \in Int /\ reputation \in [User -> Int]
    BY DEF TypeInv, TypeOK
  <2>2. CASE AuthorOf[job[w].target] = a
    <3>1. reputation'[a] = reputation[a] - found[w].effect
      BY <1>1, <2>1, <2>2
    <3> QED  BY <1>1, <1>2, <2>1, <2>2, <3>1 DEF Bit, Effect
  <2>3. CASE AuthorOf[job[w].target] # a
    BY <1>1, <1>2, <2>1, <2>3 DEF Bit
  <2> QED  BY <2>2, <2>3
<1> QED  BY <1>1, <1>3, BooksSameRows DEF Serve

LEMMA ReloadBooks ==
  ASSUME TypeInv, Remembered, NEW w \in Worker, NEW a \in User, IsFiniteSet(Own(a)), Books(a),
         Reload(w)
  PROVE  Books(a)'
<1>1. /\ pc[w] = "reload" /\ pc'[w] = "flip" /\ UNCHANGED <<votes, job, reputation>>
      /\ found'[w].effect = found[w].effect
  BY DEF Reload, Goto, db, Remembered, TypeInv, TypeOK, Read
<1>2. \A e : Entry(w, a, e) = 0
  BY <1>1 DEF Entry, Bit, IsComing, IsLeaving
<1>3. reputation[a] \in Int
  BY DEF TypeInv, TypeOK
<1> QED  BY <1>1, <1>2, <1>3, BooksSameRows DEF Serve

LEMMA FlipBooks ==
  ASSUME TypeInv, TypeInv', Numbered, NEW w \in Worker, NEW a \in User, IsFiniteSet(Own(a)),
         Books(a), Own(a) \cap LowQuality = {}, Flip(w),
         {"moved", "reversed"} \cap mishaps' = {}
  PROVE  Books(a)'
<1> DEFINE t == job[w].target
<1>1. /\ pc[w] = "flip" /\ pc'[w] = "retally" /\ UNCHANGED <<job, found, reputation>>
      /\ votes' = [votes EXCEPT ![t] = @ \ RowRead(w)]
      /\ \E v \in RowRead(w) : v.effect = found[w].effect
  BY DEF Flip, Goto, session, TypeInv, TypeOK, Note
<1>2. PICK v \in RowRead(w) : v.effect = found[w].effect
  BY <1>1
<1>3. RowRead(w) = {v} /\ v \in votes[t] /\ v \in Vote /\ t \in Target
  BY <1>1, TheRow
<1>4. votes'[t] = votes[t] \ {v} /\ \A s \in Target : s # t => votes'[s] = votes[s]
  BY <1>1, <1>3 DEF TypeInv, TypeOK
<1>5. \A e : Entry(w, a, e) = Bit(AuthorOf[t] = a /\ v.effect = e)
  BY <1>1, <1>2, <1>3 DEF Entry, Bit, IsComing, IsLeaving, Own
<1>6. PICK c \in Int : c = IF AuthorOf[t] = a THEN Bit(v \in votes'[t]) - Bit(v \in votes[t]) ELSE 0
  BY DEF Bit
<1>7. reputation'[a] = reputation[a] + c * v.effect + Entry(w, a, 1) - Entry(w, a, -1)
  <2>1. reputation[a] \in Int /\ reputation'[a] = reputation[a] /\ v.effect \in Effect
    BY <1>1, <1>3 DEF TypeInv, TypeOK, Vote
  <2>2. c = IF AuthorOf[t] = a THEN -1 ELSE 0
    BY <1>3, <1>4, <1>6 DEF Bit
  <2> QED  BY <1>5, <2>1, <2>2 DEF Bit, Effect
<1>8. votes'[t] \ {v} = votes[t] \ {v}
  BY <1>4
<1> HIDE DEF t
<1> QED  BY <1>3, <1>4, <1>6, <1>7, <1>8, BooksOneRow DEF Serve

LEMMA CastBooks ==
  ASSUME TypeInv, NEW w \in Worker, NEW a \in User, IsFiniteSet(Own(a)), Books(a),
         Own(a) \cap LowQuality = {}, Cast(w)
  PROVE  Books(a)'
<1> DEFINE t == job[w].target
           eff == EffectOf(job[w].dir)
<1>1. /\ pc[w] = "cast" /\ pc'[w] = "quota" /\ UNCHANGED <<votes, job, found>>
      /\ reputation' = [reputation EXCEPT ![AuthorOf[t]] = @ + Earned(t, eff)]
      /\ t \in Target /\ eff \in Effect
  BY DEF Cast, Goto, session, TypeInv, TypeOK, Busy, Job, EffectOf, Effect
<1>2. \A e : Entry(w, a, e) = Bit(AuthorOf[t] = a /\ eff = e)
  BY <1>1 DEF Entry, Bit, IsComing, IsLeaving
<1>3. reputation'[a] = reputation[a] + Entry(w, a, 1) - Entry(w, a, -1)
  <2>1. reputation[a] \in Int /\ reputation \in [User -> Int]
    BY DEF TypeInv, TypeOK
  <2> HIDE DEF eff, t
  <2>2. CASE AuthorOf[t] = a
    <3>1. Earned(t, eff) = eff
      BY <1>1, <2>2 DEF Earned, Own
    <3>2. reputation'[a] = reputation[a] + eff
      BY <1>1, <2>1, <2>2, <3>1
    <3> QED  BY <1>1, <1>2, <2>1, <2>2, <3>2 DEF Bit, Effect
  <2>3. CASE AuthorOf[t] # a
    BY <1>1, <1>2, <2>1, <2>3 DEF Bit
  <2> QED  BY <2>2, <2>3
<1> QED  BY <1>1, <1>3, BooksSameRows DEF Serve

LEMMA InsertBooks ==
  ASSUME TypeInv, TypeInv', Numbered, NEW w \in Worker, NEW a \in User, IsFiniteSet(Own(a)),
         Books(a), Insert(w)
  PROVE  Books(a)'
<1> DEFINE t == job[w].target
           eff == EffectOf(job[w].dir)
           row == [id |-> nextId[t], user |-> job[w].user, effect |-> eff]
<1>1. /\ pc[w] = "insert" /\ Close(w) /\ UNCHANGED reputation
      /\ votes' = [votes EXCEPT ![t] = @ \cup {row}]
      /\ t \in Target /\ eff \in Effect /\ row \in Vote
  BY DEF Insert, TypeInv, TypeOK, Busy, Job, EffectOf, Effect, Vote
<1>2. PICK v \in Vote : v = row
  BY <1>1
<1>3. v \notin votes[t] /\ v.effect = eff
  <2>1. v.id = nextId[t] /\ nextId[t] \in Nat
    BY <1>1, <1>2 DEF TypeInv, TypeOK
  <2> QED  BY <1>1, <1>2, <2>1 DEF Numbered
<1>4. votes'[t] = votes[t] \cup {v} /\ \A s \in Target : s # t => votes'[s] = votes[s]
  BY <1>1, <1>2 DEF TypeInv, TypeOK
<1>5. \A e : Entry(w, a, e) = -Bit(AuthorOf[t] = a /\ v.effect = e)
  BY <1>1, <1>3, ClosedIdle DEF Entry, Bit, IsComing, IsLeaving
<1>6. PICK c \in Int : c = IF AuthorOf[t] = a THEN Bit(v \in votes'[t]) - Bit(v \in votes[t]) ELSE 0
  BY DEF Bit
<1>7. reputation'[a] = reputation[a] + c * v.effect + Entry(w, a, 1) - Entry(w, a, -1)
  <2>1. reputation[a] \in Int /\ reputation'[a] = reputation[a] /\ v.effect \in Effect
    BY <1>1 DEF TypeInv, TypeOK, Vote
  <2>2. c = IF AuthorOf[t] = a THEN 1 ELSE 0
    BY <1>3, <1>4, <1>6 DEF Bit
  <2> QED  BY <1>5, <2>1, <2>2 DEF Bit, Effect
<1>8. votes'[t] \ {v} = votes[t] \ {v}
  BY <1>4
<1> HIDE DEF t, eff, row
<1> QED  BY ZenonT(40), <1>1, <1>4, <1>6, <1>7, <1>8, BooksOneRow DEF Serve

LEMMA UndoBooks ==
  ASSUME TypeInv, TypeInv', Numbered, NEW w \in Worker, NEW a \in User, IsFiniteSet(Own(a)),
         Books(a), Undo(w), "moved" \notin mishaps'
  PROVE  Books(a)'
<1> DEFINE t == job[w].target
<1>1. /\ pc[w] = "undoing" /\ Close(w)
      /\ reputation' = [reputation EXCEPT ![AuthorOf[t]] = @ - found[w].effect]
      /\ votes' = [votes EXCEPT ![t] = @ \ RowRead(w)]
      /\ \E v \in RowRead(w) : v.effect = found[w].effect
  BY DEF Undo
<1>2. PICK v \in RowRead(w) : v.effect = found[w].effect
  BY <1>1
<1>3. RowRead(w) = {v} /\ v \in votes[t] /\ v \in Vote /\ t \in Target
  BY <1>1, TheRow
<1>4. votes'[t] = votes[t] \ {v} /\ \A s \in Target : s # t => votes'[s] = votes[s]
  BY <1>1, <1>3 DEF TypeInv, TypeOK
<1>5. \A e : Entry(w, a, e) = 0
  BY <1>1, ClosedIdle DEF Entry, Bit, IsComing, IsLeaving
<1>6. PICK c \in Int : c = IF AuthorOf[t] = a THEN Bit(v \in votes'[t]) - Bit(v \in votes[t]) ELSE 0
  BY DEF Bit
<1>7. reputation'[a] = reputation[a] + c * v.effect + Entry(w, a, 1) - Entry(w, a, -1)
  <2>1. reputation[a] \in Int /\ reputation \in [User -> Int] /\ v.effect \in Effect
    BY <1>3 DEF TypeInv, TypeOK, Vote
  <2>2. c = IF AuthorOf[t] = a THEN -1 ELSE 0
    BY <1>3, <1>4, <1>6 DEF Bit
  <2>3. reputation'[a] = IF AuthorOf[t] = a THEN reputation[a] - v.effect ELSE reputation[a]
    BY <1>1, <1>2, <2>1
  <2> QED  BY <1>5, <2>1, <2>2, <2>3 DEF Effect
<1>8. votes'[t] \ {v} = votes[t] \ {v}
  BY <1>4
<1> HIDE DEF t
<1> QED  BY <1>3, <1>4, <1>6, <1>7, <1>8, BooksOneRow DEF Serve

LEMMA InitReputation ==
  ASSUME IsFiniteSet(Target), Init
  PROVE  ReputationInv
<1> SUFFICES ASSUME NEW a \in User PROVE Books(a)
  BY DEF ReputationInv, Books
<1>1. \A e : Coming(a, e) = {} /\ Leaving(a, e) = {}
  BY DEF Init, Coming, Leaving
<1>2. Standing(a, -1) = {}
  BY DEF Init, Standing
<1>3. IsFiniteSet(Own(a)) /\ Cardinality(Own(a)) \in Nat
  <2>1. IsFiniteSet(Own(a))
    BY FS_Subset DEF Own
  <2> QED  BY <2>1, FS_CardinalityType
<1>4. IsFiniteSet(Standing(a, 1)) /\ Cardinality(Standing(a, 1)) = Cardinality(Own(a))
  <2> DEFINE row(t) == [id |-> 1, user |-> AuthorOf[t], effect |-> 1]
             f == [t \in Own(a) |-> <<t, row(t)>>]
  <2>1. \A t \in Target : votes[t] = {row(t)} /\ row(t) \in Vote
    BY VotingAssumption DEF Init, Vote, Effect
  <2>2. \A t \in Own(a) : f[t] \in Standing(a, 1)
    BY <2>1 DEF Standing, Own
  <2>3. ASSUME NEW r \in Standing(a, 1) PROVE \E t \in Own(a) : f[t] = r
    <3>1. r[1] \in Own(a) /\ r \in Target \X Vote /\ r[2] \in votes[r[1]]
      BY <2>3 DEF Standing, Own
    <3>2. r[2] = row(r[1])
      BY <2>1, <3>1 DEF Own
    <3>3. r = <<r[1], r[2]>>
      BY <3>1
    <3> QED  BY <3>1, <3>2, <3>3
  <2>4. \A t, u \in Own(a) : f[t] = f[u] => t = u
    OBVIOUS
  <2>5. f \in [Own(a) -> Standing(a, 1)]
    BY <2>2
  <2> HIDE DEF f
  <2>6. f \in Bijection(Own(a), Standing(a, 1))
    BY <2>3, <2>4, <2>5, Fun_IsBij
  <2>7. ExistsBijection(Own(a), Standing(a, 1))
    BY <2>6, Fun_ExistsBij
  <2> QED  BY <1>3, <2>7, FS_Bijection
<1>5. reputation[a] = 0
  BY DEF Init
<1>6. Finite(a)
  BY <1>1, <1>2, <1>4, FS_EmptySet DEF Finite, Effect
<1>7. Account(a, 1) = Cardinality(Own(a)) /\ Account(a, -1) = 0
  <2>1. \A e : Cardinality(Coming(a, e)) = 0 /\ Cardinality(Leaving(a, e)) = 0
    BY <1>1, FS_EmptySet
  <2>2. Cardinality(Standing(a, -1)) = 0
    BY <1>2, FS_EmptySet
  <2> QED  BY <1>3, <1>4, <2>1, <2>2 DEF Account
<1> QED  BY <1>3, <1>5, <1>6, <1>7 DEF Books

LEMMA NextReputation ==
  ASSUME IsFiniteSet(Target), TypeInv, RowsInv, ReputationInv, [Next]_vars
  PROVE  ReputationInv'
<1> SUFFICES ASSUME Spared({"crash", "moved", "reversed"})', NEW a \in User,
                    Own(a) \cap LowQuality = {}
             PROVE  Books(a)'
  BY DEF ReputationInv, Books, Own
<1>1. /\ Numbered /\ Remembered /\ Books(a) /\ TypeInv'
      /\ {"crash", "moved", "reversed"} \cap mishaps' = {}
  BY MishapsStay, NextType DEF Spared, RowsInv, ReputationInv, Books
<1>2. IsFiniteSet(Own(a))
  BY FS_Subset DEF Own
<1>3. ASSUME NEW w \in Worker, Serve(w) PROVE Books(a)'
  <2>1. ~ReloadGone(w) /\ ~FlipGone(w)
    BY <1>1 DEF ReloadGone, FlipGone, Note
  <2> QED
    BY <1>1, <1>2, <1>3, <2>1, EntrylessBooks, RevokeBooks, ReloadBooks, FlipBooks, CastBooks,
       InsertBooks, UndoBooks DEF Serve, Entryless
<1>4. ASSUME NEW w \in Worker, Arrive(w) PROVE Books(a)'
  BY <1>1, <1>2, <1>4, EntrylessBooks
<1>5. ASSUME NEW w \in Worker, Crash(w) PROVE Books(a)'
  <2>1. pc[w] \notin Inside \ {"revoke", "cast"}
    BY <1>1, <1>5 DEF Crash, Note
  <2> QED  BY <1>1, <1>2, <1>5, <2>1, EntrylessBooks
<1>6. CASE UNCHANGED <<votes, reputation, pc, job, found>>
  BY <1>1, <1>6 DEF Books, Finite, Account, Standing, Coming, Leaving, Own
<1>7. ASSUME NEW t \in Target, Expire(t) PROVE Books(a)'
  BY <1>6, <1>7 DEF Expire, db, session
<1>8. CASE UNCHANGED vars
  BY <1>6, <1>8 DEF vars
<1> QED  BY <1>3, <1>4, <1>5, <1>7, <1>8 DEF Next

\* The pairs of object and row, as the property lists them.
LEMMA StandingPairs ==
  ASSUME TypeInv, NEW a, NEW e
  PROVE  UNION {{<<t, v>> : v \in {x \in votes[t] : x.effect = e}} : t \in Own(a)}
           = Standing(a, e)
<1> DEFINE pairs == UNION {{<<t, v>> : v \in {x \in votes[t] : x.effect = e}} : t \in Own(a)}
<1>1. ASSUME NEW p \in pairs PROVE p \in Standing(a, e)
  <2>0. PICK t \in Own(a) : p \in {<<t, v>> : v \in {x \in votes[t] : x.effect = e}}
    BY <1>1
  <2>1. PICK v \in votes[t] : v.effect = e /\ p = <<t, v>>
    BY <2>0
  <2>2. t \in Target /\ AuthorOf[t] = a /\ v \in Vote
    BY <2>1 DEF Own, TypeInv, TypeOK
  <2> QED  BY <2>1, <2>2 DEF Standing
<1>2. ASSUME NEW p \in Standing(a, e) PROVE p \in pairs
  <2>1. PICK t \in Target, v \in Vote : p = <<t, v>>
    BY <1>2 DEF Standing
  <2>2. t \in Own(a) /\ v \in votes[t] /\ v.effect = e
    BY <1>2, <2>1 DEF Standing, Own
  <2> QED  BY <2>1, <2>2
<1> HIDE DEF pairs
<1>3. pairs = Standing(a, e)
  BY <1>1, <1>2
<1> QED  BY <1>3 DEF pairs

LEMMA InvImpliesReputation == TypeInv /\ ReputationInv => ReputationMatchesVotes
<1> SUFFICES ASSUME TypeInv, ReputationInv, Spared({"crash", "moved", "reversed"}),
                    NEW a \in User, Own(a) \cap LowQuality = {}, \A t \in Own(a) : Settled(t)
             PROVE  reputation[a] = Cardinality(Standing(a, 1)) - Cardinality(Standing(a, -1))
                                      - Cardinality(Own(a))
  BY StandingPairs DEF ReputationMatchesVotes, Own
<1>1. \A e : Coming(a, e) = {} /\ Leaving(a, e) = {}
  <2>1. \A w \in Worker : pc[w] \in Inside => job[w].target \in Target
    BY DEF TypeInv, TypeOK, Busy, Job, Inside, Revoking, Casting
  <2> QED
    BY <2>1 DEF Coming, Leaving, Settled, Own, Inside, Revoking, Casting
<1>2. \A e : Cardinality(Coming(a, e)) = 0 /\ Cardinality(Leaving(a, e)) = 0
  BY <1>1, FS_EmptySet
<1>3. Cardinality(Standing(a, 1)) \in Nat /\ Cardinality(Standing(a, -1)) \in Nat
  BY FS_CardinalityType DEF ReputationInv, Finite, Effect
<1>4. reputation[a] = Account(a, 1) - Account(a, -1) - Cardinality(Own(a))
  BY DEF ReputationInv
<1> QED  BY <1>2, <1>3, <1>4 DEF Account

\* What an author has is what the standing votes on their posts and comments
\* are worth: nothing is booked twice or not at all by vote() and undo_vote, in
\* any order and with any locks, unless a worker is killed between two commits,
\* a row is taken back twice or a vote is turned around.
THEOREM ReputationCounted ==
  ASSUME IsFiniteSet(Target)
  PROVE  Spec => []ReputationMatchesVotes
<1>1. TypeInv /\ RowsInv /\ ReputationInv /\ [][Next]_vars => [](TypeInv /\ ReputationInv)
  <2>1. TypeInv /\ RowsInv /\ ReputationInv /\ [Next]_vars
          => (TypeInv /\ RowsInv /\ ReputationInv)'
    BY NextType, NextRows, NextReputation
  <2> QED  BY <2>1, PTL
<1>2. Init => TypeInv /\ RowsInv /\ ReputationInv
  BY InitType, InitRows, InitReputation
<1> QED  BY <1>1, <1>2, InvImpliesReputation, PTL DEF Spec

-----------------------------------------------------------------------------
(***************************************************************************)
(* Low quality communities.  There an up vote earns nothing, and a down    *)
(* vote that is taken back gives back at most the point that it cost.      *)
(***************************************************************************)
Low(a) ==
  /\ IsFiniteSet(Standing(a, -1)) /\ IsFiniteSet(Coming(a, -1))
  /\ reputation[a] + Cardinality(Standing(a, -1)) + Cardinality(Coming(a, -1)) <= 0

\* A step that changes no row, and takes a point for a vote that is now coming.
LEMMA LowSameRows ==
  ASSUME TypeInv, TypeInv', NEW w \in Worker, Arrive(w) \/ Serve(w) \/ Crash(w), NEW a \in User,
         Low(a), votes' = votes,
         reputation'[a] + Bit(IsComing(w, a, -1)') <= reputation[a] + Bit(IsComing(w, a, -1))
  PROVE  Low(a)'
<1>1. /\ IsFiniteSet(Coming(a, -1)') /\ Cardinality(Coming(a, -1)) \in Nat
      /\ Cardinality(Coming(a, -1)') = Cardinality(Coming(a, -1))
           + Bit(IsComing(w, a, -1)') - Bit(IsComing(w, a, -1))
  BY WorkersCount DEF Low, Bit
<1>2. /\ Standing(a, -1)' = Standing(a, -1) /\ IsFiniteSet(Standing(a, -1))
      /\ Cardinality(Standing(a, -1)) \in Nat
  BY SameRowsStand, FS_CardinalityType DEF Low
<1>3. /\ reputation[a] \in Int /\ reputation'[a] \in Int
      /\ Bit(IsComing(w, a, -1)') \in Int /\ Bit(IsComing(w, a, -1)) \in Int
  BY DEF TypeInv, TypeOK, Bit
<1>4. Cardinality(Standing(a, -1)') = Cardinality(Standing(a, -1))
  BY <1>2
<1> QED  BY <1>1, <1>2, <1>3, <1>4 DEF Low

\* The same when a row comes or goes.
LEMMA LowOneRow ==
  ASSUME TypeInv, TypeInv', NEW w \in Worker, Serve(w), NEW a \in User, Low(a),
         NEW t \in Target, NEW v \in Vote, votes'[t] \ {v} = votes[t] \ {v},
         \A s \in Target : s # t => votes'[s] = votes[s],
         NEW c \in Int,
         c = IF AuthorOf[t] = a /\ v.effect = -1
             THEN Bit(v \in votes'[t]) - Bit(v \in votes[t]) ELSE 0,
         reputation'[a] + c + Bit(IsComing(w, a, -1)')
           <= reputation[a] + Bit(IsComing(w, a, -1))
  PROVE  Low(a)'
<1>1. /\ IsFiniteSet(Coming(a, -1)') /\ Cardinality(Coming(a, -1)) \in Nat
      /\ Cardinality(Coming(a, -1)') = Cardinality(Coming(a, -1))
           + Bit(IsComing(w, a, -1)') - Bit(IsComing(w, a, -1))
  BY WorkersCount DEF Low, Bit
<1>2. /\ IsFiniteSet(Standing(a, -1)') /\ Cardinality(Standing(a, -1)) \in Nat
      /\ Cardinality(Standing(a, -1)') = Cardinality(Standing(a, -1)) + c
  <2>1. /\ IsFiniteSet(Standing(a, -1)') /\ Cardinality(Standing(a, -1)) \in Nat
        /\ Cardinality(Standing(a, -1)') = Cardinality(Standing(a, -1))
             + (IF AuthorOf[t] = a /\ v.effect = -1 /\ v \in votes'[t] THEN 1 ELSE 0)
             - (IF AuthorOf[t] = a /\ v.effect = -1 /\ v \in votes[t] THEN 1 ELSE 0)
    BY RowsCount DEF Low
  <2> QED  BY <2>1 DEF Bit
<1>3. /\ reputation[a] \in Int /\ reputation'[a] \in Int
      /\ Bit(IsComing(w, a, -1)') \in Int /\ Bit(IsComing(w, a, -1)) \in Int
  BY DEF TypeInv, TypeOK, Bit
<1> QED  BY <1>1, <1>2, <1>3 DEF Low

LEMMA InitLow == Init => LowInv
<1> SUFFICES ASSUME Init, NEW a \in User PROVE Low(a)
  BY DEF LowInv, Low
<1>1. Standing(a, -1) = {} /\ Coming(a, -1) = {} /\ reputation[a] = 0
  BY DEF Init, Standing, Coming
<1> QED  BY <1>1, FS_EmptySet DEF Low

\* The steps that change no row.
LEMMA PassingLow ==
  ASSUME TypeInv, TypeInv', Remembered, NEW w \in Worker, NEW a \in User,
         Own(a) \subseteq LowQuality, Low(a),
         \/ Arrive(w) \/ Crash(w) \/ Entryless(w) \/ Revoke(w) \/ Reload(w) \/ ReloadGone(w)
         \/ FlipGone(w) \/ Cast(w)
  PROVE  Low(a)'
<1>0. /\ reputation[a] \in Int /\ reputation \in [User -> Int]
      /\ pc[w] # "idle" => job[w].target \in Target
  BY DEF TypeInv, TypeOK, Busy, Job
<1>1. CASE Arrive(w) \/ Entryless(w)
  <2>1. UNCHANGED <<votes, reputation>> /\ Bit(IsComing(w, a, -1)') = Bit(IsComing(w, a, -1))
    BY <1>1, EntrylessStep DEF Bit
  <2>2. Arrive(w) \/ Serve(w)
    BY <1>1 DEF Entryless, Serve
  <2> QED  BY <1>0, <2>1, <2>2, LowSameRows DEF Bit
<1>2. CASE Crash(w) \/ ReloadGone(w) \/ FlipGone(w)
  <2>1. UNCHANGED <<votes, reputation>> /\ Close(w)
    BY <1>2 DEF Crash, ReloadGone, FlipGone, db
  <2>2. ~IsComing(w, a, -1)'
    BY <2>1, ClosedIdle DEF IsComing
  <2> QED  BY <1>0, <1>2, <2>1, <2>2, LowSameRows DEF Bit, Serve
<1>3. CASE Revoke(w)
  <2>1. /\ UNCHANGED <<votes, job>> /\ pc[w] = "revoke" /\ pc'[w] = "reload"
        /\ reputation' = [reputation EXCEPT ![AuthorOf[job[w].target]] = @ - found[w].effect]
        /\ job[w].target \notin LowQuality
    BY <1>3 DEF Revoke, Goto, TypeInv, TypeOK, Remembered
  <2>2. reputation'[a] = reputation[a] /\ ~IsComing(w, a, -1) /\ ~IsComing(w, a, -1)'
    BY <1>0, <2>1 DEF Own, IsComing
  <2> QED  BY <1>0, <1>3, <2>1, <2>2, LowSameRows DEF Bit, Serve
<1>4. CASE Reload(w)
  <2>1. UNCHANGED <<votes, reputation>> /\ ~IsComing(w, a, -1) /\ ~IsComing(w, a, -1)'
    BY <1>4 DEF Reload, Goto, db, TypeInv, TypeOK, IsComing
  <2> QED  BY <1>0, <1>4, <2>1, LowSameRows DEF Bit, Serve
<1>5. CASE Cast(w)
  <2> DEFINE t == job[w].target
             eff == EffectOf(job[w].dir)
  <2>1. /\ pc[w] = "cast" /\ pc'[w] = "quota" /\ UNCHANGED <<votes, job>>
        /\ reputation' = [reputation EXCEPT ![AuthorOf[t]] = @ + Earned(t, eff)]
        /\ t \in Target /\ eff \in Effect
    BY <1>0, <1>5 DEF Cast, Goto, TypeInv, TypeOK, EffectOf, Effect
  <2>2. /\ Bit(IsComing(w, a, -1)) = 0
        /\ Bit(IsComing(w, a, -1)') = IF AuthorOf[t] = a /\ eff = -1 THEN 1 ELSE 0
    BY <2>1 DEF IsComing, Bit
  <2> HIDE DEF t, eff
  <2>3. reputation'[a] + (IF AuthorOf[t] = a /\ eff = -1 THEN 1 ELSE 0) <= reputation[a]
    <3>1. CASE AuthorOf[t] = a
      <4>1. Earned(t, eff) = IF eff = 1 THEN 0 ELSE -1
        BY <2>1, <3>1 DEF Earned, Own, Effect
      <4>2. reputation'[a] = reputation[a] + Earned(t, eff)
        BY <1>0, <2>1, <3>1
      <4> QED  BY <1>0, <2>1, <3>1, <4>1, <4>2 DEF Effect
    <3>2. CASE AuthorOf[t] # a
      BY <1>0, <2>1, <3>2
    <3> QED  BY <3>1, <3>2
  <2>4. reputation'[a] + Bit(IsComing(w, a, -1)') <= reputation[a] + Bit(IsComing(w, a, -1))
    BY <1>0, <2>2, <2>3
  <2> QED  BY <1>5, <2>1, <2>4, LowSameRows DEF Serve
<1> QED  BY <1>1, <1>2, <1>3, <1>4, <1>5

LEMMA FlipLow ==
  ASSUME TypeInv, TypeInv', NEW w \in Worker, NEW a \in User, Low(a), Flip(w),
         "reversed" \notin mishaps'
  PROVE  Low(a)'
<1>1. /\ pc[w] = "flip" /\ pc'[w] = "retally" /\ reputation' = reputation
      /\ votes' = [votes EXCEPT ![job[w].target] = @ \ RowRead(w)]
  BY DEF Flip, Goto, TypeInv, TypeOK
<1>2. Standing(a, -1)' \subseteq Standing(a, -1)
  BY <1>1 DEF Standing, TypeInv, TypeOK
<1>3. /\ IsFiniteSet(Standing(a, -1)')
      /\ Cardinality(Standing(a, -1)') <= Cardinality(Standing(a, -1))
      /\ Cardinality(Standing(a, -1)) \in Nat /\ Cardinality(Standing(a, -1)') \in Nat
  <2>1. IsFiniteSet(Standing(a, -1)) /\ Standing(a, -1)' \in SUBSET Standing(a, -1)
    BY <1>2 DEF Low
  <2> QED  BY <2>1, FS_Subset, FS_CardinalityType
<1>4. /\ IsFiniteSet(Coming(a, -1)') /\ Cardinality(Coming(a, -1)) \in Nat
      /\ Cardinality(Coming(a, -1)') = Cardinality(Coming(a, -1))
  <2>1. ~IsComing(w, a, -1) /\ ~IsComing(w, a, -1)'
    BY <1>1 DEF IsComing
  <2> QED  BY <2>1, WorkersCount DEF Low, Serve
<1>5. reputation[a] \in Int /\ reputation'[a] = reputation[a]
  BY <1>1 DEF TypeInv, TypeOK
<1> QED  BY <1>3, <1>4, <1>5 DEF Low

LEMMA InsertLow ==
  ASSUME TypeInv, TypeInv', Numbered, NEW w \in Worker, NEW a \in User, Low(a), Insert(w)
  PROVE  Low(a)'
<1> DEFINE t == job[w].target
           eff == EffectOf(job[w].dir)
           row == [id |-> nextId[t], user |-> job[w].user, effect |-> eff]
<1>1. /\ pc[w] = "insert" /\ Close(w) /\ UNCHANGED reputation
      /\ votes' = [votes EXCEPT ![t] = @ \cup {row}]
      /\ t \in Target /\ eff \in Effect /\ row \in Vote
  BY DEF Insert, TypeInv, TypeOK, Busy, Job, EffectOf, Effect, Vote
<1>2. PICK v \in Vote : v = row
  BY <1>1
<1>3. v \notin votes[t] /\ v.effect = eff
  <2>1. v.id = nextId[t] /\ nextId[t] \in Nat
    BY <1>1, <1>2 DEF TypeInv, TypeOK
  <2> QED  BY <1>1, <1>2, <2>1 DEF Numbered
<1>4. votes'[t] = votes[t] \cup {v} /\ \A s \in Target : s # t => votes'[s] = votes[s]
  BY <1>1, <1>2 DEF TypeInv, TypeOK
<1>5. /\ ~IsComing(w, a, -1)'
      /\ IsComing(w, a, -1) <=> (AuthorOf[t] = a /\ v.effect = -1)
  BY <1>1, <1>3, ClosedIdle DEF IsComing
<1>6. PICK c \in Int :
        c = IF AuthorOf[t] = a /\ v.effect = -1
            THEN Bit(v \in votes'[t]) - Bit(v \in votes[t]) ELSE 0
  BY DEF Bit
<1>7. reputation'[a] + c + Bit(IsComing(w, a, -1)') <= reputation[a] + Bit(IsComing(w, a, -1))
  <2>1. reputation[a] \in Int /\ reputation'[a] = reputation[a]
    BY <1>1 DEF TypeInv, TypeOK
  <2>2. c = IF AuthorOf[t] = a /\ v.effect = -1 THEN 1 ELSE 0
    BY <1>3, <1>4, <1>6 DEF Bit
  <2> QED  BY <1>5, <2>1, <2>2 DEF Bit
<1>8. votes'[t] \ {v} = votes[t] \ {v}
  BY <1>4
<1> HIDE DEF t, eff, row
<1> QED  BY <1>1, <1>4, <1>6, <1>7, <1>8, LowOneRow DEF Serve

LEMMA UndoLow ==
  ASSUME TypeInv, TypeInv', Numbered, NEW w \in Worker, NEW a \in User, Low(a), Undo(w),
         "moved" \notin mishaps'
  PROVE  Low(a)'
<1> DEFINE t == job[w].target
<1>1. /\ pc[w] = "undoing" /\ Close(w)
      /\ reputation' = [reputation EXCEPT ![AuthorOf[t]] = @ - found[w].effect]
      /\ votes' = [votes EXCEPT ![t] = @ \ RowRead(w)]
      /\ \E v \in RowRead(w) : v.effect = found[w].effect
  BY DEF Undo
<1>2. PICK v \in RowRead(w) : v.effect = found[w].effect
  BY <1>1
<1>3. RowRead(w) = {v} /\ v \in votes[t] /\ v \in Vote /\ t \in Target
  BY <1>1, TheRow
<1>4. votes'[t] = votes[t] \ {v} /\ \A s \in Target : s # t => votes'[s] = votes[s]
  BY <1>1, <1>3 DEF TypeInv, TypeOK
<1>5. ~IsComing(w, a, -1) /\ ~IsComing(w, a, -1)'
  BY <1>1, ClosedIdle DEF IsComing
<1>6. PICK c \in Int :
        c = IF AuthorOf[t] = a /\ v.effect = -1
            THEN Bit(v \in votes'[t]) - Bit(v \in votes[t]) ELSE 0
  BY DEF Bit
<1>7. reputation'[a] + c + Bit(IsComing(w, a, -1)') <= reputation[a] + Bit(IsComing(w, a, -1))
  <2>1. reputation[a] \in Int /\ reputation \in [User -> Int] /\ v.effect \in Effect
    BY <1>3 DEF TypeInv, TypeOK, Vote
  <2>2. c = IF AuthorOf[t] = a /\ v.effect = -1 THEN -1 ELSE 0
    BY <1>3, <1>4, <1>6 DEF Bit
  <2>3. reputation'[a] = IF AuthorOf[t] = a THEN reputation[a] - v.effect ELSE reputation[a]
    BY <1>1, <1>2, <2>1
  <2> QED  BY <1>5, <2>1, <2>2, <2>3 DEF Effect, Bit
<1>8. votes'[t] \ {v} = votes[t] \ {v}
  BY <1>4
<1> HIDE DEF t
<1> QED  BY <1>3, <1>4, <1>6, <1>7, <1>8, LowOneRow DEF Serve

LEMMA NextLow ==
  ASSUME TypeInv, RowsInv, LowInv, [Next]_vars
  PROVE  LowInv'
<1> SUFFICES ASSUME Spared({"moved", "reversed"})', NEW a \in User, Own(a) \subseteq LowQuality
             PROVE  Low(a)'
  BY DEF LowInv, Low, Own
<1>1. /\ Numbered /\ Remembered /\ Low(a) /\ TypeInv'
      /\ "moved" \notin mishaps' /\ "reversed" \notin mishaps'
  BY MishapsStay, NextType DEF Spared, RowsInv, LowInv, Low
<1>2. ASSUME NEW w \in Worker, Arrive(w) \/ Serve(w) \/ Crash(w) PROVE Low(a)'
  BY <1>1, <1>2, PassingLow, FlipLow, InsertLow, UndoLow DEF Serve, Entryless
<1>3. CASE UNCHANGED <<votes, reputation, pc, job>>
  BY <1>1, <1>3 DEF Low, Standing, Coming
<1>4. ASSUME NEW t \in Target, Expire(t) PROVE Low(a)'
  BY <1>3, <1>4 DEF Expire, db, session
<1>5. CASE UNCHANGED vars
  BY <1>3, <1>5 DEF vars
<1> QED  BY <1>2, <1>4, <1>5 DEF Next

LEMMA InvImpliesLow == TypeInv /\ LowInv => LowQualityNeverGains
<1> SUFFICES ASSUME TypeInv, LowInv, Spared({"moved", "reversed"}), NEW a \in User,
                    Own(a) \subseteq LowQuality
             PROVE  reputation[a] <= 0
  BY DEF LowQualityNeverGains, Own, Spared
<1>1. Low(a) /\ reputation[a] \in Int
  BY DEF LowInv, Low, TypeInv, TypeOK
<1>2. Cardinality(Standing(a, -1)) \in Nat /\ Cardinality(Coming(a, -1)) \in Nat
  BY <1>1, FS_CardinalityType DEF Low
<1> QED  BY <1>1, <1>2 DEF Low

\* An author who writes only in low quality communities never gets above zero,
\* however many votes come and go there and whenever workers are killed or
\* locks are overrun, unless a vote is turned around or taken back twice.
THEOREM LowQualityCounted == Spec => []LowQualityNeverGains
<1>1. TypeInv /\ RowsInv /\ LowInv /\ [][Next]_vars => [](TypeInv /\ LowInv)
  <2>1. TypeInv /\ RowsInv /\ LowInv /\ [Next]_vars => (TypeInv /\ RowsInv /\ LowInv)'
    BY NextType, NextRows, NextLow
  <2> QED  BY <2>1, PTL
<1> QED
  BY <1>1, InitType, InitRows, InitLow, InvImpliesLow, PTL DEF Spec
=============================================================================
