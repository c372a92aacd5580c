--------------------------- MODULE InstanceHealth ---------------------------
(***************************************************************************)
(* What PieFed believes about the health of other instances: the columns   *)
(* failures, dormant, gone_forever, start_trying_again and nodeinfo_href   *)
(* of app/models.py Instance, and all that writes them.  Two daily tasks   *)
(* of app/shared/tasks/maintenance.py probe the instances,                 *)
(* check_instance_health the dormant ones and monitor_healthy_instances    *)
(* the others; an activity that arrives, one that is announced, an answer  *)
(* to one that is sent, and an administrator change them in between.       *)
(*                                                                         *)
(* A task works on the rows as its session has loaded them.  A commit      *)
(* writes the columns that the session has changed, and no others, and     *)
(* makes the session forget its copies, as does a rollback; a copy is      *)
(* loaded when the task comes to the instance, before it sends the request *)
(* and waits for the answer.                                               *)
(*                                                                         *)
(* Time is counted in days.  Instants less than a day apart, such as the   *)
(* first waits of awaken_dormant_instance, may fall in either order.       *)
(***************************************************************************)
EXTENDS Integers, FiniteSets

CONSTANTS
  Instance,     \* some of the other instances; what the others, their
                \*   neighbours, do to the daily check is modelled all the same
  Reliable,     \* those of them whose troubles come to an end
  Garbling,     \* those of them that may send what is not understood
  Links,        \* bound: links in a nodeinfo document that is not understood
  Moved,        \* Lemmy whose nodeinfo is looked for again though it is known
  HasAdmins,    \* those of them that run Lemmy, PieFed or Mbin: asked for admins
  MaxFailures,  \* bound: failures are not counted any further
  Days,         \* bound: quiet days are not counted any further
  Meddling      \* bound: times an administrator, a 410, a task that is lost or
                \*   an answer that is not understood step in

ASSUME InstanceHealthAssumption ==
  /\ Reliable \subseteq Instance
  /\ Garbling \subseteq Instance
  /\ HasAdmins \subseteq Instance /\ Moved \subseteq HasAdmins
  /\ MaxFailures \in Nat /\ MaxFailures > 12
  /\ Links \in Nat /\ Days \in Nat /\ Meddling \in Nat

VARIABLES
  inst,        \* [Instance -> its row]
  pc,          \* [Task -> what the task does next]
  todo,        \* [Task -> the instances it has still to come to]
  cur,         \* [Task -> the instance it is waiting for]
  loaded,      \* [Task -> the rows as the session loaded them]
  mine,        \* [Task -> the rows as the session has changed them]
  bound,       \* whether the monitor's variable "response" has a value yet
  ran,         \* the tasks that have been started today
  well,        \* those that answer as they should from now on
  meddled,     \* bound: see Meddling
  quiet,       \* history: [Instance -> whole days since its last good sign]
  mishap       \* history: whether there was one of those named below

vars == <<inst, pc, todo, cur, loaded, mine, bound, ran, well, meddled,
          quiet, mishap>>

-----------------------------------------------------------------------------
Check   == "check_instance_health"
Monitor == "monitor_healthy_instances"
Task    == {Check, Monitor}
Nothing == "nothing"

\* start_trying_again, as days from today; what is more than five days ago
\* makes no difference any more.
Never   == 99
TryIn   == -5 .. 5
Row     == [failures : 0 .. MaxFailures, dormant : BOOLEAN, gone : BOOLEAN,
            tryIn : TryIn \cup {Never}, href : BOOLEAN]
Columns == {"failures", "dormant", "gone", "tryIn", "href"}
NoRow   == [failures |-> 0, dormant |-> TRUE, gone |-> TRUE, tryIn |-> Never,
            href |-> FALSE]      \* not loaded: no task loads such a row

\* A mishap: a task committed what it had decided on a row that had changed
\* since it was loaded; an instance that had come back or was given up was
\* rechecked all the same; one found to be back was forgotten by a rollback; a
\* user's profile could not be parsed; 410 or 418 was answered; an
\* administrator set the row by hand.

Online(row) == ~(row.dormant \/ row.gone)
Strikes(row, n) ==
  [row EXCEPT !.failures = IF @ + n < MaxFailures THEN @ + n ELSE MaxFailures]
Strike(row) == Strikes(row, 1)

\* update_dormant_gone, after a request that got no answer.
\* Faulty: an instance is put to sleep after one failure.
Hasty(row) == [row EXCEPT !.dormant = TRUE]
UpdateDormantGone(row) ==
  IF row.failures > 7 /\ row.dormant THEN [row EXCEPT !.gone = TRUE]
  ELSE IF row.failures > 2 /\ ~row.dormant THEN [row EXCEPT !.dormant = TRUE]
  ELSE row
NoAnswer(row) == UpdateDormantGone(Strike(row))

\* The monitor's own rules for the end of a row of failures.
Sleep(row) == IF row.failures > 5 THEN [row EXCEPT !.dormant = TRUE, !.tryIn = 5]
              ELSE row
GiveUp(row) == IF row.failures > 12 THEN [row EXCEPT !.gone = TRUE] ELSE row
Healthy(row) == [row EXCEPT !.failures = 0, !.dormant = FALSE, !.gone = FALSE]

Init ==
  /\ inst \in [Instance -> {[failures |-> 0, dormant |-> FALSE, gone |-> FALSE,
                             tryIn |-> Never, href |-> known]
                              : known \in BOOLEAN}]
  /\ pc = [p \in Task |-> "idle"]
  /\ todo = [p \in Task |-> {}]
  /\ cur = [p \in Task |-> Nothing]
  /\ loaded = [p \in Task |-> [i \in Instance |-> NoRow]]
  /\ mine = loaded
  /\ bound = FALSE
  /\ ran = {}
  /\ well = {}
  /\ meddled = 0
  /\ quiet = [i \in Instance |-> 0]
  /\ mishap = FALSE

-----------------------------------------------------------------------------
(***************************************************************************)
(* Sessions.                                                               *)
(***************************************************************************)
\* What a commit makes of row i when the session has come to hold "row".
Written(p, i, row) ==
  IF row = NoRow THEN inst[i]
  ELSE [c \in Columns |-> IF row[c] # loaded[p][i][c] THEN row[c] ELSE inst[i][c]]
\* The session has changed the row of i, which has changed since it was loaded.
Outdated(p, i, row) ==
  /\ row # loaded[p][i]
  /\ \E c \in {"failures", "dormant", "gone"} : inst[i][c] # loaded[p][i][c]

\* The rows change, and a mishap is noted.
Rows(new, oops) == inst' = new /\ mishap' = (mishap \/ oops)

Pending(p) == {i \in Instance : mine[p][i] # loaded[p][i]}
Forgotten(p) ==
  /\ loaded' = [loaded EXCEPT ![p] = [i \in Instance |-> NoRow]]
  /\ mine' = [mine EXCEPT ![p] = [i \in Instance |-> NoRow]]

\* Task p changes the row of i to "row", and commits.
Commit(p, i, row) ==
  LET held == [mine[p] EXCEPT ![i] = row] IN
  /\ Rows([j \in Instance |-> Written(p, j, held[j])],
          \E j \in Instance : Outdated(p, j, held[j]))
  /\ Forgotten(p)

\* Task p comes to instance i, loads its row unless it has it, and asks it.
Ask(p, i, what) ==
  /\ pc' = [pc EXCEPT ![p] = what]
  /\ cur' = [cur EXCEPT ![p] = i]
  /\ IF mine[p][i] = NoRow
     THEN /\ loaded' = [loaded EXCEPT ![p][i] = inst[i]]
          /\ mine' = [mine EXCEPT ![p][i] = inst[i]]
     ELSE UNCHANGED <<loaded, mine>>

Answered(p, next) ==
  /\ pc' = [pc EXCEPT ![p] = next]
  /\ cur' = [cur EXCEPT ![p] = IF next = "next" THEN Nothing ELSE @]

Good(i) == quiet' = [quiet EXCEPT ![i] = 0]

\* What may come of a request to instance i: a good answer, an error, no
\* answer at all, one that says nothing that PieFed understands, or one that
\* raises an exception when it is parsed.
Answer(i) == IF i \in well THEN {"good"}
             ELSE {"good", "error", "none"}
                    \cup (IF i \in Garbling /\ meddled < Meddling
                          THEN {"unknown", "garbled"} ELSE {})
Noted(ans) ==
  meddled' = IF ans \in {"unknown", "garbled"} THEN meddled + 1 ELSE meddled

\* The answer after a rollback: the row is loaded again, and struck.
\* (Nothing happens between the two.)
Struck(i) == Strike(inst[i])

-----------------------------------------------------------------------------
(***************************************************************************)
(* monitor_healthy_instances.                                              *)
(***************************************************************************)
\* Instances that are not modelled may come first, and one of them may have
\* answered with its list of admins.
StartMonitor ==
  LET healthy == {i \in Instance : Online(inst[i])} IN
  /\ pc[Monitor] = "idle" /\ Monitor \notin ran
  /\ pc' = [pc EXCEPT ![Monitor] = "next"]
  /\ ran' = ran \cup {Monitor}
  /\ todo' = [todo EXCEPT ![Monitor] = healthy]
  /\ LET rows == [i \in Instance |-> IF i \in healthy THEN inst[i] ELSE NoRow]
     IN  /\ loaded' = [loaded EXCEPT ![Monitor] = rows]
         /\ mine' = [mine EXCEPT ![Monitor] = rows]
  /\ bound' \in BOOLEAN
  /\ UNCHANGED <<inst, cur, well, meddled, quiet, mishap>>

\* An instance whose nodeinfo is not known is asked where it is; the others
\* are asked for it.
Probe(i) ==
  LET row == IF mine[Monitor][i] = NoRow THEN inst[i] ELSE mine[Monitor][i] IN
  /\ pc[Monitor] = "next" /\ i \in todo[Monitor]
  /\ todo' = [todo EXCEPT ![Monitor] = @ \ {i}]
  /\ Ask(Monitor, i, IF row.href /\ i \notin Moved THEN "node" ELSE "well-known")
  /\ UNCHANGED <<inst, bound, ran, well, meddled, quiet, mishap>>

\* Every link of a kind that is not known is a failure.  After the commit the
\* row is read again, and if nodeinfo is still not known that is one more.
Located(i, ans, links) ==
  LET row == mine[Monitor][i] IN
  CASE ans = "good"    -> [Healthy(row) EXCEPT !.href = TRUE]
    [] ans = "error"   -> Strike(row)
    [] ans = "none"    -> Strike(NoAnswer(row))
    [] ans = "unknown" -> Strikes(row, links)
    [] ans = "garbled" -> Struck(i)
Asked(i) == IF i \in HasAdmins THEN "admins" ELSE "next"
Locate(i) == \E ans \in Answer(i), links \in 0 .. Links :
  LET row   == Located(i, ans, links)
      found == IF ans = "garbled" THEN row ELSE Written(Monitor, i, row)
      lost  == GiveUp(Sleep(Strike(found)))
      stale == ans # "garbled" /\ Outdated(Monitor, i, row)
  IN
  /\ pc[Monitor] = "well-known" /\ cur[Monitor] = i
  /\ IF ans = "good" THEN Good(i) ELSE UNCHANGED quiet
  /\ IF found.href
     THEN /\ Rows([inst EXCEPT ![i] = found], stale)
          /\ loaded' = [loaded EXCEPT ![Monitor] =
                          [j \in Instance |-> IF j = i THEN found ELSE NoRow]]
          /\ mine' = [mine EXCEPT ![Monitor] = loaded'[Monitor]]
          /\ Answered(Monitor, "node")
     ELSE /\ Rows([inst EXCEPT ![i] = lost], stale)
          /\ Forgotten(Monitor)
          /\ Answered(Monitor, IF Online(lost) THEN Asked(i) ELSE "next")
  /\ Noted(ans)
  /\ UNCHANGED <<todo, bound, ran, well>>

\* The answer to the request for nodeinfo; an error makes it unknown.
Examined(i, ans) ==
  LET row == mine[Monitor][i] IN
  CASE ans = "good"    -> Healthy(row)
    [] ans = "error"   -> Sleep([Strike(row) EXCEPT !.href = FALSE])
    [] ans = "none"    -> Sleep([Strike(NoAnswer(row)) EXCEPT !.href = FALSE])
    [] ans = "unknown" -> row
    [] ans = "garbled" -> GiveUp(Sleep(Struck(i)))
Examine(i) == \E ans \in Answer(i) :
  /\ pc[Monitor] = "node" /\ cur[Monitor] = i
  /\ IF ans = "garbled"
     THEN /\ Rows([inst EXCEPT ![i] = Examined(i, ans)], FALSE)
          /\ Forgotten(Monitor)
     ELSE Commit(Monitor, i, Examined(i, ans))
  /\ IF ans = "good" THEN Good(i) ELSE UNCHANGED quiet
  /\ Answered(Monitor, IF Online(inst'[i]) THEN Asked(i) ELSE "next")
  /\ Noted(ans)
  /\ UNCHANGED <<todo, bound, ran, well>>

\* The list of admins.  When the request fails, the variable of the response
\* is closed all the same; if no instance has answered before there is none,
\* and that error ends the task.
AdminsListed(i) ==
  /\ pc[Monitor] = "admins" /\ cur[Monitor] = i
  /\ Answered(Monitor, "next")
  /\ bound' = TRUE
  /\ UNCHANGED <<inst, todo, loaded, mine, ran, well, meddled, quiet, mishap>>

AdminsFailed(i) ==
  /\ pc[Monitor] = "admins" /\ cur[Monitor] = i
  /\ i \notin well /\ bound
  /\ Answered(Monitor, "next")
  /\ Rows([inst EXCEPT ![i] = Strike(@)], FALSE)
  /\ Forgotten(Monitor)
  /\ UNCHANGED <<todo, bound, ran, well, meddled, quiet>>

End(p) ==
  /\ pc' = [pc EXCEPT ![p] = "idle"]
  /\ todo' = [todo EXCEPT ![p] = {}]
  /\ cur' = [cur EXCEPT ![p] = Nothing]

MonitorAborted(i) ==
  /\ pc[Monitor] = "admins" /\ cur[Monitor] = i
  /\ i \notin well /\ ~bound
  /\ End(Monitor)
  /\ Forgotten(Monitor)
  /\ bound' = FALSE
  /\ UNCHANGED <<inst, ran, well, meddled, quiet, mishap>>

MonitorDone ==
  /\ pc[Monitor] = "next" /\ todo[Monitor] = {}
  /\ End(Monitor)
  /\ Forgotten(Monitor)
  /\ bound' = FALSE
  /\ UNCHANGED <<inst, ran, well, meddled, quiet, mishap>>

-----------------------------------------------------------------------------
(***************************************************************************)
(* check_instance_health.                                                  *)
(***************************************************************************)
\* start_trying_again is more than five days ago.
Overdue(row) == row.dormant /\ row.tryIn <= -5

ToRecheck(row) == row.dormant /\ ~row.gone

\* Dormant instances that are overdue are given up, and that is committed;
\* the other dormant ones are to be asked again.
StartCheck ==
  LET rows == [i \in Instance |->
                 IF Overdue(inst[i]) THEN [inst[i] EXCEPT !.gone = TRUE]
                 ELSE inst[i]]
      again == {i \in Instance : ToRecheck(rows[i])}
      held == [i \in Instance |-> IF i \in again THEN rows[i] ELSE NoRow]
  IN
  /\ pc[Check] = "idle" /\ Check \notin ran
  /\ pc' = [pc EXCEPT ![Check] = "next"]
  /\ ran' = ran \cup {Check}
  /\ Rows(rows, FALSE)
  /\ todo' = [todo EXCEPT ![Check] = again]
  /\ loaded' = [loaded EXCEPT ![Check] = held]
  /\ mine' = [mine EXCEPT ![Check] = held]
  /\ UNCHANGED <<cur, bound, well, meddled, quiet>>

\* A row that was forgotten since is loaded again, and not looked at.
Recheck(i) ==
  /\ pc[Check] = "next" /\ i \in todo[Check]
  /\ todo' = [todo EXCEPT ![Check] = @ \ {i}]
  /\ Ask(Check, i, "node")
  /\ mishap' = (mishap \/ ~ToRecheck(mine'[Check][i]))
  /\ UNCHANGED <<inst, bound, ran, well, meddled, quiet>>

\* It is back, and that is committed with what comes next.
\* Faulty: only its failures are forgotten.
OnlyReset(row) == [row EXCEPT !.failures = 0, !.href = TRUE]
Returned(row) == [row EXCEPT !.failures = 0, !.dormant = FALSE, !.href = TRUE]
Back(i) ==
  /\ mine' = [mine EXCEPT ![Check][i] = Returned(@)]
  /\ Good(i)
  /\ UNCHANGED <<inst, loaded, mishap>>

\* It answers, but not with nodeinfo: it is left as it is.
StillBad == UNCHANGED <<inst, loaded, mine, quiet, mishap>>

\* No answer: the failure is committed, and all that is pending with it.
StillSilent(i) ==
  /\ Commit(Check, i, NoAnswer(mine[Check][i]))
  /\ UNCHANGED quiet

\* The answer cannot be parsed: all that is pending is rolled back.
Unparsable(i) ==
  /\ loaded' = [loaded EXCEPT ![Check] =
                  [j \in Instance |-> IF j = i THEN inst[i] ELSE NoRow]]
  /\ mine' = [mine EXCEPT ![Check] =
                  [j \in Instance |-> IF j = i THEN Struck(i) ELSE NoRow]]
  /\ mishap' = (mishap \/ Pending(Check) # {} \/ ~inst[i].dormant)
  /\ UNCHANGED <<inst, quiet>>

Rechecked(i) == \E ans \in Answer(i) :
  /\ pc[Check] = "node" /\ cur[Check] = i
  /\ Answered(Check, "next")
  /\ \/ ans = "good" /\ Back(i)
     \/ ans \in {"error", "unknown"} /\ StillBad
     \/ ans = "none" /\ StillSilent(i)
     \/ ans = "garbled" /\ Unparsable(i)
  /\ Noted(ans)
  /\ UNCHANGED <<todo, bound, ran, well>>

\* All that is pending is committed.
CommitAll ==
  /\ Rows([i \in Instance |-> Written(Check, i, mine[Check][i])],
          \E i \in Instance : Outdated(Check, i, mine[Check][i]))
  /\ Forgotten(Check)

\* A neighbour gives no answer, which is committed, or one that cannot be
\* parsed, for which all that is pending is rolled back.
NeighbourSilent ==
  /\ pc[Check] = "next"
  /\ CommitAll
  /\ UNCHANGED <<pc, todo, cur, bound, ran, well, meddled, quiet>>
NeighbourGarbles ==
  /\ pc[Check] = "next"
  /\ Forgotten(Check)
  /\ mishap' = (mishap \/ Pending(Check) # {})
  /\ UNCHANGED <<inst, pc, todo, cur, bound, ran, well, meddled, quiet>>

CheckDone ==
  /\ pc[Check] = "next" /\ todo[Check] = {}
  /\ End(Check)
  /\ CommitAll
  /\ UNCHANGED <<bound, ran, well, meddled, quiet>>

-----------------------------------------------------------------------------
(***************************************************************************)
(* What else writes the columns: shared_inbox when an activity arrives,    *)
(***************************************************************************)
Heard(i) ==
  /\ Rows([inst EXCEPT ![i] = Healthy(@)], FALSE)
  /\ Good(i)
  /\ UNCHANGED <<pc, todo, cur, loaded, mine, bound, ran, well, meddled>>

\* awaken_dormant_instance when an activity is announced: the first wait is
\* failures ** 4 seconds, which is less than a day as long as the failures are
\* counted; then the instance is tried again, but no new wait is ever set.
Waits(row) == IF row.failures < MaxFailures THEN {0} ELSE 0 .. 5
Awakened(row) ==
  IF ~row.dormant THEN {row}
  ELSE IF row.tryIn = Never
  THEN UNION {{[row EXCEPT !.tryIn = d, !.gone = g]
                 : g \in IF d = 5 THEN BOOLEAN ELSE {FALSE}} : d \in Waits(row)}
  ELSE IF row.tryIn > 0 THEN {row}
  ELSE {[row EXCEPT !.dormant = FALSE]} \cup (IF row.tryIn = 0 THEN {row} ELSE {})
Awaken(i) ==
  /\ ~inst[i].gone
  /\ \E row \in Awakened(inst[i]) : Rows([inst EXCEPT ![i] = row], FALSE)
  /\ UNCHANGED <<pc, todo, cur, loaded, mine, bound, ran, well, meddled, quiet>>

\* a user's profile that is not JSON, a 410 in answer to an activity, or an
\* administrator.
Meddle(i, new) ==
  /\ meddled < Meddling
  /\ meddled' = meddled + 1
  /\ Rows([inst EXCEPT ![i] = new], TRUE)
  /\ UNCHANGED <<pc, todo, cur, loaded, mine, bound, ran, well, quiet>>

ProfileGarbled(i) ==
  i \in Garbling \ well /\ Meddle(i, Strike(inst[i]))
ToldGone(i) == i \notin well /\ Meddle(i, [inst[i] EXCEPT !.gone = TRUE])
Edit(i) == \E d, g \in BOOLEAN :
  Meddle(i, [inst[i] EXCEPT !.dormant = d, !.gone = g])

\* A worker is killed, and the task is not started again that day.
Killed(p) ==
  /\ pc[p] # "idle" /\ meddled < Meddling
  /\ meddled' = meddled + 1
  /\ End(p)
  /\ Forgotten(p)
  /\ mishap' = (mishap \/ Pending(p) # {})
  /\ bound' = (p # Monitor /\ bound)
  /\ UNCHANGED <<inst, ran, well, quiet>>

\* The troubles of instance i are over.
Mended(i) ==
  /\ i \in Reliable \ well
  /\ well' = well \cup {i}
  /\ UNCHANGED <<inst, pc, todo, cur, loaded, mine, bound, ran, meddled,
                 quiet, mishap>>

\* The next day comes when both tasks are over.
Tomorrow(row) == [row EXCEPT !.tryIn = IF @ \in {Never, -5} THEN @ ELSE @ - 1]
Later(d) == IF d < Days THEN d + 1 ELSE d
NewDay ==
  /\ ran = Task /\ \A p \in Task : pc[p] = "idle"
  /\ ran' = {}
  /\ inst' = [i \in Instance |-> Tomorrow(inst[i])]
  /\ quiet' = [i \in Instance |-> Later(quiet[i])]
  /\ UNCHANGED <<pc, todo, cur, loaded, mine, bound, well, meddled, mishap>>

MonitorStep ==
  \/ StartMonitor \/ MonitorDone
  \/ \E i \in Instance : \/ Probe(i) \/ Locate(i) \/ Examine(i)
                         \/ AdminsListed(i) \/ AdminsFailed(i) \/ MonitorAborted(i)
CheckStep ==
  \/ StartCheck \/ CheckDone
  \/ \E i \in Instance : Recheck(i) \/ Rechecked(i)

Next ==
  \/ MonitorStep \/ CheckStep \/ NewDay
  \/ NeighbourSilent \/ NeighbourGarbles
  \/ \E i \in Instance : \/ Heard(i) \/ Awaken(i)
                         \/ ProfileGarbled(i) \/ ToldGone(i) \/ Edit(i)
                         \/ Mended(i)
  \/ \E p \in Task : Killed(p)

Spec == Init /\ [][Next]_vars

\* Cron starts both tasks every day, and they go on to their end.
FairSpec == Spec /\ WF_vars(MonitorStep) /\ WF_vars(CheckStep) /\ WF_vars(NewDay)

-----------------------------------------------------------------------------
(***************************************************************************)
(* Properties.                                                             *)
(***************************************************************************)
\* Every variable has its type.
TypeOK ==
  /\ inst \in [Instance -> Row]
  /\ pc \in [Task -> {"idle", "next", "well-known", "node", "admins"}]
  /\ todo \in [Task -> SUBSET Instance]
  /\ cur \in [Task -> Instance \cup {Nothing}]
  /\ loaded \in [Task -> [Instance -> Row]]
  /\ mine \in [Task -> [Instance -> Row]]
  /\ bound \in BOOLEAN /\ ran \subseteq Task /\ well \subseteq Instance
  /\ meddled \in 0 .. Meddling
  /\ quiet \in [Instance -> 0 .. Days]
  /\ mishap \in BOOLEAN


\* One bad day does not put an instance to sleep, let alone bury it: however
\* its probes, its own activities and those announced to it fall, an instance
\* that gave a good sign today and is not being rechecked is online, unless a
\* task went by what was no longer so, or forgot what it had found, or somebody
\* said otherwise.
OneBadDay ==
  ~mishap =>
    \A i \in Instance \ Moved :
      (quiet[i] = 0 /\ mine[Check][i] = NoRow) => Online(inst[i])

\* That instance i is back has been found but not committed yet, and is
\* forgotten: a rollback for another instance, or a lost task.
LosesReturn(i) ==
  /\ i \in Pending(Check) /\ inst[i].dormant
  /\ mine'[Check][i] = NoRow /\ inst'[i] = inst[i]

\* A dormant instance that answers as it should from now on is back online some
\* day, unless it is given up first; or unless, day after day for ever, the
\* daily check finds it back and forgets that again, which an instance that
\* comes after it and answers what cannot be parsed is enough for.
BackOnline ==
  \A i \in Reliable :
    \/ []<><<LosesReturn(i)>>_vars
    \/ (i \in well /\ inst[i].dormant) ~> (Online(inst[i]) \/ inst[i].gone)
=============================================================================
