------------------------ MODULE InstancesProofs ------------------------
(***************************************************************************)
(* What is between instances, for every value of the constants.  First     *)
(* InstanceHealth: its types, and that an instance survives one bad day.   *)
(* Then Bans: its types, that the cache tells what the rows say, that the  *)
(* flag of a member agrees with the ban, and that both instances come to   *)
(* the same ban.                                                           *)
(***************************************************************************)
EXTENDS InstanceHealth, Bans, TLAPS

\* The monitor has not yet come to instance i today, or asks where its
\* nodeinfo is; it asks for that.
Ahead(i) ==
  \/ Monitor \notin ran
  \/ i \in todo[Monitor]
  \/ pc[Monitor] = "well-known" /\ cur[Monitor] = i
Asking(i) == pc[Monitor] = "node" /\ cur[Monitor] = i

\* The session of the check knows that i is back, and has not committed it.
PendingBack(i) ==
  LET was == loaded[Check][i]
      now == mine[Check][i]
  IN  was.dormant /\ ~was.gone /\ ~now.dormant /\ ~now.gone /\ now.failures = 0

\* How few failures an instance has that gave a good sign today.
Fresh(i) ==
  /\ Online(inst[i])
  /\ Ahead(i) => inst[i].failures = 0
  /\ Asking(i) => inst[i].failures <= 1

\* A task that does not run has changed nothing and comes to no instance; one
\* that runs comes to an instance once a day.  The monitor changes a row and
\* commits it in one step, and asks for nodeinfo where it knows it.
Orderly ==
  /\ \A p \in Task : pc[p] = "idle" => todo[p] = {} /\ mine[p] = loaded[p]
  /\ \A p \in Task : pc[p] \notin {"idle", "next"} => cur[p] \notin todo[p]
  /\ Monitor \notin ran => pc[Monitor] = "idle"
  /\ mine[Monitor] = loaded[Monitor]
  /\ \A i \in Instance \ Moved :
       pc[Monitor] = "well-known" /\ cur[Monitor] = i => ~loaded[Monitor][i].href

\* As long as there was no mishap, a row that the monitor loaded when the
\* instance was awake has not got worse, ...
NoWorse(i) ==
  LET was == loaded[Monitor][i] IN
  ~was.dormant => /\ ~inst[i].dormant /\ inst[i].failures <= was.failures
                  /\ ~was.gone => ~inst[i].gone

\* ... only the check finds nodeinfo meanwhile, and wakes the instance, ...
FoundByCheck(i) ==
  LET was == loaded[Monitor][i] IN
  was # NoRow /\ ~was.href /\ inst[i].href => was.dormant /\ ~inst[i].dormant

\* ... and what the check has changed was asleep when it loaded it.
Asleep(i) ==
  /\ mine[Check][i] # loaded[Check][i] => loaded[Check][i].dormant
  /\ mine[Check][i].href # loaded[Check][i].href => ~mine[Check][i].dormant
  /\ i \in todo[Check] \/ (cur[Check] = i /\ pc[Check] = "node") =>
       /\ mine[Check][i] = loaded[Check][i]
       /\ mine[Check][i] = NoRow \/ ToRecheck(mine[Check][i])
  /\ cur[Check] = i /\ pc[Check] = "node" => mine[Check][i] # NoRow

Survives(i) == quiet[i] = 0 => Fresh(i) \/ PendingBack(i)

HealthInv ==
  /\ TypeOK /\ Orderly
  /\ ~mishap => \A i \in Instance : NoWorse(i) /\ FoundByCheck(i) /\ Asleep(i)
  /\ ~mishap => \A i \in Instance \ Moved : Survives(i)

-----------------------------------------------------------------------------
(***************************************************************************)
(* Rows.                                                                   *)
(***************************************************************************)
LEMMA Fields ==
  ASSUME NEW r \in Row
  PROVE  /\ r.failures \in 0 .. MaxFailures /\ r.failures \in Nat
         /\ r.dormant \in BOOLEAN /\ r.gone \in BOOLEAN /\ r.href \in BOOLEAN
         /\ r.tryIn \in TryIn \cup {Never}
  BY InstanceHealthAssumption DEF Row

LEMMA NoRowType == NoRow \in Row /\ ~ToRecheck(NoRow)
  BY InstanceHealthAssumption DEF NoRow, Row, Never, TryIn, ToRecheck

\* A row of the columns of two others.
LEMMA Mixed ==
  ASSUME NEW a \in Row, NEW b \in Row, NEW P,
         NEW r, r = [c \in Columns |-> IF c \in P THEN a[c] ELSE b[c]]
  PROVE  /\ r \in Row
         /\ r.failures = (IF "failures" \in P THEN a.failures ELSE b.failures)
         /\ r.dormant = (IF "dormant" \in P THEN a.dormant ELSE b.dormant)
         /\ r.gone = (IF "gone" \in P THEN a.gone ELSE b.gone)
         /\ r.href = (IF "href" \in P THEN a.href ELSE b.href)
<1>1. r = [failures |-> IF "failures" \in P THEN a.failures ELSE b.failures,
           dormant |-> IF "dormant" \in P THEN a.dormant ELSE b.dormant,
           gone |-> IF "gone" \in P THEN a.gone ELSE b.gone,
           tryIn |-> IF "tryIn" \in P THEN a.tryIn ELSE b.tryIn,
           href |-> IF "href" \in P THEN a.href ELSE b.href]
  BY DEF Columns
<1> QED  BY <1>1 DEF Row

\* Failures do not wake an instance.
LEMMA StrikesRow ==
  ASSUME NEW r \in Row, NEW n \in Nat
  PROVE  /\ Strikes(r, n) \in Row
         /\ Strikes(r, n).failures <= r.failures + n
         /\ Strikes(r, n).dormant = r.dormant /\ Strikes(r, n).gone = r.gone
         /\ Strikes(r, n).href = r.href
<1> DEFINE f == IF r.failures + n < MaxFailures THEN r.failures + n ELSE MaxFailures
<1>1. f \in 0 .. MaxFailures /\ f <= r.failures + n
  BY Fields, InstanceHealthAssumption
<1>2. Strikes(r, n) = [r EXCEPT !.failures = f]
  BY DEF Strikes
<1> HIDE DEF f
<1> QED  BY <1>1, <1>2 DEF Row

LEMMA StrikeRow ==
  ASSUME NEW r \in Row
  PROVE  /\ Strike(r) \in Row
         /\ Strike(r).failures <= r.failures + 1
         /\ Strike(r).dormant = r.dormant /\ Strike(r).gone = r.gone
         /\ Strike(r).href = r.href
  BY StrikesRow DEF Strike

LEMMA SetRow ==
  ASSUME NEW r \in Row
  PROVE  /\ [r EXCEPT !.dormant = TRUE] \in Row /\ [r EXCEPT !.gone = TRUE] \in Row
         /\ [r EXCEPT !.dormant = TRUE, !.tryIn = 5] \in Row
         /\ [r EXCEPT !.dormant = TRUE].failures = r.failures
         /\ [r EXCEPT !.dormant = TRUE].href = r.href /\ [r EXCEPT !.dormant = TRUE].dormant
         /\ [r EXCEPT !.gone = TRUE].failures = r.failures
         /\ [r EXCEPT !.gone = TRUE].href = r.href
         /\ [r EXCEPT !.gone = TRUE].dormant = r.dormant
         /\ [r EXCEPT !.dormant = TRUE, !.tryIn = 5].href = r.href
<1>1. 5 \in TryIn \cup {Never} /\ TRUE \in BOOLEAN
  BY DEF TryIn
<1> QED  BY <1>1 DEF Row

LEMMA NoFailures == 0 \in 0 .. MaxFailures
  BY InstanceHealthAssumption

LEMMA UpdateRow ==
  ASSUME NEW r \in Row
  PROVE  /\ UpdateDormantGone(r) \in Row
         /\ UpdateDormantGone(r).failures = r.failures
         /\ UpdateDormantGone(r).href = r.href
         /\ r.dormant => UpdateDormantGone(r).dormant
         /\ ~r.dormant /\ r.failures <= 2 => UpdateDormantGone(r) = r
<1>1. r.failures \in Nat /\ r.dormant \in BOOLEAN
  BY Fields
<1>2. CASE r.failures > 7 /\ r.dormant
  BY <1>1, <1>2, SetRow DEF UpdateDormantGone
<1>3. CASE ~(r.failures > 7 /\ r.dormant) /\ r.failures > 2 /\ ~r.dormant
  <2>1. UpdateDormantGone(r) = [r EXCEPT !.dormant = TRUE]
    BY <1>1, <1>3 DEF UpdateDormantGone
  <2>2. ~(r.failures <= 2)
    BY <1>1, <1>3
  <2> DEFINE u == [r EXCEPT !.dormant = TRUE]
  <2>3. u \in Row /\ u.failures = r.failures /\ u.href = r.href /\ u.dormant
    BY SetRow
  <2> HIDE DEF u
  <2>4. UpdateDormantGone(r) = u
    BY <2>1 DEF u
  <2> QED  BY <2>2, <2>3, <2>4
<1>4. CASE ~(r.failures > 7 /\ r.dormant) /\ ~(r.failures > 2 /\ ~r.dormant)
  BY <1>1, <1>4 DEF UpdateDormantGone
<1> QED  BY <1>2, <1>3, <1>4

LEMMA NoAnswerRow ==
  ASSUME NEW r \in Row
  PROVE  /\ NoAnswer(r) \in Row
         /\ NoAnswer(r).failures <= r.failures + 1
         /\ NoAnswer(r).href = r.href
         /\ r.dormant => NoAnswer(r).dormant
         /\ ~r.dormant /\ r.failures <= 1 =>
              NoAnswer(r).dormant = r.dormant /\ NoAnswer(r).gone = r.gone
<1> DEFINE s == Strike(r)
<1>1. /\ s \in Row /\ s.failures <= r.failures + 1 /\ s.dormant = r.dormant
      /\ s.gone = r.gone /\ s.href = r.href
  BY StrikeRow
<1>2. NoAnswer(r) = UpdateDormantGone(s)
  BY DEF NoAnswer
<1>3. r.failures \in Nat /\ s.failures \in Nat
  BY <1>1, Fields
<1> HIDE DEF s
<1> QED  BY <1>1, <1>2, <1>3, UpdateRow

LEMMA SleepRow ==
  ASSUME NEW r \in Row
  PROVE  /\ Sleep(r) \in Row /\ Sleep(r).href = r.href /\ GiveUp(r) \in Row
         /\ r.failures <= 5 => Sleep(r) = r /\ GiveUp(r) = r
<1>1. r.failures \in Nat
  BY Fields
<1>2. Sleep(r) \in Row /\ Sleep(r).href = r.href /\ GiveUp(r) \in Row
  BY SetRow DEF Sleep, GiveUp
<1> QED  BY <1>1, <1>2 DEF Sleep, GiveUp

LEMMA HealthyRow ==
  ASSUME NEW r \in Row
  PROVE  /\ Healthy(r) \in Row /\ Healthy(r).failures = 0 /\ ~Healthy(r).dormant
         /\ ~Healthy(r).gone /\ Healthy(r).href = r.href
  BY NoFailures DEF Healthy, Row

LEMMA HrefRow ==
  ASSUME NEW r \in Row, NEW b \in BOOLEAN
  PROVE  /\ [r EXCEPT !.href = b] \in Row /\ [r EXCEPT !.href = b].href = b
         /\ [r EXCEPT !.href = b].failures = r.failures
         /\ [r EXCEPT !.href = b].dormant = r.dormant
         /\ [r EXCEPT !.href = b].gone = r.gone
  BY DEF Row

LEMMA ReturnedRow ==
  ASSUME NEW r \in Row
  PROVE  /\ Returned(r) \in Row /\ Returned(r).failures = 0 /\ ~Returned(r).dormant
         /\ Returned(r).gone = r.gone
  BY NoFailures DEF Returned, Row

\* Two rows of one health.
Alike(a, b) == a.failures = b.failures /\ a.dormant = b.dormant /\ a.gone = b.gone

\* A commit leaves a row alone or makes it as healthy as the session has it:
\* then the session had loaded it as it was until now, or it is outdated.
LEMMA WrittenRow ==
  ASSUME TypeOK, NEW p \in Task, NEW i \in Instance, NEW row \in Row
  PROVE  LET new == Written(p, i, row) IN
         /\ new \in Row
         /\ row = loaded[p][i] => new = inst[i]
         /\ row = NoRow => new = inst[i]
         /\ row # NoRow /\ row # loaded[p][i] =>
              /\ new.href = (IF row.href # loaded[p][i].href THEN row.href ELSE inst[i].href)
              /\ ~Outdated(p, i, row) => Alike(new, row) /\ Alike(inst[i], loaded[p][i])
<1>1. inst[i] \in Row /\ loaded[p][i] \in Row
  BY DEF TypeOK
<1>2. CASE row = NoRow
  BY <1>1, <1>2 DEF Written
<1>3. CASE row # NoRow
  <2> DEFINE P == {c \in Columns : row[c] # loaded[p][i][c]}
             new == Written(p, i, row)
  <2>1. new = [c \in Columns |-> IF c \in P THEN row[c] ELSE inst[i][c]]
    BY <1>3 DEF Written
  <2>2. /\ new \in Row
        /\ new.failures = (IF "failures" \in P THEN row.failures ELSE inst[i].failures)
        /\ new.dormant = (IF "dormant" \in P THEN row.dormant ELSE inst[i].dormant)
        /\ new.gone = (IF "gone" \in P THEN row.gone ELSE inst[i].gone)
        /\ new.href = (IF "href" \in P THEN row.href ELSE inst[i].href)
    <3> HIDE DEF P, new
    <3> QED  BY <1>1, <2>1, Mixed
  <2>3. row = loaded[p][i] => new = inst[i]
    <3> SUFFICES ASSUME row = loaded[p][i] PROVE new = inst[i]
      OBVIOUS
    <3>1. new = [c \in Columns |-> inst[i][c]]
      BY <2>1
    <3> QED  BY <1>1, <3>1 DEF Row, Columns
  <2>4. /\ "failures" \in P <=> row.failures # loaded[p][i].failures
        /\ "dormant" \in P <=> row.dormant # loaded[p][i].dormant
        /\ "gone" \in P <=> row.gone # loaded[p][i].gone
        /\ "href" \in P <=> row.href # loaded[p][i].href
    BY DEF Columns
  <2>5. ASSUME row # loaded[p][i], ~Outdated(p, i, row) PROVE Alike(inst[i], loaded[p][i])
    BY <2>5 DEF Outdated, Alike
  <2> HIDE DEF P, new
  <2>6. row # loaded[p][i] /\ ~Outdated(p, i, row) => Alike(new, row)
    BY <2>2, <2>4, <2>5 DEF Alike
  <2> QED  BY <1>3, <2>2, <2>3, <2>4, <2>5, <2>6 DEF new
<1> QED  BY <1>2, <1>3

-----------------------------------------------------------------------------
(***************************************************************************)
(* Types.                                                                  *)
(***************************************************************************)
Sessions == [Task -> [Instance -> Row]]
Places == {"idle", "next", "well-known", "node", "admins"}

LEMMA Tasks == Task = {Check, Monitor} /\ Check # Monitor
  BY DEF Task, Check, Monitor

LEMMA InstType ==
  ASSUME TypeOK, NEW i \in Instance
  PROVE  /\ inst[i] \in Row
         /\ \A p \in Task : loaded[p][i] \in Row /\ mine[p][i] \in Row
         /\ quiet[i] \in 0 .. Days
  BY DEF TypeOK

LEMMA ForgottenType ==
  ASSUME TypeOK, NEW p \in Task, Forgotten(p)
  PROVE  /\ loaded' \in Sessions /\ mine' \in Sessions
         /\ \A i \in Instance : loaded'[p][i] = NoRow /\ mine'[p][i] = NoRow
         /\ \A q \in Task : q # p => loaded'[q] = loaded[q] /\ mine'[q] = mine[q]
  BY NoRowType DEF TypeOK, Forgotten, Sessions

LEMMA AskType ==
  ASSUME TypeOK, NEW p \in Task, NEW i \in Instance, NEW what \in Places, Ask(p, i, what)
  PROVE  /\ loaded' \in Sessions /\ mine' \in Sessions
         /\ pc' \in [Task -> Places] /\ cur' \in [Task -> Instance \cup {Nothing}]
         /\ pc'[p] = what /\ cur'[p] = i
         /\ \A q \in Task : q # p => /\ pc'[q] = pc[q] /\ cur'[q] = cur[q]
                                     /\ loaded'[q] = loaded[q] /\ mine'[q] = mine[q]
         /\ \A j \in Instance : j # i => /\ loaded'[p][j] = loaded[p][j]
                                         /\ mine'[p][j] = mine[p][j]
         /\ mine[p][i] = NoRow => loaded'[p][i] = inst[i] /\ mine'[p][i] = inst[i]
         /\ mine[p][i] # NoRow => loaded'[p] = loaded[p] /\ mine'[p] = mine[p]
<1>1. pc' = [pc EXCEPT ![p] = what] /\ cur' = [cur EXCEPT ![p] = i]
  BY DEF Ask
<1>2. CASE mine[p][i] = NoRow
  <2>1. /\ loaded' = [loaded EXCEPT ![p][i] = inst[i]]
        /\ mine' = [mine EXCEPT ![p][i] = inst[i]]
    BY <1>2 DEF Ask
  <2> QED  BY <1>1, <1>2, <2>1, InstType DEF TypeOK, Sessions, Places
<1>3. CASE mine[p][i] # NoRow
  BY <1>1, <1>3 DEF TypeOK, Sessions, Places, Ask
<1> QED  BY <1>2, <1>3

LEMMA AnsweredType ==
  ASSUME TypeOK, NEW p \in Task, NEW next \in Places, Answered(p, next)
  PROVE  /\ pc' \in [Task -> Places] /\ cur' \in [Task -> Instance \cup {Nothing}]
         /\ pc'[p] = next /\ cur'[p] = (IF next = "next" THEN Nothing ELSE cur[p])
         /\ \A q \in Task : q # p => pc'[q] = pc[q] /\ cur'[q] = cur[q]
  BY DEF TypeOK, Answered, Places

LEMMA EndType ==
  ASSUME TypeOK, NEW p \in Task, End(p)
  PROVE  /\ pc' \in [Task -> Places] /\ cur' \in [Task -> Instance \cup {Nothing}]
         /\ todo' \in [Task -> SUBSET Instance]
         /\ pc'[p] = "idle" /\ cur'[p] = Nothing /\ todo'[p] = {}
         /\ \A q \in Task : q # p => pc'[q] = pc[q] /\ cur'[q] = cur[q] /\ todo'[q] = todo[q]
  BY DEF TypeOK, End, Places

LEMMA NotedType ==
  ASSUME TypeOK, NEW i \in Instance, NEW ans \in Answer(i), Noted(ans)
  PROVE  meddled' \in 0 .. Meddling
<1>1. meddled \in 0 .. Meddling /\ Meddling \in Nat
  BY InstanceHealthAssumption DEF TypeOK
<1>2. ans \in {"unknown", "garbled"} => meddled < Meddling
  BY DEF Answer
<1> QED  BY <1>1, <1>2 DEF Noted

LEMMA GoodType ==
  ASSUME TypeOK, NEW i \in Instance, Good(i) \/ UNCHANGED quiet
  PROVE  quiet' \in [Instance -> 0 .. Days]
<1>1. 0 \in 0 .. Days
  BY InstanceHealthAssumption
<1> QED  BY <1>1 DEF TypeOK, Good

\* What a commit does to all the rows.
LEMMA WrittenAll ==
  ASSUME TypeOK, NEW p \in Task, NEW held \in [Instance -> Row],
         inst' = [j \in Instance |-> Written(p, j, held[j])]
  PROVE  inst' \in [Instance -> Row]
  BY WrittenRow

LEMMA CommitType ==
  ASSUME TypeOK, NEW p \in Task, NEW i \in Instance, NEW row \in Row, Commit(p, i, row)
  PROVE  /\ inst' \in [Instance -> Row] /\ mishap' \in BOOLEAN
         /\ inst'[i] = Written(p, i, row)
         /\ \A j \in Instance : j # i => inst'[j] = Written(p, j, mine[p][j])
         /\ ~mishap' => ~mishap /\ ~Outdated(p, i, row)
         /\ ~mishap' => \A j \in Instance : j # i => ~Outdated(p, j, mine[p][j])
<1> DEFINE held == [mine[p] EXCEPT ![i] = row]
<1>1. /\ held \in [Instance -> Row] /\ held[i] = row
      /\ \A j \in Instance : j # i => held[j] = mine[p][j]
  BY DEF TypeOK
<1>2. /\ inst' = [j \in Instance |-> Written(p, j, held[j])]
      /\ mishap' = (mishap \/ \E j \in Instance : Outdated(p, j, held[j]))
  BY DEF Commit, Rows
<1> HIDE DEF held
<1>3. inst' \in [Instance -> Row] /\ mishap' \in BOOLEAN
  BY <1>1, <1>2, WrittenAll DEF TypeOK
<1> QED  BY <1>1, <1>2, <1>3 DEF TypeOK

\* The rows an answer may lead to.
LEMMA LocatedRow ==
  ASSUME TypeOK, NEW i \in Instance, NEW ans \in Answer(i), NEW links \in 0 .. Links
  PROVE  /\ Located(i, ans, links) \in Row
         /\ ans \in {"good", "error", "none", "unknown", "garbled"}
<1>1. mine[Monitor][i] \in Row /\ inst[i] \in Row
  BY InstType, Tasks
<1>2. ans \in {"good", "error", "none", "unknown", "garbled"} /\ links \in Nat
  BY InstanceHealthAssumption DEF Answer
<1>3. /\ [Healthy(mine[Monitor][i]) EXCEPT !.href = TRUE] \in Row
      /\ Strike(mine[Monitor][i]) \in Row /\ Strike(NoAnswer(mine[Monitor][i])) \in Row
      /\ Strikes(mine[Monitor][i], links) \in Row /\ Strike(inst[i]) \in Row
  BY <1>1, <1>2, HealthyRow, HrefRow, StrikeRow, NoAnswerRow, StrikesRow
<1> QED  BY <1>2, <1>3 DEF Located, Struck

LEMMA ExaminedRow ==
  ASSUME TypeOK, NEW i \in Instance, NEW ans \in Answer(i)
  PROVE  /\ Examined(i, ans) \in Row
         /\ ans \in {"good", "error", "none", "unknown", "garbled"}
<1>1. mine[Monitor][i] \in Row /\ inst[i] \in Row
  BY InstType, Tasks
<1>2. ans \in {"good", "error", "none", "unknown", "garbled"}
  BY DEF Answer
<1>3. /\ Healthy(mine[Monitor][i]) \in Row
      /\ Sleep([Strike(mine[Monitor][i]) EXCEPT !.href = FALSE]) \in Row
      /\ Sleep([Strike(NoAnswer(mine[Monitor][i])) EXCEPT !.href = FALSE]) \in Row
      /\ GiveUp(Sleep(Strike(inst[i]))) \in Row
  BY <1>1, HealthyRow, HrefRow, StrikeRow, NoAnswerRow, SleepRow
<1> QED  BY <1>1, <1>2, <1>3 DEF Examined, Struck

\* What Locate comes to.
Found(i, ans, links) ==
  LET row == Located(i, ans, links) IN
  IF ans = "garbled" THEN row ELSE Written(Monitor, i, row)

LEMMA LocateStep ==
  ASSUME TypeOK, NEW i \in Instance, Locate(i)
  PROVE  \E ans \in Answer(i), links \in 0 .. Links :
           LET row == Located(i, ans, links)
               found == Found(i, ans, links)
               lost == GiveUp(Sleep(Strike(found)))
           IN
           /\ row \in Row /\ found \in Row /\ lost \in Row /\ lost.href = found.href
           /\ pc[Monitor] = "well-known" /\ cur[Monitor] = i
           /\ IF ans = "good" THEN Good(i) ELSE UNCHANGED quiet
           /\ mishap' \in BOOLEAN
           /\ ~mishap' => ~mishap /\ (ans # "garbled" => ~Outdated(Monitor, i, row))
           /\ loaded' \in Sessions /\ mine' \in Sessions
           /\ loaded'[Check] = loaded[Check] /\ mine'[Check] = mine[Check]
           /\ mine'[Monitor] = loaded'[Monitor]
           /\ \/ /\ found.href
                 /\ inst' = [inst EXCEPT ![i] = found]
                 /\ loaded'[Monitor] = [j \in Instance |-> IF j = i THEN found ELSE NoRow]
                 /\ Answered(Monitor, "node")
              \/ /\ ~found.href
                 /\ inst' = [inst EXCEPT ![i] = lost]
                 /\ \A j \in Instance : loaded'[Monitor][j] = NoRow
                 /\ \E next \in {"admins", "next"} : Answered(Monitor, next)
           /\ Noted(ans)
           /\ UNCHANGED <<todo, bound, ran, well>>
<1> USE Tasks
<1>1. PICK ans \in Answer(i), links \in 0 .. Links :
  LET row   == Located(i, ans, links)
      found == IF ans = "garbled" THEN row ELSE Written(Monitor, i, row)
      lost  == GiveUp(Sleep(Strike(found)))
      stale == ans # "garbled" /\ Outdated(Monitor, i, row)
  IN
  /\ pc[Monitor] = "well-known" /\ cur[Monitor] = i
  /\ IF ans = "good" THEN Good(i) ELSE UNCHANGED quiet
  /\ IF found.href
     THEN /\ Rows([inst EXCEPT ![i] = found], stale)
          /\ loaded' = [loaded EXCEPT ![Monitor] =
                          [j \in Instance |-> IF j = i THEN found ELSE NoRow]]
          /\ mine' = [mine EXCEPT ![Monitor] = loaded'[Monitor]]
          /\ Answered(Monitor, "node")
     ELSE /\ Rows([inst EXCEPT ![i] = lost], stale)
          /\ Forgotten(Monitor)
          /\ Answered(Monitor, IF Online(lost) THEN Asked(i) ELSE "next")
  /\ Noted(ans)
  /\ UNCHANGED <<todo, bound, ran, well>>
  BY DEF Locate
<1> DEFINE row == Located(i, ans, links)
           found == Found(i, ans, links)
           lost == GiveUp(Sleep(Strike(found)))
           stale == ans # "garbled" /\ Outdated(Monitor, i, row)
<1>2. row \in Row
  BY LocatedRow
<1>3. found \in Row
  BY <1>2, WrittenRow DEF Found
<1>4. lost \in Row /\ lost.href = found.href
  BY <1>3, StrikeRow, SleepRow, InstanceHealthAssumption DEF GiveUp, Row
<1>5. found = IF ans = "garbled" THEN row ELSE Written(Monitor, i, row)
  BY DEF Found
<1> HIDE DEF row, found
<1>6. CASE found.href
  <2>1. /\ Rows([inst EXCEPT ![i] = found], stale)
        /\ loaded' = [loaded EXCEPT ![Monitor] =
                        [j \in Instance |-> IF j = i THEN found ELSE NoRow]]
        /\ mine' = [mine EXCEPT ![Monitor] = loaded'[Monitor]]
        /\ Answered(Monitor, "node")
    BY <1>1, <1>5, <1>6 DEF row
  <2>2. [j \in Instance |-> IF j = i THEN found ELSE NoRow] \in [Instance -> Row]
    BY <1>3, NoRowType
  <2>3. /\ loaded' \in Sessions /\ loaded'[Check] = loaded[Check]
        /\ loaded'[Monitor] = [j \in Instance |-> IF j = i THEN found ELSE NoRow]
    BY <2>1, <2>2 DEF TypeOK, Sessions
  <2>4. mine' \in Sessions /\ mine'[Check] = mine[Check] /\ mine'[Monitor] = loaded'[Monitor]
    BY <2>1, <2>2, <2>3 DEF TypeOK, Sessions
  <2>5. mishap' \in BOOLEAN /\ (~mishap' => ~mishap /\ ~stale) /\ inst' = [inst EXCEPT ![i] = found]
    BY <2>1 DEF Rows, TypeOK
  <2> QED  BY <1>1, <1>2, <1>3, <1>4, <1>6, <2>1, <2>3, <2>4, <2>5 DEF row, found
<1>7. CASE ~found.href
  <2>1. /\ Rows([inst EXCEPT ![i] = lost], stale)
        /\ Forgotten(Monitor)
        /\ Answered(Monitor, IF Online(lost) THEN Asked(i) ELSE "next")
    BY <1>1, <1>5, <1>7 DEF row
  <2>2. /\ loaded' \in Sessions /\ mine' \in Sessions
        /\ loaded'[Check] = loaded[Check] /\ mine'[Check] = mine[Check]
        /\ mine'[Monitor] = loaded'[Monitor]
        /\ \A j \in Instance : loaded'[Monitor][j] = NoRow
    <3>1. /\ loaded' \in Sessions /\ mine' \in Sessions
          /\ loaded'[Check] = loaded[Check] /\ mine'[Check] = mine[Check]
          /\ \A j \in Instance : loaded'[Monitor][j] = NoRow
      BY <2>1, ForgottenType
    <3>2. mine'[Monitor] = loaded'[Monitor]
      BY <2>1 DEF Forgotten, TypeOK
    <3> QED  BY <3>1, <3>2
  <2>3. mishap' \in BOOLEAN /\ (~mishap' => ~mishap /\ ~stale) /\ inst' = [inst EXCEPT ![i] = lost]
    BY <2>1 DEF Rows, TypeOK
  <2>4. \E next \in {"admins", "next"} : Answered(Monitor, next)
    BY <2>1 DEF Asked
  <2> QED  BY <1>1, <1>2, <1>3, <1>4, <1>7, <2>2, <2>3, <2>4 DEF row, found
<1> QED  BY <1>6, <1>7

LEMMA ExamineStep ==
  ASSUME TypeOK, NEW i \in Instance, Examine(i)
  PROVE  \E ans \in Answer(i) :
           LET row == Examined(i, ans) IN
           /\ row \in Row
           /\ pc[Monitor] = "node" /\ cur[Monitor] = i
           /\ IF ans = "good" THEN Good(i) ELSE UNCHANGED quiet
           /\ inst' \in [Instance -> Row] /\ mishap' \in BOOLEAN
           /\ \/ ans = "garbled" /\ inst' = [inst EXCEPT ![i] = row] /\ mishap' = mishap
              \/ ans # "garbled" /\ Commit(Monitor, i, row)
           /\ Forgotten(Monitor)
           /\ \E next \in {"admins", "next"} : Answered(Monitor, next)
           /\ Noted(ans)
           /\ UNCHANGED <<todo, bound, ran, well>>
<1> USE Tasks
<1>1. PICK ans \in Answer(i) :
  /\ pc[Monitor] = "node" /\ cur[Monitor] = i
  /\ IF ans = "garbled"
     THEN /\ Rows([inst EXCEPT ![i] = Examined(i, ans)], FALSE)
          /\ Forgotten(Monitor)
     ELSE Commit(Monitor, i, Examined(i, ans))
  /\ IF ans = "good" THEN Good(i) ELSE UNCHANGED quiet
  /\ Answered(Monitor, IF Online(inst'[i]) THEN Asked(i) ELSE "next")
  /\ Noted(ans)
  /\ UNCHANGED <<todo, bound, ran, well>>
  BY DEF Examine
<1>2. Examined(i, ans) \in Row
  BY ExaminedRow
<1>3. \E next \in {"admins", "next"} : Answered(Monitor, next)
  BY <1>1 DEF Asked
<1>4. CASE ans = "garbled"
  <2>1. /\ inst' = [inst EXCEPT ![i] = Examined(i, ans)] /\ mishap' = mishap
        /\ Forgotten(Monitor)
    BY <1>1, <1>4 DEF Rows, TypeOK
  <2>2. inst' \in [Instance -> Row] /\ mishap' \in BOOLEAN
    BY <1>2, <2>1 DEF TypeOK
  <2> QED  BY <1>1, <1>2, <1>3, <1>4, <2>1, <2>2
<1>5. CASE ans # "garbled"
  <2>1. Commit(Monitor, i, Examined(i, ans))
    BY <1>1, <1>5
  <2>2. inst' \in [Instance -> Row] /\ mishap' \in BOOLEAN
    BY <1>2, <2>1, CommitType
  <2>3. Forgotten(Monitor)
    BY <2>1 DEF Commit
  <2> QED  BY <1>1, <1>2, <1>3, <1>5, <2>1, <2>2, <2>3
<1> QED  BY <1>4, <1>5

LEMMA StartMonitorType ==
  ASSUME TypeOK, StartMonitor
  PROVE  /\ TypeOK'
         /\ todo'[Check] = todo[Check] /\ pc'[Check] = pc[Check] /\ pc'[Monitor] = "next"
         /\ \A i \in Instance :
              /\ i \in todo'[Monitor] <=> Online(inst[i])
              /\ loaded'[Monitor][i] = (IF Online(inst[i]) THEN inst[i] ELSE NoRow)
         /\ mine'[Monitor] = loaded'[Monitor]
         /\ loaded'[Check] = loaded[Check] /\ mine'[Check] = mine[Check]
<1> USE Tasks
<1> DEFINE healthy == {i \in Instance : Online(inst[i])}
           rows == [i \in Instance |-> IF i \in healthy THEN inst[i] ELSE NoRow]
<1>1. /\ pc' = [pc EXCEPT ![Monitor] = "next"] /\ ran' = ran \cup {Monitor}
      /\ todo' = [todo EXCEPT ![Monitor] = healthy]
      /\ loaded' = [loaded EXCEPT ![Monitor] = rows] /\ mine' = [mine EXCEPT ![Monitor] = rows]
      /\ bound' \in BOOLEAN /\ UNCHANGED <<inst, cur, well, meddled, quiet, mishap>>
  BY DEF StartMonitor
<1>2. rows \in [Instance -> Row] /\ healthy \subseteq Instance
  BY InstType, NoRowType
<1>3. \A i \in Instance : /\ i \in healthy <=> Online(inst[i])
                          /\ rows[i] = (IF Online(inst[i]) THEN inst[i] ELSE NoRow)
  OBVIOUS
<1> HIDE DEF healthy, rows
<1>4. /\ pc' \in [Task -> Places] /\ todo' \in [Task -> SUBSET Instance]
      /\ loaded' \in Sessions /\ mine' \in Sessions /\ ran' \subseteq Task
  BY <1>1, <1>2 DEF TypeOK, Places, Sessions
<1>5. TypeOK'
  BY <1>1, <1>4 DEF TypeOK, Places, Sessions
<1> QED  BY <1>1, <1>3, <1>5 DEF TypeOK

LEMMA ProbeStep ==
  ASSUME TypeOK, NEW i \in Instance, Probe(i)
  PROVE  /\ TypeOK'
         /\ \E what \in {"well-known", "node"} :
              /\ Ask(Monitor, i, what)
              /\ i \notin Moved /\ what = "well-known" =>
                   ~(IF mine[Monitor][i] = NoRow THEN inst[i] ELSE mine[Monitor][i]).href
         /\ i \in todo[Monitor] /\ todo' = [todo EXCEPT ![Monitor] = @ \ {i}]
         /\ UNCHANGED <<inst, ran, quiet, mishap>>
<1> USE Tasks
<1> DEFINE row == IF mine[Monitor][i] = NoRow THEN inst[i] ELSE mine[Monitor][i]
           what == IF row.href /\ i \notin Moved THEN "node" ELSE "well-known"
<1>1. /\ Ask(Monitor, i, what) /\ i \in todo[Monitor]
      /\ todo' = [todo EXCEPT ![Monitor] = @ \ {i}]
      /\ UNCHANGED <<inst, bound, ran, well, meddled, quiet, mishap>>
  BY DEF Probe
<1>2. what \in {"well-known", "node"} /\ what \in Places
  BY DEF Places
<1>3. i \notin Moved /\ what = "well-known" => ~row.href
  OBVIOUS
<1> HIDE DEF row, what
<1>4. /\ loaded' \in Sessions /\ mine' \in Sessions
      /\ pc' \in [Task -> Places] /\ cur' \in [Task -> Instance \cup {Nothing}]
  BY <1>1, <1>2, AskType
<1>5. todo' \in [Task -> SUBSET Instance]
  BY <1>1 DEF TypeOK
<1>6. TypeOK'
  BY <1>1, <1>4, <1>5 DEF TypeOK, Sessions, Places
<1> QED  BY <1>1, <1>2, <1>3, <1>6 DEF row

LEMMA LocateType ==
  ASSUME TypeOK, NEW i \in Instance, Locate(i)
  PROVE  TypeOK'
<1>1. PICK ans \in Answer(i), links \in 0 .. Links, next \in {"node", "admins", "next"},
           row \in Row :
        /\ inst' = [inst EXCEPT ![i] = row]
        /\ IF ans = "good" THEN Good(i) ELSE UNCHANGED quiet
        /\ mishap' \in BOOLEAN /\ loaded' \in Sessions /\ mine' \in Sessions
        /\ Answered(Monitor, next) /\ Noted(ans)
        /\ UNCHANGED <<todo, bound, ran, well>>
  BY ZenonT(40), LocateStep
<1>2. quiet' \in [Instance -> 0 .. Days] /\ meddled' \in 0 .. Meddling
  BY <1>1, GoodType, NotedType
<1>3. pc' \in [Task -> Places] /\ cur' \in [Task -> Instance \cup {Nothing}]
  BY <1>1, AnsweredType, Tasks DEF Places
<1> QED  BY <1>1, <1>2, <1>3 DEF TypeOK, Sessions, Places

LEMMA ExamineType ==
  ASSUME TypeOK, NEW i \in Instance, Examine(i)
  PROVE  TypeOK'
<1>1. PICK ans \in Answer(i), next \in {"admins", "next"} :
        /\ inst' \in [Instance -> Row] /\ mishap' \in BOOLEAN
        /\ IF ans = "good" THEN Good(i) ELSE UNCHANGED quiet
        /\ Forgotten(Monitor) /\ Answered(Monitor, next) /\ Noted(ans)
        /\ UNCHANGED <<todo, bound, ran, well>>
  BY ExamineStep
<1>2. quiet' \in [Instance -> 0 .. Days] /\ meddled' \in 0 .. Meddling
  BY <1>1, GoodType, NotedType
<1>3. pc' \in [Task -> Places] /\ cur' \in [Task -> Instance \cup {Nothing}]
  BY <1>1, AnsweredType, Tasks DEF Places
<1>4. loaded' \in Sessions /\ mine' \in Sessions
  BY <1>1, ForgottenType, Tasks
<1> QED  BY <1>1, <1>2, <1>3, <1>4 DEF TypeOK, Sessions, Places

LEMMA AdminsType ==
  ASSUME TypeOK, NEW i \in Instance, AdminsListed(i) \/ AdminsFailed(i)
  PROVE  TypeOK'
<1> USE Tasks
<1>1. pc' \in [Task -> Places] /\ cur' \in [Task -> Instance \cup {Nothing}]
  BY AnsweredType DEF Places, AdminsListed, AdminsFailed
<1>2. CASE AdminsListed(i)
  BY <1>1, <1>2 DEF TypeOK, AdminsListed, Places
<1>3. CASE AdminsFailed(i)
  <2>1. inst' \in [Instance -> Row] /\ mishap' \in BOOLEAN
    <3>1. Strike(inst[i]) \in Row
      BY InstType, StrikeRow
    <3> QED  BY <1>3, <3>1 DEF AdminsFailed, Rows, TypeOK
  <2>2. loaded' \in Sessions /\ mine' \in Sessions
    BY <1>3, ForgottenType DEF AdminsFailed
  <2> QED  BY <1>1, <1>3, <2>1, <2>2 DEF TypeOK, AdminsFailed, Places, Sessions
<1> QED  BY <1>2, <1>3

LEMMA MonitorEndType ==
  ASSUME TypeOK, MonitorDone \/ \E i \in Instance : MonitorAborted(i)
  PROVE  /\ TypeOK' /\ End(Monitor) /\ Forgotten(Monitor)
         /\ UNCHANGED <<inst, ran, well, meddled, quiet, mishap>>
<1> USE Tasks
<1>1. /\ End(Monitor) /\ Forgotten(Monitor) /\ bound' = FALSE
      /\ UNCHANGED <<inst, ran, well, meddled, quiet, mishap>>
  BY DEF MonitorDone, MonitorAborted
<1>2. /\ pc' \in [Task -> Places] /\ cur' \in [Task -> Instance \cup {Nothing}]
      /\ todo' \in [Task -> SUBSET Instance]
  BY <1>1, EndType
<1>3. loaded' \in Sessions /\ mine' \in Sessions
  BY <1>1, ForgottenType
<1> QED  BY <1>1, <1>2, <1>3 DEF TypeOK, Places, Sessions

LEMMA StartCheckStep ==
  ASSUME TypeOK, StartCheck
  PROVE  /\ TypeOK'
         /\ pc'[Check] = "next" /\ pc'[Monitor] = pc[Monitor]
         /\ todo'[Monitor] = todo[Monitor]
         /\ loaded'[Monitor] = loaded[Monitor] /\ mine'[Monitor] = mine[Monitor]
         /\ mine'[Check] = loaded'[Check]
         /\ \A i \in Instance :
              /\ inst'[i] = inst[i] \/ inst[i].dormant
              /\ inst'[i].dormant = inst[i].dormant /\ inst'[i].href = inst[i].href
              /\ inst'[i].failures = inst[i].failures
              /\ \/ loaded'[Check][i] = NoRow
                 \/ loaded'[Check][i] = inst'[i] /\ ToRecheck(inst'[i])
         /\ mishap' = mishap
<1> USE Tasks
<1> DEFINE rows == [i \in Instance |->
                      IF Overdue(inst[i]) THEN [inst[i] EXCEPT !.gone = TRUE] ELSE inst[i]]
           again == {i \in Instance : ToRecheck(rows[i])}
           held == [i \in Instance |-> IF i \in again THEN rows[i] ELSE NoRow]
<1>1. /\ pc' = [pc EXCEPT ![Check] = "next"] /\ ran' = ran \cup {Check}
      /\ inst' = rows /\ mishap' = mishap
      /\ todo' = [todo EXCEPT ![Check] = again]
      /\ loaded' = [loaded EXCEPT ![Check] = held] /\ mine' = [mine EXCEPT ![Check] = held]
      /\ UNCHANGED <<cur, bound, well, meddled, quiet>>
  BY DEF StartCheck, Rows, TypeOK
<1>2. \A i \in Instance :
        /\ rows[i] \in Row
        /\ rows[i] = inst[i] \/ inst[i].dormant
        /\ rows[i].dormant = inst[i].dormant /\ rows[i].href = inst[i].href
        /\ rows[i].failures = inst[i].failures
  BY InstType, SetRow DEF Overdue
<1>3. rows \in [Instance -> Row] /\ again \subseteq Instance
  BY <1>2
<1> HIDE DEF rows
<1>4. /\ held \in [Instance -> Row]
      /\ \A i \in Instance : held[i] = NoRow \/ (held[i] = rows[i] /\ ToRecheck(rows[i]))
  BY <1>3, NoRowType
<1> HIDE DEF again, held
<1>5. /\ pc' \in [Task -> Places] /\ todo' \in [Task -> SUBSET Instance]
      /\ loaded' \in Sessions /\ mine' \in Sessions /\ ran' \subseteq Task
  BY <1>1, <1>3, <1>4 DEF TypeOK, Places, Sessions
<1>6. TypeOK'
  BY <1>1, <1>3, <1>5 DEF TypeOK, Places, Sessions
<1>7. /\ loaded'[Check] = held /\ mine'[Check] = held
      /\ loaded'[Monitor] = loaded[Monitor] /\ mine'[Monitor] = mine[Monitor]
      /\ pc'[Check] = "next" /\ pc'[Monitor] = pc[Monitor] /\ todo'[Monitor] = todo[Monitor]
  BY <1>1 DEF TypeOK
<1> QED  BY <1>1, <1>2, <1>4, <1>6, <1>7

LEMMA RecheckType ==
  ASSUME TypeOK, NEW i \in Instance, Recheck(i)
  PROVE  /\ TypeOK' /\ Ask(Check, i, "node")
         /\ i \in todo[Check] /\ todo' = [todo EXCEPT ![Check] = @ \ {i}]
         /\ ~mishap' => ~mishap /\ ToRecheck(mine'[Check][i])
         /\ UNCHANGED <<inst, ran, quiet>>
<1> USE Tasks
<1>1. /\ Ask(Check, i, "node") /\ i \in todo[Check]
      /\ todo' = [todo EXCEPT ![Check] = @ \ {i}]
      /\ mishap' = (mishap \/ ~ToRecheck(mine'[Check][i]))
      /\ UNCHANGED <<inst, bound, ran, well, meddled, quiet>>
  BY DEF Recheck
<1>2. /\ loaded' \in Sessions /\ mine' \in Sessions
      /\ pc' \in [Task -> Places] /\ cur' \in [Task -> Instance \cup {Nothing}]
  BY <1>1, AskType DEF Places
<1>3. todo' \in [Task -> SUBSET Instance]
  BY <1>1 DEF TypeOK
<1>4. mishap' \in BOOLEAN
  BY <1>1 DEF TypeOK
<1>5. TypeOK'
  BY <1>1, <1>2, <1>3, <1>4 DEF TypeOK, Sessions, Places
<1> QED  BY <1>1, <1>5

\* What the check makes of an answer.
LEMMA RecheckedStep ==
  ASSUME TypeOK, NEW i \in Instance, Rechecked(i)
  PROVE  /\ TypeOK'
         /\ pc[Check] = "node" /\ cur[Check] = i /\ Answered(Check, "next")
         /\ UNCHANGED <<todo, bound, ran, well>>
         /\ \/ Back(i) \/ StillBad \/ StillSilent(i) \/ Unparsable(i)
<1> USE Tasks
<1>1. PICK ans \in Answer(i) :
        /\ pc[Check] = "node" /\ cur[Check] = i
        /\ Answered(Check, "next")
        /\ Back(i) \/ StillBad \/ StillSilent(i) \/ Unparsable(i)
        /\ Noted(ans)
        /\ UNCHANGED <<todo, bound, ran, well>>
  BY DEF Rechecked
<1>2. /\ pc' \in [Task -> Places] /\ cur' \in [Task -> Instance \cup {Nothing}]
      /\ meddled' \in 0 .. Meddling
  BY <1>1, AnsweredType, NotedType DEF Places
<1>3. /\ inst' \in [Instance -> Row] /\ mishap' \in BOOLEAN
      /\ loaded' \in Sessions /\ mine' \in Sessions /\ quiet' \in [Instance -> 0 .. Days]
  <2>1. CASE Back(i)
    <3>1. Returned(mine[Check][i]) \in Row /\ quiet' \in [Instance -> 0 .. Days]
      BY <2>1, InstType, ReturnedRow, GoodType DEF Back
    <3> QED  BY <2>1, <3>1 DEF Back, TypeOK, Sessions
  <2>2. CASE StillBad
    BY <2>2 DEF StillBad, TypeOK, Sessions
  <2>3. CASE StillSilent(i)
    <3>1. /\ Commit(Check, i, NoAnswer(mine[Check][i])) /\ Forgotten(Check)
          /\ UNCHANGED quiet
      BY <2>3 DEF StillSilent, Commit
    <3>2. NoAnswer(mine[Check][i]) \in Row
      BY InstType, NoAnswerRow
    <3> QED  BY <3>1, <3>2, CommitType, ForgottenType DEF TypeOK
  <2>4. CASE Unparsable(i)
    <3>1. Struck(i) \in Row /\ inst[i] \in Row
      BY InstType, StrikeRow DEF Struck
    <3> QED  BY <2>4, <3>1, NoRowType DEF Unparsable, TypeOK, Sessions
  <2> QED  BY <1>1, <2>1, <2>2, <2>3, <2>4
<1>4. TypeOK'
  BY <1>1, <1>2, <1>3 DEF TypeOK, Sessions, Places
<1> QED  BY <1>1, <1>4

\* All that is pending is written, and the session holds nothing any more.
LEMMA CommitAllStep ==
  ASSUME TypeOK, CommitAll
  PROVE  /\ inst' \in [Instance -> Row] /\ mishap' \in BOOLEAN
         /\ loaded' \in Sessions /\ mine' \in Sessions /\ Forgotten(Check)
         /\ \A i \in Instance : inst'[i] = Written(Check, i, mine[Check][i])
         /\ ~mishap' => ~mishap /\ \A i \in Instance : ~Outdated(Check, i, mine[Check][i])
<1>1. /\ Forgotten(Check)
      /\ inst' = [i \in Instance |-> Written(Check, i, mine[Check][i])]
      /\ mishap' = (mishap \/ \E i \in Instance : Outdated(Check, i, mine[Check][i]))
  BY DEF CommitAll, Rows
<1>2. inst' \in [Instance -> Row] /\ mishap' \in BOOLEAN
  BY <1>1, WrittenAll, Tasks DEF TypeOK
<1>3. loaded' \in Sessions /\ mine' \in Sessions
  BY <1>1, ForgottenType, Tasks
<1> QED  BY <1>1, <1>2, <1>3

LEMMA CheckDoneStep ==
  ASSUME TypeOK, CheckDone
  PROVE  /\ TypeOK' /\ End(Check) /\ Forgotten(Check)
         /\ \A i \in Instance : inst'[i] = Written(Check, i, mine[Check][i])
         /\ ~mishap' => ~mishap /\ \A i \in Instance : ~Outdated(Check, i, mine[Check][i])
         /\ UNCHANGED <<ran, quiet>>
<1> USE Tasks
<1>1. End(Check) /\ CommitAll /\ UNCHANGED <<bound, ran, well, meddled, quiet>>
  BY DEF CheckDone
<1>2. /\ pc' \in [Task -> Places] /\ cur' \in [Task -> Instance \cup {Nothing}]
      /\ todo' \in [Task -> SUBSET Instance]
  BY <1>1, EndType
<1>3. TypeOK'
  BY <1>1, <1>2, CommitAllStep DEF TypeOK, Sessions, Places
<1> QED  BY <1>1, <1>3, CommitAllStep

\* What a neighbour does to the session of the daily check: all that is pending
\* is written, or nothing is.
LEMMA NeighbourStep ==
  ASSUME TypeOK, NeighbourSilent \/ NeighbourGarbles
  PROVE  /\ TypeOK' /\ Forgotten(Check) /\ pc[Check] = "next"
         /\ UNCHANGED <<pc, todo, cur, ran, quiet>>
         /\ ~mishap' => ~mishap
         /\ \A i \in Instance :
              \/ /\ inst'[i] = Written(Check, i, mine[Check][i])
                 /\ ~mishap' => ~Outdated(Check, i, mine[Check][i])
              \/ /\ inst'[i] = inst[i]
                 /\ ~mishap' => mine[Check][i] = loaded[Check][i]
<1> USE Tasks
<1>1. CASE NeighbourSilent
  <2>1. /\ CommitAll /\ pc[Check] = "next"
        /\ UNCHANGED <<pc, todo, cur, bound, ran, well, meddled, quiet>>
    BY <1>1 DEF NeighbourSilent
  <2>2. TypeOK'
    BY <2>1, CommitAllStep DEF TypeOK, Sessions, Places
  <2> QED  BY <2>1, <2>2, CommitAllStep
<1>2. CASE NeighbourGarbles
  <2>1. /\ Forgotten(Check) /\ pc[Check] = "next"
        /\ mishap' = (mishap \/ Pending(Check) # {})
        /\ UNCHANGED <<inst, pc, todo, cur, bound, ran, well, meddled, quiet>>
    BY <1>2 DEF NeighbourGarbles
  <2>2. loaded' \in Sessions /\ mine' \in Sessions /\ mishap' \in BOOLEAN
    BY <2>1, ForgottenType DEF TypeOK
  <2>3. TypeOK'
    BY <2>1, <2>2 DEF TypeOK, Sessions, Places
  <2>4. ASSUME NEW i \in Instance, ~mishap' PROVE mine[Check][i] = loaded[Check][i]
    BY <2>1, <2>4 DEF Pending
  <2>5. ~mishap' => ~mishap
    BY <2>1
  <2> QED  BY <2>1, <2>3, <2>4, <2>5
<1> QED  BY <1>1, <1>2

\* What an activity that is announced makes of a row.
LEMMA AwakenedRow ==
  ASSUME NEW r \in Row, NEW a \in Awakened(r)
  PROVE  /\ a \in Row /\ a.failures = r.failures /\ a.href = r.href
         /\ ~r.dormant => a = r
<1>1. r.tryIn \in TryIn \cup {Never} /\ r.dormant \in BOOLEAN
  BY Fields
<1>2. CASE ~r.dormant
  BY <1>2 DEF Awakened
<1>3. CASE r.dormant
  <2>1. CASE r.tryIn = Never
    <3>1. PICK d \in Waits(r), g \in BOOLEAN : a = [r EXCEPT !.tryIn = d, !.gone = g]
      <4>1. a \in UNION {{[r EXCEPT !.tryIn = d, !.gone = g]
                             : g \in IF d = 5 THEN BOOLEAN ELSE {FALSE}} : d \in Waits(r)}
        BY <1>3, <2>1 DEF Awakened
      <4>2. PICK d \in Waits(r) :
              a \in {[r EXCEPT !.tryIn = d, !.gone = g]
                        : g \in IF d = 5 THEN BOOLEAN ELSE {FALSE}}
        BY <4>1, Zenon
      <4>3. PICK g \in IF d = 5 THEN BOOLEAN ELSE {FALSE} :
              a = [r EXCEPT !.tryIn = d, !.gone = g]
        BY <4>2, Zenon
      <4> QED  BY <4>3
    <3>2. d \in TryIn
      BY DEF Waits, TryIn
    <3> QED  BY <1>3, <3>1, <3>2 DEF Row
  <2>2. CASE r.tryIn # Never
    <3>1. a = r \/ a = [r EXCEPT !.dormant = FALSE]
      BY <1>3, <2>2 DEF Awakened
    <3> QED  BY <1>3, <3>1 DEF Row
  <2> QED  BY <2>1, <2>2
<1> QED  BY <1>1, <1>2, <1>3

LEMMA OthersType ==
  ASSUME TypeOK, NEW i \in Instance,
         Heard(i) \/ Awaken(i) \/ ProfileGarbled(i) \/ ToldGone(i) \/ Edit(i) \/ Mended(i)
  PROVE  TypeOK'
<1>1. inst[i] \in Row
  BY InstType
<1>2. CASE Heard(i)
  <2>1. Healthy(inst[i]) \in Row /\ quiet' \in [Instance -> 0 .. Days]
    BY <1>1, <1>2, HealthyRow, GoodType DEF Heard
  <2> QED  BY <1>2, <2>1 DEF TypeOK, Heard, Rows
<1>3. CASE Awaken(i)
  <2>1. \A row \in Awakened(inst[i]) : row \in Row
    BY <1>1, AwakenedRow
  <2> QED  BY <1>3, <2>1 DEF TypeOK, Awaken, Rows
<1>4. ASSUME NEW new \in Row, Meddle(i, new) PROVE TypeOK'
  <2>1. meddled' \in 0 .. Meddling
    BY <1>4, InstanceHealthAssumption DEF Meddle, TypeOK
  <2> QED  BY <1>4, <2>1 DEF TypeOK, Meddle, Rows
<1>5. CASE ProfileGarbled(i)
  BY <1>1, <1>4, <1>5, StrikeRow DEF ProfileGarbled
<1>6. CASE ToldGone(i)
  BY <1>1, <1>4, <1>6, SetRow DEF ToldGone
<1>7. CASE Edit(i)
  <2>1. \A d, g \in BOOLEAN : [inst[i] EXCEPT !.dormant = d, !.gone = g] \in Row
    BY <1>1 DEF Row
  <2> QED  BY <1>4, <1>7, <2>1 DEF Edit
<1>8. CASE Mended(i)
  BY <1>8 DEF TypeOK, Mended
<1> QED  BY <1>2, <1>3, <1>5, <1>6, <1>7, <1>8

LEMMA KilledStep ==
  ASSUME TypeOK, NEW p \in Task, Killed(p)
  PROVE  /\ TypeOK' /\ End(p) /\ Forgotten(p)
         /\ ~mishap' => ~mishap /\ Pending(p) = {}
         /\ UNCHANGED <<inst, ran, quiet>>
<1>1. /\ End(p) /\ Forgotten(p) /\ meddled < Meddling /\ meddled' = meddled + 1
      /\ mishap' = (mishap \/ Pending(p) # {})
      /\ bound' = (p # Monitor /\ bound)
      /\ UNCHANGED <<inst, ran, well, quiet>>
  BY DEF Killed
<1>2. /\ pc' \in [Task -> Places] /\ cur' \in [Task -> Instance \cup {Nothing}]
      /\ todo' \in [Task -> SUBSET Instance]
  BY <1>1, EndType
<1>3. loaded' \in Sessions /\ mine' \in Sessions
  BY <1>1, ForgottenType
<1>4. meddled' \in 0 .. Meddling
  BY <1>1, InstanceHealthAssumption DEF TypeOK
<1>5. bound' \in BOOLEAN /\ mishap' \in BOOLEAN
  BY <1>1 DEF TypeOK
<1>6. TypeOK'
  BY <1>1, <1>2, <1>3, <1>4, <1>5 DEF TypeOK, Sessions, Places
<1> QED  BY <1>1, <1>6

LEMMA TomorrowRow ==
  ASSUME NEW r \in Row
  PROVE  /\ Tomorrow(r) \in Row /\ Tomorrow(r).failures = r.failures
         /\ Tomorrow(r).dormant = r.dormant /\ Tomorrow(r).gone = r.gone
         /\ Tomorrow(r).href = r.href
<1> DEFINE d == IF r.tryIn \in {Never, -5} THEN r.tryIn ELSE r.tryIn - 1
<1>1. d \in TryIn \cup {Never}
  BY Fields DEF TryIn
<1>2. Tomorrow(r) = [r EXCEPT !.tryIn = d]
  BY DEF Tomorrow
<1> HIDE DEF d
<1> QED  BY <1>1, <1>2 DEF Row

LEMMA NewDayStep ==
  ASSUME TypeOK, NewDay
  PROVE  /\ TypeOK' /\ ran = Task /\ \A p \in Task : pc[p] = "idle"
         /\ ran' = {} /\ inst' = [i \in Instance |-> Tomorrow(inst[i])]
         /\ quiet' = [i \in Instance |-> Later(quiet[i])]
         /\ UNCHANGED <<pc, todo, cur, loaded, mine, mishap>>
<1>1. /\ ran = Task /\ \A p \in Task : pc[p] = "idle"
      /\ ran' = {} /\ inst' = [i \in Instance |-> Tomorrow(inst[i])]
      /\ quiet' = [i \in Instance |-> Later(quiet[i])]
      /\ UNCHANGED <<pc, todo, cur, loaded, mine, bound, well, meddled, mishap>>
  BY DEF NewDay
<1>2. inst' \in [Instance -> Row]
  BY <1>1, InstType, TomorrowRow
<1>3. quiet' \in [Instance -> 0 .. Days]
  <2>1. \A d \in 0 .. Days : Later(d) \in 0 .. Days
    BY InstanceHealthAssumption DEF Later
  <2> QED  BY <1>1, <2>1 DEF TypeOK
<1>4. TypeOK'
  BY <1>1, <1>2, <1>3 DEF TypeOK
<1> QED  BY <1>1, <1>4

LEMMA InitType == Init => TypeOK
<1> SUFFICES ASSUME Init PROVE TypeOK
  OBVIOUS
<1>1. \A known \in BOOLEAN :
        [failures |-> 0, dormant |-> FALSE, gone |-> FALSE, tryIn |-> Never,
         href |-> known] \in Row
  BY NoFailures DEF Row
<1>2. inst \in [Instance -> Row]
  BY <1>1 DEF Init
<1>3. loaded \in Sessions /\ mine \in Sessions
  BY NoRowType DEF Init, Sessions
<1>4. quiet \in [Instance -> 0 .. Days] /\ meddled \in 0 .. Meddling
  BY InstanceHealthAssumption DEF Init
<1>5. /\ pc \in [Task -> Places] /\ todo \in [Task -> SUBSET Instance]
      /\ cur \in [Task -> Instance \cup {Nothing}]
      /\ bound \in BOOLEAN /\ ran \subseteq Task /\ well \subseteq Instance /\ mishap \in BOOLEAN
  BY DEF Init, Places
<1> QED  BY <1>2, <1>3, <1>4, <1>5 DEF TypeOK, Sessions, Places

LEMMA NextType ==
  ASSUME TypeOK, [Next]_vars
  PROVE  TypeOK'
<1>1. CASE MonitorStep
  BY <1>1, StartMonitorType, MonitorEndType, ProbeStep, LocateType, ExamineType, AdminsType
    DEF MonitorStep
<1>2. CASE CheckStep
  BY <1>2, StartCheckStep, CheckDoneStep, RecheckType, RecheckedStep DEF CheckStep
<1>3. CASE NewDay \/ NeighbourSilent \/ NeighbourGarbles
  BY <1>3, NewDayStep, NeighbourStep
<1>4. ASSUME NEW i \in Instance,
             Heard(i) \/ Awaken(i) \/ ProfileGarbled(i) \/ ToldGone(i) \/ Edit(i) \/ Mended(i)
      PROVE TypeOK'
  BY <1>4, OthersType
<1>5. ASSUME NEW p \in Task, Killed(p) PROVE TypeOK'
  BY <1>5, KilledStep
<1>6. CASE UNCHANGED vars
  BY <1>6 DEF TypeOK, vars
<1> QED  BY <1>1, <1>2, <1>3, <1>4, <1>5, <1>6 DEF Next

\* Every variable has its type, whatever the tasks, the other instances and the
\* administrators do: failures and days are counted no further than their
\* bounds, and a session holds rows of the table and no others.
THEOREM TypeCorrect == Spec => []TypeOK
<1>1. TypeOK /\ [Next]_vars => TypeOK'
  BY NextType
<1> QED  BY <1>1, InitType, PTL DEF Spec

-----------------------------------------------------------------------------
(***************************************************************************)
(* The order of the tasks.                                                 *)
(***************************************************************************)
\* What a step of one task leaves of the other.
Spared(p) ==
  UNCHANGED <<pc[p], todo[p], cur[p], loaded[p], mine[p]>>

LEMMA MonitorSpares ==
  ASSUME TypeOK, MonitorStep
  PROVE  Spared(Check)
<1> USE Tasks
<1>1. ASSUME NEW next \in Places, Answered(Monitor, next)
      PROVE pc'[Check] = pc[Check] /\ cur'[Check] = cur[Check]
  BY <1>1, AnsweredType
<1>2. ASSUME Forgotten(Monitor)
      PROVE loaded'[Check] = loaded[Check] /\ mine'[Check] = mine[Check]
  BY <1>2, ForgottenType
<1>3. CASE StartMonitor
  BY <1>3, StartMonitorType DEF Spared, StartMonitor
<1>4. ASSUME NEW i \in Instance, Probe(i) PROVE Spared(Check)
  <2>1. /\ \E what \in Places : Ask(Monitor, i, what)
        /\ todo' = [todo EXCEPT ![Monitor] = @ \ {i}]
    BY <1>4, ProbeStep DEF Places
  <2> QED  BY <2>1, AskType DEF Spared, TypeOK
<1>5. ASSUME NEW i \in Instance, Locate(i) PROVE Spared(Check)
  <2>1. /\ \E next \in Places : Answered(Monitor, next)
        /\ loaded'[Check] = loaded[Check] /\ mine'[Check] = mine[Check]
        /\ UNCHANGED todo
    BY <1>5, LocateStep DEF Places
  <2> QED  BY <1>1, <2>1 DEF Spared
<1>6. ASSUME NEW i \in Instance, Examine(i) PROVE Spared(Check)
  <2>1. (\E next \in Places : Answered(Monitor, next)) /\ Forgotten(Monitor) /\ UNCHANGED todo
    BY <1>6, ExamineStep DEF Places
  <2> QED  BY <1>1, <1>2, <2>1 DEF Spared
<1>7. ASSUME NEW i \in Instance, AdminsListed(i) \/ AdminsFailed(i) PROVE Spared(Check)
  <2>1. "next" \in Places
    BY DEF Places
  <2> QED  BY <1>1, <1>2, <1>7, <2>1 DEF Spared, AdminsListed, AdminsFailed
<1>8. CASE MonitorDone \/ \E i \in Instance : MonitorAborted(i)
  BY <1>2, <1>8, MonitorEndType, EndType DEF Spared
<1> QED  BY <1>3, <1>4, <1>5, <1>6, <1>7, <1>8 DEF MonitorStep

LEMMA CheckSpares ==
  ASSUME TypeOK, CheckStep
  PROVE  Spared(Monitor)
<1> USE Tasks
<1>1. CASE StartCheck
  BY <1>1, StartCheckStep DEF Spared, StartCheck
<1>2. CASE CheckDone
  BY <1>2, CheckDoneStep, EndType, ForgottenType DEF Spared
<1>3. ASSUME NEW i \in Instance, Recheck(i) PROVE Spared(Monitor)
  <2>1. Ask(Check, i, "node") /\ todo' = [todo EXCEPT ![Check] = @ \ {i}]
    BY <1>3, RecheckType
  <2>2. "node" \in Places
    BY DEF Places
  <2> QED  BY <2>1, <2>2, AskType DEF Spared, TypeOK
<1>4. ASSUME NEW i \in Instance, Rechecked(i) PROVE Spared(Monitor)
  <2>1. "next" \in Places
    BY DEF Places
  <2>2. /\ pc'[Monitor] = pc[Monitor] /\ cur'[Monitor] = cur[Monitor] /\ UNCHANGED todo
    BY <1>4, <2>1, RecheckedStep, AnsweredType
  <2>3. loaded'[Monitor] = loaded[Monitor] /\ mine'[Monitor] = mine[Monitor]
    <3>1. CASE Back(i)
      BY <3>1 DEF Back, TypeOK
    <3>2. CASE StillBad
      BY <3>2 DEF StillBad
    <3>3. CASE StillSilent(i)
      BY <3>3, ForgottenType DEF StillSilent, Commit
    <3>4. CASE Unparsable(i)
      BY <3>4 DEF Unparsable, TypeOK
    <3> QED  BY <1>4, <3>1, <3>2, <3>3, <3>4, RecheckedStep
  <2> QED  BY <2>2, <2>3 DEF Spared
<1> QED  BY <1>1, <1>2, <1>3, <1>4 DEF CheckStep

\* The part of Orderly that is about one task.
Tidy(p) ==
  /\ pc[p] = "idle" => todo[p] = {} /\ mine[p] = loaded[p]
  /\ pc[p] \notin {"idle", "next"} => cur[p] \notin todo[p]

LEMMA SparedTidy ==
  ASSUME NEW p, Spared(p), Tidy(p)
  PROVE  Tidy(p)'
  BY DEF Spared, Tidy

LEMMA EndedTidy ==
  ASSUME TypeOK, NEW p \in Task, End(p), Forgotten(p)
  PROVE  /\ Tidy(p)' /\ mine'[p] = loaded'[p]
         /\ \A q \in Task : q # p => Spared(q)
<1>1. mine'[p] = loaded'[p]
  BY DEF Forgotten, TypeOK
<1> QED  BY <1>1, EndType, ForgottenType DEF Tidy, Spared

LEMMA MonitorOrderly ==
  ASSUME TypeOK, Orderly, MonitorStep
  PROVE  Orderly'
<1> USE Tasks
<1>1. Spared(Check) /\ Tidy(Check)'
  BY MonitorSpares, SparedTidy DEF Orderly, Tidy
<1>2. ASSUME /\ Tidy(Monitor)' /\ mine'[Monitor] = loaded'[Monitor]
             /\ Monitor \in ran' \/ pc'[Monitor] = "idle"
             /\ \A i \in Instance \ Moved :
                  pc'[Monitor] = "well-known" /\ cur'[Monitor] = i => ~loaded'[Monitor][i].href
      PROVE Orderly'
  BY <1>1, <1>2 DEF Orderly, Tidy
<1>3. pc[Monitor] # "idle" => Monitor \in ran
  BY DEF Orderly
<1>4. CASE StartMonitor
  BY <1>2, <1>4, StartMonitorType DEF StartMonitor, Tidy
<1>5. ASSUME NEW i \in Instance, Probe(i) PROVE Orderly'
  <2>1. PICK what \in {"well-known", "node"} :
          /\ Ask(Monitor, i, what)
          /\ i \notin Moved /\ what = "well-known" =>
               ~(IF mine[Monitor][i] = NoRow THEN inst[i] ELSE mine[Monitor][i]).href
    BY <1>5, ProbeStep
  <2>2. /\ pc'[Monitor] = what /\ cur'[Monitor] = i /\ what \in Places
        /\ mine[Monitor][i] = NoRow => loaded'[Monitor][i] = inst[i]
        /\ mine[Monitor][i] # NoRow => loaded'[Monitor] = loaded[Monitor]
    BY <2>1, AskType DEF Places
  <2>3. mine'[Monitor] = loaded'[Monitor]
    BY <2>1 DEF Ask, TypeOK, Orderly
  <2>4. i \notin todo'[Monitor] /\ Monitor \in ran'
    BY <1>3, <1>5, ProbeStep DEF TypeOK, Probe
  <2>5. i \notin Moved /\ what = "well-known" => ~loaded'[Monitor][i].href
    BY <2>1, <2>2 DEF Orderly
  <2> QED  BY <1>2, <2>2, <2>3, <2>4, <2>5 DEF Tidy
<1>6. ASSUME NEW i \in Instance, NEW next \in {"node", "admins", "next"},
             Answered(Monitor, next), pc[Monitor] \notin {"idle", "next"}, cur[Monitor] = i,
             mine'[Monitor] = loaded'[Monitor], UNCHANGED <<todo, ran>>
      PROVE Orderly'
  <2>1. pc'[Monitor] = next /\ (next # "next" => cur'[Monitor] = i) /\ next \in Places
    BY <1>6, AnsweredType DEF Places
  <2> QED  BY <1>2, <1>3, <1>6, <2>1 DEF Tidy, Orderly
<1>7. ASSUME NEW i \in Instance, Locate(i) PROVE Orderly'
  BY <1>6, <1>7, LocateStep
<1>8. ASSUME NEW i \in Instance, Examine(i) PROVE Orderly'
  <2>1. mine'[Monitor] = loaded'[Monitor]
    BY <1>8, ExamineStep DEF Forgotten, TypeOK
  <2> QED  BY <1>6, <1>8, <2>1, ExamineStep
<1>9. ASSUME NEW i \in Instance, AdminsListed(i) \/ AdminsFailed(i) PROVE Orderly'
  <2>1. mine'[Monitor] = loaded'[Monitor]
    <3>1. CASE AdminsListed(i)
      BY <3>1 DEF AdminsListed, Orderly
    <3>2. CASE AdminsFailed(i)
      BY <3>2 DEF AdminsFailed, Forgotten, TypeOK
    <3> QED  BY <1>9, <3>1, <3>2
  <2> QED  BY <1>6, <1>9, <2>1 DEF AdminsListed, AdminsFailed
<1>10. CASE MonitorDone \/ \E i \in Instance : MonitorAborted(i)
  BY <1>2, <1>10, MonitorEndType, EndedTidy, EndType
<1> QED  BY <1>4, <1>5, <1>7, <1>8, <1>9, <1>10 DEF MonitorStep

LEMMA CheckOrderly ==
  ASSUME TypeOK, Orderly, CheckStep
  PROVE  Orderly'
<1> USE Tasks
<1>1. Spared(Monitor)
  BY CheckSpares
<1>2. ASSUME Tidy(Check)', UNCHANGED ran PROVE Orderly'
  BY <1>1, <1>2 DEF Orderly, Tidy, Spared
<1>3. ASSUME Tidy(Check)', Monitor \in ran' <=> Monitor \in ran PROVE Orderly'
  BY <1>1, <1>3 DEF Orderly, Tidy, Spared
<1>4. CASE StartCheck
  BY <1>3, <1>4, StartCheckStep DEF StartCheck, Tidy
<1>5. CASE CheckDone
  BY <1>2, <1>5, CheckDoneStep, EndedTidy
<1>6. ASSUME NEW i \in Instance, Recheck(i) PROVE Orderly'
  <2>1. pc'[Check] = "node" /\ cur'[Check] = i /\ i \notin todo'[Check] /\ UNCHANGED ran
    BY <1>6, RecheckType, AskType DEF TypeOK, Places
  <2> QED  BY <1>2, <2>1 DEF Tidy
<1>7. ASSUME NEW i \in Instance, Rechecked(i) PROVE Orderly'
  <2>1. pc'[Check] = "next" /\ UNCHANGED ran
    BY <1>7, RecheckedStep, AnsweredType DEF Places
  <2> QED  BY <1>2, <2>1 DEF Tidy
<1> QED  BY <1>4, <1>5, <1>6, <1>7 DEF CheckStep

\* A neighbour leaves the monitor alone, and the daily check where it is.
LEMMA NeighbourSpares ==
  ASSUME TypeOK, NeighbourSilent \/ NeighbourGarbles
  PROVE  /\ Spared(Monitor) /\ mine'[Check] = loaded'[Check]
         /\ UNCHANGED <<pc, todo, cur, ran, quiet>>
<1>1. Forgotten(Check) /\ UNCHANGED <<pc, todo, cur, ran, quiet>>
  BY NeighbourStep
<1>2. mine'[Check] = loaded'[Check]
  BY <1>1, Tasks DEF Forgotten, TypeOK
<1> QED  BY <1>1, <1>2, ForgottenType, Tasks DEF Spared

LEMMA NextOrderly ==
  ASSUME TypeOK, Orderly, [Next]_vars
  PROVE  Orderly'
<1>1. CASE MonitorStep
  BY <1>1, MonitorOrderly
<1>2. CASE CheckStep
  BY <1>2, CheckOrderly
<1>3. CASE UNCHANGED <<pc, todo, cur, loaded, mine, ran>>
  BY <1>3 DEF Orderly
<1>4. CASE NewDay
  BY <1>4, NewDayStep, Tasks DEF Orderly
<1>8. CASE NeighbourSilent \/ NeighbourGarbles
  BY <1>8, NeighbourSpares, Tasks DEF Orderly, Spared
<1>5. ASSUME NEW p \in Task, Killed(p) PROVE Orderly'
  <2>1. /\ End(p) /\ Forgotten(p) /\ UNCHANGED ran
        /\ Tidy(p)' /\ mine'[p] = loaded'[p]
        /\ \A q \in Task : q # p => Spared(q)
    BY <1>5, KilledStep, EndedTidy
  <2>2. pc'[p] = "idle"
    BY <2>1, EndType
  <2>3. CASE p = Check
    BY <2>1, <2>3, Tasks DEF Orderly, Tidy, Spared
  <2>4. CASE p = Monitor
    BY <2>1, <2>2, <2>4, Tasks DEF Orderly, Tidy, Spared
  <2> QED  BY <2>3, <2>4, Tasks
<1>6. ASSUME NEW i \in Instance,
             Heard(i) \/ Awaken(i) \/ ProfileGarbled(i) \/ ToldGone(i) \/ Edit(i) \/ Mended(i)
      PROVE Orderly'
  BY <1>3, <1>6 DEF Heard, Awaken, ProfileGarbled, ToldGone, Edit, Meddle, Mended
<1>7. CASE UNCHANGED vars
  BY <1>3, <1>7 DEF vars
<1> QED  BY <1>1, <1>2, <1>4, <1>5, <1>6, <1>7, <1>8 DEF Next

-----------------------------------------------------------------------------
(***************************************************************************)
(* What a session has loaded, and what has become of it since.             *)
(***************************************************************************)
Steady(i) == NoWorse(i) /\ FoundByCheck(i) /\ Asleep(i)

LEMMA SameRow ==
  ASSUME NEW i \in Instance, NoWorse(i), FoundByCheck(i),
         inst'[i] = inst[i], loaded'[Monitor][i] = loaded[Monitor][i]
  PROVE  NoWorse(i)' /\ FoundByCheck(i)'
  BY DEF NoWorse, FoundByCheck

\* The monitor holds the row as it is, or does not hold it.
LEMMA JustLoaded ==
  ASSUME NEW i \in Instance, inst'[i] \in Row,
         loaded'[Monitor][i] = NoRow \/ loaded'[Monitor][i] = inst'[i]
  PROVE  NoWorse(i)' /\ FoundByCheck(i)'
<1>1. inst'[i].failures \in Nat /\ NoRow.dormant = TRUE
  BY Fields DEF NoRow
<1> QED  BY <1>1 DEF NoWorse, FoundByCheck

LEMMA SameAsleep ==
  ASSUME NEW i \in Instance, Asleep(i), Spared(Check)
  PROVE  Asleep(i)'
  BY DEF Asleep, Spared

\* The check commits a row: it was asleep when the check loaded it, and is so
\* still, or the check had not changed it.
LEMMA CheckWrites ==
  ASSUME TypeOK, NEW i \in Instance, NEW row \in Row, ~Outdated(Check, i, row),
         row # loaded[Check][i] => loaded[Check][i].dormant,
         row.href # loaded[Check][i].href => ~row.dormant,
         NoWorse(i), FoundByCheck(i),
         inst'[i] = Written(Check, i, row), loaded'[Monitor][i] = loaded[Monitor][i]
  PROVE  /\ NoWorse(i)' /\ FoundByCheck(i)'
         /\ ~inst[i].dormant => inst'[i] = inst[i]
         /\ loaded[Check][i].dormant /\ ~row.dormant /\ ~row.gone =>
              inst'[i].failures = row.failures /\ Online(inst'[i])
<1> USE Tasks
<1>1. CASE row = NoRow \/ row = loaded[Check][i]
  <2>1. inst'[i] = inst[i]
    BY <1>1, WrittenRow
  <2>2. ~(loaded[Check][i].dormant /\ ~row.dormant)
    BY <1>1 DEF NoRow
  <2> QED  BY <2>1, <2>2, SameRow
<1>2. CASE row # NoRow /\ row # loaded[Check][i]
  <2>1. /\ inst'[i] \in Row
        /\ inst'[i].href = (IF row.href # loaded[Check][i].href THEN row.href ELSE inst[i].href)
        /\ Alike(inst'[i], row) /\ Alike(inst[i], loaded[Check][i])
    BY <1>2, WrittenRow
  <2>2. inst[i].dormant
    BY <1>2, <2>1 DEF Alike
  <2>3. loaded[Monitor][i].dormant
    BY <2>2 DEF NoWorse
  <2>4. NoWorse(i)'
    BY <2>3 DEF NoWorse
  <2>5. FoundByCheck(i)'
    BY <2>1, <2>2, <2>3 DEF FoundByCheck, Alike
  <2> QED  BY <2>1, <2>2, <2>4, <2>5 DEF Alike, Online
<1> QED  BY <1>1, <1>2

\* The check has nothing of the row of i.
LEMMA CheckForgets ==
  ASSUME TypeOK, NEW i \in Instance, Forgotten(Check), pc'[Check] \in {"idle", "next"}
  PROVE  Asleep(i)'
  BY ForgottenType, Tasks, NoRowType DEF Asleep

LEMMA MonitorSteady ==
  ASSUME TypeOK, Orderly, MonitorStep, NEW i \in Instance, Steady(i), TypeOK'
  PROVE  Steady(i)'
<1> USE Tasks
<1>1. Asleep(i)'
  BY MonitorSpares, SameAsleep DEF Steady
<1>2. inst'[i] \in Row /\ NoWorse(i) /\ FoundByCheck(i)
  BY DEF TypeOK, Steady
<1>3. CASE loaded'[Monitor][i] = NoRow \/ loaded'[Monitor][i] = inst'[i]
  BY <1>1, <1>2, <1>3, JustLoaded DEF Steady
<1>4. CASE StartMonitor
  BY <1>3, <1>4, StartMonitorType DEF StartMonitor
<1>5. ASSUME NEW k \in Instance, Probe(k) PROVE Steady(i)'
  <2>1. UNCHANGED inst /\ \E what \in Places : Ask(Monitor, k, what)
    BY <1>5, ProbeStep DEF Places
  <2>2. \/ loaded'[Monitor][i] = inst'[i]
        \/ loaded'[Monitor][i] = loaded[Monitor][i]
    BY <2>1, AskType
  <2> QED  BY <1>1, <1>2, <1>3, <2>1, <2>2, SameRow DEF Steady
<1>6. ASSUME NEW k \in Instance, Locate(k) PROVE Steady(i)'
  <2>1. loaded'[Monitor][i] = NoRow \/ loaded'[Monitor][i] = inst'[i]
    <3>1. PICK found \in Row :
            \/ /\ inst' = [inst EXCEPT ![k] = found]
               /\ loaded'[Monitor] = [j \in Instance |-> IF j = k THEN found ELSE NoRow]
            \/ \A j \in Instance : loaded'[Monitor][j] = NoRow
      BY <1>6, LocateStep
    <3> QED  BY <3>1 DEF TypeOK
  <2> QED  BY <1>3, <2>1
<1>7. CASE Forgotten(Monitor)
  BY <1>3, <1>7, ForgottenType
<1>8. ASSUME NEW k \in Instance, Examine(k) PROVE Steady(i)'
  BY <1>7, <1>8, ExamineStep
<1>9. ASSUME NEW k \in Instance, AdminsListed(k) PROVE Steady(i)'
  BY <1>1, <1>2, <1>9, SameRow DEF Steady, AdminsListed
<1>10. ASSUME NEW k \in Instance, AdminsFailed(k) PROVE Steady(i)'
  BY <1>7, <1>10 DEF AdminsFailed
<1>11. CASE MonitorDone \/ \E k \in Instance : MonitorAborted(k)
  BY <1>7, <1>11, MonitorEndType
<1> QED  BY <1>4, <1>5, <1>6, <1>8, <1>9, <1>10, <1>11 DEF MonitorStep

LEMMA CheckSteady ==
  ASSUME TypeOK, Orderly, CheckStep, NEW i \in Instance, Steady(i), TypeOK', ~mishap'
  PROVE  Steady(i)'
<1> USE Tasks
<1>1. /\ loaded'[Monitor][i] = loaded[Monitor][i]
      /\ NoWorse(i) /\ FoundByCheck(i) /\ Asleep(i)
  BY CheckSpares DEF Spared, Steady
<1>2. CASE StartCheck
  <2>1. /\ inst'[i] = inst[i] \/ inst[i].dormant
        /\ inst'[i].dormant = inst[i].dormant /\ inst'[i].href = inst[i].href
        /\ inst'[i].failures = inst[i].failures
        /\ mine'[Check] = loaded'[Check] /\ pc'[Check] = "next"
        /\ mine'[Check][i] = NoRow \/ ToRecheck(mine'[Check][i])
    BY <1>2, StartCheckStep
  <2>2. NoWorse(i)' /\ FoundByCheck(i)'
    BY <1>1, <2>1 DEF NoWorse, FoundByCheck
  <2>3. Asleep(i)'
    BY <2>1 DEF Asleep
  <2> QED  BY <2>2, <2>3 DEF Steady
<1>3. CASE CheckDone
  <2>1. /\ inst'[i] = Written(Check, i, mine[Check][i]) /\ ~Outdated(Check, i, mine[Check][i])
        /\ mine[Check][i] \in Row
    BY <1>3, CheckDoneStep, InstType
  <2>2. NoWorse(i)' /\ FoundByCheck(i)'
    BY <1>1, <2>1, CheckWrites DEF Asleep
  <2>3. Asleep(i)'
    BY <1>3, CheckDoneStep, CheckForgets, EndType
  <2> QED  BY <2>2, <2>3 DEF Steady
<1>4. ASSUME NEW k \in Instance, Recheck(k) PROVE Steady(i)'
  <2>1. /\ Ask(Check, k, "node") /\ k \in todo[Check]
        /\ todo' = [todo EXCEPT ![Check] = @ \ {k}]
        /\ ToRecheck(mine'[Check][k]) /\ UNCHANGED inst
    BY <1>4, RecheckType
  <2>2. /\ pc'[Check] = "node" /\ cur'[Check] = k
        /\ i # k => /\ loaded'[Check][i] = loaded[Check][i]
                    /\ mine'[Check][i] = mine[Check][i]
        /\ mine[Check][k] = NoRow => loaded'[Check][k] = inst[k] /\ mine'[Check][k] = inst[k]
        /\ mine[Check][k] # NoRow => loaded'[Check] = loaded[Check] /\ mine'[Check] = mine[Check]
    BY <2>1, AskType DEF Places
  <2>3. todo'[Check] = todo[Check] \ {k}
    BY <2>1 DEF TypeOK
  <2>4. CASE i = k
    <3>1. mine'[Check][i] = loaded'[Check][i] /\ mine'[Check][i] # NoRow
      BY <1>1, <2>1, <2>2, <2>4, NoRowType DEF Asleep
    <3>2. Asleep(i)'
      BY <2>1, <2>4, <3>1 DEF Asleep
    <3> QED  BY <1>1, <2>1, <3>2, SameRow DEF Steady
  <2>5. CASE i # k
    <3>1. Asleep(i)'
      BY <1>1, <2>2, <2>3, <2>5 DEF Asleep
    <3> QED  BY <1>1, <2>1, <3>1, SameRow DEF Steady
  <2> QED  BY <2>4, <2>5
<1>5. ASSUME NEW k \in Instance, Rechecked(k) PROVE Steady(i)'
  <2>1. /\ pc[Check] = "node" /\ cur[Check] = k /\ pc'[Check] = "next" /\ UNCHANGED todo
        /\ Back(k) \/ StillBad \/ StillSilent(k) \/ Unparsable(k)
    BY <1>5, RecheckedStep, AnsweredType DEF Places
  <2>2. k \notin todo[Check]
    BY <2>1 DEF Orderly
  <2>3. CASE Back(k)
    <3>1. /\ mine' = [mine EXCEPT ![Check][k] = Returned(@)] /\ UNCHANGED <<inst, loaded>>
      BY <2>3 DEF Back
    <3>2. CASE i = k
      <4>1. mine[Check][k] \in Row /\ mine'[Check][k] = Returned(mine[Check][k])
        BY <3>1, InstType DEF TypeOK
      <4>2. ~mine'[Check][k].dormant /\ loaded[Check][k].dormant
        BY <1>1, <2>1, <3>2, <4>1, ReturnedRow DEF Asleep, ToRecheck
      <4>3. Asleep(i)'
        BY <2>1, <2>2, <3>1, <3>2, <4>2 DEF Asleep
      <4> QED  BY <1>1, <3>1, <4>3, SameRow DEF Steady
    <3>3. CASE i # k
      <4>1. mine'[Check][i] = mine[Check][i]
        BY <3>1, <3>3 DEF TypeOK
      <4>2. Asleep(i)'
        BY <1>1, <2>1, <3>1, <4>1 DEF Asleep
      <4> QED  BY <1>1, <3>1, <4>2, SameRow DEF Steady
    <3> QED  BY <3>2, <3>3
  <2>4. CASE StillBad
    <3>1. Asleep(i)'
      BY <1>1, <2>1, <2>4 DEF Asleep, StillBad
    <3> QED  BY <1>1, <2>4, <3>1, SameRow DEF Steady, StillBad
  <2>5. CASE StillSilent(k)
    <3>1. Commit(Check, k, NoAnswer(mine[Check][k])) /\ Forgotten(Check)
      BY <2>5 DEF StillSilent, Commit
    <3>2. mine[Check][i] \in Row /\ NoAnswer(mine[Check][k]) \in Row
      BY InstType, NoAnswerRow
    <3>3. NoWorse(i)' /\ FoundByCheck(i)'
      <4>1. CASE i = k
        <5> DEFINE row == NoAnswer(mine[Check][k])
        <5>1. inst'[i] = Written(Check, i, row) /\ ~Outdated(Check, i, row)
          BY <3>1, <3>2, <4>1, CommitType
        <5>2. mine[Check][k] = loaded[Check][k] /\ loaded[Check][k].dormant
          BY <1>1, <2>1, <4>1 DEF Asleep, ToRecheck
        <5>3. row.href = loaded[Check][i].href
          BY <3>2, <4>1, <5>2, NoAnswerRow
        <5> HIDE DEF row
        <5> QED  BY <1>1, <3>2, <4>1, <5>1, <5>2, <5>3, CheckWrites DEF row
      <4>2. CASE i # k
        <5>1. inst'[i] = Written(Check, i, mine[Check][i]) /\ ~Outdated(Check, i, mine[Check][i])
          BY <3>1, <3>2, <4>2, CommitType
        <5> QED  BY <1>1, <3>2, <5>1, CheckWrites DEF Asleep
      <4> QED  BY <4>1, <4>2
    <3>4. Asleep(i)'
      BY <2>1, <3>1, CheckForgets
    <3> QED  BY <3>3, <3>4 DEF Steady
  <2>6. CASE Unparsable(k)
    <3>1. /\ UNCHANGED inst /\ inst[k].dormant
          /\ loaded'[Check][i] = IF i = k THEN inst[i] ELSE NoRow
          /\ mine'[Check][i] = IF i = k THEN Struck(i) ELSE NoRow
      BY <2>6 DEF Unparsable, TypeOK
    <3>2. Struck(i).href = inst[i].href
      BY InstType, StrikeRow DEF Struck
    <3>3. Asleep(i)'
      BY <2>1, <2>2, <3>1, <3>2, NoRowType DEF Asleep
    <3> QED  BY <1>1, <3>1, <3>3, SameRow DEF Steady
  <2> QED  BY <2>1, <2>3, <2>4, <2>5, <2>6
<1> QED  BY <1>2, <1>3, <1>4, <1>5 DEF CheckStep

LEMMA NeighbourSteady ==
  ASSUME TypeOK, NeighbourSilent \/ NeighbourGarbles, NEW i \in Instance, Steady(i), TypeOK',
         ~mishap'
  PROVE  Steady(i)'
<1> USE Tasks
<1>1. /\ loaded'[Monitor][i] = loaded[Monitor][i]
      /\ NoWorse(i) /\ FoundByCheck(i) /\ Asleep(i) /\ mine[Check][i] \in Row
  BY NeighbourSpares, InstType DEF Spared, Steady
<1>2. /\ Forgotten(Check) /\ pc'[Check] = "next"
      /\ \/ /\ inst'[i] = Written(Check, i, mine[Check][i])
            /\ ~Outdated(Check, i, mine[Check][i])
         \/ inst'[i] = inst[i]
  BY NeighbourStep
<1>3. NoWorse(i)' /\ FoundByCheck(i)'
  <2>1. CASE inst'[i] = inst[i]
    BY <1>1, <2>1, SameRow
  <2>2. CASE inst'[i] = Written(Check, i, mine[Check][i]) /\ ~Outdated(Check, i, mine[Check][i])
    BY <1>1, <2>2, CheckWrites DEF Asleep
  <2> QED  BY <1>2, <2>1, <2>2
<1>4. Asleep(i)'
  BY <1>2, CheckForgets
<1> QED  BY <1>3, <1>4 DEF Steady

LEMMA NextSteady ==
  ASSUME TypeOK, Orderly, [Next]_vars, NEW i \in Instance, Steady(i), TypeOK', ~mishap'
  PROVE  Steady(i)'
<1> USE Tasks
<1>1. inst[i] \in Row /\ inst[i].failures \in Nat /\ NoWorse(i) /\ FoundByCheck(i) /\ Asleep(i)
  BY InstType, Fields DEF Steady
<1>2. ASSUME UNCHANGED <<pc, todo, cur, loaded, mine>> PROVE Asleep(i)'
  BY <1>1, <1>2 DEF Asleep
<1>3. CASE UNCHANGED <<inst, pc, todo, cur, loaded, mine>>
  BY <1>1, <1>2, <1>3, SameRow DEF Steady
<1>4. CASE NewDay
  <2>1. /\ inst'[i] = Tomorrow(inst[i])
        /\ UNCHANGED <<pc, todo, cur, loaded, mine>>
    BY <1>4, NewDayStep
  <2>2. NoWorse(i)' /\ FoundByCheck(i)'
    BY <1>1, <2>1, TomorrowRow DEF NoWorse, FoundByCheck
  <2> QED  BY <1>2, <2>1, <2>2 DEF Steady
<1>5. ASSUME NEW k \in Instance, Heard(k) PROVE Steady(i)'
  <2>1. /\ UNCHANGED <<pc, todo, cur, loaded, mine>>
        /\ inst'[i] = IF i = k THEN Healthy(inst[i]) ELSE inst[i]
    BY <1>5 DEF Heard, Rows, TypeOK
  <2>2. CASE i = k
    <3>1. /\ inst'[i].failures = 0 /\ ~inst'[i].dormant /\ ~inst'[i].gone
          /\ inst'[i].href = inst[i].href
      BY <1>1, <2>1, <2>2, HealthyRow
    <3>2. loaded[Monitor][i].failures \in Nat
      BY InstType, Fields
    <3>3. NoWorse(i)' /\ FoundByCheck(i)'
      BY <1>1, <2>1, <3>1, <3>2 DEF NoWorse, FoundByCheck
    <3> QED  BY <1>2, <2>1, <3>3 DEF Steady
  <2>3. CASE i # k
    BY <1>1, <1>2, <2>1, <2>3, SameRow DEF Steady
  <2> QED  BY <2>2, <2>3
<1>6. ASSUME NEW k \in Instance, Awaken(k) PROVE Steady(i)'
  <2>1. UNCHANGED <<pc, todo, cur, loaded, mine>>
    BY <1>6 DEF Awaken
  <2>2. CASE inst'[i] = inst[i]
    BY <1>1, <1>2, <2>1, <2>2, SameRow DEF Steady
  <2>3. CASE inst'[i] # inst[i]
    <3>1. inst'[i] \in Awakened(inst[i])
      BY <1>6, <2>3 DEF Awaken, Rows, TypeOK
    <3>2. inst[i].dormant /\ inst'[i].href = inst[i].href
      BY <1>1, <2>3, <3>1, AwakenedRow
    <3>3. NoWorse(i)' /\ FoundByCheck(i)'
      BY <1>1, <2>1, <3>2 DEF NoWorse, FoundByCheck
    <3> QED  BY <1>2, <2>1, <3>3 DEF Steady
  <2> QED  BY <2>2, <2>3
<1>7. ASSUME NEW p \in Task, Killed(p) PROVE Steady(i)'
  <2>1. UNCHANGED inst /\ End(p) /\ Forgotten(p) /\ pc'[p] = "idle"
    BY <1>7, KilledStep, EndType
  <2>2. \A q \in Task : q # p => Spared(q)
    BY <2>1, EndedTidy
  <2>3. CASE p = Check
    <3>1. Asleep(i)'
      BY <2>1, <2>3, CheckForgets
    <3>2. loaded'[Monitor][i] = loaded[Monitor][i]
      BY <2>2, <2>3 DEF Spared
    <3> QED  BY <1>1, <2>1, <3>1, <3>2, SameRow DEF Steady
  <2>4. CASE p = Monitor
    <3>1. Asleep(i)'
      BY <1>1, <2>2, <2>4, SameAsleep
    <3>2. loaded'[Monitor][i] = NoRow /\ inst'[i] \in Row
      BY <1>1, <2>1, <2>4, ForgottenType
    <3> QED  BY <3>1, <3>2, JustLoaded DEF Steady
  <2> QED  BY <2>3, <2>4
<1>8. ASSUME NEW k \in Instance, ProfileGarbled(k) \/ ToldGone(k) \/ Edit(k) PROVE FALSE
  BY <1>8 DEF ProfileGarbled, ToldGone, Edit, Meddle, Rows
<1>9. ASSUME NEW k \in Instance, Mended(k) PROVE Steady(i)'
  BY <1>3, <1>9 DEF Mended
<1>10. CASE UNCHANGED vars
  BY <1>3, <1>10 DEF vars
<1> QED  BY <1>4, <1>5, <1>6, <1>7, <1>8, <1>9, <1>10, MonitorSteady, CheckSteady, NeighbourSteady
     DEF Next

-----------------------------------------------------------------------------
(***************************************************************************)
(* One bad day.  The failures that a day can bring are too few: one for    *)
(* each of at most four links, one more when nodeinfo is still not known,  *)
(* and that is not more than five; or a failure that the monitor notes     *)
(* twice when it asks for nodeinfo.                                        *)
(***************************************************************************)
LEMMA Mishaps ==
  ASSUME TypeOK, [Next]_vars, ~mishap'
  PROVE  ~mishap
<1>1. CASE MonitorStep
  <2>1. ASSUME NEW i \in Instance, Examine(i) PROVE ~mishap
    <3>1. CASE mishap' = mishap
      BY <3>1
    <3>2. ASSUME NEW row \in Row, Commit(Monitor, i, row) PROVE ~mishap
      BY <3>2, CommitType, Tasks
    <3> QED  BY <2>1, <3>1, <3>2, ExamineStep
  <2>2. ASSUME NEW i \in Instance, Locate(i) PROVE ~mishap
    BY <2>2, LocateStep
  <2> QED  BY <1>1, <2>1, <2>2, ProbeStep, MonitorEndType
        DEF MonitorStep, StartMonitor, AdminsListed, AdminsFailed, Rows, TypeOK
<1>2. CASE CheckStep
  <2>1. ASSUME NEW i \in Instance, Rechecked(i) PROVE ~mishap
    <3>1. CASE StillSilent(i)
      <4>1. NoAnswer(mine[Check][i]) \in Row /\ Commit(Check, i, NoAnswer(mine[Check][i]))
        BY <3>1, InstType, NoAnswerRow, Tasks DEF StillSilent
      <4> QED  BY <4>1, CommitType, Tasks
    <3>2. CASE Back(i) \/ StillBad \/ Unparsable(i)
      BY <3>2 DEF Back, StillBad, Unparsable, TypeOK
    <3> QED  BY <2>1, <3>1, <3>2, RecheckedStep
  <2> QED  BY <1>2, <2>1, StartCheckStep, CheckDoneStep, RecheckType DEF CheckStep
<1>3. CASE NewDay \/ NeighbourSilent \/ NeighbourGarbles
  BY <1>3, NewDayStep, NeighbourStep
<1>4. ASSUME NEW p \in Task, Killed(p) PROVE ~mishap
  BY <1>4, KilledStep
<1>5. ASSUME NEW i \in Instance,
             Heard(i) \/ Awaken(i) \/ ProfileGarbled(i) \/ ToldGone(i) \/ Edit(i) \/ Mended(i)
      PROVE ~mishap
  BY <1>5 DEF Heard, Awaken, ProfileGarbled, ToldGone, Edit, Meddle, Mended, Rows, TypeOK
<1> QED  BY <1>1, <1>2, <1>3, <1>4, <1>5 DEF Next, vars

LEMMA StillFresh ==
  ASSUME NEW i \in Instance, Fresh(i), inst'[i] = inst[i],
         Ahead(i)' => Ahead(i), Asking(i)' => Asking(i)
  PROVE  Fresh(i)'
  BY DEF Fresh

\* Few failures leave an instance online.
LEMMA FewFailures ==
  ASSUME NEW r \in Row, Online(r), r.failures <= 5
  PROVE  GiveUp(Sleep(r)) = r
  BY SleepRow

\* What the monitor makes of an instance that it asks where its nodeinfo is.
LEMMA Locates ==
  ASSUME Links <= 4, TypeOK, Orderly, NEW i \in Instance \ Moved, Steady(i), Survives(i), ~mishap',
         Locate(i), quiet'[i] = 0
  PROVE  Fresh(i)' \/ PendingBack(i)
<1> USE Tasks
<1>1. PICK ans \in Answer(i), links \in 0 .. Links :
        LET row == Located(i, ans, links)
            found == Found(i, ans, links)
            lost == GiveUp(Sleep(Strike(found)))
        IN
        /\ row \in Row /\ found \in Row /\ lost \in Row
        /\ pc[Monitor] = "well-known" /\ cur[Monitor] = i
        /\ IF ans = "good" THEN Good(i) ELSE UNCHANGED quiet
        /\ ~mishap' => (ans # "garbled" => ~Outdated(Monitor, i, row))
        /\ \/ /\ found.href
              /\ inst' = [inst EXCEPT ![i] = found]
              /\ Answered(Monitor, "node")
           \/ /\ ~found.href
              /\ inst' = [inst EXCEPT ![i] = lost]
              /\ \E next \in {"admins", "next"} : Answered(Monitor, next)
        /\ UNCHANGED <<todo, ran>>
  BY ZenonT(40), LocateStep
<1> DEFINE row == Located(i, ans, links)
           found == Found(i, ans, links)
           lost == GiveUp(Sleep(Strike(found)))
           was == loaded[Monitor][i]
<1>2. /\ was \in Row /\ inst[i] \in Row /\ mine[Monitor][i] = was /\ ~was.href
      /\ was.failures \in Nat /\ inst[i].failures \in Nat
  BY <1>1, InstType, Fields DEF Orderly
<1>3. /\ ~Ahead(i)' /\ (Asking(i)' => found.href)
      /\ inst'[i] = IF found.href THEN found ELSE lost
  <2>1. i \notin todo[Monitor] /\ Monitor \in ran
    BY <1>1 DEF Orderly
  <2>2. /\ found.href => pc'[Monitor] = "node" /\ inst'[i] = found
        /\ ~found.href => pc'[Monitor] \in {"admins", "next"} /\ inst'[i] = lost
    BY <1>1, AnsweredType DEF Places, TypeOK
  <2> QED  BY <1>1, <2>1, <2>2 DEF Ahead, Asking
\* The row that is found is that of a healthy instance, and has but one failure
\* when it knows where nodeinfo is.
<1>4. ASSUME Online(found), found.failures <= 4, found.href => found.failures <= 1
      PROVE  Fresh(i)'
  <2>1. found.failures \in Nat /\ found \in Row
    BY <1>1, Fields
  <2>2. /\ Strike(found) \in Row /\ Strike(found).failures <= 5 /\ Online(Strike(found))
        /\ Strike(found).failures \in Nat
    <3>1. /\ Strike(found) \in Row /\ Strike(found).failures <= found.failures + 1
          /\ Strike(found).dormant = found.dormant /\ Strike(found).gone = found.gone
      BY <2>1, StrikeRow
    <3> HIDE DEF found
    <3>2. Strike(found).failures \in Nat
      BY <3>1, Fields
    <3> QED  BY <1>4, <2>1, <3>1, <3>2 DEF Online
  <2>3. lost = Strike(found)
    BY <2>2, FewFailures
  <2> HIDE DEF found, lost
  <2> QED  BY <1>3, <1>4, <2>2, <2>3 DEF Fresh
<1>5. CASE ans = "good"
  <2>1. row = [Healthy(was) EXCEPT !.href = TRUE]
    BY <1>2, <1>5 DEF Located
  <2>2. row \in Row /\ row.failures = 0 /\ ~row.dormant /\ ~row.gone
    <3> DEFINE h == Healthy(was)
    <3>1. h \in Row /\ h.failures = 0 /\ ~h.dormant /\ ~h.gone
      BY <1>2, HealthyRow
    <3>2. row = [h EXCEPT !.href = TRUE]
      BY <2>1
    <3> HIDE DEF h, row
    <3> QED  BY <3>1, <3>2, HrefRow
  <2>3. found = Written(Monitor, i, row) /\ ~Outdated(Monitor, i, row)
    BY <1>1, <1>5 DEF Found
  <2>4. found.failures = 0 /\ Online(found)
    <3>1. CASE row = was
      <4>1. found = inst[i]
        BY <2>2, <2>3, <3>1, WrittenRow
      <4>2. inst[i].failures <= 0 /\ ~inst[i].dormant /\ ~inst[i].gone
        BY <2>2, <3>1 DEF Steady, NoWorse
      <4> QED  BY <1>2, <4>1, <4>2 DEF Online
    <3>2. CASE row # was
      <4>1. row # NoRow
        BY <2>2 DEF NoRow
      <4>2. Alike(found, row)
        BY <2>2, <2>3, <3>2, <4>1, WrittenRow
      <4> QED  BY <2>2, <4>2 DEF Alike, Online
    <3> QED  BY <3>1, <3>2
  <2> HIDE DEF found
  <2> QED  BY <1>4, <2>4
<1>6. CASE ans # "good"
  <2>1. Fresh(i) \/ PendingBack(i)
    BY <1>1, <1>6 DEF Survives
  <2>2. CASE PendingBack(i)
    BY <2>2
  <2>3. CASE Fresh(i)
    <3>1. Online(inst[i]) /\ inst[i].failures = 0
      BY <1>1, <2>3 DEF Fresh, Ahead
    <3>2. CASE ans = "garbled"
      <4>1. found = Strike(inst[i])
        BY <3>2 DEF Found, Located, Struck
      <4>2. found.failures <= 1 /\ Online(found) /\ found.failures \in Nat
        BY <1>2, <3>1, <4>1, StrikeRow, Fields DEF Online
      <4> HIDE DEF found
      <4> QED  BY <1>4, <4>2
    <3>3. CASE ans # "garbled"
      <4>1. found = Written(Monitor, i, row) /\ ~Outdated(Monitor, i, row)
        BY <1>1, <3>3 DEF Found
      <4>2. CASE row = NoRow \/ row = was
        <5>1. found = inst[i]
          BY <1>1, <4>1, <4>2, WrittenRow
        <5> HIDE DEF found
        <5> QED  BY <1>4, <3>1, <5>1
      <4>3. CASE row # NoRow /\ row # was
        <5>1. /\ Alike(found, row) /\ Alike(inst[i], was)
              /\ found.href = (IF row.href # was.href THEN row.href ELSE inst[i].href)
          BY <1>1, <4>1, <4>3, WrittenRow
        <5>2. was.failures = 0 /\ ~was.dormant /\ ~was.gone
          BY <3>1, <5>1 DEF Alike, Online
        <5>3. row.failures <= 4 /\ row.dormant = was.dormant /\ row.gone = was.gone /\ row.href = was.href
          <6>1. ans \in {"error", "none", "unknown"} /\ links \in Nat /\ links <= 4
            BY <1>6, <3>3, LocatedRow, InstanceHealthAssumption
          <6>2. CASE ans = "error"
            <7>1. row = Strike(was)
              BY <1>2, <6>2 DEF Located
            <7> QED  BY <1>1, <1>2, <5>2, <7>1, StrikeRow, Fields
          <6>3. CASE ans = "none"
            <7>1. row = Strike(NoAnswer(was))
              BY <1>2, <6>3 DEF Located
            <7>2. /\ NoAnswer(was) \in Row /\ NoAnswer(was).failures <= 1
                  /\ NoAnswer(was).href = was.href
                  /\ NoAnswer(was).dormant = was.dormant /\ NoAnswer(was).gone = was.gone
              BY <1>2, <5>2, NoAnswerRow
            <7>3. NoAnswer(was).failures \in Nat
              BY <7>2, Fields
            <7>4. row.failures <= NoAnswer(was).failures + 1 /\ row.failures \in Nat
              BY <1>1, <7>1, <7>2, StrikeRow, Fields
            <7>5. row.dormant = was.dormant /\ row.gone = was.gone /\ row.href = was.href
              BY <7>1, <7>2, StrikeRow
            <7> HIDE DEF row
            <7> QED  BY <7>2, <7>3, <7>4, <7>5
          <6>4. CASE ans = "unknown"
            <7>1. row = Strikes(was, links)
              BY <1>2, <6>4 DEF Located
            <7>2. /\ row.failures <= was.failures + links
                  /\ row.dormant = was.dormant /\ row.gone = was.gone /\ row.href = was.href
              <8> HIDE DEF row, was
              <8> QED  BY <1>2, <6>1, <7>1, StrikesRow
            <7>3. row.failures \in Nat
              BY <1>1, Fields
            <7> HIDE DEF row
            <7> QED  BY <5>2, <6>1, <7>2, <7>3
          <6> QED  BY <6>1, <6>2, <6>3, <6>4
        <5>4. was # NoRow
          BY <5>2 DEF NoRow
        <5>5. ~inst[i].href
          BY <1>2, <5>2, <5>4 DEF Steady, FoundByCheck
        <5>6. ~found.href
          BY <5>1, <5>3, <5>5
        <5> HIDE DEF found, row
        <5> QED  BY <1>4, <5>1, <5>2, <5>3, <5>6 DEF Alike, Online
      <4> QED  BY <4>2, <4>3
    <3> QED  BY <3>2, <3>3
  <2> QED  BY <2>1, <2>2, <2>3
<1> QED  BY <1>5, <1>6

\* What it makes of one that it asks for nodeinfo.
LEMMA Examines ==
  ASSUME TypeOK, Orderly, NEW i \in Instance, Steady(i), Survives(i), ~mishap',
         Examine(i), quiet'[i] = 0
  PROVE  Fresh(i)' \/ PendingBack(i)
<1> USE Tasks
<1>1. PICK ans \in Answer(i) :
        LET row == Examined(i, ans) IN
        /\ row \in Row
        /\ pc[Monitor] = "node" /\ cur[Monitor] = i
        /\ IF ans = "good" THEN Good(i) ELSE UNCHANGED quiet
        /\ \/ ans = "garbled" /\ inst' = [inst EXCEPT ![i] = row]
           \/ ans # "garbled" /\ Commit(Monitor, i, row)
        /\ \E next \in {"admins", "next"} : Answered(Monitor, next)
        /\ UNCHANGED <<todo, ran>>
  BY ExamineStep
<1> DEFINE row == Examined(i, ans)
           was == loaded[Monitor][i]
<1>2. /\ was \in Row /\ inst[i] \in Row /\ mine[Monitor][i] = was
      /\ was.failures \in Nat /\ inst[i].failures \in Nat
  BY InstType, Fields DEF Orderly
<1>3. ~Ahead(i)' /\ ~Asking(i)'
  <2>1. i \notin todo[Monitor] /\ Monitor \in ran
    BY <1>1 DEF Orderly
  <2>2. pc'[Monitor] \in {"admins", "next"}
    BY <1>1, AnsweredType DEF Places
  <2> QED  BY <1>1, <2>1, <2>2 DEF Ahead, Asking
<1>4. ASSUME Online(inst'[i]) PROVE Fresh(i)'
  BY <1>3, <1>4 DEF Fresh
<1>5. ans # "garbled" => inst'[i] = Written(Monitor, i, row) /\ ~Outdated(Monitor, i, row)
  BY <1>1, CommitType
<1>6. CASE ans = "good"
  <2>1. row \in Row /\ row.failures = 0 /\ ~row.dormant /\ ~row.gone
    BY <1>2, <1>6, HealthyRow DEF Examined
  <2>2. CASE row = was
    <3>1. inst'[i] = inst[i]
      BY <1>5, <1>6, <2>1, <2>2, WrittenRow
    <3>2. ~inst[i].dormant /\ ~inst[i].gone
      BY <2>1, <2>2 DEF Steady, NoWorse
    <3> QED  BY <1>4, <3>1, <3>2 DEF Online
  <2>3. CASE row # was
    <3>1. row # NoRow
      BY <2>1 DEF NoRow
    <3>2. Alike(inst'[i], row)
      BY <1>5, <1>6, <2>1, <2>3, <3>1, WrittenRow
    <3> QED  BY <1>4, <2>1, <3>2 DEF Alike, Online
  <2> QED  BY <2>2, <2>3
<1>7. CASE ans # "good"
  <2>1. Fresh(i) \/ PendingBack(i)
    BY <1>1, <1>7 DEF Survives
  <2>2. CASE PendingBack(i)
    BY <2>2
  <2>3. CASE Fresh(i)
    <3>1. Online(inst[i]) /\ inst[i].failures <= 1
      BY <1>1, <2>3 DEF Fresh, Asking
    \* The row after a failure, and after one that is noted twice.
    <3>2. ASSUME NEW r \in Row, r.failures <= 1, Online(r)
          PROVE  /\ Online(Sleep([Strike(r) EXCEPT !.href = FALSE]))
                 /\ Online(Sleep([Strike(NoAnswer(r)) EXCEPT !.href = FALSE]))
                 /\ Online(GiveUp(Sleep(Strike(r))))
      <4>1. /\ r.failures \in Nat /\ Strike(r) \in Row /\ Strike(r).failures <= 2
            /\ Strike(r).failures \in Nat /\ Online(Strike(r))
        <5>1. Strike(r) \in Row /\ Strike(r).failures <= r.failures + 1 /\ r.failures \in Nat
          BY StrikeRow, Fields
        <5>2. Strike(r).failures \in Nat
          BY <5>1, Fields
        <5> QED  BY <3>2, <5>1, <5>2, StrikeRow DEF Online
      <4>2. /\ NoAnswer(r) \in Row /\ NoAnswer(r).failures <= 2 /\ Online(NoAnswer(r))
            /\ NoAnswer(r).failures \in Nat
        <5>1. /\ NoAnswer(r) \in Row /\ NoAnswer(r).failures <= r.failures + 1
              /\ Online(NoAnswer(r))
          BY <3>2, NoAnswerRow DEF Online
        <5>2. NoAnswer(r).failures \in Nat
          BY <5>1, Fields
        <5> QED  BY <3>2, <4>1, <5>1, <5>2
      <4>3. ASSUME NEW t \in Row, t.failures <= 3, Online(t)
            PROVE Online(Sleep([t EXCEPT !.href = FALSE])) /\ Online(GiveUp(Sleep(t)))
        <5> DEFINE u == [t EXCEPT !.href = FALSE]
        <5>0. t.failures <= 5 /\ t.dormant = FALSE /\ t.gone = FALSE
          BY <4>3, Fields DEF Online
        <5>1. u \in Row /\ u.failures = t.failures /\ Online(u) /\ t.failures <= 5
          BY <4>3, <5>0, HrefRow DEF Online
        <5> HIDE DEF u
        <5>2. Sleep(u) = u /\ GiveUp(Sleep(t)) = t
          BY <4>3, <5>1, SleepRow, FewFailures
        <5> QED  BY <4>3, <5>1, <5>2 DEF u
      <4>4. /\ Strike(NoAnswer(r)) \in Row /\ Strike(NoAnswer(r)).failures <= 3
            /\ Online(Strike(NoAnswer(r)))
        <5>1. /\ Strike(NoAnswer(r)) \in Row
              /\ Strike(NoAnswer(r)).failures <= NoAnswer(r).failures + 1
              /\ Online(Strike(NoAnswer(r)))
          BY <4>2, StrikeRow DEF Online
        <5>2. Strike(NoAnswer(r)).failures \in Nat
          BY <5>1, Fields
        <5> QED  BY <4>2, <5>1, <5>2
      <4>5. Strike(r).failures <= 3
        BY <4>1
      <4> QED  BY <4>1, <4>3, <4>4, <4>5
    <3>3. CASE ans = "garbled"
      <4>1. inst'[i] = GiveUp(Sleep(Strike(inst[i])))
        BY <1>1, <3>3 DEF Examined, Struck, TypeOK
      <4> QED  BY <1>2, <1>4, <3>1, <3>2, <4>1
    <3>4. CASE ans # "garbled"
      <4>1. CASE row = NoRow \/ row = was
        <5>1. inst'[i] = inst[i]
          BY <1>1, <1>5, <3>4, <4>1, WrittenRow
        <5> QED  BY <1>4, <3>1, <5>1
      <4>2. CASE row # NoRow /\ row # was
        <5>1. Alike(inst'[i], row) /\ Alike(inst[i], was)
          BY <1>1, <1>5, <3>4, <4>2, WrittenRow
        <5>2. was.failures <= 1 /\ Online(was)
          BY <3>1, <5>1 DEF Alike, Online
        <5>3. Online(row)
          <6>1. ans \in {"error", "none", "unknown"}
            BY <1>7, <3>4, ExaminedRow
          <6>2. ans = "error" => row = Sleep([Strike(was) EXCEPT !.href = FALSE])
            BY <1>2 DEF Examined
          <6>3. ans = "none" => row = Sleep([Strike(NoAnswer(was)) EXCEPT !.href = FALSE])
            BY <1>2 DEF Examined
          <6>4. ans = "unknown" => row = was
            BY <1>2 DEF Examined
          <6> HIDE DEF row, was
          <6>5. ans # "unknown"
            BY <4>2, <6>4
          <6> QED  BY <1>2, <3>2, <5>2, <6>1, <6>2, <6>3, <6>5
        <5> QED  BY <1>4, <5>1, <5>3 DEF Alike, Online
      <4> QED  BY <4>1, <4>2
    <3> QED  BY <3>3, <3>4
  <2> QED  BY <2>1, <2>2, <2>3
<1> QED  BY <1>6, <1>7

LEMMA MonitorSurvives ==
  ASSUME Links <= 4, TypeOK, Orderly, MonitorStep, NEW i \in Instance \ Moved,
         Steady(i), Survives(i), ~mishap'
  PROVE  Survives(i)'
<1> USE Tasks
<1>1. Spared(Check) /\ (PendingBack(i)' <=> PendingBack(i))
  BY MonitorSpares DEF Spared, PendingBack
<1>2. ASSUME quiet'[i] = 0, Fresh(i)' \/ PendingBack(i) PROVE Survives(i)'
  BY <1>1, <1>2 DEF Survives
<1>3. ASSUME UNCHANGED quiet, inst'[i] = inst[i],
             Fresh(i) => (Ahead(i)' => Ahead(i)) /\ (Asking(i)' => Asking(i))
      PROVE Survives(i)'
  BY <1>1, <1>3, StillFresh DEF Survives
<1>4. pc[Monitor] # "idle" => Monitor \in ran
  BY DEF Orderly
<1>5. CASE StartMonitor
  <2>1. UNCHANGED <<inst, quiet>> /\ Ahead(i) /\ pc'[Monitor] = "next"
    BY <1>5, StartMonitorType DEF StartMonitor, Ahead
  <2> QED  BY <1>3, <2>1 DEF Asking
<1>6. ASSUME NEW k \in Instance, Probe(k) PROVE Survives(i)'
  <2>1. /\ UNCHANGED <<inst, quiet, ran>> /\ k \in todo[Monitor]
        /\ cur'[Monitor] = k /\ todo'[Monitor] = todo[Monitor] \ {k}
    <3>1. \E what \in Places : Ask(Monitor, k, what)
      BY <1>6, ProbeStep DEF Places
    <3> QED  BY <1>6, <3>1, ProbeStep, AskType DEF TypeOK
  <2>2. CASE i = k
    <3>1. Ahead(i)
      BY <2>1, <2>2 DEF Ahead
    <3>2. Fresh(i) => Fresh(i)'
      BY <2>1, <3>1 DEF Fresh, Online
    <3> QED  BY <1>1, <2>1, <3>2 DEF Survives
  <2>3. CASE i # k
    BY <1>3, <2>1, <2>3 DEF Ahead, Asking
  <2> QED  BY <2>2, <2>3
<1>7. ASSUME NEW k \in Instance, k # i, NEW next \in {"node", "admins", "next"},
             Answered(Monitor, next), cur[Monitor] = k, UNCHANGED <<todo, ran>>
      PROVE (Ahead(i)' => Ahead(i)) /\ (Asking(i)' => Asking(i))
  <2>1. pc'[Monitor] = next /\ (next # "next" => cur'[Monitor] = k)
    BY <1>7, AnsweredType DEF Places
  <2> QED  BY <1>7, <2>1 DEF Ahead, Asking
<1>8. ASSUME NEW k \in Instance, Locate(k) PROVE Survives(i)'
  <2>1. CASE k = i
    BY <1>2, <1>8, <2>1, Locates DEF Survives
  <2>2. CASE k # i
    <3>1. /\ inst'[i] = inst[i] /\ quiet'[i] = quiet[i]
          /\ (Ahead(i)' => Ahead(i)) /\ (Asking(i)' => Asking(i))
      <4>1. /\ cur[Monitor] = k /\ UNCHANGED <<todo, ran>>
            /\ Good(k) \/ UNCHANGED quiet
            /\ \E r \in Row : inst' = [inst EXCEPT ![k] = r]
            /\ \E next \in {"node", "admins", "next"} : Answered(Monitor, next)
        BY <1>8, LocateStep
      <4> QED  BY <1>7, <2>2, <4>1 DEF Good, TypeOK
    <3> QED  BY <1>1, <3>1, StillFresh DEF Survives
  <2> QED  BY <2>1, <2>2
<1>9. ASSUME NEW k \in Instance, Examine(k) PROVE Survives(i)'
  <2>1. CASE k = i
    BY <1>2, <1>9, <2>1, Examines DEF Survives
  <2>2. CASE k # i
    <3>1. PICK ans \in Answer(k), next \in {"admins", "next"} :
            /\ cur[Monitor] = k
            /\ IF ans = "good" THEN Good(k) ELSE UNCHANGED quiet
            /\ \/ inst' = [inst EXCEPT ![k] = Examined(k, ans)]
               \/ Commit(Monitor, k, Examined(k, ans)) /\ Examined(k, ans) \in Row
            /\ Answered(Monitor, next) /\ UNCHANGED <<todo, ran>>
      BY <1>9, ExamineStep
    <3>2. inst'[i] = inst[i]
      <4>1. mine[Monitor][i] = loaded[Monitor][i] /\ mine[Monitor][i] \in Row
        BY InstType DEF Orderly
      <4>2. Commit(Monitor, k, Examined(k, ans)) /\ Examined(k, ans) \in Row =>
              inst'[i] = Written(Monitor, i, mine[Monitor][i])
        BY <2>2, CommitType
      <4> QED  BY <2>2, <3>1, <4>1, <4>2, WrittenRow DEF TypeOK
    <3>3. quiet'[i] = quiet[i]
      BY <2>2, <3>1 DEF Good, TypeOK
    <3>4. (Ahead(i)' => Ahead(i)) /\ (Asking(i)' => Asking(i))
      BY <1>7, <2>2, <3>1
    <3> QED  BY <1>1, <3>2, <3>3, <3>4, StillFresh DEF Survives
  <2> QED  BY <2>1, <2>2
<1>10. ASSUME NEW k \in Instance, AdminsListed(k) \/ AdminsFailed(k) PROVE Survives(i)'
  <2>1. /\ pc[Monitor] = "admins" /\ cur[Monitor] = k /\ Answered(Monitor, "next")
        /\ UNCHANGED <<todo, ran, quiet>>
        /\ inst' = inst \/ inst' = [inst EXCEPT ![k] = Strike(@)]
    BY <1>10 DEF AdminsListed, AdminsFailed, Rows
  <2>2. pc'[Monitor] = "next"
    BY <2>1, AnsweredType DEF Places
  <2>3. (Ahead(i)' => Ahead(i)) /\ ~Asking(i)'
    BY <2>1, <2>2 DEF Ahead, Asking
  <2>4. CASE inst'[i] = inst[i]
    BY <1>3, <2>1, <2>3, <2>4
  <2>5. CASE inst'[i] # inst[i]
    <3>1. k = i /\ inst'[i] = Strike(inst[i])
      BY <2>1, <2>5 DEF TypeOK
    <3>2. ~Ahead(i)'
      BY <1>4, <2>1, <2>2, <3>1 DEF Ahead, Orderly
    <3>3. Fresh(i) => Fresh(i)'
      BY <2>3, <3>1, <3>2, InstType, StrikeRow DEF Fresh, Online
    <3> QED  BY <1>1, <2>1, <3>3 DEF Survives
  <2> QED  BY <2>4, <2>5
<1>11. CASE MonitorDone \/ \E k \in Instance : MonitorAborted(k)
  <2>1. /\ End(Monitor) /\ UNCHANGED <<inst, quiet, ran>> /\ Monitor \in ran
        /\ pc'[Monitor] = "idle" /\ todo'[Monitor] = {}
    BY <1>4, <1>11, MonitorEndType, EndType DEF MonitorDone, MonitorAborted
  <2> QED  BY <1>3, <2>1 DEF Ahead, Asking
<1> QED  BY <1>5, <1>6, <1>8, <1>9, <1>10, <1>11 DEF MonitorStep

LEMMA WrittenSurvives ==
  ASSUME TypeOK, NEW i \in Instance, Steady(i), Survives(i), Spared(Monitor), TypeOK',
         UNCHANGED <<ran, quiet>>, NEW row \in Row,
         inst'[i] = Written(Check, i, row), ~Outdated(Check, i, row),
         \/ row = mine[Check][i]
         \/ /\ mine[Check][i] = loaded[Check][i] /\ loaded[Check][i].dormant
            /\ row.href = loaded[Check][i].href
  PROVE  Survives(i)'
<1>1. NoWorse(i) /\ FoundByCheck(i) /\ Asleep(i)
  BY DEF Steady
<1>2. /\ row # loaded[Check][i] => loaded[Check][i].dormant
      /\ row.href # loaded[Check][i].href => ~row.dormant
  BY <1>1 DEF Asleep
<1>3. /\ ~inst[i].dormant => inst'[i] = inst[i]
      /\ loaded[Check][i].dormant /\ ~row.dormant /\ ~row.gone =>
           inst'[i].failures = row.failures /\ Online(inst'[i])
  BY <1>1, <1>2, CheckWrites DEF Spared
<1>4. CASE Fresh(i)
  BY <1>3, <1>4 DEF Survives, Fresh, Online, Ahead, Asking, Spared
<1>5. CASE PendingBack(i)
  <2>1. inst'[i].failures = 0 /\ Online(inst'[i])
    BY <1>3, <1>5 DEF PendingBack
  <2> QED  BY <2>1 DEF Survives, Fresh
<1> QED  BY <1>4, <1>5 DEF Survives

LEMMA NeighbourSurvives ==
  ASSUME TypeOK, NeighbourSilent \/ NeighbourGarbles, NEW i \in Instance, Steady(i),
         Survives(i), TypeOK', ~mishap'
  PROVE  Survives(i)'
<1>1. Spared(Monitor) /\ UNCHANGED <<ran, quiet>> /\ mine[Check][i] \in Row
  BY NeighbourSpares, InstType, Tasks
<1>2. CASE inst'[i] = Written(Check, i, mine[Check][i]) /\ ~Outdated(Check, i, mine[Check][i])
  BY <1>1, <1>2, WrittenSurvives
<1>3. CASE inst'[i] = inst[i] /\ mine[Check][i] = loaded[Check][i]
  BY <1>1, <1>3 DEF Survives, Fresh, PendingBack, Ahead, Asking, Spared
<1> QED  BY <1>2, <1>3, NeighbourStep

LEMMA CheckSurvives ==
  ASSUME TypeOK, Orderly, CheckStep, NEW i \in Instance, Steady(i), Survives(i), TypeOK', ~mishap'
  PROVE  Survives(i)'
<1> USE Tasks
<1>1. /\ Spared(Monitor)
      /\ NoWorse(i) /\ FoundByCheck(i) /\ Asleep(i)
  BY CheckSpares DEF Steady
<1>2. ASSUME ran' \cap {Monitor} = ran \cap {Monitor}, inst'[i] = inst[i], Fresh(i)
      PROVE Fresh(i)'
  BY <1>1, <1>2 DEF Fresh, Ahead, Asking, Spared
<1>3. mine[Check][i] = loaded[Check][i] => ~PendingBack(i)
  BY DEF PendingBack
<1>4. CASE StartCheck
  <2>1. mine[Check] = loaded[Check]
    BY <1>4 DEF StartCheck, Orderly
  <2>2. UNCHANGED quiet /\ ran' \cap {Monitor} = ran \cap {Monitor}
    BY <1>4 DEF StartCheck
  <2>3. Fresh(i) => inst'[i] = inst[i]
    BY <1>4, StartCheckStep DEF Fresh, Online
  <2> QED  BY <1>2, <1>3, <2>1, <2>2, <2>3 DEF Survives
<1>5. ASSUME UNCHANGED <<ran, quiet>>, NEW row \in Row,
             inst'[i] = Written(Check, i, row), ~Outdated(Check, i, row),
             \/ row = mine[Check][i]
             \/ /\ mine[Check][i] = loaded[Check][i] /\ loaded[Check][i].dormant
                /\ row.href = loaded[Check][i].href
      PROVE Survives(i)'
  BY <1>1, <1>5, WrittenSurvives
<1>6. CASE CheckDone
  BY <1>5, <1>6, CheckDoneStep, InstType
<1>7. ASSUME NEW k \in Instance, Recheck(k) PROVE Survives(i)'
  <2>1. /\ Ask(Check, k, "node") /\ k \in todo[Check] /\ UNCHANGED <<inst, ran, quiet>>
    BY <1>7, RecheckType
  <2>2. Fresh(i) => Fresh(i)'
    BY <1>2, <2>1
  <2>3. PendingBack(i) => PendingBack(i)'
    <3>1. i = k => ~PendingBack(i)
      BY <1>1, <1>3, <2>1 DEF Asleep
    <3>2. i # k => loaded'[Check][i] = loaded[Check][i] /\ mine'[Check][i] = mine[Check][i]
      BY <2>1, AskType DEF Places
    <3> QED  BY <3>1, <3>2 DEF PendingBack
  <2> QED  BY <2>1, <2>2, <2>3 DEF Survives
<1>8. ASSUME NEW k \in Instance, Rechecked(k) PROVE Survives(i)'
  <2>1. /\ pc[Check] = "node" /\ cur[Check] = k /\ UNCHANGED ran
        /\ Back(k) \/ StillBad \/ StillSilent(k) \/ Unparsable(k)
    BY <1>8, RecheckedStep
  <2>2. CASE Back(k)
    <3>1. /\ mine' = [mine EXCEPT ![Check][k] = Returned(@)] /\ UNCHANGED <<inst, loaded>>
          /\ Good(k)
      BY <2>2 DEF Back
    <3>2. CASE i = k
      <4>1. mine[Check][i] \in Row /\ mine'[Check][i] = Returned(mine[Check][i])
        BY <3>1, <3>2, InstType DEF TypeOK
      <4>2. mine[Check][i] = loaded[Check][i] /\ ToRecheck(mine[Check][i])
        BY <1>1, <2>1, <3>2 DEF Asleep
      <4>3. PendingBack(i)'
        BY <3>1, <4>1, <4>2, ReturnedRow DEF PendingBack, ToRecheck
      <4> QED  BY <4>3 DEF Survives
    <3>3. CASE i # k
      <4>1. mine'[Check][i] = mine[Check][i] /\ quiet'[i] = quiet[i]
        BY <3>1, <3>3 DEF Good, TypeOK
      <4> QED  BY <1>2, <2>1, <3>1, <4>1 DEF Survives, PendingBack
    <3> QED  BY <3>2, <3>3
  <2>3. CASE StillBad
    BY <1>2, <2>1, <2>3 DEF Survives, PendingBack, StillBad
  <2>4. CASE StillSilent(k)
    <3>1. Commit(Check, k, NoAnswer(mine[Check][k])) /\ UNCHANGED quiet
      BY <2>4 DEF StillSilent
    <3>2. mine[Check][i] \in Row /\ NoAnswer(mine[Check][k]) \in Row
      BY InstType, NoAnswerRow
    <3>3. CASE i = k
      <4> DEFINE row == NoAnswer(mine[Check][k])
      <4>1. inst'[i] = Written(Check, i, row) /\ ~Outdated(Check, i, row)
        BY <3>1, <3>2, <3>3, CommitType
      <4>2. mine[Check][i] = loaded[Check][i] /\ loaded[Check][i].dormant
        BY <1>1, <2>1, <3>3 DEF Asleep, ToRecheck
      <4>3. row.href = loaded[Check][i].href
        BY <3>2, <3>3, <4>2, NoAnswerRow
      <4> HIDE DEF row
      <4> QED  BY <1>5, <2>1, <3>1, <3>2, <4>1, <4>2, <4>3 DEF row
    <3>4. CASE i # k
      <4>1. inst'[i] = Written(Check, i, mine[Check][i]) /\ ~Outdated(Check, i, mine[Check][i])
        BY <3>1, <3>2, <3>4, CommitType
      <4> QED  BY <1>5, <2>1, <3>1, <3>2, <4>1
    <3> QED  BY <3>3, <3>4
  <2>5. CASE Unparsable(k)
    <3>1. Pending(Check) = {} /\ UNCHANGED <<inst, quiet>>
      BY <2>5 DEF Unparsable
    <3>2. mine[Check][i] = loaded[Check][i]
      BY <3>1 DEF Pending
    <3> QED  BY <1>2, <1>3, <2>1, <3>1, <3>2 DEF Survives
  <2> QED  BY <2>1, <2>2, <2>3, <2>4, <2>5
<1> QED  BY <1>4, <1>6, <1>7, <1>8 DEF CheckStep

LEMMA NextSurvives ==
  ASSUME Links <= 4, Days > 0, TypeOK, Orderly, [Next]_vars, NEW i \in Instance \ Moved,
         Steady(i), Survives(i), TypeOK', ~mishap'
  PROVE  Survives(i)'
<1> USE Tasks
<1>1. inst[i] \in Row /\ quiet[i] \in 0 .. Days
  BY InstType
<1>2. ASSUME UNCHANGED <<pc, todo, cur, loaded, mine, ran>>, quiet'[i] = quiet[i],
             Fresh(i) => inst'[i] = inst[i]
      PROVE Survives(i)'
  BY <1>2 DEF Survives, Fresh, PendingBack, Ahead, Asking
<1>3. CASE NewDay
  <2>1. quiet'[i] = Later(quiet[i])
    BY <1>3, NewDayStep
  <2>2. quiet'[i] # 0
    BY <1>1, <2>1, InstanceHealthAssumption DEF Later
  <2> QED  BY <2>2 DEF Survives
<1>4. ASSUME NEW k \in Instance, Heard(k) PROVE Survives(i)'
  <2>1. /\ UNCHANGED <<pc, todo, cur, loaded, mine, ran>>
        /\ inst'[i] = IF i = k THEN Healthy(inst[i]) ELSE inst[i]
        /\ i # k => quiet'[i] = quiet[i]
    BY <1>4 DEF Heard, Rows, TypeOK, Good
  <2>2. CASE i = k
    <3>1. Fresh(i)'
      BY <1>1, <2>1, <2>2, HealthyRow DEF Fresh, Online
    <3> QED  BY <3>1 DEF Survives
  <2> QED  BY <1>2, <2>1, <2>2
<1>5. ASSUME NEW k \in Instance, Awaken(k) PROVE Survives(i)'
  <2>1. UNCHANGED <<pc, todo, cur, loaded, mine, ran, quiet>>
    BY <1>5 DEF Awaken
  <2>2. inst'[i] = inst[i] \/ inst'[i] \in Awakened(inst[i])
    BY <1>5 DEF Awaken, Rows, TypeOK
  <2>3. Fresh(i) => inst'[i] = inst[i]
    BY <1>1, <2>2, AwakenedRow DEF Fresh, Online
  <2> QED  BY <1>2, <2>1, <2>3
<1>6. ASSUME NEW p \in Task, Killed(p) PROVE Survives(i)'
  <2>1. /\ UNCHANGED <<inst, ran, quiet>> /\ End(p) /\ Forgotten(p) /\ Pending(p) = {}
        /\ pc'[p] = "idle" /\ todo'[p] = {} /\ pc[p] # "idle"
    BY <1>6, KilledStep, EndType DEF Killed
  <2>2. \A q \in Task : q # p => Spared(q)
    BY <2>1, EndedTidy
  <2>3. CASE p = Check
    <3>1. ~PendingBack(i)
      BY <2>1, <2>3 DEF Pending, PendingBack
    <3> QED  BY <2>1, <2>2, <2>3, <3>1 DEF Survives, Fresh, Ahead, Asking, Spared
  <2>4. CASE p = Monitor
    <3>1. ~Ahead(i)' /\ ~Asking(i)'
      BY <2>1, <2>4 DEF Ahead, Asking, Orderly
    <3> QED  BY <2>1, <2>2, <2>4, <3>1 DEF Survives, Fresh, PendingBack, Spared
  <2> QED  BY <2>3, <2>4
<1>7. ASSUME NEW k \in Instance, ProfileGarbled(k) \/ ToldGone(k) \/ Edit(k) PROVE FALSE
  BY <1>7 DEF ProfileGarbled, ToldGone, Edit, Meddle, Rows
<1>8. ASSUME NEW k \in Instance, Mended(k) PROVE Survives(i)'
  BY <1>2, <1>8 DEF Mended
<1>9. CASE UNCHANGED vars
  BY <1>2, <1>9 DEF vars
<1> QED  BY <1>3, <1>4, <1>5, <1>6, <1>7, <1>8, <1>9, MonitorSurvives, CheckSurvives,
     NeighbourSurvives DEF Next

LEMMA InitHealth == Init => HealthInv
<1> SUFFICES ASSUME Init PROVE HealthInv
  OBVIOUS
<1>1. TypeOK
  BY InitType
<1>2. Orderly
  BY Tasks DEF Init, Orderly
<1>3. ASSUME NEW i \in Instance
      PROVE  NoWorse(i) /\ FoundByCheck(i) /\ Asleep(i) /\ Fresh(i)
  <2>1. /\ loaded[Monitor][i] = NoRow /\ mine[Check][i] = NoRow /\ loaded[Check][i] = NoRow
        /\ NoRow.dormant = TRUE /\ pc[Check] = "idle" /\ pc[Monitor] = "idle"
        /\ todo[Check] = {} /\ inst[i].failures = 0 /\ Online(inst[i])
    <3>1. inst[i] \in {[failures |-> 0, dormant |-> FALSE, gone |-> FALSE, tryIn |-> Never,
                        href |-> known] : known \in BOOLEAN}
      BY DEF Init
    <3> QED  BY <3>1, Tasks DEF Init, NoRow, Online
  <2> QED  BY <2>1 DEF NoWorse, FoundByCheck, Asleep, Fresh, Asking
<1> QED  BY <1>1, <1>2, <1>3 DEF HealthInv, Survives

LEMMA NextHealth ==
  ASSUME Links <= 4, Days > 0, HealthInv, [Next]_vars
  PROVE  HealthInv'
<1>1. TypeOK' /\ Orderly'
  BY NextType, NextOrderly DEF HealthInv
<1>2. ASSUME ~mishap', NEW i \in Instance PROVE (NoWorse(i) /\ FoundByCheck(i) /\ Asleep(i))'
  <2>1. TypeOK /\ Orderly /\ Steady(i)
    BY <1>2, Mishaps DEF HealthInv, Steady
  <2>2. Steady(i)'
    BY <1>1, <1>2, <2>1, NextSteady
  <2> QED  BY <2>2 DEF Steady
<1>3. ASSUME ~mishap', NEW i \in Instance \ Moved PROVE Survives(i)'
  <2>1. TypeOK /\ Orderly /\ Steady(i) /\ Survives(i)
    BY <1>3, Mishaps DEF HealthInv, Steady
  <2> QED  BY <1>1, <1>3, <2>1, NextSurvives
<1> QED  BY <1>1, <1>2, <1>3 DEF HealthInv

\* One bad day puts no instance to sleep, however many there are and however the
\* two daily tasks, arriving activities and announcements fall between each
\* other's requests and commits, as long as none of the mishaps occurs: the
\* failures that monitor_healthy_instances can note in a day stay below its
\* threshold.  That is so for at most four links in a nodeinfo document; with
\* five a single answer that is not understood puts a healthy instance to sleep.
THEOREM SurvivesOneBadDay ==
  ASSUME Links <= 4, Days > 0
  PROVE  Spec => []OneBadDay
<1>1. HealthInv /\ [Next]_vars => HealthInv'
  BY NextHealth
<1>2. HealthInv => OneBadDay
  BY DEF HealthInv, OneBadDay, Survives, Fresh, PendingBack, NoRow
<1> QED  BY <1>1, <1>2, InitHealth, PTL DEF Spec

-----------------------------------------------------------------------------
(***************************************************************************)
(* Bans.                                                                   *)
(***************************************************************************)
LEMMA Times == /\ Forever \in Until /\ 1 \in Until /\ None \notin Until
               /\ \A until \in Until : EndOf(until) \in Until
  BY BansAssumption DEF Forever, Until, None, EndOf

\* What a worker has in its hands.
LEMMA Jobs ==
  ASSUME BanTypeOK, NEW w \in Worker, job[w] # Idle
  PROVE  /\ job[w] \in Job
         /\ job[w].do \in Bans \cup Unbans \cup {"night"} /\ job[w].at \in Site
         /\ job[w].until \in Until /\ job[w].n \in Nat
         /\ job[w].seen \in Until \cup {None}
         /\ job[w].step \in {"row", "flag", "clear"}
  BY DEF BanTypeOK, Job

LEMMA Somewhere ==
  \A w \in Worker, step \in {"row", "flag", "clear"} : At(w, step) => job[w] # Idle
  BY DEF At

\* What jobs turn into: a step further with a number, or nothing.
LEMMA Further ==
  ASSUME BanTypeOK, NEW w \in Worker, job[w] # Idle,
         NEW step \in {"row", "flag", "clear"}, NEW n \in Nat,
         job' = [job EXCEPT ![w].step = step, ![w].n = n]
  PROVE  /\ job' \in [Worker -> {Idle} \cup Job]
         /\ job'[w].do = job[w].do /\ job'[w].at = job[w].at
         /\ job'[w].step = step /\ job'[w].seen = job[w].seen
         /\ job'[w].until = job[w].until /\ job'[w].n = n
         /\ job'[w] # Idle
         /\ \A v \in Worker : v # w => job'[v] = job[v]
<1> DEFINE j == [job[w] EXCEPT !.step = step, !.n = n]
<1>1. /\ j \in Job /\ j.do = job[w].do /\ j.at = job[w].at
      /\ j.step = step /\ j.seen = job[w].seen
      /\ j.until = job[w].until /\ j.n = n
  BY Jobs DEF Job
<1>2. j # Idle
  BY <1>1, Jobs DEF Idle, Bans, Unbans
<1>3. job' = [job EXCEPT ![w] = j]
  BY DEF BanTypeOK
<1> HIDE DEF j
<1> QED  BY ZenonT(40), <1>1, <1>2, <1>3 DEF BanTypeOK

LEMMA Ended ==
  ASSUME BanTypeOK, NEW w \in Worker, Done(w)
  PROVE  /\ job' \in [Worker -> {Idle} \cup Job] /\ job'[w] = Idle
         /\ \A v \in Worker : v # w => job'[v] = job[v]
  BY DEF BanTypeOK, Done

LEMMA Begun ==
  ASSUME BanTypeOK, NEW w \in Worker, NEW do \in Bans \cup Unbans \cup {"night"},
         NEW i \in Site, NEW until \in Until, NEW n \in Nat,
         Begin(w, do, i, until, n)
  PROVE  /\ job' \in [Worker -> {Idle} \cup Job] /\ job[w] = Idle
         /\ job'[w].do = do /\ job'[w].at = i /\ job'[w].step = "row"
         /\ job'[w].seen = ban[i] /\ job'[w].until = until /\ job'[w].n = n
         /\ job'[w] # Idle
         /\ \A v \in Worker : v # w => job'[v] = job[v]
<1> DEFINE j == [do |-> do, at |-> i, step |-> "row", until |-> until, n |-> n,
                 seen |-> ban[i]]
<1>1. j \in Job
  BY DEF BanTypeOK, Job
<1>2. job' = [job EXCEPT ![w] = j]
  BY DEF Begin
<1>3. /\ j.do = do /\ j.at = i /\ j.step = "row" /\ j.seen = ban[i]
      /\ j.until = until /\ j.n = n
  OBVIOUS
<1>4. j # Idle
  BY <1>3 DEF Idle, Bans, Unbans
<1> HIDE DEF j
<1> QED  BY <1>1, <1>2, <1>3, <1>4 DEF BanTypeOK, Begin

LEMMA Onward ==
  ASSUME BanTypeOK, NEW w \in Worker, WriteFlag(w)
  PROVE  job' = [job EXCEPT ![w].step = "clear", ![w].n = job[w].n]
<1>1. job[w] # Idle  BY Somewhere DEF WriteFlag
<1>2. job[w] \in Job  BY <1>1, Jobs
<1> QED  BY <1>2 DEF WriteFlag, BanTypeOK, Job

LEMMA LatestType ==
  ASSUME BanTypeOK, NEW w \in Worker, job[w] # Idle
  PROVE  Latest(w) \in [Site -> Nat]
<1>1. Number(w) \in Nat
  BY Jobs DEF BanTypeOK, Number
<1> QED  BY <1>1, Jobs DEF BanTypeOK, Latest, Place

LEMMA NumberedType ==
  ASSUME BanTypeOK, NEW w \in Worker, job[w] # Idle,
         NEW step \in {"row", "flag", "clear"}, Numbered(w, step)
  PROVE  /\ written' \in Nat /\ last' \in [Site -> Nat]
         /\ job' \in [Worker -> {Idle} \cup Job]
         /\ job'[w].do = job[w].do /\ job'[w].at = job[w].at
         /\ job'[w].step = step /\ job'[w].seen = job[w].seen
         /\ job'[w].until = job[w].until /\ job'[w].n = Number(w)
         /\ job'[w] # Idle
         /\ \A v \in Worker : v # w => job'[v] = job[v]
<1>1. Number(w) \in Nat
  BY Jobs DEF BanTypeOK, Number
<1>2. written' \in Nat /\ last' \in [Site -> Nat]
  BY <1>1, LatestType, Jobs DEF BanTypeOK, Numbered
<1>3. job' = [job EXCEPT ![w].step = step, ![w].n = Number(w)]
  BY DEF Numbered
<1> QED  BY ZenonT(40), <1>1, <1>2, <1>3, Further

LEMMA MessageType ==
  ASSUME BanTypeOK, NEW w \in Worker, job[w] # Idle
  PROVE  Message(w) \subseteq Letter
<1>1. Number(w) \in Nat
  BY Jobs DEF BanTypeOK, Number
<1> QED  BY <1>1, Jobs, BansAssumption DEF BanTypeOK, Message, Letter

LEMMA FlagType ==
  ASSUME BanTypeOK, NEW i \in Site, NEW to \in {"good", "banned"}
  PROVE  /\ SetFlag(i, to) \in [Site -> {"none", "good", "banned"}]
         /\ SetFlag(i, to)[i] \in {"none", to}
         /\ \A j \in Site : j # i => SetFlag(i, to)[j] = member[j]
  BY DEF BanTypeOK, SetFlag

\* The night's job is for a ban that is over, as long as it lasts.
LEMMA NightType ==
  ASSUME BanTypeOK, NEW w \in Worker, clock' = clock,
         \A v \in Worker : v # w => job'[v] = job[v],
         \/ job'[w] = Idle
         \/ job'[w].do # "night"
         \/ job'[w].seen < clock
  PROVE  \A v \in Worker : job'[v].do = "night" => job'[v].seen < clock'
<1>1. Idle.do # "night"
  BY DEF Idle
<1> QED  BY <1>1 DEF BanTypeOK

-----------------------------------------------------------------------------
LEMMA BanInitType == BanInit => BanTypeOK
  BY BansAssumption DEF BanInit, BanTypeOK, Idle

LEMMA InsertType ==
  ASSUME BanTypeOK, NEW w \in Worker, Insert(w)
  PROVE  BanTypeOK'
<1> USE Somewhere DEF Place
<1>0. job[w] # Idle  BY DEF Insert
<1>1. job[w].at \in Site /\ job[w].until \in Until /\ job[w].do # "night"
  BY <1>0, Jobs DEF Insert, Bans
<1>2. CASE ban[job[w].at] # None
  <2>1. Done(w) /\ UNCHANGED <<clock, ban, member, cache, request, net, written,
                               last, orders, faults>>
    BY <1>2 DEF Insert
  <2> QED  BY <2>1, Ended, NightType DEF BanTypeOK
<1>3. CASE ban[job[w].at] = None
  <2> DEFINE step == CASE job[w].do = "webban" -> "flag" [] OTHER -> "clear"
  <2>1. /\ Numbered(w, step) /\ UNCHANGED <<clock, cache, request, orders, faults>>
        /\ net' = IF job[w].do = "apiban" THEN Message(w) ELSE net
        /\ ban' = [ban EXCEPT ![job[w].at] =
                     IF job[w].do = "apiban" THEN job[w].until ELSE EndOf(job[w].until)]
        /\ member' = IF job[w].do = "webban" THEN member
                     ELSE SetFlag(job[w].at, "banned")
    BY <1>3 DEF Insert
  <2>2. step \in {"row", "flag", "clear"}  OBVIOUS
  <2> HIDE DEF step
  <2>3. /\ written' \in Nat /\ last' \in [Site -> Nat]
        /\ job' \in [Worker -> {Idle} \cup Job] /\ job'[w].do # "night"
        /\ \A v \in Worker : v # w => job'[v] = job[v]
    BY <1>0, <1>1, <2>1, <2>2, NumberedType
  <2>4. net' \subseteq Letter
    BY <1>0, <2>1, MessageType DEF BanTypeOK
  <2>5. ban' \in [Site -> Until \cup {None}]
    BY <1>1, <2>1, Times DEF BanTypeOK
  <2>6. member' \in [Site -> {"none", "good", "banned"}]
    BY <1>1, <2>1, FlagType DEF BanTypeOK
  <2> QED  BY <2>1, <2>3, <2>4, <2>5, <2>6, NightType DEF BanTypeOK
<1> QED  BY <1>2, <1>3

LEMMA AgainType ==
  ASSUME BanTypeOK, NEW w \in Worker, Again(w)
  PROVE  BanTypeOK'
<1> USE Somewhere DEF Place
<1>0. job[w] # Idle  BY DEF Again
<1>1. job[w].at \in Site /\ job[w].until \in Until /\ job[w].do # "night"
  BY <1>0, Jobs DEF Again, Bans
<1>a. UNCHANGED <<clock, cache, request, orders, faults>>
  BY DEF Again
<1>2. CASE /\ Done(w) /\ last' \in {last, Latest(w)}
           /\ UNCHANGED <<ban, member, written, net>>
  <2>1. last' \in [Site -> Nat]  BY <1>0, <1>2, LatestType DEF BanTypeOK
  <2> QED  BY <1>2, <1>a, <2>1, Ended, NightType DEF BanTypeOK
<1>3. CASE Numbered(w, "flag") /\ UNCHANGED <<ban, member, net>>
  <2>1. /\ written' \in Nat /\ last' \in [Site -> Nat]
        /\ job' \in [Worker -> {Idle} \cup Job] /\ job'[w].do # "night"
        /\ \A v \in Worker : v # w => job'[v] = job[v]
    BY <1>0, <1>1, <1>3, NumberedType
  <2> QED  BY <1>3, <1>a, <2>1, NightType DEF BanTypeOK
<1>4. CASE /\ ban' = IF job[w].seen = job[w].until THEN ban
                     ELSE [ban EXCEPT ![job[w].at] = job[w].until]
           /\ member' = SetFlag(job[w].at, "banned")
           /\ Numbered(w, "clear") /\ net' = Message(w)
  <2>1. /\ written' \in Nat /\ last' \in [Site -> Nat]
        /\ job' \in [Worker -> {Idle} \cup Job] /\ job'[w].do # "night"
        /\ \A v \in Worker : v # w => job'[v] = job[v]
    BY <1>0, <1>1, <1>4, NumberedType
  <2>2. net' \subseteq Letter  BY <1>0, <1>4, MessageType
  <2>3. ban' \in [Site -> Until \cup {None}]
    BY <1>1, <1>4 DEF BanTypeOK
  <2>4. member' \in [Site -> {"none", "good", "banned"}]
    BY <1>1, <1>4, FlagType
  <2> QED  BY <1>a, <2>1, <2>2, <2>3, <2>4, NightType DEF BanTypeOK
<1> QED  BY <1>2, <1>3, <1>4 DEF Again

LEMMA RemoveType ==
  ASSUME BanTypeOK, NEW w \in Worker, Remove(w)
  PROVE  BanTypeOK'
<1> USE Somewhere DEF Place
<1>0. job[w] # Idle  BY DEF Remove
<1>1. job[w].at \in Site /\ job[w].do # "night"
  BY <1>0, Jobs DEF Remove, Unbans
<1> DEFINE step == IF job[w].do = "webunban" THEN "flag" ELSE "clear"
<1>2. /\ Numbered(w, step) /\ UNCHANGED <<clock, cache, request, net, orders, faults>>
      /\ ban' = [ban EXCEPT ![job[w].at] =
           IF job[w].do = "webunban" /\ job[w].seen = None THEN @ ELSE None]
      /\ member' = IF job[w].do = "webunban" THEN member
                   ELSE SetFlag(job[w].at, "good")
  BY DEF Remove
<1>3. step \in {"row", "flag", "clear"}  OBVIOUS
<1> HIDE DEF step
<1>4. /\ written' \in Nat /\ last' \in [Site -> Nat]
      /\ job' \in [Worker -> {Idle} \cup Job] /\ job'[w].do # "night"
      /\ \A v \in Worker : v # w => job'[v] = job[v]
  BY <1>0, <1>1, <1>2, <1>3, NumberedType
<1>5. ban' \in [Site -> Until \cup {None}]
  BY <1>1, <1>2 DEF BanTypeOK
<1>6. member' \in [Site -> {"none", "good", "banned"}]
  BY <1>1, <1>2, FlagType DEF BanTypeOK
<1> QED  BY <1>2, <1>4, <1>5, <1>6, NightType DEF BanTypeOK

LEMMA LaterType ==
  ASSUME BanTypeOK, NEW w \in Worker, NightDeletes(w) \/ WriteFlag(w) \/ Clear(w)
  PROVE  BanTypeOK'
<1> USE Somewhere DEF Place
<1>0. job[w] # Idle  BY DEF NightDeletes, WriteFlag, Clear
<1>1. job[w].at \in Site  BY <1>0, Jobs
<1>2. CASE NightDeletes(w)
  <2>1. ban' \in [Site -> Until \cup {None}]
    BY <1>1, <1>2 DEF BanTypeOK, NightDeletes
  <2>2. member' \in [Site -> {"none", "good", "banned"}]
    BY <1>1, <1>2, FlagType DEF NightDeletes
  <2> QED  BY <1>2, <2>1, <2>2, Ended, NightType DEF BanTypeOK, NightDeletes
<1>3. CASE WriteFlag(w)
  <2>1. member' \in [Site -> {"none", "good", "banned"}]
    BY <1>1, <1>3, FlagType DEF WriteFlag
  <2>2. net' \subseteq Letter  BY <1>0, <1>3, MessageType DEF WriteFlag
  <2>3. /\ job' \in [Worker -> {Idle} \cup Job] /\ job'[w].do = job[w].do
        /\ job'[w].seen = job[w].seen
        /\ \A v \in Worker : v # w => job'[v] = job[v]
    <3>1. job' = [job EXCEPT ![w].step = "clear", ![w].n = job[w].n]
      BY <1>3, Onward
    <3> QED  BY <1>0, <3>1, Further, Jobs
  <2>4. job'[w].do = "night" => job'[w].seen < clock
    BY <2>3 DEF BanTypeOK
  <2> QED  BY <1>3, <2>1, <2>2, <2>3, <2>4, NightType DEF BanTypeOK, WriteFlag
<1>4. CASE Clear(w)
  <2>1. cache' \in [Site -> {"none", "free", "banned"}]
    BY <1>1, <1>4 DEF BanTypeOK, Clear, Forget
  <2> QED  BY <1>4, <2>1, Ended, NightType DEF BanTypeOK, Clear
<1> QED  BY <1>2, <1>3, <1>4

LEMMA BeginType ==
  ASSUME BanTypeOK, NEW w \in Worker,
         \/ \E do \in {"webban", "apiban", "webunban", "apiunban"},
              i \in Site, until \in {1, Forever} : Order(w, do, i, until)
         \/ \E m \in net : Receive(w, m)
         \/ \E i \in Site : BeginNight(w, i)
  PROVE  BanTypeOK'
<1>1. ASSUME NEW do \in {"webban", "apiban", "webunban", "apiunban"},
             NEW i \in Site, NEW until \in {1, Forever}, Order(w, do, i, until)
      PROVE  BanTypeOK'
  <2>1. Begin(w, do, i, until, 0)  BY <1>1 DEF Order
  <2>2. do \in Bans \cup Unbans \cup {"night"} /\ until \in Until /\ do # "night"
    BY Times DEF Bans, Unbans
  <2>3. /\ job' \in [Worker -> {Idle} \cup Job] /\ job'[w].do # "night"
        /\ \A v \in Worker : v # w => job'[v] = job[v]
    BY <2>1, <2>2, Begun
  <2>4. orders' \in 0..MaxOrders
    BY <1>1, BansAssumption DEF BanTypeOK, Order
  <2> QED  BY <1>1, <2>3, <2>4, NightType DEF BanTypeOK, Order
<1>2. ASSUME NEW m \in net, Receive(w, m)
      PROVE  BanTypeOK'
  <2>1. /\ m.do \in Bans \cup Unbans \cup {"night"} /\ m.do # "night"
        /\ m.to \in Site /\ m.until \in Until /\ m.n \in Nat
    BY DEF BanTypeOK, Letter, Bans, Unbans
  <2>2. /\ job' \in [Worker -> {Idle} \cup Job] /\ job'[w].do # "night"
        /\ \A v \in Worker : v # w => job'[v] = job[v]
    BY <1>2, <2>1, Begun DEF Receive
  <2>3. net' \subseteq Letter  BY <1>2 DEF BanTypeOK, Receive
  <2> QED  BY <1>2, <2>2, <2>3, NightType DEF BanTypeOK, Receive
<1>3. ASSUME NEW i \in Site, BeginNight(w, i)
      PROVE  BanTypeOK'
  <2>1. /\ job' \in [Worker -> {Idle} \cup Job] /\ job'[w].seen = ban[i]
        /\ \A v \in Worker : v # w => job'[v] = job[v]
    BY <1>3, Times, Begun DEF BeginNight
  <2>2. ban[i] < clock  BY <1>3 DEF BeginNight, Expired
  <2>3. cache' \in [Site -> {"none", "free", "banned"}]
    BY <1>3 DEF BanTypeOK, BeginNight, Forget
  <2> QED  BY <1>3, <2>1, <2>2, <2>3, NightType DEF BanTypeOK, BeginNight
<1> QED  BY <1>1, <1>2, <1>3

LEMMA AskingType ==
  ASSUME BanTypeOK,
         \/ \E i \in Site : Read(i) \/ Lapse(i)
         \/ Fill \/ AskToJoin \/ Join \/ Leave
  PROVE  BanTypeOK'
<1>1. ASSUME NEW i \in Site, Read(i)  PROVE BanTypeOK'
  BY <1>1 DEF BanTypeOK, Read, Told
<1>2. ASSUME NEW i \in Site, Lapse(i)  PROVE BanTypeOK'
  BY <1>2 DEF BanTypeOK, Lapse, Forget
<1>3. CASE Fill
  <2>1. request.at \in Site /\ request.told \in {"free", "banned"}
    BY <1>3 DEF BanTypeOK, Fill
  <2>2. cache' \in [Site -> {"none", "free", "banned"}]
    BY <1>3, <2>1 DEF BanTypeOK, Fill
  <2> QED  BY <1>3, <2>2 DEF BanTypeOK, Fill
<1>4. CASE AskToJoin
  BY <1>4, BansAssumption DEF BanTypeOK, AskToJoin
<1>5. CASE Join
  <2>1. member' \in [Site -> {"none", "good", "banned"}]
    BY <1>5, BansAssumption DEF BanTypeOK, Join
  <2> QED  BY <1>5, <2>1 DEF BanTypeOK, Join
<1>6. CASE Leave
  <2>1. member' \in [Site -> {"none", "good", "banned"}]
    BY <1>6, BansAssumption DEF BanTypeOK, Leave
  <2> QED  BY <1>6, <2>1 DEF BanTypeOK, Leave
<1> QED  BY <1>1, <1>2, <1>3, <1>4, <1>5, <1>6

LEMMA TickType ==
  ASSUME BanTypeOK, Tick  PROVE BanTypeOK'
<1>1. clock' \in 0..MaxTime /\ clock' = clock + 1
  BY BansAssumption DEF BanTypeOK, Tick
<1>2. ASSUME NEW w \in Worker, job[w].do = "night"  PROVE job[w].seen < clock'
  <2>1. job[w] # Idle  BY <1>2 DEF Idle
  <2>2. job[w].seen \in Int
    BY <2>1, Jobs, BansAssumption DEF Until, None
  <2> QED  BY <1>1, <1>2, <2>2 DEF BanTypeOK
<1> QED  BY <1>1, <1>2 DEF BanTypeOK, Tick

LEMMA FaultType ==
  ASSUME BanTypeOK, (\E w \in Worker : Die(w)) \/ (\E m \in net : Lose(m))
  PROVE  BanTypeOK'
<1>1. ASSUME NEW w \in Worker, Die(w)  PROVE BanTypeOK'
  <2>1. faults' \in 0..MaxFaults
    BY <1>1, BansAssumption DEF BanTypeOK, Die, Faulty
  <2> QED  BY <1>1, <2>1, Ended, NightType DEF BanTypeOK, Die, Faulty
<1>2. ASSUME NEW m \in net, Lose(m)  PROVE BanTypeOK'
  <2>1. faults' \in 0..MaxFaults
    BY <1>2, BansAssumption DEF BanTypeOK, Lose, Faulty
  <2> QED  BY <1>2, <2>1 DEF BanTypeOK, Lose, Faulty
<1> QED  BY <1>1, <1>2

LEMMA StepType == BanTypeOK /\ [BanNext]_banVars => BanTypeOK'
<1> SUFFICES ASSUME BanTypeOK, [BanNext]_banVars  PROVE BanTypeOK'
  OBVIOUS
<1>1. CASE UNCHANGED banVars
  BY <1>1 DEF BanTypeOK, banVars
<1>2. CASE BanNext
  BY <1>2, TickType, BeginType, InsertType, AgainType, RemoveType, LaterType,
     AskingType, FaultType DEF BanNext, Work
<1> QED  BY <1>1, <1>2

\* Every variable keeps its type, and the night only works on bans that are over.
THEOREM BanTypeCorrect == BanSpec => []BanTypeOK
  BY BanInitType, StepType, PTL DEF BanSpec

-----------------------------------------------------------------------------
\* What went wrong is never forgotten.
LEMMA WorkWorse == ASSUME NEW w \in Worker, Work(w) PROVE mishaps \subseteq mishaps'
  BY DEF Work, Insert, Again, Remove, NightDeletes, WriteFlag, Clear

LEMMA Worse == ASSUME BanNext PROVE mishaps \subseteq mishaps'
<1>1. ASSUME NEW w \in Worker,
             \/ \E do \in {"webban", "apiban", "webunban", "apiunban"},
                  i \in Site, until \in {1, Forever} : Order(w, do, i, until)
             \/ \E m \in net : Receive(w, m)
             \/ \E i \in Site : BeginNight(w, i)
             \/ Work(w) \/ Die(w)
      PROVE  mishaps \subseteq mishaps'
  BY <1>1, WorkWorse DEF Order, Receive, BeginNight, Die, Faulty
<1>2. ASSUME \/ Tick \/ Fill \/ AskToJoin \/ Join \/ Leave
             \/ \E i \in Site : Read(i) \/ Lapse(i)
             \/ \E m \in net : Lose(m)
      PROVE  mishaps \subseteq mishaps'
  BY <1>2 DEF Tick, Fill, AskToJoin, Join, Leave, Read, Lapse, Lose, Faulty
<1> QED  BY <1>1, <1>2 DEF BanNext

\* A job that was not about to clear the cache ends nothing by what it does.
LEMMA StillClearing ==
  ASSUME BanTypeOK, NEW w \in Worker, NEW i \in Site, Clearing(i),
         \A v \in Worker : v # w => job'[v] = job[v],
         \/ job[w] = Idle \/ job[w].step = "row" \/ ~Forgets(job[w].do, job[w].at)
         \/ job[w].at # i
  PROVE  Clearing(i)'
<1>1. PICK v \in Worker : /\ job[v] # Idle /\ Place(v) = i
                          /\ job[v].step \in {"flag", "clear"} /\ Forgets(job[v].do, i)
  BY DEF Clearing
<1>2. v # w  BY <1>1 DEF Place
<1>3. job'[v] = job[v]  BY <1>2
<1> QED  BY <1>1, <1>3 DEF Clearing, Place, Forgets

\* A job that has gone on to a later step clears what its kind clears.
LEMMA NowClearing ==
  ASSUME NEW w \in Worker, NEW i \in Site, job'[w] # Idle, job'[w].at = i,
         job'[w].step \in {"flag", "clear"}, Forgets(job'[w].do, i)
  PROVE  Clearing(i)'
  BY DEF Clearing, Place, Forgets

\* What is cached for instance i is right, or will be cleared.
Right(i) == Clearing(i) \/ cache[i] \in {"none", Told(i)}
Sound == {"raced", "early", "kept"}

\* Whoever has written the row clears the cache, or is known to keep it.
LEMMA WriteRight ==
  ASSUME BanTypeOK, NEW w \in Worker, job[w] # Idle, job[w].step = "row",
         NEW step \in {"flag", "clear"}, Numbered(w, step), cache' = cache,
         \A j \in Site : j # job[w].at => ban'[j] = ban[j],
         \/ Forgets(job[w].do, job[w].at) \/ cache[job[w].at] = "none",
         NEW i \in Site, Right(i)
  PROVE  Right(i)'
<1>1. /\ job'[w].do = job[w].do /\ job'[w].at = job[w].at
      /\ job'[w].step = step /\ job'[w] # Idle
      /\ \A v \in Worker : v # w => job'[v] = job[v]
  BY NumberedType
<1>2. CASE job[w].at # i
  <2>1. Clearing(i) => Clearing(i)'  BY <1>1, <1>2, StillClearing
  <2> QED  BY <1>2, <2>1 DEF Right, Told
<1>3. CASE job[w].at = i
  BY <1>1, <1>3, NowClearing DEF Right
<1> QED  BY <1>2, <1>3

\* Jobs that are done, or only begin, leave the others to clear.
LEMMA DoneRight ==
  ASSUME BanTypeOK, NEW w \in Worker, NEW i \in Site, Right(i),
         job[w].step = "row" \/ job[w] = Idle \/ ~Forgets(job[w].do, job[w].at)
           \/ job[w].at # i \/ cache'[i] = "none",
         \A v \in Worker : v # w => job'[v] = job[v],
         \/ cache'[i] = "none"
         \/ cache'[i] = cache[i] /\ ban'[i] = ban[i]
  PROVE  Right(i)'
<1>1. CASE cache'[i] = "none"  BY <1>1 DEF Right
<1>2. CASE cache'[i] # "none"
  <2>1. Clearing(i) => Clearing(i)'  BY <1>2, StillClearing
  <2> QED  BY <1>2, <2>1 DEF Right, Told
<1> QED  BY <1>1, <1>2

LEMMA InsertRight ==
  ASSUME BanTypeOK, NEW w \in Worker, Insert(w), mishaps' \cap Sound = {},
         NEW i \in Site, Right(i)
  PROVE  Right(i)'
<1> USE Somewhere DEF Place
<1>0. job[w] # Idle /\ job[w].step = "row" /\ cache' = cache
  BY DEF Insert, At
<1>1. CASE ban[job[w].at] # None
  BY <1>0, <1>1, Ended, DoneRight DEF Insert
<1>2. CASE ban[job[w].at] = None
  <2> DEFINE step == CASE job[w].do = "webban" -> "flag" [] OTHER -> "clear"
  <2>1. /\ Numbered(w, step) /\ Kept(w) = {}
        /\ \A j \in Site : j # job[w].at => ban'[j] = ban[j]
    BY <1>2 DEF Insert, Sound, Kept, BanTypeOK
  <2>2. step \in {"flag", "clear"}  OBVIOUS
  <2> HIDE DEF step
  <2>3. Forgets(job[w].do, job[w].at) \/ cache[job[w].at] = "none"
    BY <2>1 DEF Kept
  <2> QED  BY <1>0, <2>1, <2>2, <2>3, WriteRight
<1> QED  BY <1>1, <1>2

LEMMA AgainRight ==
  ASSUME BanTypeOK, NEW w \in Worker, Again(w), NEW i \in Site, Right(i)
  PROVE  Right(i)'
<1> USE Somewhere DEF Place
<1>0. job[w] # Idle /\ job[w].step = "row" /\ cache' = cache
  BY DEF Again, At
<1>1. CASE Done(w) /\ ban' = ban
  BY <1>0, <1>1, Ended, DoneRight
<1>2. ASSUME NEW step \in {"flag", "clear"}, Numbered(w, step),
             job[w].do \in {"webban", "apiban"},
             \A j \in Site : j # job[w].at => ban'[j] = ban[j]
      PROVE  Right(i)'
  BY <1>0, <1>2, WriteRight DEF Forgets
<1>3. CASE \/ job[w].do = "webban" /\ Numbered(w, "flag") /\ ban' = ban
           \/ /\ job[w].do = "apiban" /\ Numbered(w, "clear")
              /\ ban' = IF job[w].seen = job[w].until THEN ban
                        ELSE [ban EXCEPT ![job[w].at] = job[w].until]
  BY <1>2, <1>3 DEF BanTypeOK
<1> QED  BY <1>1, <1>3 DEF Again

LEMMA RemoveRight ==
  ASSUME BanTypeOK, NEW w \in Worker, Remove(w), mishaps' \cap Sound = {},
         NEW i \in Site, Right(i)
  PROVE  Right(i)'
<1> USE Somewhere DEF Place
<1> DEFINE step == IF job[w].do = "webunban" THEN "flag" ELSE "clear"
<1>1. /\ Numbered(w, step) /\ Kept(w) = {} /\ cache' = cache
      /\ job[w] # Idle /\ job[w].step = "row"
      /\ \A j \in Site : j # job[w].at => ban'[j] = ban[j]
  BY DEF Remove, Sound, Kept, BanTypeOK, At
<1>2. step \in {"flag", "clear"}  OBVIOUS
<1> HIDE DEF step
<1>3. Forgets(job[w].do, job[w].at) \/ cache[job[w].at] = "none"
  BY <1>1 DEF Kept
<1> QED  BY <1>1, <1>2, <1>3, WriteRight

LEMMA LaterRight ==
  ASSUME BanTypeOK, NEW w \in Worker, NightDeletes(w) \/ WriteFlag(w) \/ Clear(w),
         mishaps' \cap Sound = {}, NEW i \in Site, Right(i)
  PROVE  Right(i)'
<1> USE Somewhere DEF Place
<1>1. CASE NightDeletes(w)
  <2>1. /\ job[w] # Idle /\ job[w].step = "row" /\ cache' = cache /\ Done(w)
        /\ cache[job[w].at] = "none"
        /\ job[w].at \in Site
    BY <1>1, Jobs DEF NightDeletes, Sound, At
  <2>2. i # job[w].at => ban'[i] = ban[i]
    BY <1>1 DEF NightDeletes, BanTypeOK
  <2> QED  BY <2>1, <2>2, Ended, DoneRight
<1>2. CASE WriteFlag(w)
  <2>1. /\ job[w] # Idle /\ cache' = cache /\ ban' = ban
        /\ job' = [job EXCEPT ![w].step = "clear", ![w].n = job[w].n]
    BY <1>2, Jobs DEF WriteFlag, BanTypeOK, Job
  <2>2. /\ job'[w].do = job[w].do /\ job'[w].at = job[w].at
        /\ job'[w].step = "clear" /\ job'[w] # Idle
        /\ \A v \in Worker : v # w => job'[v] = job[v]
    BY <2>1, Further, Jobs
  <2>3. CASE Forgets(job[w].do, job[w].at) /\ job[w].at = i
    BY <2>2, <2>3, NowClearing DEF Right
  <2>4. CASE ~(Forgets(job[w].do, job[w].at) /\ job[w].at = i)
    BY <2>1, <2>2, <2>4, DoneRight
  <2> QED  BY <2>3, <2>4
<1>3. CASE Clear(w)
  <2>1. /\ ban' = ban /\ Done(w) /\ job[w].at \in Site
        /\ cache' = IF Forgets(job[w].do, job[w].at) THEN Forget(job[w].at) ELSE cache
    BY <1>3, Jobs DEF Clear
  <2>2. Forgets(job[w].do, job[w].at) /\ job[w].at = i => cache'[i] = "none"
    BY <2>1 DEF Forget, BanTypeOK
  <2>3. cache'[i] = "none" \/ cache'[i] = cache[i]
    BY <2>1 DEF Forget, BanTypeOK
  <2> QED  BY <2>1, <2>2, <2>3, Ended, DoneRight
<1> QED  BY <1>1, <1>2, <1>3

LEMMA BeginRight ==
  ASSUME BanTypeOK, NEW w \in Worker, NEW i \in Site, Right(i),
         \/ \E do \in {"webban", "apiban", "webunban", "apiunban"},
              j \in Site, until \in {1, Forever} : Order(w, do, j, until)
         \/ \E m \in net : Receive(w, m)
         \/ \E j \in Site : BeginNight(w, j)
  PROVE  Right(i)'
<1>1. job[w] = Idle /\ ban' = ban
  BY DEF Order, Receive, BeginNight, Begin
<1>2. \A v \in Worker : v # w => job'[v] = job[v]
  BY DEF Order, Receive, BeginNight, Begin, BanTypeOK
<1>3. cache'[i] = "none" \/ cache'[i] = cache[i]
  BY DEF Order, Receive, BeginNight, Forget, BanTypeOK
<1> QED  BY <1>1, <1>2, <1>3, DoneRight

LEMMA AskingRight ==
  ASSUME BanTypeOK, mishaps' \cap Sound = {}, NEW i \in Site, Right(i),
         \/ Tick \/ Fill \/ AskToJoin \/ Join \/ Leave
         \/ \E j \in Site : Read(j) \/ Lapse(j)
         \/ \E m \in net : Lose(m)
  PROVE  Right(i)'
<1>1. ban' = ban /\ job' = job
  BY DEF Tick, Fill, AskToJoin, Join, Leave, Read, Lapse, Lose, Faulty
<1>2. Clearing(i) => Clearing(i)'  BY <1>1 DEF Clearing, Place, Forgets
<1>3. CASE Fill
  <2>1. request.at = i => cache'[i] = Told(i)
    BY <1>3 DEF Fill, Sound, BanTypeOK
  <2>2. request.at # i => cache'[i] = cache[i]
    BY <1>3 DEF Fill, BanTypeOK
  <2> QED  BY <1>1, <1>2, <2>1, <2>2 DEF Right, Told
<1>4. CASE ~Fill
  <2>1. cache'[i] = "none" \/ cache'[i] = cache[i]
    BY <1>4 DEF Tick, AskToJoin, Join, Leave, Read, Lapse, Lose, Faulty, Forget, BanTypeOK
  <2> QED  BY <1>1, <1>2, <2>1 DEF Right, Told
<1> QED  BY <1>3, <1>4

LEMMA StepRight ==
  BanTypeOK /\ CacheTells /\ [BanNext]_banVars => CacheTells'
<1> SUFFICES ASSUME BanTypeOK, CacheTells, [BanNext]_banVars,
                    mishaps' \cap Sound = {}, "died" \notin mishaps',
                    NEW i \in Site
             PROVE  Right(i)'
  BY DEF CacheTells, Unharmed, Sound, Right
<1>1. CASE UNCHANGED banVars
  BY <1>1 DEF banVars, CacheTells, Unharmed, Sound, Right, Clearing, Place, Forgets, Told
<1>2. CASE BanNext
  <2>1. Right(i)
    BY <1>2, Worse DEF CacheTells, Unharmed, Sound, Right
  <2>2. \A w \in Worker : ~Die(w)  BY DEF Die, Faulty
  <2> QED
    BY <1>2, <2>1, <2>2, InsertRight, AgainRight, RemoveRight, LaterRight,
       BeginRight, AskingRight DEF BanNext, Work
<1> QED  BY <1>1, <1>2

\* What communities_banned_from tells from its cache is what the rows say, or
\* whoever changed them will clear it, unless one of the known races occurred.
THEOREM CacheRight == BanSpec => []CacheTells
<1>1. BanInit => CacheTells
  BY DEF BanInit, CacheTells
<1> QED  BY <1>1, BanTypeCorrect, StepRight, PTL DEF BanSpec

-----------------------------------------------------------------------------
\* The flag at instance i is right, or about to be written.
Flagged(i) == Busy(i, {"flag"}) \/ member[i] = "none"
                \/ (member[i] = "banned") = (ban[i] # None)
Simple == {"crossed", "joined"}

LEMMA StillBusy ==
  ASSUME BanTypeOK, NEW w \in Worker, NEW i \in Site, Busy(i, {"flag"}),
         \A v \in Worker : v # w => job'[v] = job[v],
         job[w] = Idle \/ job[w].step # "flag" \/ job[w].at # i
  PROVE  Busy(i, {"flag"})'
<1>1. PICK v \in Worker : job[v] # Idle /\ job[v].at = i /\ job[v].step = "flag"
  BY DEF Busy, Place
<1>2. job'[v] = job[v]  BY <1>1
<1> QED  BY <1>1, <1>2 DEF Busy, Place

\* A step that leaves the flag and the ban of i alone, or leaves the flag to
\* the next one, or sets it as the ban is.
LEMMA StepFlagged ==
  ASSUME BanTypeOK, NEW w \in Worker, NEW i \in Site, Flagged(i),
         \A v \in Worker : v # w => job'[v] = job[v],
         \/ /\ job[w] = Idle \/ job[w].step # "flag" \/ job[w].at # i
            /\ member'[i] = member[i] /\ ban'[i] = ban[i]
         \/ job'[w] # Idle /\ job'[w].at = i /\ job'[w].step = "flag"
         \/ member'[i] = "none"
         \/ member'[i] = "banned" /\ ban'[i] # None
         \/ member'[i] = "good" /\ ban'[i] = None
  PROVE  Flagged(i)'
<1>1. CASE /\ job[w] = Idle \/ job[w].step # "flag" \/ job[w].at # i
           /\ member'[i] = member[i] /\ ban'[i] = ban[i]
  <2>1. Busy(i, {"flag"}) => Busy(i, {"flag"})'  BY <1>1, StillBusy
  <2> QED  BY <1>1, <2>1 DEF Flagged
<1>2. CASE job'[w] # Idle /\ job'[w].at = i /\ job'[w].step = "flag"
  BY <1>2 DEF Flagged, Busy, Place
<1>3. CASE \/ member'[i] = "none"
           \/ member'[i] = "banned" /\ ban'[i] # None
           \/ member'[i] = "good" /\ ban'[i] = None
  BY <1>3 DEF Flagged
<1> QED  BY <1>1, <1>2, <1>3

LEMMA InsertFlagged ==
  ASSUME BanTypeOK, NEW w \in Worker, Insert(w), NEW i \in Site, Flagged(i)
  PROVE  Flagged(i)'
<1> USE Somewhere DEF Place
<1>0. job[w] # Idle /\ job[w].step = "row" /\ job[w].at \in Site
      /\ job[w].until \in Until
  BY Jobs DEF Insert, At
<1>1. CASE ban[job[w].at] # None
  BY <1>0, <1>1, Ended, StepFlagged DEF Insert
<1>2. CASE ban[job[w].at] = None
  <2> DEFINE step == CASE job[w].do = "webban" -> "flag" [] OTHER -> "clear"
  <2>1. /\ Numbered(w, step)
        /\ ban' = [ban EXCEPT ![job[w].at] =
                     IF job[w].do = "apiban" THEN job[w].until ELSE EndOf(job[w].until)]
        /\ member' = IF job[w].do = "webban" THEN member
                     ELSE SetFlag(job[w].at, "banned")
    BY <1>2 DEF Insert
  <2>2. step \in {"row", "flag", "clear"} /\ (job[w].do = "webban" => step = "flag")
    OBVIOUS
  <2> HIDE DEF step
  <2>3. /\ job'[w] # Idle /\ job'[w].at = job[w].at /\ job'[w].step = step
        /\ \A v \in Worker : v # w => job'[v] = job[v]
    BY <1>0, <2>1, <2>2, NumberedType
  <2>4. ban'[job[w].at] # None
    BY <1>0, <2>1, Times DEF BanTypeOK
  <2>5. i # job[w].at => ban'[i] = ban[i] /\ member'[i] = member[i]
    BY <1>0, <2>1, FlagType DEF BanTypeOK
  <2>6. job[w].do # "webban" => member'[job[w].at] \in {"none", "banned"}
    BY <1>0, <2>1, FlagType
  <2> QED  BY <1>0, <2>2, <2>3, <2>4, <2>5, <2>6, StepFlagged
<1> QED  BY <1>1, <1>2

LEMMA AgainFlagged ==
  ASSUME BanTypeOK, NEW w \in Worker, Again(w), mishaps' \cap Simple = {},
         NEW i \in Site, Flagged(i)
  PROVE  Flagged(i)'
<1> USE Somewhere DEF Place
<1>0. job[w] # Idle /\ job[w].step = "row" /\ job[w].at \in Site
  BY Jobs DEF Again, At
<1>1. CASE Done(w) /\ UNCHANGED <<ban, member>>
  BY <1>0, <1>1, Ended, StepFlagged
<1>2. CASE Numbered(w, "flag") /\ UNCHANGED <<ban, member, net>>
  <2>1. /\ job'[w] # Idle /\ job'[w].at = job[w].at /\ job'[w].step = "flag"
        /\ \A v \in Worker : v # w => job'[v] = job[v]
    BY <1>0, <1>2, NumberedType
  <2> QED  BY <1>0, <1>2, <2>1, StepFlagged
<1>3. CASE /\ job[w].do = "apiban"
           /\ ban' = IF job[w].seen = job[w].until THEN ban
                     ELSE [ban EXCEPT ![job[w].at] = job[w].until]
           /\ member' = SetFlag(job[w].at, "banned") /\ Numbered(w, "clear")
  <2>1. \A v \in Worker : v # w => job'[v] = job[v]
    BY <1>0, <1>3, NumberedType
  <2>2. ban'[job[w].at] # None  BY <1>3 DEF Again, Simple
  <2>3. i # job[w].at => ban'[i] = ban[i] /\ member'[i] = member[i]
    BY <1>0, <1>3, FlagType DEF BanTypeOK
  <2>4. member'[job[w].at] \in {"none", "banned"}
    BY <1>0, <1>3, FlagType
  <2> QED  BY <1>0, <2>1, <2>2, <2>3, <2>4, StepFlagged
<1> QED  BY <1>1, <1>2, <1>3 DEF Again

LEMMA RemoveFlagged ==
  ASSUME BanTypeOK, NEW w \in Worker, Remove(w), NEW i \in Site, Flagged(i)
  PROVE  Flagged(i)'
<1> USE Somewhere DEF Place
<1>0. job[w] # Idle /\ job[w].step = "row" /\ job[w].at \in Site
  BY Jobs DEF Remove, At
<1> DEFINE step == IF job[w].do = "webunban" THEN "flag" ELSE "clear"
<1>1. /\ Numbered(w, step)
      /\ ban' = [ban EXCEPT ![job[w].at] =
           IF job[w].do = "webunban" /\ job[w].seen = None THEN @ ELSE None]
      /\ member' = IF job[w].do = "webunban" THEN member
                   ELSE SetFlag(job[w].at, "good")
  BY DEF Remove
<1>2. step \in {"row", "flag", "clear"} /\ (job[w].do = "webunban" => step = "flag")
  OBVIOUS
<1> HIDE DEF step
<1>3. /\ job'[w] # Idle /\ job'[w].at = job[w].at /\ job'[w].step = step
      /\ \A v \in Worker : v # w => job'[v] = job[v]
  BY <1>0, <1>1, <1>2, NumberedType
<1>4. i # job[w].at => ban'[i] = ban[i] /\ member'[i] = member[i]
  BY <1>0, <1>1, FlagType DEF BanTypeOK
<1>5. job[w].do # "webunban" =>
        ban'[job[w].at] = None /\ member'[job[w].at] \in {"none", "good"}
  BY <1>0, <1>1, FlagType DEF BanTypeOK
<1> QED  BY <1>0, <1>2, <1>3, <1>4, <1>5, StepFlagged

LEMMA LaterFlagged ==
  ASSUME BanTypeOK, NEW w \in Worker, NightDeletes(w) \/ WriteFlag(w) \/ Clear(w),
         mishaps' \cap Simple = {}, NEW i \in Site, Flagged(i)
  PROVE  Flagged(i)'
<1> USE Somewhere DEF Place
<1>0. job[w] # Idle  BY DEF NightDeletes, WriteFlag, Clear
<1>a. job[w].at \in Site  BY <1>0, Jobs
<1>1. CASE NightDeletes(w)
  <2>1. /\ job[w].step = "row" /\ Done(w) /\ member' = SetFlag(job[w].at, "good")
        /\ ban' = [ban EXCEPT ![job[w].at] = None]
    BY <1>1 DEF NightDeletes, At
  <2>2. ban'[job[w].at] = None /\ member'[job[w].at] \in {"none", "good"}
    BY <1>a, <2>1, FlagType DEF BanTypeOK
  <2>3. i # job[w].at => ban'[i] = ban[i] /\ member'[i] = member[i]
    BY <1>a, <2>1, FlagType DEF BanTypeOK
  <2> QED  BY <2>1, <2>2, <2>3, Ended, StepFlagged
<1>2. CASE WriteFlag(w)
  <2> DEFINE to == IF job[w].do = "webban" THEN "banned" ELSE "good"
  <2>1. /\ ban' = ban /\ member' = SetFlag(job[w].at, to)
        /\ job' = [job EXCEPT ![w].step = "clear", ![w].n = job[w].n]
    BY <1>2, Onward DEF WriteFlag
  <2>2. \/ to = "banned" /\ ban'[job[w].at] # None
        \/ to = "good" /\ ban'[job[w].at] = None
    <3>1. (to = "banned") = (ban[job[w].at] # None)
      BY <1>2 DEF WriteFlag, Simple
    <3> QED  BY <2>1, <3>1
  <2>3. to \in {"good", "banned"}  OBVIOUS
  <2> HIDE DEF to
  <2>4. \A v \in Worker : v # w => job'[v] = job[v]
    BY <1>0, <2>1, Further, Jobs
  <2>5. member'[job[w].at] \in {"none", to}
    BY <1>a, <2>1, <2>3, FlagType
  <2>6. i # job[w].at => ban'[i] = ban[i] /\ member'[i] = member[i]
    BY <1>a, <2>1, <2>3, FlagType
  <2> QED  BY <2>2, <2>4, <2>5, <2>6, StepFlagged
<1>3. CASE Clear(w)
  <2>1. job[w].step = "clear" /\ ban' = ban /\ member' = member /\ Done(w)
    BY <1>3 DEF Clear, At
  <2> QED  BY <2>1, Ended, StepFlagged
<1> QED  BY <1>1, <1>2, <1>3

LEMMA BeginFlagged ==
  ASSUME BanTypeOK, NEW w \in Worker, NEW i \in Site, Flagged(i),
         \/ \E do \in {"webban", "apiban", "webunban", "apiunban"},
              j \in Site, until \in {1, Forever} : Order(w, do, j, until)
         \/ \E m \in net : Receive(w, m)
         \/ \E j \in Site : BeginNight(w, j)
  PROVE  Flagged(i)'
<1>1. job[w] = Idle /\ ban' = ban /\ member' = member
  BY DEF Order, Receive, BeginNight, Begin
<1>2. \A v \in Worker : v # w => job'[v] = job[v]
  BY DEF Order, Receive, BeginNight, Begin, BanTypeOK
<1> QED  BY <1>1, <1>2, StepFlagged

LEMMA AskingFlagged ==
  ASSUME BanTypeOK, mishaps' \cap Simple = {}, NEW i \in Site, Flagged(i),
         \/ Tick \/ Fill \/ AskToJoin \/ Join \/ Leave
         \/ \E j \in Site : Read(j) \/ Lapse(j)
         \/ \E m \in net : Lose(m)
  PROVE  Flagged(i)'
<1>1. ban' = ban /\ job' = job
  BY DEF Tick, Fill, AskToJoin, Join, Leave, Read, Lapse, Lose, Faulty
<1>2. Busy(i, {"flag"}) => Busy(i, {"flag"})'  BY <1>1 DEF Busy, Place
<1>3. CASE Join
  <2>1. ban[Home] = None  BY <1>3 DEF Join, Simple
  <2>2. i = Home => \/ member[i] # "none" /\ member'[i] = member[i]
                   \/ member'[i] = "good"
    BY <1>3 DEF Join, BanTypeOK
  <2>3. i # Home => member'[i] = member[i]
    BY <1>3 DEF Join, BanTypeOK
  <2> QED  BY <1>1, <1>2, <2>1, <2>2, <2>3 DEF Flagged
<1>4. CASE ~Join
  <2>1. member'[i] = "none" \/ member'[i] = member[i]
    BY <1>4 DEF Tick, Fill, AskToJoin, Leave, Read, Lapse, Lose, Faulty, BanTypeOK
  <2> QED  BY <1>1, <1>2, <2>1 DEF Flagged
<1> QED  BY <1>3, <1>4

LEMMA StepFlags ==
  BanTypeOK /\ FlagsAgree /\ [BanNext]_banVars => FlagsAgree'
<1> SUFFICES ASSUME BanTypeOK, FlagsAgree, [BanNext]_banVars,
                    mishaps' \cap Simple = {}, "died" \notin mishaps',
                    NEW i \in Site
             PROVE  Flagged(i)'
  BY DEF FlagsAgree, Unharmed, Simple, Flagged
<1>1. CASE UNCHANGED banVars
  BY <1>1 DEF banVars, FlagsAgree, Unharmed, Simple, Flagged, Busy, Place
<1>2. CASE BanNext
  <2>1. Flagged(i)
    BY <1>2, Worse DEF FlagsAgree, Unharmed, Simple, Flagged
  <2>2. \A w \in Worker : ~Die(w)  BY DEF Die, Faulty
  <2> QED
    BY <1>2, <2>1, <2>2, InsertFlagged, AgainFlagged, RemoveFlagged, LaterFlagged,
       BeginFlagged, AskingFlagged DEF BanNext, Work
<1> QED  BY <1>1, <1>2

\* A member is flagged as banned exactly when there is a ban, or the flag is
\* about to be written, unless the user joined while he was banned or a flag
\* was written for a ban that was undone by then.
THEOREM FlagsRight == BanSpec => []FlagsAgree
<1>1. BanInit => FlagsAgree
  BY DEF BanInit, FlagsAgree
<1> QED  BY <1>1, BanTypeCorrect, StepFlags, PTL DEF BanSpec
-----------------------------------------------------------------------------
(***************************************************************************)
(* That both instances have the same ban.  An order is under way as a      *)
(* letter, in the hands of one who works at the letter, or with the web    *)
(* worker who is yet to write it.  All that are under way are known where  *)
(* they come from and unknown where they go; the one that is the last      *)
(* there says what the row says there.                                     *)
(***************************************************************************)
Exact == {"lost", "overtaken", "unsent", "ignored", "late", "renewed", "crossed"}
Other(i) == IF i = Host THEN Home ELSE Host

\* A row that is r was c, and may have been deleted when it was over.
Over(r) == r # None /\ r < clock
Holds(r, c) == r = c \/ (r = None /\ Over(c))
Asks(do, until) == IF do \in Bans THEN until ELSE None

\* What order a worker has in hand that one of the instances has not seen.
Carries(w) ==
  /\ job[w] # Idle /\ job[w].do # "night"
  /\ \/ job[w].step = "row" /\ job[w].n # 0
     \/ job[w].step = "flag"
Heads(w) == IF job[w].step = "row" THEN job[w].at ELSE Other(job[w].at)
Flies(n, i) ==
  \/ \E m \in net : m.n = n /\ m.to = i
  \/ \E w \in Worker : Carries(w) /\ job[w].n = n /\ Heads(w) = i

\* Only what has come from the other instance has a number, and only the web
\* writes the flag for itself.
Shaped(w) ==
  /\ job[w] # Idle /\ job[w].step = "row" /\ job[w].do # "night" =>
       (job[w].n = 0) = (job[w].do \notin {"block", "undo"})
  /\ job[w] # Idle /\ job[w].step = "flag" => job[w].do \in {"webban", "webunban"}

\* What is under way.  One who unbans on the web somebody of whom he saw no ban
\* when there is one will find out when he writes the flag.
Sent(m) ==
  /\ m.n \in 1..written /\ m.n # last[m.to] /\ m.n <= last[Other(m.to)]
  /\ m.n = last[Other(m.to)] => Holds(ban[Other(m.to)], Asks(m.do, m.until))
Borne(w) ==
  /\ job[w].n \in 1..written
  /\ job[w].n # last[Heads(w)] /\ job[w].n <= last[Other(Heads(w))]
  /\ \/ job[w].n = last[Other(Heads(w))] =>
          Holds(ban[Other(Heads(w))], Asks(job[w].do, job[w].until))
     \/ /\ job[w].step = "flag" /\ job[w].do = "webunban"
        /\ ban[Other(Heads(w))] # None

\* Every order is under way only once.
Alone ==
  /\ \A m, o \in net : m.n = o.n => m = o
  /\ \A w, v \in Worker : Carries(w) /\ Carries(v) /\ job[w].n = job[v].n => w = v
  /\ \A w \in Worker, m \in net : Carries(w) => job[w].n # m.n

\* Who is behind will hear of it, and who is not has the same ban.
Caught(i) ==
  last[i] <= written /\ (last[i] < last[Other(i)] => Flies(last[Other(i)], i))
Even ==
  last[Host] = last[Home] =>
    Holds(ban[Host], ban[Home]) \/ Holds(ban[Home], ban[Host])

BanInv ==
  /\ \A w \in Worker : Shaped(w) /\ (Carries(w) => Borne(w))
  /\ \A m \in net : Sent(m)
  /\ Alone
  /\ \A i \in Site : Caught(i)
  /\ Even

\* Two instances, as the host tells no other than the home of the user.
Two == Site = {Host, Home} /\ Host # Home

LEMMA Others ==
  ASSUME Two
  PROVE  /\ \A i \in Site : Other(i) \in Site /\ Other(i) # i /\ Other(Other(i)) = i
         /\ \A i, j \in Site : j = i \/ j = Other(i)
         /\ Host \in Site /\ Home \in Site
         /\ Other(Host) = Home /\ Other(Home) = Host
  BY DEF Two, Other

LEMMA Clocks ==
  ASSUME BanTypeOK
  PROVE  /\ clock \in Nat /\ written \in Nat
         /\ \A i \in Site : ban[i] \in Int /\ last[i] \in Nat
         /\ \A until \in Until : until \in Int /\ until # None
  BY BansAssumption DEF BanTypeOK, Until, None

LEMMA Letters ==
  ASSUME BanTypeOK, NEW m \in net
  PROVE  /\ m.do \in {"block", "undo"} /\ m.to \in Site
         /\ m.until \in Until /\ m.n \in Nat
  BY DEF BanTypeOK, Letter

LEMMA Carried ==
  ASSUME BanTypeOK, Two, NEW w \in Worker, Carries(w)
  PROVE  /\ job[w] # Idle /\ job[w].n \in Nat /\ Heads(w) \in Site
         /\ job[w].until \in Until /\ job[w].at \in Site
         /\ job[w].step \in {"row", "flag"}
  BY Jobs, Others DEF Carries, Heads

LEMMA InitBan == BanInit => BanInv
  BY BansAssumption
  DEF BanInit, BanInv, Shaped, Carries, Alone, Caught, Even, Holds, Other, Idle

\* Time goes by, and what is over may be deleted.
Wane ==
  /\ clock' >= clock
  /\ \A i \in Site : \/ ban'[i] = ban[i]
                     \/ ban'[i] = None /\ (ban[i] = None \/ Over(ban[i]))

LEMMA Waning ==
  ASSUME BanTypeOK, BanTypeOK', Wane, NEW i \in Site
  PROVE  \A c \in Int : Holds(ban[i], c) =>
           ban'[i] = c \/ (ban'[i] = None /\ c # None /\ c < clock')
<1> SUFFICES ASSUME NEW c \in Int, Holds(ban[i], c)
             PROVE  ban'[i] = c \/ (ban'[i] = None /\ c # None /\ c < clock')
  OBVIOUS
<1>1. clock \in Nat /\ clock' \in Nat /\ clock' >= clock /\ ban[i] \in Int
  BY Clocks, BansAssumption DEF BanTypeOK, Wane
<1>2. \/ ban'[i] = ban[i]
      \/ ban'[i] = None /\ (ban[i] = None \/ Over(ban[i]))
  BY DEF Wane
<1> QED  BY <1>1, <1>2 DEF Holds, Over

LEMMA WanedEven ==
  ASSUME BanTypeOK, BanTypeOK', Two, Wane, last' = last, Even
  PROVE  Even'
<1>1. clock \in Nat /\ clock' \in Nat /\ clock' >= clock
      /\ ban[Host] \in Int /\ ban[Home] \in Int
  BY Clocks, Others, BansAssumption DEF BanTypeOK, Wane
<1>2. /\ \/ ban'[Host] = ban[Host]
         \/ ban'[Host] = None /\ (ban[Host] = None \/ Over(ban[Host]))
      /\ \/ ban'[Home] = ban[Home]
         \/ ban'[Home] = None /\ (ban[Home] = None \/ Over(ban[Home]))
  BY Others DEF Wane
<1> QED  BY <1>1, <1>2 DEF Even, Holds, Over

\* No order goes to hand or is written.
LEMMA StillBan ==
  ASSUME BanTypeOK, BanTypeOK', Two, BanInv, Wane, last' = last, written' = written,
         net' = net,
         \A v \in Worker : \/ job'[v] = job[v]
                           \/ ~Carries(v) /\ ~Carries(v)' /\ Shaped(v)'
  PROVE  BanInv'
<1>1. \A v \in Worker : /\ Carries(v)' => Carries(v) /\ job'[v] = job[v]
                        /\ Carries(v) => Carries(v)' /\ job'[v] = job[v]
  BY DEF Carries
<1>2. \A v \in Worker : Shaped(v)'
  BY DEF BanInv, Shaped
<1>3. ASSUME NEW w \in Worker, Carries(w)'  PROVE Borne(w)'
  <2>1. Carries(w) /\ job'[w] = job[w] /\ Borne(w) /\ Heads(w)' = Heads(w)
    BY <1>1, <1>3 DEF BanInv, Heads
  <2> DEFINE i == Other(Heads(w))  c == Asks(job[w].do, job[w].until)
  <2>2. i \in Site /\ c \in Int
    BY <2>1, Carried, Others, Clocks DEF Asks, None
  <2>3. Holds(ban[i], c) => ban'[i] = c \/ (ban'[i] = None /\ c # None /\ c < clock')
    BY <2>2, Waning
  <2>4. ban[i] # None /\ ban'[i] # ban[i] => ban'[i] = None
    BY <2>2 DEF Wane
  <2>5. job[w].do = "webunban" => c = None
    BY DEF Asks, Bans
  <2> QED  BY <2>1, <2>3, <2>4, <2>5 DEF Borne, Holds, Over
<1>4. ASSUME NEW m \in net  PROVE Sent(m)'
  <2> DEFINE i == Other(m.to)  c == Asks(m.do, m.until)
  <2>1. i \in Site /\ c \in Int
    BY Letters, Others, Clocks DEF Asks, None
  <2>2. Holds(ban[i], c) => ban'[i] = c \/ (ban'[i] = None /\ c # None /\ c < clock')
    BY <2>1, Waning
  <2> QED  BY <2>2 DEF BanInv, Sent, Holds, Over
<1>5. Alone'  BY <1>1 DEF BanInv, Alone
<1>6. \A i \in Site : Caught(i)'
  BY <1>1 DEF BanInv, Caught, Flies, Heads
<1>7. Even'  BY WanedEven DEF BanInv
<1> QED  BY <1>2, <1>3, <1>4, <1>5, <1>6, <1>7 DEF BanInv

LEMMA ReceiveBan ==
  ASSUME BanTypeOK, BanTypeOK', Two, BanInv, NEW w \in Worker, NEW m \in net, Receive(w, m)
  PROVE  BanInv'
<1>1. /\ m.do \in {"block", "undo"} /\ m.to \in Site /\ m.until \in Until
      /\ m.n \in Nat /\ m.n # 0 /\ Sent(m)
  BY Letters, Clocks DEF BanInv, Sent
<1>2. /\ job[w] = Idle /\ job'[w] # Idle
      /\ job'[w].do = m.do /\ job'[w].at = m.to /\ job'[w].step = "row"
      /\ job'[w].until = m.until /\ job'[w].n = m.n
      /\ \A v \in Worker : v # w => job'[v] = job[v]
  <2>1. Begin(w, m.do, m.to, m.until, m.n)
    BY DEF Receive
  <2>2. m.do \in Bans \cup Unbans \cup {"night"}
    BY <1>1 DEF Bans, Unbans
  <2> QED  BY <1>1, <2>1, <2>2, Begun
<1>3. /\ net' = net \ {m} /\ ban' = ban /\ last' = last /\ written' = written
      /\ clock' = clock
  BY DEF Receive
<1>4. Carries(w)' /\ Heads(w)' = m.to /\ ~Carries(w)
  BY <1>1, <1>2 DEF Carries, Heads
<1>5. \A v \in Worker : v # w => /\ Carries(v)' <=> Carries(v)
                                 /\ Heads(v)' = Heads(v)
  BY <1>2 DEF Carries, Heads
<1>6. \A v \in Worker : Shaped(v)'
  BY <1>1, <1>2 DEF BanInv, Shaped
<1>7. ASSUME NEW v \in Worker, Carries(v)'  PROVE Borne(v)'
  <2>1. CASE v = w
    BY <1>1, <1>2, <1>3, <1>4, <2>1 DEF Sent, Borne, Holds, Over
  <2>2. CASE v # w
    BY <1>2, <1>3, <1>5, <1>7, <2>2 DEF BanInv, Borne, Holds, Over
  <2> QED  BY <2>1, <2>2
<1>8. ASSUME NEW o \in net'  PROVE Sent(o)'
  BY <1>3 DEF BanInv, Sent, Holds, Over
<1>9. Alone'
  <2>1. \A o, p \in net' : o.n = p.n => o = p
    BY <1>3 DEF BanInv, Alone
  <2>2. \A v \in Worker : v # w /\ Carries(v) => job[v].n # m.n
    BY DEF BanInv, Alone
  <2>3. \A o \in net' : o.n # m.n
    BY <1>3 DEF BanInv, Alone
  <2>4. \A u, v \in Worker :
          Carries(u)' /\ Carries(v)' /\ job'[u].n = job'[v].n => u = v
    BY <1>2, <1>5, <2>2 DEF BanInv, Alone
  <2>5. \A v \in Worker, o \in net' : Carries(v)' => job'[v].n # o.n
    BY <1>2, <1>3, <1>5, <2>3 DEF BanInv, Alone
  <2> QED  BY <2>1, <2>4, <2>5 DEF Alone
<1>10. ASSUME NEW i \in Site  PROVE Caught(i)'
  <2>1. last[i] < last[Other(i)] => Flies(last[Other(i)], i)
    BY DEF BanInv, Caught
  <2>2. ASSUME NEW n, Flies(n, i)
        PROVE  \/ \E o \in net' : o.n = n /\ o.to = i
               \/ \E v \in Worker : Carries(v)' /\ job'[v].n = n /\ Heads(v)' = i
    BY <1>2, <1>3, <1>4, <1>5, <2>2 DEF Flies
  <2> QED  BY <1>3, <2>1, <2>2 DEF BanInv, Caught, Flies
<1>11. Even'  BY <1>3 DEF BanInv, Even, Holds, Over
<1> QED  BY <1>6, <1>7, <1>8, <1>9, <1>10, <1>11 DEF BanInv

\* What a worker writes to the other instance.
Writ(w) ==
  [do |-> IF job[w].do \in Bans THEN "block" ELSE "undo", to |-> Other(job[w].at),
   until |-> job[w].until, n |-> Number(w)]

LEMMA MessageIs ==
  ASSUME BanTypeOK, Two, NEW w \in Worker, job[w] # Idle
  PROVE  /\ Message(w) = net \cup {Writ(w)}
         /\ Writ(w).to = Other(job[w].at) /\ Writ(w).n = Number(w)
         /\ Writ(w).until = job[w].until
         /\ Asks(Writ(w).do, Writ(w).until) = Asks(job[w].do, job[w].until)
<1>1. job[w].at = Host \/ job[w].at = Home
  BY Jobs DEF Two
<1>2. {IF Place(w) = Host THEN Home ELSE Host} \ {Place(w)} = {Other(job[w].at)}
  BY <1>1 DEF Two, Other, Place
<1>3. Message(w) = net \cup {Writ(w)}
  BY <1>2 DEF Message, Writ
<1>4. Asks(Writ(w).do, Writ(w).until) = Asks(job[w].do, job[w].until)
  BY DEF Writ, Asks, Bans
<1> QED  BY <1>3, <1>4 DEF Writ

LEMMA WriteFlagBan ==
  ASSUME BanTypeOK, BanTypeOK', Two, BanInv, NEW w \in Worker, WriteFlag(w),
         mishaps' \cap Exact = {}
  PROVE  BanInv'
<1>1. /\ job[w] # Idle /\ job[w].step = "flag" /\ job[w].do \in {"webban", "webunban"}
      /\ Carries(w) /\ Borne(w) /\ Heads(w) = Other(job[w].at)
  <2>1. job[w] # Idle /\ job[w].step = "flag"
    BY Somewhere DEF WriteFlag, At
  <2>2. job[w].do \in {"webban", "webunban"}
    BY <2>1 DEF BanInv, Shaped
  <2> QED  BY <2>1, <2>2 DEF BanInv, Carries, Heads
<1>2. /\ ban' = ban /\ last' = last /\ written' = written /\ clock' = clock
      /\ net' = net \cup {Writ(w)}
  BY <1>1, MessageIs DEF WriteFlag
<1>3. job[w].n \in Nat /\ job[w].n # 0 /\ Number(w) = job[w].n
  BY <1>1, Carried, Clocks DEF Borne, Number
<1>4. /\ job'[w].step = "clear"
      /\ \A v \in Worker : v # w => job'[v] = job[v]
  <2>1. job' = [job EXCEPT ![w].step = "clear", ![w].n = job[w].n]
    BY Onward
  <2> QED  BY <1>1, <1>3, <2>1, Further
<1>5. ~Carries(w)'
  BY <1>4 DEF Carries
<1>6. \A v \in Worker : v # w => /\ Carries(v)' <=> Carries(v)
                                 /\ Heads(v)' = Heads(v)
  BY <1>4 DEF Carries, Heads
<1>7. \A v \in Worker : Shaped(v)'
  BY <1>4 DEF BanInv, Shaped
<1>8. \A v \in Worker : Carries(v)' => Borne(v)'
  BY <1>2, <1>4, <1>5, <1>6 DEF BanInv, Borne, Holds, Over
<1>9. ASSUME NEW o \in net'  PROVE Sent(o)'
  <2>1. CASE o \in net
    BY <1>2, <2>1 DEF BanInv, Sent, Holds, Over
  <2>2. CASE o = Writ(w)
    <3>1. job[w].do = "webunban" => ban[job[w].at] = None
      BY <1>1 DEF WriteFlag, Exact, Place
    <3>2. Other(Other(job[w].at)) = job[w].at
      BY <1>1, Jobs, Others
    <3>3. /\ o.to = Other(job[w].at) /\ o.n = job[w].n
          /\ Asks(o.do, o.until) = Asks(job[w].do, job[w].until)
      BY <1>1, <1>3, <2>2, MessageIs
    <3> QED  BY <1>1, <1>2, <3>1, <3>2, <3>3 DEF Borne, Sent, Holds, Over
  <2> QED  BY <1>2, <2>1, <2>2
<1>10. Alone'
  <2>1. Writ(w).n = job[w].n  BY <1>1, <1>3, MessageIs
  <2>2. \A o \in net : o.n # job[w].n
    BY <1>1 DEF BanInv, Alone
  <2>3. \A v \in Worker : v # w /\ Carries(v) => job[v].n # job[w].n
    BY <1>1 DEF BanInv, Alone
  <2>4. \A o, p \in net' : o.n = p.n => o = p
    BY <1>2, <2>1, <2>2 DEF BanInv, Alone
  <2>5. \A u, v \in Worker :
          Carries(u)' /\ Carries(v)' /\ job'[u].n = job'[v].n => u = v
    BY <1>4, <1>5, <1>6 DEF BanInv, Alone
  <2>6. \A v \in Worker, o \in net' : Carries(v)' => job'[v].n # o.n
    BY <1>2, <1>4, <1>5, <1>6, <2>1, <2>3 DEF BanInv, Alone
  <2> QED  BY <2>4, <2>5, <2>6 DEF Alone
<1>11. ASSUME NEW i \in Site  PROVE Caught(i)'
  <2>1. last[i] < last[Other(i)] => Flies(last[Other(i)], i)
    BY DEF BanInv, Caught
  <2>2. Writ(w).n = job[w].n /\ Writ(w).to = Heads(w)
    BY <1>1, <1>3, MessageIs
  <2>3. ASSUME NEW n, Flies(n, i)
        PROVE  \/ \E o \in net' : o.n = n /\ o.to = i
               \/ \E v \in Worker : Carries(v)' /\ job'[v].n = n /\ Heads(v)' = i
    BY <1>2, <1>4, <1>6, <2>2, <2>3 DEF Flies
  <2> QED  BY <1>2, <2>1, <2>3 DEF BanInv, Caught, Flies
<1>12. Even'  BY <1>2 DEF BanInv, Even, Holds, Over
<1> QED  BY <1>7, <1>8, <1>9, <1>10, <1>11, <1>12 DEF BanInv

\* An order that comes from the other instance is carried out.
LEMMA ObeyedBan ==
  ASSUME BanTypeOK, BanTypeOK', Two, BanInv, NEW w \in Worker,
         Carries(w), job[w].step = "row", job[w].n >= last[job[w].at],
         last' = [last EXCEPT ![job[w].at] = job[w].n], written' = written,
         ban'[job[w].at] = Asks(job[w].do, job[w].until),
         ban'[Other(job[w].at)] = ban[Other(job[w].at)],
         net' = net, clock' = clock, ~Carries(w)', Shaped(w)',
         \A v \in Worker : v # w => job'[v] = job[v]
  PROVE  BanInv'
<1> PICK i \in Site, n \in Nat : i = job[w].at /\ n = job[w].n
  BY Carried
<1>1. /\ Heads(w) = i /\ Borne(w) /\ Other(i) \in Site /\ Other(i) # i
      /\ Other(Other(i)) = i /\ \A j \in Site : j = i \/ j = Other(i)
  BY Others DEF BanInv, Heads
<1>2. /\ last[i] < n /\ n <= last[Other(i)] /\ n \in 1..written
      /\ last[i] \in Nat /\ last[Other(i)] \in Nat /\ written \in Nat
      /\ last'[i] = n /\ last'[Other(i)] = last[Other(i)]
  BY <1>1, Clocks DEF Borne, BanTypeOK
<1>3. \A v \in Worker : v # w => /\ Carries(v)' <=> Carries(v)
                                 /\ Heads(v)' = Heads(v)
  BY DEF Carries, Heads
<1>4. \A v \in Worker : Shaped(v)'
  BY DEF BanInv, Shaped
<1>5. \A v \in Worker : v # w /\ Carries(v) => job[v].n # n
  BY DEF BanInv, Alone
<1>6. \A m \in net : m.n # n
  BY DEF BanInv, Alone
<1>7. ASSUME NEW v \in Worker, Carries(v)'  PROVE Borne(v)'
  <2>1. v # w /\ job'[v] = job[v] /\ Carries(v) /\ Borne(v) /\ Heads(v)' = Heads(v)
    BY <1>3, <1>7 DEF BanInv
  <2>2. Heads(v) \in Site /\ job[v].n \in Nat /\ job[v].n # n
    BY <1>5, <2>1, Carried
  <2>3. CASE Heads(v) = i
    BY <1>1, <1>2, <2>1, <2>2, <2>3 DEF Borne, Holds, Over
  <2>4. CASE Heads(v) = Other(i)
    BY <1>1, <1>2, <2>1, <2>2, <2>4 DEF Borne, Holds, Over
  <2> QED  BY <1>1, <2>2, <2>3, <2>4
<1>8. ASSUME NEW m \in net'  PROVE Sent(m)'
  <2>1. m \in net /\ Sent(m) /\ m.n # n /\ m.n \in Nat /\ m.to \in Site
    BY <1>6, Letters DEF BanInv
  <2>2. CASE m.to = i
    BY <1>1, <1>2, <2>1, <2>2 DEF Sent, Holds, Over
  <2>3. CASE m.to = Other(i)
    BY <1>1, <1>2, <2>1, <2>3 DEF Sent, Holds, Over
  <2> QED  BY <1>1, <2>1, <2>2, <2>3
<1>9. Alone'
  BY <1>3 DEF BanInv, Alone
<1>10. ASSUME NEW j \in Site  PROVE Caught(j)'
  <2>1. CASE j = Other(i)
    BY <1>1, <1>2, <2>1 DEF BanInv, Caught
  <2>2. CASE j = i
    <3>1. last'[i] <= written'  BY <1>2
    <3>2. ASSUME last'[i] < last'[Other(i)]
          PROVE  \/ \E o \in net' : o.n = last'[Other(i)] /\ o.to = i
                 \/ \E v \in Worker : /\ Carries(v)' /\ job'[v].n = last'[Other(i)]
                                      /\ Heads(v)' = i
      <4>1. Flies(last[Other(i)], i)
        BY <1>2, <3>2 DEF BanInv, Caught
      <4>2. last[Other(i)] # job[w].n  BY <1>2, <3>2
      <4> QED  BY <1>2, <1>3, <4>1, <4>2 DEF Flies
    <3> QED  BY <2>2, <3>1, <3>2 DEF Caught, Flies
  <2> QED  BY <1>1, <2>1, <2>2
<1>11. Even'
  <2>1. last'[i] = last'[Other(i)] => Holds(ban[Other(i)], Asks(job[w].do, job[w].until))
    BY <1>1, <1>2 DEF Borne
  <2>2. last'[i] = last'[Other(i)] =>
          \/ ban'[Other(i)] = ban'[i]
          \/ ban'[Other(i)] = None /\ ban'[i] # None /\ ban'[i] < clock'
    BY <2>1 DEF Holds, Over
  <2> QED  BY <1>1, <2>2, Others DEF Even, Holds, Over
<1> QED  BY <1>4, <1>7, <1>8, <1>9, <1>10, <1>11 DEF BanInv

\* An order that was given here is carried out, and is under way to the other
\* instance, as a letter or with the worker who will write the flag.
LEMMA GivenBan ==
  ASSUME BanTypeOK, BanTypeOK', Two, BanInv, NEW w \in Worker,
         job[w] # Idle, job[w].step = "row", ~Carries(w),
         last' = [last EXCEPT ![job[w].at] = written + 1], written' = written + 1,
         ban'[Other(job[w].at)] = ban[Other(job[w].at)], clock' = clock, Shaped(w)',
         \/ /\ Carries(w)' /\ Borne(w)' /\ net' = net
            /\ Heads(w)' = Other(job[w].at) /\ job'[w].n = written + 1
         \/ /\ ~Carries(w)'
            /\ \E m : /\ net' = net \cup {m} /\ m.n = written + 1
                      /\ m.to = Other(job[w].at) /\ Sent(m)',
         \A v \in Worker : v # w => job'[v] = job[v]
  PROVE  BanInv'
<1> PICK i \in Site : i = job[w].at
  BY Jobs
<1>1. /\ Other(i) \in Site /\ Other(i) # i
      /\ Other(Other(i)) = i /\ \A j \in Site : j = i \/ j = Other(i)
  BY Others
<1>2. /\ last[i] \in Nat /\ last[Other(i)] \in Nat /\ written \in Nat
      /\ last[i] <= written /\ last[Other(i)] <= written
      /\ last'[i] = written + 1 /\ last'[Other(i)] = last[Other(i)]
  BY <1>1, Clocks DEF BanInv, Caught, BanTypeOK
<1>3. \A v \in Worker : v # w => /\ Carries(v)' <=> Carries(v)
                                 /\ Heads(v)' = Heads(v)
  BY DEF Carries, Heads
<1>4. \A v \in Worker : Shaped(v)'
  BY DEF BanInv, Shaped
<1>5. ASSUME NEW v \in Worker, v # w, Carries(v)
      PROVE  Borne(v)' /\ job[v].n \in 1..written
  <2>1. Borne(v) /\ job'[v] = job[v] /\ Heads(v)' = Heads(v)
        /\ Heads(v) \in Site /\ job[v].n \in Nat
    BY <1>3, <1>5, Carried DEF BanInv
  <2>2. CASE Heads(v) = i
    BY <1>1, <1>2, <2>1, <2>2 DEF Borne, Holds, Over
  <2>3. CASE Heads(v) = Other(i)
    BY <1>1, <1>2, <2>1, <2>3 DEF Borne, Holds, Over
  <2> QED  BY <1>1, <2>1, <2>2, <2>3
<1>6. ASSUME NEW m \in net
      PROVE  Sent(m)' /\ m.n \in 1..written
  <2>1. Sent(m) /\ m.n \in Nat /\ m.to \in Site
    BY Letters DEF BanInv
  <2>2. CASE m.to = i
    BY <1>1, <1>2, <2>1, <2>2 DEF Sent, Holds, Over
  <2>3. CASE m.to = Other(i)
    BY <1>1, <1>2, <2>1, <2>3 DEF Sent, Holds, Over
  <2> QED  BY <1>1, <2>1, <2>2, <2>3
<1>7. Even'
  <2>1. last'[i] # last'[Other(i)]  BY <1>2
  <2> QED  BY <1>1, <2>1, Others DEF Even
<1>8. /\ \A v \in Worker : v # w /\ Carries(v) => job[v].n # written + 1
      /\ \A m \in net : m.n # written + 1
  BY <1>2, <1>5, <1>6
\* Both are caught up as soon as what is new is known to fly.
<1>9. ASSUME \/ \E o \in net' : o.n = written + 1 /\ o.to = Other(i)
             \/ \E v \in Worker : /\ Carries(v)' /\ job'[v].n = written + 1
                                  /\ Heads(v)' = Other(i)
      PROVE  \A j \in Site : Caught(j)'
  <2>1. Caught(i)'
    BY <1>1, <1>2 DEF Caught
  <2>2. Caught(Other(i))'
    BY <1>1, <1>2, <1>9 DEF Caught, Flies
  <2> QED  BY <1>1, <2>1, <2>2
<1>10. CASE /\ Carries(w)' /\ Borne(w)' /\ net' = net
            /\ Heads(w)' = Other(job[w].at) /\ job'[w].n = written + 1
  <2>1. \A v \in Worker : Carries(v)' => Borne(v)'
    BY <1>3, <1>5, <1>10
  <2>2. \A m \in net' : Sent(m)'
    BY <1>6, <1>10
  <2>3. \A j \in Site : Caught(j)'
    BY <1>9, <1>10
  <2>4. Alone'
    <3>1. \A u, v \in Worker :
            Carries(u)' /\ Carries(v)' /\ job'[u].n = job'[v].n => u = v
      BY <1>3, <1>8, <1>10 DEF BanInv, Alone
    <3>2. \A v \in Worker, m \in net' : Carries(v)' => job'[v].n # m.n
      BY <1>3, <1>8, <1>10 DEF BanInv, Alone
    <3> QED  BY <1>10, <3>1, <3>2 DEF BanInv, Alone
  <2> QED  BY <1>4, <1>7, <2>1, <2>2, <2>3, <2>4 DEF BanInv
<1>11. CASE /\ ~Carries(w)'
            /\ \E m : /\ net' = net \cup {m} /\ m.n = written + 1
                      /\ m.to = Other(job[w].at) /\ Sent(m)'
  <2> PICK m : /\ net' = net \cup {m} /\ m.n = written + 1
               /\ m.to = Other(job[w].at) /\ Sent(m)'
    BY <1>11
  <2>1. \A v \in Worker : Carries(v)' => Borne(v)'
    BY <1>3, <1>5, <1>11
  <2>2. \A o \in net' : Sent(o)'
    BY <1>6
  <2>3. \A j \in Site : Caught(j)'
    BY <1>9
  <2>4. Alone'
    <3>1. \A u, v \in Worker :
            Carries(u)' /\ Carries(v)' /\ job'[u].n = job'[v].n => u = v
      BY <1>3, <1>11 DEF BanInv, Alone
    <3>2. \A v \in Worker, o \in net' : Carries(v)' => job'[v].n # o.n
      BY <1>3, <1>8, <1>11 DEF BanInv, Alone
    <3>3. \A o, p \in net' : o.n = p.n => o = p
      BY <1>8 DEF BanInv, Alone
    <3> QED  BY <3>1, <3>2, <3>3 DEF Alone
  <2> QED  BY <1>4, <1>7, <2>1, <2>2, <2>3, <2>4 DEF BanInv
<1> QED  BY <1>10, <1>11

\* The row is written, on behalf of either instance.
LEMMA NumberedBan ==
  ASSUME BanTypeOK, BanTypeOK', Two, BanInv, NEW w \in Worker,
         job[w] # Idle, job[w].step = "row", NEW step \in {"flag", "clear"},
         Numbered(w, step), ~(Number(w) < last[job[w].at]),
         ban'[Other(job[w].at)] = ban[Other(job[w].at)], clock' = clock,
         \/ /\ job[w].do \in {"webban", "webunban"} /\ step = "flag" /\ net' = net
            /\ job[w].do = "webban" => ban'[job[w].at] = job[w].until
         \/ /\ job[w].do = "apiban" /\ step = "clear" /\ net' = Message(w)
            /\ ban'[job[w].at] = job[w].until
         \/ /\ job[w].do \in {"block", "undo"} /\ step = "clear" /\ net' = net
            /\ ban'[job[w].at] = Asks(job[w].do, job[w].until)
  PROVE  BanInv'
<1> PICK i \in Site, until \in Until, n \in Nat :
      i = job[w].at /\ until = job[w].until /\ n = job[w].n
  BY Jobs
<1> PICK do : do = job[w].do
  OBVIOUS
<1>0. /\ Other(i) \in Site /\ Other(i) # i /\ Other(Other(i)) = i
      /\ last[i] \in Nat /\ last[Other(i)] \in Nat /\ written \in Nat
      /\ last[Other(i)] <= written
  BY Others, Clocks DEF BanInv, Caught
<1>1. /\ job'[w] # Idle /\ job'[w].do = do /\ job'[w].at = i /\ job'[w].step = step
      /\ job'[w].until = until /\ job'[w].n = Number(w)
      /\ \A v \in Worker : v # w => job'[v] = job[v]
  BY NumberedType
<1>2. (n = 0) = (do \notin {"block", "undo"})
  BY DEF BanInv, Shaped
<1>3. CASE do \in {"block", "undo"}
  <2>1. Number(w) = n /\ n # 0  BY <1>2, <1>3 DEF Number
  <2>2. Carries(w) /\ ~Carries(w)' /\ Shaped(w)'
    BY <1>1, <1>3, <2>1 DEF Carries, Shaped
  <2>3. last' = [last EXCEPT ![i] = n] /\ written' = written
    <3>1. last[i] <= n  BY <1>0, <2>1
    <3>2. last' = [last EXCEPT ![i] = IF last[i] < n THEN n ELSE last[i]]
      BY <2>1 DEF Numbered, Latest, Place
    <3>3. (IF last[i] < n THEN n ELSE last[i]) = n  BY <1>0, <3>1
    <3> QED  BY <2>1, <3>2, <3>3 DEF Numbered
  <2>4. n >= last[i]  BY <1>0, <2>1
  <2> QED  BY <1>1, <1>3, <2>2, <2>3, <2>4, ObeyedBan
<1>4. CASE do \notin {"block", "undo"}
  <2>1. Number(w) = written + 1 /\ n = 0  BY <1>2, <1>4 DEF Number
  <2>2. ~Carries(w)  BY <2>1 DEF Carries
  <2>3. last' = [last EXCEPT ![i] = written + 1] /\ written' = written + 1
    <3>1. last' = [last EXCEPT ![i] = IF last[i] < written + 1 THEN written + 1 ELSE last[i]]
      BY <2>1 DEF Numbered, Latest, Place
    <3>2. last[i] <= written  BY DEF BanInv, Caught
    <3>3. (IF last[i] < written + 1 THEN written + 1 ELSE last[i]) = written + 1
      BY <1>0, <3>2
    <3> QED  BY <2>1, <3>1, <3>3 DEF Numbered
  <2>4. last'[i] = written + 1 /\ last'[Other(i)] = last[Other(i)]
    BY <1>0, <2>3 DEF BanTypeOK
  <2>5. CASE do \in {"webban", "webunban"}
    <3>1. /\ step = "flag" /\ net' = net /\ (do = "webban" => ban'[i] = until)
      BY <1>4, <2>5
    <3>2. Carries(w)' /\ Shaped(w)' /\ Heads(w)' = Other(i)
      BY <1>1, <2>5, <3>1 DEF Carries, Shaped, Heads
    <3>3. do = "webban" => Asks(do, until) = until
      BY DEF Asks, Bans
    <3>4. do = "webunban" => Asks(do, until) = None
      BY DEF Asks, Bans
    <3>5. Borne(w)'
      BY <1>0, <1>1, <2>1, <2>3, <2>4, <2>5, <3>1, <3>2, <3>3, <3>4
      DEF Borne, Holds, Over
    <3> QED  BY <1>1, <2>1, <2>2, <2>3, <3>1, <3>2, <3>5, GivenBan
  <2>6. CASE do = "apiban"
    <3>1. step = "clear" /\ net' = Message(w) /\ ban'[i] = until
      BY <1>4, <2>6
    <3>2. ~Carries(w)' /\ Shaped(w)'
      BY <1>1, <2>6, <3>1 DEF Carries, Shaped
    <3> PICK m : m = Writ(w)  OBVIOUS
    <3>3. /\ net' = net \cup {m} /\ m.n = written + 1 /\ m.to = Other(i)
          /\ Asks(m.do, m.until) = until
      BY <2>1, <2>6, <3>1, MessageIs DEF Asks, Bans
    <3>4. Sent(m)'
      BY <1>0, <2>3, <2>4, <3>1, <3>3 DEF Sent, Holds, Over
    <3> QED  BY <1>1, <2>1, <2>2, <2>3, <3>2, <3>3, <3>4, GivenBan
  <2> QED  BY <1>4, <2>5, <2>6
<1> QED  BY <1>3, <1>4

LEMMA InsertBan ==
  ASSUME BanTypeOK, BanTypeOK', Two, BanInv, NEW w \in Worker, Insert(w),
         mishaps' \cap Exact = {}
  PROVE  BanInv'
<1> PICK i, do : i = job[w].at /\ do = job[w].do
  OBVIOUS
<1>1. /\ job[w] # Idle /\ job[w].step = "row" /\ do \in Bans /\ i \in Site
      /\ job[w].until \in Until
  BY Somewhere, Jobs DEF Insert, At
<1>2. /\ ban[i] = None /\ clock' = clock
      /\ Numbered(w, CASE do = "webban" -> "flag" [] OTHER -> "clear")
      /\ net' = IF do = "apiban" THEN Message(w) ELSE net
      /\ Overtaken(w) = {} /\ ban'[i] = job[w].until
  BY DEF Insert, Exact, Place, Overtaken
<1>3. ban'[Other(i)] = ban[Other(i)]
  <2>1. \E r : ban' = [ban EXCEPT ![i] = r]
    BY <1>2 DEF Insert, Place
  <2> QED  BY <1>1, <2>1, Others DEF BanTypeOK
<1>4. ~(Number(w) < last[i])  BY <1>2 DEF Overtaken, Place
<1>5. CASE do = "webban"
  BY <1>1, <1>2, <1>3, <1>4, <1>5, NumberedBan
<1>6. CASE do = "apiban"
  BY <1>1, <1>2, <1>3, <1>4, <1>6, NumberedBan
<1>7. CASE do = "block"
  <2>1. Asks(do, job[w].until) = job[w].until  BY <1>7 DEF Asks, Bans
  <2> QED  BY <1>1, <1>2, <1>3, <1>4, <1>7, <2>1, NumberedBan
<1> QED  BY <1>1, <1>5, <1>6, <1>7 DEF Bans

LEMMA AgainBan ==
  ASSUME BanTypeOK, BanTypeOK', Two, BanInv, NEW w \in Worker, Again(w),
         mishaps' \cap Exact = {}
  PROVE  BanInv'
<1> PICK i, do : i = job[w].at /\ do = job[w].do
  OBVIOUS
<1>1. /\ job[w] # Idle /\ job[w].step = "row" /\ do \in Bans /\ i \in Site
      /\ job[w].until \in Until /\ job[w].until # None
  BY Somewhere, Jobs, Clocks DEF Again, At
<1>2. /\ clock' = clock /\ ~(Number(w) < last[i]) /\ ban'[i] = job[w].until
  BY DEF Again, Exact, Overtaken, Place
<1>3. CASE do = "webban"
  <2>1. Numbered(w, "flag") /\ ban' = ban /\ net' = net
    BY <1>3 DEF Again
  <2> QED  BY <1>1, <1>2, <1>3, <2>1, NumberedBan
<1>4. CASE do = "block"
  <2>1. Done(w) /\ last' = Latest(w) /\ ban' = ban /\ written' = written /\ net' = net
    BY <1>4 DEF Again
  <2>2. job'[w] = Idle /\ \A v \in Worker : v # w => job'[v] = job[v]
    BY <2>1, Ended
  <2>3. ~Carries(w)' /\ Shaped(w)'
    BY <2>2 DEF Carries, Shaped
  <2>4. job[w].n # 0
    BY <1>1, <1>4 DEF BanInv, Shaped
  <2>5. Carries(w) /\ Number(w) = job[w].n
    BY <1>1, <1>4, <2>4 DEF Carries, Number
  <2>6. job[w].n \in Nat /\ last[i] \in Nat
    BY <1>1, Jobs, Clocks
  <2>7. job[w].n >= last[i]
    BY <1>2, <2>5, <2>6
  <2>8. last' = [last EXCEPT ![i] = job[w].n]
    <3>1. last' = [last EXCEPT ![i] = IF last[i] < job[w].n THEN job[w].n ELSE last[i]]
      BY <2>1, <2>5 DEF Latest, Place
    <3>2. (IF last[i] < job[w].n THEN job[w].n ELSE last[i]) = job[w].n
      BY <2>6, <2>7
    <3> QED  BY <3>1, <3>2
  <2>9. ban'[i] = Asks(do, job[w].until)
    BY <1>2, <1>4 DEF Asks, Bans
  <2> QED  BY <1>1, <1>2, <2>1, <2>2, <2>3, <2>5, <2>7, <2>8, <2>9, ObeyedBan
<1>5. CASE do = "apiban"
  <2>0. Other(i) \in Site /\ Other(i) # i
    BY <1>1, Others
  <2>1. /\ Numbered(w, "clear") /\ net' = Message(w)
        /\ ban'[Other(i)] = ban[Other(i)]
    <3>1. CASE do = "apiban" /\ ban[i] = None /\ job[w].seen # job[w].until /\ ban' = ban
      BY <1>1, <1>2, <3>1
    <3>2. CASE /\ ban' = IF job[w].seen = job[w].until THEN ban
                         ELSE [ban EXCEPT ![i] = job[w].until]
               /\ Numbered(w, "clear") /\ net' = Message(w)
      BY <1>1, <2>0, <3>2 DEF BanTypeOK
    <3> QED  BY <1>5, <3>1, <3>2 DEF Again, Place
  <2> QED  BY <1>1, <1>2, <1>5, <2>1, NumberedBan
<1> QED  BY <1>1, <1>3, <1>4, <1>5 DEF Bans

LEMMA RemoveBan ==
  ASSUME BanTypeOK, BanTypeOK', Two, BanInv, NEW w \in Worker, Remove(w),
         mishaps' \cap Exact = {}
  PROVE  BanInv'
<1> PICK i, do : i = job[w].at /\ do = job[w].do
  OBVIOUS
<1>1. /\ job[w] # Idle /\ job[w].step = "row" /\ do \in Unbans /\ i \in Site
  BY Somewhere, Jobs DEF Remove, At
<1>2. /\ clock' = clock /\ net' = net /\ ~(Number(w) < last[i]) /\ do # "apiunban"
      /\ Numbered(w, IF do = "webunban" THEN "flag" ELSE "clear")
      /\ ban' = [ban EXCEPT ![i] =
           IF do = "webunban" /\ job[w].seen = None THEN @ ELSE None]
  BY DEF Remove, Exact, Overtaken, Place
<1>3. ban'[Other(i)] = ban[Other(i)]
  BY <1>1, <1>2, Others DEF BanTypeOK
<1>4. CASE do = "webunban"
  BY <1>1, <1>2, <1>3, <1>4, NumberedBan
<1>5. CASE do = "undo"
  <2>1. ban'[i] = Asks(do, job[w].until)
    BY <1>1, <1>2, <1>5 DEF Asks, Bans, BanTypeOK
  <2> QED  BY <1>1, <1>2, <1>3, <1>5, <2>1, NumberedBan
<1> QED  BY <1>1, <1>2, <1>4, <1>5 DEF Unbans

LEMMA LaterBan ==
  ASSUME BanTypeOK, BanTypeOK', Two, BanInv, NEW w \in Worker, NightDeletes(w) \/ Clear(w),
         mishaps' \cap Exact = {}
  PROVE  BanInv'
<1>1. job[w] # Idle /\ job[w].at \in Site /\ ~Carries(w) /\ Done(w)
  BY Somewhere, Jobs DEF NightDeletes, Clear, At, Carries
<1>2. job'[w] = Idle /\ \A v \in Worker : v # w => job'[v] = job[v]
  BY <1>1, Ended
<1>3. \A v \in Worker : \/ job'[v] = job[v]
                        \/ ~Carries(v) /\ ~Carries(v)' /\ Shaped(v)'
  BY <1>1, <1>2 DEF Carries, Shaped
<1>4. last' = last /\ written' = written /\ net' = net /\ clock' = clock
  BY DEF NightDeletes, Clear
<1>5. Wane
  <2>1. CASE Clear(w)
    BY <1>4, <2>1, Clocks DEF Wane, Clear
  <2>2. CASE NightDeletes(w)
    <3>1. /\ ban' = [ban EXCEPT ![job[w].at] = None] /\ ban[job[w].at] = job[w].seen
          /\ job[w].do = "night"
      BY <2>2 DEF NightDeletes, Exact, Place
    <3>2. job[w].seen < clock  BY <3>1 DEF BanTypeOK
    <3> QED  BY <1>1, <1>4, <3>1, <3>2, Clocks DEF Wane, Over, BanTypeOK
  <2> QED  BY <2>1, <2>2
<1> QED  BY <1>3, <1>4, <1>5, StillBan

LEMMA BeginBan ==
  ASSUME BanTypeOK, BanTypeOK', Two, BanInv, NEW w \in Worker,
         \/ \E do \in {"webban", "apiban", "webunban", "apiunban"},
              i \in Site, until \in {1, Forever} : Order(w, do, i, until)
         \/ \E m \in net : Receive(w, m)
         \/ \E i \in Site : BeginNight(w, i)
  PROVE  BanInv'
<1>1. ASSUME NEW do \in {"webban", "apiban", "webunban", "apiunban", "night"},
             NEW i \in Site, NEW until \in Until, Begin(w, do, i, until, 0),
             last' = last, written' = written, net' = net, clock' = clock, ban' = ban
      PROVE  BanInv'
  <2>1. do \in Bans \cup Unbans \cup {"night"}  BY DEF Bans, Unbans
  <2>2. /\ job[w] = Idle /\ job'[w] # Idle /\ job'[w].do = do
        /\ job'[w].step = "row" /\ job'[w].n = 0
        /\ \A v \in Worker : v # w => job'[v] = job[v]
    BY <1>1, <2>1, Begun
  <2>3. ~Carries(w) /\ ~Carries(w)' /\ Shaped(w)'
    BY <2>2 DEF Carries, Shaped
  <2>4. Wane  BY <1>1, Clocks DEF Wane
  <2> QED  BY <1>1, <2>2, <2>3, <2>4, StillBan
<1>2. ASSUME NEW do \in {"webban", "apiban", "webunban", "apiunban"},
             NEW i \in Site, NEW until \in {1, Forever}, Order(w, do, i, until)
      PROVE  BanInv'
  BY <1>1, <1>2, Times DEF Order
<1>3. ASSUME NEW i \in Site, BeginNight(w, i)
      PROVE  BanInv'
  BY <1>1, <1>3, Times DEF BeginNight
<1> QED  BY <1>2, <1>3, ReceiveBan

LEMMA AskingBan ==
  ASSUME BanTypeOK, BanTypeOK', Two, BanInv,
         \/ Tick \/ Fill \/ AskToJoin \/ Join \/ Leave
         \/ \E j \in Site : Read(j) \/ Lapse(j)
  PROVE  BanInv'
<1>1. ban' = ban /\ job' = job /\ last' = last /\ written' = written /\ net' = net
  BY DEF Tick, Fill, AskToJoin, Join, Leave, Read, Lapse
<1>2. clock' >= clock
  <2>1. clock' = clock + 1 \/ clock' = clock
    BY DEF Tick, Fill, AskToJoin, Join, Leave, Read, Lapse
  <2> QED  BY <2>1, Clocks
<1> QED  BY <1>1, <1>2, StillBan DEF Wane

LEMMA StepBan ==
  ASSUME BanTypeOK, BanTypeOK', Two, BanInv, [BanNext]_banVars, mishaps' \cap Exact = {},
         "died" \notin mishaps'
  PROVE  BanInv'
<1>1. CASE UNCHANGED banVars
  <2>1. Wane  BY <1>1, Clocks DEF Wane, banVars
  <2> QED  BY <1>1, <2>1, StillBan DEF banVars
<1>2. CASE BanNext
  <2>1. /\ \A w \in Worker : ~Die(w)
        /\ \A m \in net : ~Lose(m)
    BY DEF Die, Lose, Faulty, Exact
  <2> QED
    BY <1>2, <2>1, InsertBan, AgainBan, RemoveBan, LaterBan, WriteFlagBan,
       BeginBan, AskingBan DEF BanNext, Work
<1> QED  BY <1>1, <1>2

\* When nothing is under way nobody is behind.
LEMMA QuietAgrees ==
  ASSUME BanTypeOK, Two, BanInv, net = {}, \A w \in Worker : job[w] = Idle,
         NEW i \in Site, NEW j \in Site
  PROVE  ban[i] \in {None, ban[j]} \/ Expired(i)
<1>1. \A k \in Site : ~(last[k] < last[Other(k)])
  BY DEF BanInv, Caught, Flies, Carries
<1>2. last[Host] \in Nat /\ last[Home] \in Nat /\ last[Host] = last[Home]
  BY <1>1, Others, Clocks
<1>3. Holds(ban[Host], ban[Home]) \/ Holds(ban[Home], ban[Host])
  BY <1>2 DEF BanInv, Even
<1> QED  BY <1>3 DEF Two, Holds, Over, Expired

\* Once nothing is under way, the host of a community and the home of the user
\* have the same ban, or one has deleted it when it was over; unless a letter
\* was lost or overtaken, a worker died, or one of the orders was of the kinds
\* that the code does not tell the other instance of or does not carry out.
THEOREM BansRight ==
  ASSUME Site = {Host, Home}
  PROVE  BanSpec => []BansAgree
<1> DEFINE Inv == Unharmed(Exact) => BanInv
<1>1. CASE Host = Home
  <2>1. BansAgree  BY <1>1 DEF BansAgree
  <2> QED  BY <2>1, PTL
<1>2. CASE Host # Home
  <2>1. Two  BY <1>2 DEF Two
  <2>2. BanInit => Inv  BY InitBan
  <2>3. BanTypeOK /\ Inv /\ [BanNext]_banVars => Inv'
    <3> SUFFICES ASSUME BanTypeOK, Inv, [BanNext]_banVars, Unharmed(Exact)'
                 PROVE  BanInv'
      OBVIOUS
    <3>1. mishaps \subseteq mishaps'  BY Worse DEF banVars
    <3>2. BanInv /\ mishaps' \cap Exact = {} /\ "died" \notin mishaps'
      BY <3>1 DEF Unharmed
    <3> QED  BY <2>1, <3>2, StepType, StepBan
  <2>4. BanTypeOK /\ Inv => BansAgree
    BY <2>1, QuietAgrees DEF BansAgree, Exact, Unharmed
  <2> QED  BY <2>2, <2>3, <2>4, BanTypeCorrect, PTL DEF BanSpec
<1> QED  BY <1>1, <1>2
=============================================================================
