----------------------------- MODULE JobsProofs -----------------------------
(***************************************************************************)
(* What is done behind requests and by the clock, for every value of the   *)
(* constants.  First Inbox: its types, that an activity that was answered  *)
(* is not lost without a reason, that one is handled and announced once,   *)
(* and that the newest version is shown and announced.  Then Cron: its     *)
(* types, that occurrences of posts are published once, none skipped, and  *)
(* sent, and that reminders are given once.                                *)
(***************************************************************************)
EXTENDS Inbox, Cron, FiniteSetTheorems, TLAPS

LEMMA Published == TypeOK => script \subseteq Activity
  BY InboxAssumption DEF TypeOK

\* What a worker has in its hands.
LEMMA Jobs ==
  ASSUME TypeOK
  PROVE  /\ \A w \in Web : web[w] # Idle =>
              /\ web[w] \in [at : {"asked", "verify"}, does : Activity]
              /\ web[w].does \in Activity /\ web[w].at \in {"asked", "verify"}
         /\ \A c \in Celery : celery[c] # Idle =>
              /\ celery[c] \in [at : {"insert", "edit", "flag", "announce"},
                                does : Activity, saw : 0..3]
              /\ celery[c].does \in Activity
         /\ \A a \in Activity : /\ a.object \in Object /\ a.version \in 1..3
                                /\ a.kind \in Kind
  BY InboxAssumption, Z3 DEF TypeOK, WebJob, CeleryJob

\* A worker that is somewhere is not idle.
LEMMA Somewhere ==
  /\ \A w \in Web, at \in {"asked", "verify"} : WebAt(w, at) => web[w] # Idle
  /\ \A c \in Celery, at \in {"insert", "edit", "flag", "announce"} :
       CeleryAt(c, at) => celery[c] # Idle
  BY DEF WebAt, CeleryAt, Idle

LEMMA NoteType ==
  ASSUME TypeOK, NEW a \in Activity, NEW what \in Mishap, NEW when \in BOOLEAN,
         Note(a, what, when)
  PROVE  mishaps' \in [Activity -> SUBSET Mishap]
  BY DEF TypeOK, Note

\* Going on, beginning and ending leave celery well typed.
LEMMA CeleryTypes ==
  ASSUME TypeOK, NEW c \in Celery
  PROVE  /\ \A at \in {"insert", "edit", "flag", "announce"} :
              celery[c] # Idle /\ GoTo(c, at) => celery' \in [Celery -> CeleryJob]
         /\ \A a \in Activity, at \in {"insert", "edit", "flag", "announce"} :
              Begin(c, a, at) => celery' \in [Celery -> CeleryJob]
         /\ Done(c) => celery' \in [Celery -> CeleryJob]
<1> USE Jobs DEF TypeOK
<1>1. ASSUME NEW at \in {"insert", "edit", "flag", "announce"}, celery[c] # Idle, GoTo(c, at)
      PROVE  celery' \in [Celery -> CeleryJob]
  <2>1. [celery[c] EXCEPT !.at = at] \in CeleryJob
    BY <1>1 DEF CeleryJob
  <2> QED  BY <1>1, <2>1 DEF GoTo
<1>2. ASSUME NEW a \in Activity, NEW at \in {"insert", "edit", "flag", "announce"},
             Begin(c, a, at)
      PROVE  celery' \in [Celery -> CeleryJob]
  <2>1. [at |-> at, does |-> a, saw |-> row[a.object].version] \in CeleryJob
    BY DEF CeleryJob
  <2> QED  BY <1>2, <2>1 DEF Begin
<1>3. Done(c) => celery' \in [Celery -> CeleryJob]
  BY DEF Done, CeleryJob
<1> QED  BY <1>1, <1>2, <1>3

Row == [version : 0..3, edited : BOOLEAN, deleted : BOOLEAN]

\* A table in which one row was replaced is well typed.
LEMMA RowType ==
  ASSUME TypeOK, NEW o \in Object, NEW r \in Row, row' = [row EXCEPT ![o] = r]
  PROVE  row' \in [Object -> Row]
  BY DEF TypeOK, Row

-----------------------------------------------------------------------------
LEMMA InitType == Init => TypeOK
  BY InboxAssumption DEF Init, TypeOK, WebJob, CeleryJob, NoRow

LEMMA WebType ==
  ASSUME TypeOK, NEW w \in Web, WebNext(w)
  PROVE  TypeOK'
<1> USE DEF TypeOK
<1>1. ASSUME NEW a \in script, Ask(w, a)  PROVE TypeOK'
  <2>0. a \in Activity  BY Published
  <2>1. web' \in [Web -> WebJob]
    <3>1. [at |-> "asked", does |-> a] \in WebJob  BY <2>0 DEF WebJob
    <3>2. \/ web' = web
          \/ web' = [web EXCEPT ![w] = [at |-> "asked", does |-> a]]
      BY <1>1 DEF Ask
    <3> QED  BY <3>1, <3>2
  <2>2. mishaps' \in [Activity -> SUBSET Mishap]
    BY <1>1, <2>0, NoteType DEF Ask, Mishap
  <2>3. sender' \in [Activity -> {"unsent", "sent", "answered"}]
    BY <1>1, <2>0 DEF Ask
  <2>4. repeats' \in 0..MaxRepeats
    BY <1>1, InboxAssumption DEF Ask
  <2> QED  BY <1>1, <2>1, <2>2, <2>3, <2>4 DEF Ask
<1>2. CASE Remember(w)
  <2>1. web[w].does \in Activity /\ web[w] # Idle  BY <1>2, Jobs, Somewhere DEF Remember
  <2>2. [web[w] EXCEPT !.at = "verify"] \in WebJob  BY <2>1, Jobs DEF WebJob
  <2>3. web' \in [Web -> WebJob]  BY <1>2, <2>2 DEF Remember
  <2> QED  BY <1>2, <2>1, <2>3 DEF Remember, Entered, Key
<1>3. CASE HandOver(w)
  <2>1. web[w].does \in Activity  BY <1>3, Jobs, Somewhere DEF HandOver
  <2>2. web' \in [Web -> WebJob]  BY <1>3 DEF HandOver, WebJob
  <2>3. /\ queue' \in [Activity -> Nat] /\ handled' \in [Activity -> Nat]
        /\ sender' \in [Activity -> {"unsent", "sent", "answered"}]
    BY <1>3, <2>1 DEF HandOver
  <2> QED  BY <1>3, <2>2, <2>3 DEF HandOver
<1>4. CASE Refuse(w)
  <2>1. web[w].does \in Activity  BY <1>4, Jobs DEF Refuse
  <2>2. web' \in [Web -> WebJob]  BY <1>4 DEF Refuse, WebJob
  <2>3. mishaps' \in [Activity -> SUBSET Mishap]
    BY <1>4, <2>1, NoteType DEF Refuse, Mishap
  <2>4. sender' \in [Activity -> {"unsent", "sent", "answered"}]
    BY <1>4, <2>1 DEF Refuse
  <2>5. faults' \in 0..MaxFaults  BY <1>4, InboxAssumption DEF Refuse
  <2> QED  BY <1>4, <2>2, <2>3, <2>4, <2>5 DEF Refuse
<1> QED  BY <1>1, <1>2, <1>3, <1>4 DEF WebNext

LEMMA TakeType ==
  ASSUME TypeOK, NEW c \in Celery, NEW a \in script, Take(c, a)
  PROVE  TypeOK'
<1> USE DEF TypeOK
<1>0. a \in Activity  BY Published
<1>1. celery' \in [Celery -> CeleryJob]
  BY <1>0, CeleryTypes DEF Take
<1>2. queue' \in [Activity -> Nat]
  BY <1>0 DEF Take, Waits
<1>3. mishaps' \in [Activity -> SUBSET Mishap]
  <2>1. \A s \in {{}, {"crossed"}, {"orphan"}} : s \in SUBSET Mishap
    BY DEF Mishap
  <2>2. (IF Crossed(a) THEN {"crossed"} ELSE {}) \cup
        (IF Orphan(a) THEN {"orphan"} ELSE {}) \in SUBSET Mishap
    BY DEF Mishap
  <2> QED  BY <1>0, <2>2 DEF Take
<1>4. taken' \subseteq Activity  BY <1>0 DEF Take
<1> QED  BY <1>1, <1>2, <1>3, <1>4 DEF Take

LEMMA CeleryType ==
  ASSUME TypeOK, NEW c \in Celery, CeleryNext(c)
  PROVE  TypeOK'
<1> USE DEF TypeOK
<1>j. celery[c] # Idle =>
        /\ celery[c].does \in Activity /\ celery[c].does.object \in Object
        /\ celery[c].does.version \in 1..3
  BY Jobs
<1>1. ASSUME NEW a \in script, Take(c, a)  PROVE TypeOK'
  BY <1>1, TakeType
<1>2. CASE Insert(c)
  <2>0. celery[c] # Idle  BY <1>2, Somewhere DEF Insert
  <2>r. row \in [Object -> Row]  BY DEF Row
  <2>1. row' \in [Object -> Row]
    <3> DEFINE a == celery[c].does
               r == [version |-> a.version, edited |-> a.kind = "Update",
                     deleted |-> FALSE]
    <3>1. r \in Row  BY <1>j, <2>0 DEF Row
    <3>2. row' = [row EXCEPT ![a.object] = r] \/ row' = row
      BY <1>2 DEF Insert
    <3>3. a.object \in Object  BY <1>j, <2>0
    <3> HIDE DEF a, r
    <3> QED  BY <2>r, <3>1, <3>2, <3>3, RowType
  <2>2. ASSUME NEW n \in 0..3,
               celery' = [celery EXCEPT ![c].at = "edit", ![c].saw = n]
        PROVE  celery' \in [Celery -> CeleryJob]
    <3>1. [celery[c] EXCEPT !.at = "edit", !.saw = n] \in CeleryJob
      BY <2>0, Jobs DEF CeleryJob
    <3> QED  BY <2>2, <3>1
  <2>3. celery' \in [Celery -> CeleryJob]
    BY <1>2, <1>j, <2>0, <2>2, CeleryTypes DEF Insert
  <2> QED  BY <1>2, <2>1, <2>3 DEF Insert, Row
<1>3. CASE Edit(c)
  <2>0. celery[c] # Idle  BY <1>3, Somewhere DEF Edit
  <2>1. row' \in [Object -> Row]
    <3> DEFINE a == celery[c].does
               old == row[a.object]
               n == IF celery[c].saw = a.version THEN old.version ELSE a.version
               r == [old EXCEPT !.edited = TRUE, !.version = n]
    <3>a. old \in Row  BY <1>j, <2>0 DEF Row
    <3>b. n \in 0..3  BY <1>j, <2>0, <3>a DEF Row
    <3>1. r \in Row  BY <3>a, <3>b DEF Row
    <3>2. row' = [row EXCEPT ![a.object] = r]
      BY <1>3, <1>j, <2>0 DEF Edit
    <3>3. a.object \in Object  BY <1>j, <2>0
    <3> HIDE DEF a, r
    <3> QED  BY <3>1, <3>2, <3>3, RowType
  <2>2. celery' \in [Celery -> CeleryJob]
    BY <1>3, <2>0, CeleryTypes DEF Edit
  <2> QED  BY <1>3, <2>1, <2>2 DEF Edit, Row
<1>4. CASE Flag(c)
  <2>0. celery[c] # Idle  BY <1>4, Somewhere DEF Flag
  <2>1. row' \in [Object -> Row]
    <3> DEFINE a == celery[c].does
               r == [row[a.object] EXCEPT !.deleted = (a.kind = "Delete")]
    <3>1. r \in Row  BY ZenonT(40), <1>j, <2>0 DEF Row
    <3>2. row' = [row EXCEPT ![a.object] = r]
      BY <1>4, <1>j, <2>0 DEF Flag
    <3>3. a.object \in Object  BY <1>j, <2>0
    <3> HIDE DEF a, r
    <3> QED  BY <3>1, <3>2, <3>3, RowType
  <2>2. celery' \in [Celery -> CeleryJob]
    BY <1>4, <2>0, CeleryTypes DEF Flag
  <2> QED  BY <1>4, <2>1, <2>2 DEF Flag, Row
<1>5. CASE Announce(c)
  <2>0. celery[c] # Idle  BY <1>5, Somewhere DEF Announce
  <2>1. celery' \in [Celery -> CeleryJob]
    BY <1>5, CeleryTypes DEF Announce, Tell
  <2>2. announced' \in [Activity -> Nat]
    BY <1>5, <1>j, <2>0 DEF Announce, Tell
  <2> QED  BY <1>5, <2>1, <2>2 DEF Announce
<1>6. CASE Fail(c)
  <2>1. celery' \in [Celery -> CeleryJob]
    BY <1>6, CeleryTypes DEF Fail
  <2>2. mishaps' \in [Activity -> SUBSET Mishap]
    BY <1>6, <1>j, NoteType DEF Fail, Mishap
  <2>3. faults' \in 0..MaxFaults  BY <1>6, InboxAssumption DEF Fail
  <2> QED  BY <1>6, <2>1, <2>2, <2>3 DEF Fail
<1> QED  BY <1>1, <1>2, <1>3, <1>4, <1>5, <1>6 DEF CeleryNext

LEMMA ExpireType ==
  ASSUME TypeOK, NEW a \in script, Expire(a)
  PROVE  TypeOK'
<1>0. a \in Activity  BY Published
<1>1. mishaps' \in [Activity -> SUBSET Mishap]
  BY <1>0, NoteType DEF Expire, Mishap
<1> QED  BY <1>1 DEF Expire, TypeOK

\* Every variable of Inbox keeps its type, whatever is sent to the inbox and
\* whichever attempts fail.
THEOREM TypeCorrect == Spec => []TypeOK
<1>1. TypeOK /\ [Next]_vars => TypeOK'
  <2> SUFFICES ASSUME TypeOK, [Next]_vars  PROVE TypeOK'
    OBVIOUS
  <2>1. CASE UNCHANGED vars  BY <2>1 DEF TypeOK, vars
  <2>2. CASE Next  BY <2>2, WebType, CeleryType, ExpireType DEF Next
  <2> QED  BY <2>1, <2>2
<1> QED  BY InitType, <1>1, PTL DEF Spec

-----------------------------------------------------------------------------
(***************************************************************************)
(* What redis remembers or was answered is handled, in hand or refused.    *)
(***************************************************************************)
Accounted(a) ==
  handled[a] > 0 \/ "refused" \in mishaps[a] \/ \E w \in Web : Serves(w, a)
KnownIsAccounted ==
  \A a \in Activity : sender[a] = "answered" \/ a \in known => Accounted(a)

\* What is accounted for stays so when a worker begins with a request ...
LEMMA StillAccounted ==
  ASSUME TypeOK, NEW a \in Activity, Accounted(a),
         handled' = handled,
         mishaps[a] \subseteq mishaps'[a],
         \A w \in Web : Serves(w, a) => Serves(w, a)'
  PROVE  Accounted(a)'
  BY DEF Accounted

\* ... and noting a mishap takes none away.
LEMMA NoteGrows ==
  ASSUME TypeOK, NEW a \in Activity, NEW what, NEW when \in BOOLEAN,
         Note(a, what, when), NEW b \in Activity
  PROVE  mishaps[b] \subseteq mishaps'[b]
  BY DEF TypeOK, Note

LEMMA AskAccounts ==
  ASSUME TypeOK, KnownIsAccounted, NEW w \in Web, NEW a \in script, Ask(w, a)
  PROVE  KnownIsAccounted'
<1> SUFFICES ASSUME NEW b \in Activity, (sender[b] = "answered" \/ b \in known)'
             PROVE  Accounted(b)'
  BY DEF KnownIsAccounted
<1>a. a \in Activity  BY Published
<1>b. handled' = handled /\ known' = known  BY DEF Ask
<1>c. mishaps[b] \subseteq mishaps'[b]
  BY <1>a, NoteGrows DEF Ask
<1>d. \A v \in Web : Serves(v, b) => Serves(v, b)'
  BY DEF Ask, Serves, TypeOK, Idle
<1>1. CASE sender[b] = "answered" \/ b \in known
  BY <1>1, <1>b, <1>c, <1>d, StillAccounted DEF KnownIsAccounted
<1>2. CASE ~(sender[b] = "answered" \/ b \in known)
  BY <1>2, <1>a, <1>b DEF Ask, TypeOK, Key
<1> QED  BY <1>1, <1>2

LEMMA RememberAccounts ==
  ASSUME TypeOK, KnownIsAccounted, NEW w \in Web, Remember(w)
  PROVE  KnownIsAccounted'
<1> SUFFICES ASSUME NEW b \in Activity, (sender[b] = "answered" \/ b \in known)'
             PROVE  Accounted(b)'
  BY DEF KnownIsAccounted
<1>a. web[w] # Idle  BY Somewhere DEF Remember
<1>b. handled' = handled /\ mishaps' = mishaps /\ sender' = sender
  BY DEF Remember
<1>c. \A v \in Web : Serves(v, b) => Serves(v, b)'
  BY <1>a, Jobs DEF Remember, Serves, TypeOK, Idle
<1>1. CASE sender[b] = "answered" \/ b \in known
  BY <1>1, <1>b, <1>c, StillAccounted DEF KnownIsAccounted
<1>2. CASE ~(sender[b] = "answered" \/ b \in known)
  <2>1. b = web[w].does  BY <1>2, <1>b DEF Remember, Entered, Key
  <2>2. Serves(w, b)  BY <1>a, <2>1 DEF Serves
  <2> QED  BY <1>c, <2>2 DEF Accounted
<1> QED  BY <1>1, <1>2

\* A request ends with its activity handled or refused.
LEMMA EndAccounts ==
  ASSUME TypeOK, KnownIsAccounted, NEW w \in Web, HandOver(w) \/ Refuse(w)
  PROVE  KnownIsAccounted'
<1> SUFFICES ASSUME NEW b \in Activity, (sender[b] = "answered" \/ b \in known)'
             PROVE  Accounted(b)'
  BY DEF KnownIsAccounted
<1>a. web[w] # Idle /\ web[w].does \in Activity
  BY Somewhere, Jobs DEF HandOver, Refuse
<1>1. CASE b = web[w].does
  <2>1. HandOver(w) => handled'[b] > 0
    BY <1>1, <1>a DEF HandOver, TypeOK
  <2>2. Refuse(w) => "refused" \in mishaps'[b]
    BY <1>1, <1>a DEF Refuse, Note, TypeOK
  <2> QED  BY <2>1, <2>2 DEF Accounted
<1>2. CASE b # web[w].does
  <2>1. handled'[b] = handled[b] /\ mishaps'[b] = mishaps[b]
        /\ sender'[b] = sender[b] /\ known' = known
    BY <1>2, <1>a DEF HandOver, Refuse, Note, TypeOK
  <2>2. \A v \in Web : Serves(v, b) => Serves(v, b)'
    BY <1>2 DEF HandOver, Refuse, Serves, TypeOK
  <2> QED  BY <2>1, <2>2 DEF KnownIsAccounted, Accounted
<1> QED  BY <1>1, <1>2

LEMMA RestAccounts ==
  ASSUME TypeOK, KnownIsAccounted,
         \/ UNCHANGED vars
         \/ \E a \in script : Expire(a)
         \/ \E c \in Celery : CeleryNext(c)
  PROVE  KnownIsAccounted'
<1>1. /\ handled' = handled /\ web' = web /\ sender' = sender
      /\ known' \subseteq known
  BY DEF vars, Expire, CeleryNext, Take, Insert, Edit, Flag, Announce, Fail
<1>2. ASSUME NEW b \in Activity  PROVE mishaps[b] \subseteq mishaps'[b]
  <2>1. CASE UNCHANGED vars  BY <2>1 DEF vars
  <2>2. CASE \E a \in script : Expire(a)
    BY <2>2, Published, NoteGrows DEF Expire
  <2>3. ASSUME NEW c \in Celery, CeleryNext(c)
        PROVE  mishaps[b] \subseteq mishaps'[b]
    <3>1. ASSUME NEW a \in script, Take(c, a)
          PROVE  mishaps[b] \subseteq mishaps'[b]
      BY <3>1, Published DEF Take, TypeOK
    <3>2. CASE Fail(c)
      BY <3>2, Jobs, NoteGrows DEF Fail
    <3>3. CASE Insert(c) \/ Edit(c) \/ Flag(c) \/ Announce(c)
      BY <3>3 DEF Insert, Edit, Flag, Announce
    <3> QED  BY <2>3, <3>1, <3>2, <3>3 DEF CeleryNext
  <2> QED  BY <2>1, <2>2, <2>3
<1> QED  BY <1>1, <1>2 DEF KnownIsAccounted, Accounted, Serves

\* The sender of an activity that was answered may forget it: it was handed to
\* celery or is about to be, unless an attempt at it was refused.
THEOREM NothingForgotten == Spec => []AnsweredIsHandled
<1>1. Init => KnownIsAccounted
  BY DEF Init, KnownIsAccounted
<1>2. TypeOK /\ KnownIsAccounted /\ [Next]_vars => KnownIsAccounted'
  <2> SUFFICES ASSUME TypeOK, KnownIsAccounted, [Next]_vars
               PROVE  KnownIsAccounted'
    OBVIOUS
  <2>1. ASSUME NEW w \in Web, WebNext(w)  PROVE KnownIsAccounted'
    BY <2>1, AskAccounts, RememberAccounts, EndAccounts DEF WebNext
  <2> QED  BY <2>1, RestAccounts DEF Next
<1>3. KnownIsAccounted => AnsweredIsHandled
  BY DEF KnownIsAccounted, Accounted, AnsweredIsHandled
<1> QED  BY <1>1, <1>2, <1>3, TypeCorrect, PTL DEF Spec

-----------------------------------------------------------------------------
(***************************************************************************)
(* Once: as long as no two workers asked together and redis forgot         *)
(* nothing, an activity is in one place at most: in the hands of one web   *)
(* worker, in the queue, in the hands of one celery worker or announced.   *)
(***************************************************************************)
Orderly(a) == mishaps[a] \cap {"together", "expired"} = {}
OnePlace(a) ==
  /\ handled[a] <= 1 /\ queue[a] + announced[a] <= handled[a]
  /\ \A c \in Celery : Does(c, a) =>
       /\ handled[a] = 1 /\ queue[a] = 0 /\ announced[a] = 0
       /\ \A d \in Celery : Does(d, a) => d = c
  /\ \A w \in Web : Serves(w, a) =>
       /\ handled[a] = 0
       /\ \A v \in Web : Serves(v, a) => v = w
       /\ WebAt(w, "verify") => a \in known
  /\ handled[a] > 0 => a \in known
Once == \A a \in Activity : Orderly(a) => OnePlace(a)

\* Steps that leave everything of an activity alone.
LEMMA OnceElsewhere ==
  ASSUME TypeOK, Once, NEW a \in Activity,
         mishaps[a] \subseteq mishaps'[a],
         handled'[a] = handled[a], queue'[a] = queue[a],
         announced'[a] = announced[a], a \in known => a \in known',
         \A w \in Web : Serves(w, a)' => Serves(w, a) /\ web'[w] = web[w],
         \A c \in Celery : Does(c, a)' => Does(c, a)
  PROVE  Orderly(a)' => OnePlace(a)'
BY DEF Once, Orderly, OnePlace, WebAt

LEMMA AskOnce ==
  ASSUME TypeOK, Once, NEW w \in Web, NEW a \in script, Ask(w, a)
  PROVE  Once'
<1> SUFFICES ASSUME NEW b \in Activity  PROVE Orderly(b)' => OnePlace(b)'
  BY DEF Once
<1>a. a \in Activity  BY Published
<1>b. mishaps[b] \subseteq mishaps'[b]
  BY <1>a, NoteGrows DEF Ask
<1>c. /\ handled' = handled /\ queue' = queue /\ announced' = announced
      /\ known' = known /\ celery' = celery
  BY DEF Ask
<1>1. CASE b # a \/ web' = web
  <2>1. \A v \in Web : Serves(v, b)' => Serves(v, b) /\ web'[v] = web[v]
    <3>1. CASE web' = web  BY <3>1 DEF Serves
    <3>2. CASE b # a /\ web' # web
      <4>1. web' = [web EXCEPT ![w] = [at |-> "asked", does |-> a]]
        BY <3>2 DEF Ask
      <4>2. web'[w].does = a /\ \A v \in Web : v # w => web'[v] = web[v]
        BY <4>1 DEF TypeOK
      <4> QED  BY <3>2, <4>2 DEF Serves
    <3> QED  BY <1>1, <3>1, <3>2
  <2> QED  BY <1>b, <1>c, <2>1, OnceElsewhere DEF Does
<1>2. CASE b = a /\ web' # web
  <2>1. /\ a \notin known /\ web' = [web EXCEPT ![w] = [at |-> "asked", does |-> a]]
        /\ Note(a, "together", \E v \in Web : Serves(v, a))
    BY <1>2 DEF Ask, Key
  <2>2. SUFFICES ASSUME Orderly(a)'  PROVE OnePlace(a)'
    BY <1>2
  <2>3. \A v \in Web : ~Serves(v, a)
    BY <1>a, <2>1, <2>2 DEF Note, Orderly, TypeOK
  <2>4. Orderly(a)
    BY <1>2, <1>b, <2>2 DEF Orderly
  <2>5. OnePlace(a)  BY <1>a, <2>4 DEF Once
  <2>6. \A v \in Web : Serves(v, a)' => v = w
    BY <2>1, <2>3 DEF Serves, TypeOK
  <2>7. ~WebAt(w, "verify")'
    BY <2>1 DEF WebAt, TypeOK
  <2>8. handled[a] = 0
    BY <1>a, <2>1, <2>5 DEF OnePlace, TypeOK
  <2> QED  BY <1>c, <2>5, <2>6, <2>7, <2>8 DEF OnePlace, Does
<1> QED  BY <1>1, <1>2

LEMMA RememberOnce ==
  ASSUME TypeOK, Once, NEW w \in Web, Remember(w)
  PROVE  Once'
<1> SUFFICES ASSUME NEW b \in Activity, Orderly(b)'  PROVE OnePlace(b)'
  BY DEF Once
<1>1. /\ handled' = handled /\ queue' = queue /\ announced' = announced
      /\ celery' = celery /\ mishaps' = mishaps
      /\ known' = known \cup {web[w].does}
  BY DEF Remember, Entered, Key
<1>2. web[w] # Idle  BY Somewhere DEF Remember
<1>3. OnePlace(b)  BY <1>1 DEF Once, Orderly
<1>4. \A v \in Web : /\ Serves(v, b)' => Serves(v, b)
                     /\ v # w => web'[v] = web[v]
  BY <1>2, Jobs DEF Remember, Serves, TypeOK
<1>5. Serves(w, b) => b \in known'
  BY <1>1 DEF Serves
<1> QED  BY <1>1, <1>3, <1>4, <1>5 DEF OnePlace, Does, WebAt

LEMMA EndOnce ==
  ASSUME TypeOK, Once, NEW w \in Web, HandOver(w) \/ Refuse(w)
  PROVE  Once'
<1> SUFFICES ASSUME NEW b \in Activity  PROVE Orderly(b)' => OnePlace(b)'
  BY DEF Once
<1>a. web[w] # Idle /\ web[w].does \in Activity
  BY Somewhere, Jobs DEF HandOver, Refuse
<1>b. /\ announced' = announced /\ known' = known /\ celery' = celery
      /\ web' = [web EXCEPT ![w] = Idle]
  BY DEF HandOver, Refuse
<1>c. mishaps[b] \subseteq mishaps'[b]
  BY <1>a, NoteGrows DEF HandOver, Refuse
<1>d. \A v \in Web : Serves(v, b)' => v # w /\ Serves(v, b) /\ web'[v] = web[v]
  BY <1>b DEF Serves, TypeOK
<1>1. CASE Refuse(w) \/ b # web[w].does
  <2>1. handled'[b] = handled[b] /\ queue'[b] = queue[b]
    BY <1>1, <1>a DEF HandOver, Refuse, TypeOK
  <2> QED  BY <1>b, <1>c, <1>d, <2>1, OnceElsewhere DEF Does
<1>2. CASE HandOver(w) /\ b = web[w].does
  <2>1. SUFFICES ASSUME Orderly(b)'  PROVE OnePlace(b)'
    OBVIOUS
  <2>2. OnePlace(b)  BY <1>c, <2>1 DEF Orderly, Once
  <2>3. Serves(w, b) /\ WebAt(w, "verify")
    BY <1>2, <1>a DEF Serves, HandOver
  <2>4. handled'[b] = handled[b] + 1 /\ queue'[b] = queue[b] + 1
    BY <1>2, <1>a DEF HandOver, TypeOK
  <2>5. handled[b] = 0 /\ b \in known /\ \A v \in Web : ~Serves(v, b)'
    BY <1>d, <2>2, <2>3 DEF OnePlace
  <2>6. \A c \in Celery : ~Does(c, b)
    BY <2>2, <2>5 DEF OnePlace
  <2>7. queue[b] \in Nat /\ announced[b] \in Nat
    BY DEF TypeOK
  <2>8. queue[b] = 0 /\ announced[b] = 0
    BY <2>2, <2>5, <2>7 DEF OnePlace
  <2> QED  BY <1>b, <2>4, <2>5, <2>6, <2>8 DEF OnePlace, Does
<1> QED  BY <1>1, <1>2

LEMMA TakeOnce ==
  ASSUME TypeOK, Once, NEW c \in Celery, NEW a \in script, Take(c, a)
  PROVE  Once'
<1> SUFFICES ASSUME NEW b \in Activity  PROVE Orderly(b)' => OnePlace(b)'
  BY DEF Once
<1>a. a \in Activity  BY Published
<1>b. /\ announced' = announced /\ known' = known /\ web' = web
      /\ handled' = handled
  BY DEF Take
<1>c. mishaps[b] \subseteq mishaps'[b]
  BY <1>a DEF Take, TypeOK
<1>d. \A d \in Celery : Does(d, b)' => Does(d, b) \/ (d = c /\ b = a)
  BY DEF Take, Begin, Does, TypeOK, Idle
<1>1. CASE b # a
  <2>1. queue'[b] = queue[b]  BY <1>1, <1>a DEF Take, TypeOK
  <2> QED  BY <1>1, <1>b, <1>c, <1>d, <2>1, OnceElsewhere DEF Serves
<1>2. CASE b = a
  <2>1. SUFFICES ASSUME Orderly(b)'  PROVE OnePlace(b)'
    OBVIOUS
  <2>2. OnePlace(b)  BY <1>c, <2>1 DEF Orderly, Once
  <2>3. queue[b] > 0 /\ queue'[b] = queue[b] - 1
    BY <1>2, <1>a DEF Take, Waits, TypeOK
  <2>4. queue[b] \in Nat /\ announced[b] \in Nat /\ handled[b] \in Nat
    BY DEF TypeOK
  <2>5. handled[b] = 1 /\ queue'[b] = 0 /\ announced[b] = 0
    BY <2>2, <2>3, <2>4 DEF OnePlace
  <2>6. \A d \in Celery : ~Does(d, b)
    BY <2>2, <2>3 DEF OnePlace
  <2>7. \A d \in Celery : Does(d, b)' => d = c
    BY <1>d, <2>6
  <2> QED  BY <1>b, <2>2, <2>5, <2>7 DEF OnePlace, Serves, WebAt
<1> QED  BY <1>1, <1>2

LEMMA WorkOnce ==
  ASSUME TypeOK, Once, NEW c \in Celery,
         Insert(c) \/ Edit(c) \/ Flag(c) \/ Announce(c) \/ Fail(c)
  PROVE  Once'
<1> SUFFICES ASSUME NEW b \in Activity  PROVE Orderly(b)' => OnePlace(b)'
  BY DEF Once
<1>a. celery[c] # Idle /\ celery[c].does \in Activity
  BY Somewhere, Jobs DEF Insert, Edit, Flag, Announce, Fail
<1>b. /\ queue' = queue /\ known' = known /\ web' = web /\ handled' = handled
  BY DEF Insert, Edit, Flag, Announce, Fail
<1>c. mishaps[b] \subseteq mishaps'[b]
  <2>1. CASE Fail(c)  BY <2>1, <1>a, NoteGrows DEF Fail
  <2> QED  BY <2>1 DEF Insert, Edit, Flag, Announce
<1>d. \A d \in Celery : Does(d, b)' => Does(d, b)
  <2>1. CASE Insert(c)
    BY <2>1, <1>a, Jobs DEF Insert, GoTo, Does, TypeOK
  <2>2. CASE Edit(c) \/ Flag(c)
    BY <2>2, <1>a, Jobs DEF Edit, Flag, GoTo, Does, TypeOK
  <2>3. CASE Announce(c) \/ Fail(c)
    BY <2>3 DEF Announce, Tell, Fail, Done, Does, TypeOK
  <2> QED  BY <2>1, <2>2, <2>3
<1>1. CASE announced'[b] = announced[b]
  BY <1>1, <1>b, <1>c, <1>d, OnceElsewhere DEF Serves
<1>2. CASE announced'[b] # announced[b]
  <2>1. Announce(c) /\ b = celery[c].does /\ announced'[b] = announced[b] + 1
    BY <1>2, <1>a DEF Insert, Edit, Flag, Announce, Fail, Tell, TypeOK
  <2>2. SUFFICES ASSUME Orderly(b)'  PROVE OnePlace(b)'
    OBVIOUS
  <2>3. OnePlace(b)  BY <1>c, <2>2 DEF Orderly, Once
  <2>4. Does(c, b)  BY <1>a, <2>1 DEF Does
  <2>5. ~Does(c, b)'  BY <2>1 DEF Announce, Tell, Done, Does, TypeOK
  <2>6. /\ handled[b] = 1 /\ queue[b] = 0 /\ announced[b] = 0
        /\ \A d \in Celery : ~Does(d, b)'
    BY <1>d, <2>3, <2>4, <2>5 DEF OnePlace
  <2> QED  BY <1>b, <2>1, <2>3, <2>6 DEF OnePlace, Serves, WebAt
<1> QED  BY <1>1, <1>2

LEMMA ExpireOnce ==
  ASSUME TypeOK, Once, NEW a \in script, Expire(a)
  PROVE  Once'
<1> SUFFICES ASSUME NEW b \in Activity  PROVE Orderly(b)' => OnePlace(b)'
  BY DEF Once
<1>a. a \in Activity  BY Published
<1>1. CASE b = a
  BY <1>1, <1>a DEF Expire, Note, Orderly, TypeOK
<1>2. CASE b # a
  <2>1. mishaps[b] \subseteq mishaps'[b]
    BY <1>a, NoteGrows DEF Expire
  <2> QED  BY <1>2, <2>1, OnceElsewhere DEF Expire, Key, Serves, Does
<1> QED  BY <1>1, <1>2

\* However often an activity is sent, it goes to celery and to the followers
\* once, unless two web workers asked redis for it together or redis had
\* forgotten it.
THEOREM HandledAtMostOnce == Spec => []HandledOnce
<1>1. Init => Once
  BY DEF Init, Once, OnePlace, Serves, Does, Idle
<1>2. TypeOK /\ Once /\ [Next]_vars => Once'
  <2> SUFFICES ASSUME TypeOK, Once, [Next]_vars  PROVE Once'
    OBVIOUS
  <2>1. CASE UNCHANGED vars
    BY <2>1 DEF vars, Once, Orderly, OnePlace, Serves, Does, WebAt
  <2>2. ASSUME NEW w \in Web, WebNext(w)  PROVE Once'
    BY <2>2, AskOnce, RememberOnce, EndOnce DEF WebNext
  <2>3. ASSUME NEW c \in Celery, CeleryNext(c)  PROVE Once'
    BY <2>3, TakeOnce, WorkOnce DEF CeleryNext
  <2> QED  BY <2>1, <2>2, <2>3, ExpireOnce DEF Next
<1>3. TypeOK /\ Once => HandledOnce
  <2> SUFFICES ASSUME TypeOK, Once, NEW a \in Activity, Orderly(a)
               PROVE  handled[a] <= 1 /\ announced[a] <= 1
    BY DEF HandledOnce, Orderly
  <2>1. handled[a] \in Nat /\ queue[a] \in Nat /\ announced[a] \in Nat
    BY DEF TypeOK
  <2> QED  BY <2>1 DEF Once, OnePlace
<1> QED  BY <1>1, <1>2, <1>3, TypeCorrect, PTL DEF Spec
-----------------------------------------------------------------------------
(***************************************************************************)
(* What is shown of an object and what the followers know of it, as long   *)
(* as nothing that was taken up about it was killed, orphaned or crossed.  *)
(* Edits are then taken one after the other in their order, and so are a   *)
(* deletion and a restoration; whoever came last has seen to the row or is *)
(* at it.  A Create and the first Update may be at it together.            *)
(***************************************************************************)
EditKind == {"Create", "Update"}
Removal == {"Delete", "Restore"}
Taken(o) == {a \in taken : a.object = o}
Smooth(o) == \A a \in Taken(o) : mishaps[a] \cap {"killed", "orphan", "crossed"} = {}
Stands(a, at) == \E c \in Celery : Does(c, a) /\ celery[c].at = at
Told(a) == announced[a] > 0 \/ Stands(a, "announce")
Last(a) == \A b \in Taken(a.object) : Alike(a, b) => Rank(b) <= Rank(a)

\* What is under way was sent, and what was handed over waits or was taken.
Base ==
  /\ \A a \in Activity :
       /\ queue[a] > 0 \/ a \in taken \/ (\E w \in Web : Serves(w, a)) =>
            a \in script /\ sender[a] # "unsent"
       /\ handled[a] > 0 => queue[a] > 0 \/ a \in taken
  /\ \A c \in Celery : celery[c] # Idle =>
       /\ celery[c].does \in taken
       /\ celery[c].at \in {"edit", "flag"} => Exists(celery[c].does.object)
  /\ \A o \in Object : ~Exists(o) => row[o] = NoRow

\* Two edits, or a deletion and a restoration, are not under way together.
InTurn(o) ==
  \A c, d \in Celery, a, b \in Taken(o) :
    Does(c, a) /\ Does(d, b) /\ Alike(a, b) => c = d
\* What a worker at the object relies on.
Hand(c, o) ==
  \A a \in Taken(o) : Does(c, a) =>
    /\ Last(a)
    /\ celery[c].at = "insert" =>
         a.kind \in EditKind /\ (a.kind = "Update" /\ Exists(o) => ~row[o].edited)
    /\ celery[c].at = "edit" =>
         a.kind = "Update" /\ Exists(o) /\ celery[c].saw = row[o].version
    /\ celery[c].at = "flag" => a.kind \in Removal
\* Who has come last has seen to it, or is at it.
Shown(o) ==
  \A a \in Taken(o) :
    /\ a.kind \in EditKind => Exists(o) \/ Stands(a, "insert")
    /\ a.kind = "Update" /\ Last(a) =>
         \/ Stands(a, "insert") \/ Stands(a, "edit")
         \/ row[o].edited /\ row[o].version = a.version
    /\ a.kind \in Removal => Exists(o)
    /\ a.kind \in Removal /\ Last(a) =>
         Stands(a, "flag") \/ row[o].deleted = (a.kind = "Delete")
\* Who made the row what it is told the followers, or is about to.
Made(o) ==
  /\ Exists(o) => \E a \in Taken(o) :
       /\ a.kind = (IF row[o].edited THEN "Update" ELSE "Create")
       /\ a.version = row[o].version /\ Told(a)
  /\ row[o].deleted => \E a \in Taken(o) : a.kind = "Delete" /\ Told(a)

Steady(o) == InTurn(o) /\ (\A c \in Celery : Hand(c, o)) /\ Shown(o) /\ Made(o)
Shows == Base /\ \A o \in Object : Smooth(o) => Steady(o)

-----------------------------------------------------------------------------
LEMMA Ranks ==
  \A a \in Activity :
    /\ Rank(a) \in {1, 2, 3, 4, 10, 11}
    /\ a.kind = "Create" => Rank(a) = 1
    /\ a.kind = "Update" => Rank(a) = 1 + a.version /\ Rank(a) \in 2..4
    /\ a.kind = "Delete" => Rank(a) = 10
    /\ a.kind = "Restore" => Rank(a) = 11
<1> SUFFICES ASSUME NEW a \in Activity
             PROVE  /\ Rank(a) \in {1, 2, 3, 4, 10, 11}
                    /\ a.kind = "Create" => Rank(a) = 1
                    /\ a.kind = "Update" => Rank(a) = 1 + a.version /\ Rank(a) \in 2..4
                    /\ a.kind = "Delete" => Rank(a) = 10
                    /\ a.kind = "Restore" => Rank(a) = 11
  OBVIOUS
<1>1. a.kind \in Kind /\ a.version \in 1..3  BY InboxAssumption
<1> QED  BY <1>1 DEF Rank, Kind

LEMMA AlikeIs ==
  \A a, b \in Activity : Alike(a, b) <=>
    /\ a.object = b.object
    /\ \/ a.kind = "Update" /\ b.kind = "Update"
       \/ a.kind \in Removal /\ b.kind \in Removal
  BY DEF Alike, Removal

\* The order of what is published about an object is total.
LEMMA OneOfRank ==
  ASSUME TypeOK, NEW a \in script, NEW b \in script, a.object = b.object,
         Rank(a) = Rank(b)
  PROVE  a = b
<1>1. a \in Activity /\ b \in Activity  BY Published
<1>2. /\ a = [kind |-> a.kind, object |-> a.object, version |-> a.version]
      /\ b = [kind |-> b.kind, object |-> b.object, version |-> b.version]
      /\ a.kind \in Kind /\ b.kind \in Kind /\ a.version \in 1..3 /\ b.version \in 1..3
  BY <1>1, InboxAssumption
<1>3. a.kind = b.kind
  BY <1>1, <1>2, Ranks DEF Kind
<1>4. CASE a.kind = "Update"
  <2>1. a.version = b.version
    BY <1>1, <1>2, <1>3, <1>4, Ranks
  <2> QED  BY <1>2, <1>3, <2>1
<1>5. CASE a.kind # "Update"
  BY <1>3, <1>5, ScriptAssumption DEF TypeOK
<1> QED  BY <1>4, <1>5

LEMMA GreatestRank ==
  ASSUME NEW S \in SUBSET Activity, S # {}
  PROVE  \E a \in S : \A b \in S : Rank(b) <= Rank(a)
<1>1. \A a \in S : Rank(a) \in {1, 2, 3, 4, 10, 11}  BY Ranks
<1>2. CASE \E a \in S : Rank(a) = 11  BY <1>1, <1>2
<1>3. CASE ~(\E a \in S : Rank(a) = 11) /\ \E a \in S : Rank(a) = 10
  BY <1>1, <1>3
<1>4. CASE ~(\E a \in S : Rank(a) \in {10, 11}) /\ \E a \in S : Rank(a) = 4
  BY <1>1, <1>4
<1>5. CASE ~(\E a \in S : Rank(a) \in {4, 10, 11}) /\ \E a \in S : Rank(a) = 3
  BY <1>1, <1>5
<1>6. CASE ~(\E a \in S : Rank(a) \in {3, 4, 10, 11}) /\ \E a \in S : Rank(a) = 2
  BY <1>1, <1>6
<1>7. CASE ~(\E a \in S : Rank(a) \in {2, 3, 4, 10, 11})
  BY <1>1, <1>7
<1> QED  BY <1>2, <1>3, <1>4, <1>5, <1>6, <1>7

\* An object at which nothing changes.
LEMMA Elsewhere ==
  ASSUME TypeOK, NEW o \in Object, Steady(o), Taken(o)' = Taken(o),
         row'[o] = row[o],
         \A a \in Taken(o) : announced'[a] = announced[a],
         \A c \in Celery, a \in Taken(o) :
           /\ Does(c, a)' <=> Does(c, a)
           /\ Does(c, a) => celery'[c] = celery[c]
  PROVE  Steady(o)'
<1>1. \A a \in Taken(o) : Last(a)' <=> Last(a)
  BY DEF Last, Taken
<1>2. \A a \in Taken(o), at \in {"insert", "edit", "flag", "announce"} :
        Stands(a, at)' <=> Stands(a, at)
  BY DEF Stands
<1>3. Exists(o)' <=> Exists(o)  BY DEF Exists
<1>4. InTurn(o)'  BY DEF Steady, InTurn
<1>5. \A c \in Celery : Hand(c, o)'
  BY <1>1, <1>3 DEF Steady, Hand
<1>6. Shown(o)'
  BY <1>1, <1>2, <1>3 DEF Steady, Shown
<1>7. \A a \in Taken(o) : Told(a)' <=> Told(a)
  BY <1>2 DEF Told
<1>8. Made(o)'
  BY <1>3, <1>7 DEF Steady, Made
<1> QED  BY <1>4, <1>5, <1>6, <1>8 DEF Steady

LEMMA InitShows == Init => Shows
<1> SUFFICES ASSUME Init  PROVE Shows
  OBVIOUS
<1>1. /\ \A o \in Object : row[o] = NoRow /\ NoRow.deleted = FALSE /\ NoRow.version = 0
      /\ taken = {} /\ \A c \in Celery : celery[c] = Idle
      /\ \A w \in Web : web[w] = Idle
      /\ \A a \in Activity : queue[a] = 0 /\ handled[a] = 0
  BY DEF Init, NoRow
<1>2. Base
  BY <1>1 DEF Base, Serves
<1>3. \A o \in Object : Taken(o) = {}  BY <1>1 DEF Taken
<1>4. ASSUME NEW o \in Object  PROVE Steady(o)
  <2>1. InTurn(o) /\ (\A c \in Celery : Hand(c, o)) /\ Shown(o)
    BY <1>3 DEF InTurn, Hand, Shown
  <2>2. Made(o)
    BY <1>1 DEF Made, Exists
  <2> QED  BY <2>1, <2>2 DEF Steady
<1> QED  BY <1>2, <1>4 DEF Shows

\* What goes on before celery takes up an activity.
LEMMA WebShows ==
  ASSUME TypeOK, Shows,
         (\E w \in Web : WebNext(w)) \/ (\E a \in script : Expire(a))
  PROVE  Shows'
<1>1. UNCHANGED <<script, celery, row, announced, taken>>
  BY DEF WebNext, Ask, Remember, HandOver, Refuse, Expire
<1>2. \A a \in Activity : mishaps[a] \subseteq mishaps'[a]
  <2>1. ASSUME NEW w \in Web, NEW a \in script, Ask(w, a)
        PROVE  \A b \in Activity : mishaps[b] \subseteq mishaps'[b]
    BY <2>1, Published, NoteGrows DEF Ask
  <2>2. ASSUME NEW w \in Web, Refuse(w)
        PROVE  \A b \in Activity : mishaps[b] \subseteq mishaps'[b]
    BY <2>2, Jobs, NoteGrows DEF Refuse
  <2>3. ASSUME NEW a \in script, Expire(a)
        PROVE  \A b \in Activity : mishaps[b] \subseteq mishaps'[b]
    BY <2>3, Published, NoteGrows DEF Expire
  <2>4. ASSUME NEW w \in Web, Remember(w) \/ HandOver(w)
        PROVE  \A b \in Activity : mishaps[b] \subseteq mishaps'[b]
    BY <2>4 DEF Remember, HandOver
  <2> QED  BY <2>1, <2>2, <2>3, <2>4 DEF WebNext
<1>3. ASSUME NEW o \in Object, Smooth(o)'  PROVE Steady(o)'
  <2>1. taken \subseteq Activity  BY DEF TypeOK
  <2>2. Smooth(o)  BY <1>1, <1>2, <1>3, <2>1 DEF Smooth, Taken
  <2>3. Steady(o)  BY <2>2 DEF Shows
  <2> QED  BY <1>1, <2>3, Elsewhere DEF Taken, Does
<1>4. Base'
  <2>1. (\A c \in Celery : celery[c] # Idle =>
           /\ celery[c].does \in taken
           /\ celery[c].at \in {"edit", "flag"} => Exists(celery[c].does.object))'
        /\ (\A o \in Object : ~Exists(o) => row[o] = NoRow)'
    BY <1>1 DEF Shows, Base, Exists
  <2>2. ASSUME NEW a \in Activity
        PROVE  /\ (queue[a] > 0 \/ a \in taken \/ (\E w \in Web : Serves(w, a)) =>
                    a \in script /\ sender[a] # "unsent")'
               /\ (handled[a] > 0 => queue[a] > 0 \/ a \in taken)'
    <3>0. /\ queue[a] > 0 \/ a \in taken \/ (\E w \in Web : Serves(w, a)) =>
               a \in script /\ sender[a] # "unsent"
          /\ handled[a] > 0 => queue[a] > 0 \/ a \in taken
          /\ queue[a] \in Nat /\ handled[a] \in Nat
      BY DEF Shows, Base, TypeOK
    <3>1. ASSUME NEW w \in Web, NEW b \in script, Ask(w, b)
          PROVE  /\ (queue[a] > 0 \/ a \in taken \/ (\E v \in Web : Serves(v, a)) =>
                      a \in script /\ sender[a] # "unsent")'
                 /\ (handled[a] > 0 => queue[a] > 0 \/ a \in taken)'
      <4>1. queue' = queue /\ handled' = handled /\ b \in Activity
        BY <3>1, Published DEF Ask
      <4>2. /\ sender[a] # "unsent" => sender'[a] # "unsent"
            /\ a = b => sender'[a] # "unsent"
        BY <3>1, <4>1 DEF Ask, TypeOK
      <4>3. \A v \in Web : Serves(v, a)' => Serves(v, a) \/ a = b
        <5>1. web' = web \/ web' = [web EXCEPT ![w] = [at |-> "asked", does |-> b]]
          BY <3>1 DEF Ask
        <5>2. \A v \in Web : web'[v] = web[v] \/ web'[v].does = b
          BY <5>1 DEF TypeOK
        <5> QED  BY <5>2 DEF Serves
      <4> QED  BY <1>1, <3>0, <4>1, <4>2, <4>3
    <3>2. ASSUME NEW w \in Web, Remember(w)
          PROVE  /\ (queue[a] > 0 \/ a \in taken \/ (\E v \in Web : Serves(v, a)) =>
                      a \in script /\ sender[a] # "unsent")'
                 /\ (handled[a] > 0 => queue[a] > 0 \/ a \in taken)'
      <4>1. queue' = queue /\ handled' = handled /\ sender' = sender
        BY <3>2 DEF Remember
      <4>2. web[w] # Idle  BY <3>2, Somewhere DEF Remember
      <4>3. \A v \in Web : Serves(v, a)' => Serves(v, a)
        BY <3>2, <4>2, Jobs DEF Remember, Serves, TypeOK
      <4> QED  BY <1>1, <3>0, <4>1, <4>3
    <3>3. ASSUME NEW w \in Web, HandOver(w)
          PROVE  /\ (queue[a] > 0 \/ a \in taken \/ (\E v \in Web : Serves(v, a)) =>
                      a \in script /\ sender[a] # "unsent")'
                 /\ (handled[a] > 0 => queue[a] > 0 \/ a \in taken)'
      <4>1. web[w] # Idle  BY <3>3, Somewhere DEF HandOver
      <4> PICK b \in Activity : b = web[w].does
        BY <4>1, Jobs
      <4>2. Serves(w, b)  BY <4>1 DEF Serves
      <4>3. /\ queue' = [queue EXCEPT ![b] = @ + 1]
            /\ handled' = [handled EXCEPT ![b] = @ + 1]
            /\ sender'[a] = "unsent" => sender[a] = "unsent"
        BY <3>3 DEF HandOver, TypeOK
      <4>4. /\ queue'[a] >= queue[a] /\ (a # b => queue'[a] = queue[a])
            /\ a # b => handled'[a] = handled[a]
            /\ a = b => queue'[a] > 0
        BY <3>0, <4>3 DEF TypeOK
      <4>5. \A v \in Web : Serves(v, a)' => Serves(v, a)
        BY <3>3 DEF HandOver, Serves, TypeOK
      <4> QED  BY <1>1, <3>0, <4>2, <4>3, <4>4, <4>5
    <3>4. ASSUME NEW w \in Web, Refuse(w)
          PROVE  /\ (queue[a] > 0 \/ a \in taken \/ (\E v \in Web : Serves(v, a)) =>
                      a \in script /\ sender[a] # "unsent")'
                 /\ (handled[a] > 0 => queue[a] > 0 \/ a \in taken)'
      <4>1. queue' = queue /\ handled' = handled
            /\ (sender'[a] = "unsent" => sender[a] = "unsent")
        BY <3>4 DEF Refuse, TypeOK
      <4>2. \A v \in Web : Serves(v, a)' => Serves(v, a)
        BY <3>4 DEF Refuse, Serves, TypeOK
      <4> QED  BY <1>1, <3>0, <4>1, <4>2
    <3>5. ASSUME NEW b \in script, Expire(b)
          PROVE  /\ (queue[a] > 0 \/ a \in taken \/ (\E v \in Web : Serves(v, a)) =>
                      a \in script /\ sender[a] # "unsent")'
                 /\ (handled[a] > 0 => queue[a] > 0 \/ a \in taken)'
      BY <1>1, <3>0, <3>5 DEF Expire, Serves
    <3> QED  BY <3>1, <3>2, <3>3, <3>4, <3>5 DEF WebNext
  <2> QED  BY <2>1, <2>2 DEF Base
<1> QED  BY <1>3, <1>4 DEF Shows

\* The worker of c goes from one step of an activity to the next.
LEMMA NowAt ==
  ASSUME TypeOK, NEW c \in Celery, celery[c] # Idle,
         NEW at \in {"insert", "edit", "flag", "announce"},
         NEW saw \in 0..3, celery' = [celery EXCEPT ![c].at = at, ![c].saw = saw]
  PROVE  /\ celery'[c] # Idle /\ celery'[c].at = at /\ celery'[c].saw = saw
         /\ celery'[c].does = celery[c].does
         /\ \A d \in Celery : d # c => celery'[d] = celery[d]
<1> DEFINE j == [celery[c] EXCEPT !.at = at, !.saw = saw]
<1>1. /\ j.at = at /\ j.saw = saw /\ j.does = celery[c].does
      /\ j \in [at : {"insert", "edit", "flag", "announce"}, does : Activity, saw : 0..3]
  BY Jobs
<1>2. j # Idle  BY <1>1 DEF Idle
<1>3. celery' = [celery EXCEPT ![c] = j]
  BY DEF TypeOK
<1> HIDE DEF j
<1> QED  BY <1>1, <1>2, <1>3 DEF TypeOK

LEMMA GoneTo ==
  ASSUME TypeOK, NEW c \in Celery, celery[c] # Idle,
         NEW at \in {"insert", "edit", "flag", "announce"}, GoTo(c, at)
  PROVE  /\ celery'[c] # Idle /\ celery'[c].at = at
         /\ celery'[c].does = celery[c].does
         /\ \A d \in Celery : d # c => celery'[d] = celery[d]
<1>1. celery[c] \in [at : {"insert", "edit", "flag", "announce"}, does : Activity, saw : 0..3]
  BY Jobs
<1>2. celery[c].saw \in 0..3  BY <1>1
<1>3. [celery[c] EXCEPT !.at = at] = [celery[c] EXCEPT !.at = at, !.saw = celery[c].saw]
  BY <1>1
<1>4. celery' = [celery EXCEPT ![c].at = at, ![c].saw = celery[c].saw]
  BY <1>3 DEF GoTo, TypeOK
<1> QED  BY <1>2, <1>4, NowAt

\* Celery takes up an activity.
LEMMA TakeOther ==
  ASSUME TypeOK, Shows, NEW c \in Celery, NEW a \in script, Take(c, a),
         NEW o \in Object, o # a.object, Smooth(o)'
  PROVE  Steady(o)'
<1>1. /\ celery[c] = Idle /\ taken' = taken \cup {a} /\ row' = row
      /\ announced' = announced /\ a \in Activity
      /\ mishaps' = [mishaps EXCEPT ![a] = mishaps'[a]]
  BY Published DEF Take, TypeOK
<1>2. Taken(o)' = Taken(o)  BY <1>1 DEF Taken
<1>3. \A b \in Taken(o) : b # a /\ b \in Activity  BY DEF Taken, TypeOK
<1>4. Smooth(o)  BY <1>1, <1>2, <1>3 DEF Smooth, TypeOK
<1>5. /\ \A d \in Celery : d # c => celery'[d] = celery[d]
      /\ celery'[c] = Idle \/ celery'[c].does = a
  BY <1>1 DEF Take, Begin, TypeOK
<1>6. \A d \in Celery, b \in Taken(o) :
        /\ Does(d, b)' <=> Does(d, b)
        /\ Does(d, b) => celery'[d] = celery[d]
  BY <1>1, <1>3, <1>5 DEF Does
<1> QED  BY <1>1, <1>2, <1>4, <1>6, Elsewhere DEF Shows

LEMMA TakeOwn ==
  ASSUME TypeOK, TypeOK', Shows, NEW c \in Celery, NEW a \in script, Take(c, a),
         NEW o \in Object, o = a.object, Smooth(o)'
  PROVE  Steady(o)'
<1>1. /\ celery[c] = Idle /\ taken' = taken \cup {a} /\ row' = row
      /\ announced' = announced /\ a \in Activity
      /\ \A d \in Celery : d # c => celery'[d] = celery[d]
      /\ \A b \in Activity : mishaps[b] \subseteq mishaps'[b]
  BY Published DEF Take, Begin, TypeOK
<1>2. /\ Taken(o)' = Taken(o) \cup {a} /\ Taken(o) \subseteq Activity
      /\ \A b \in Taken(o) : b.object = o
  BY <1>1 DEF Taken, TypeOK
<1>3. Smooth(o) /\ Steady(o)
  <2>1. Smooth(o)  BY <1>1, <1>2 DEF Smooth
  <2> QED  BY <2>1 DEF Shows
<1>4. ~Crossed(a) /\ ~Orphan(a)
  <2>1. mishaps'[a] \cap {"killed", "orphan", "crossed"} = {}
    BY <1>2 DEF Smooth
  <2>2. mishaps'[a] = mishaps[a] \cup (IF Crossed(a) THEN {"crossed"} ELSE {})
                       \cup (IF Orphan(a) THEN {"orphan"} ELSE {})
    BY <1>1 DEF Take, TypeOK
  <2> QED  BY <2>1, <2>2
<1>5. \A b \in Taken(o) : Alike(a, b) => Rank(b) <= Rank(a)
  <2>1. \A b \in Taken(o) : Alike(a, b) => ~(Rank(b) > Rank(a))
    BY <1>4 DEF Crossed, Taken
  <2> QED  BY <1>1, <1>2, <2>1, Ranks
<1>6. Last(a)'
  <2>1. Rank(a) <= Rank(a)  BY <1>1, Ranks
  <2> QED  BY <1>2, <1>5, <2>1 DEF Last
<1>7. \A d \in Celery, b \in Taken(o) : Does(d, b) => ~Alike(a, b) /\ ~Alike(b, a)
  <2>1. \A d \in Celery, b \in Taken(o) : Does(d, b) => ~Alike(a, b)
    BY <1>4 DEF Crossed, Does
  <2> QED  BY <1>1, <1>2, <2>1, AlikeIs
<1>8. a.kind \in Removal => Exists(o)
  BY <1>4 DEF Crossed, Removal
\* Those who were there before.
<1>9. \A b \in Taken(o) : /\ Last(b)' => Last(b)
                          /\ Last(b) /\ ~Alike(b, a) => Last(b)'
  BY <1>2 DEF Last
<1>10. \A b \in Taken(o), at \in {"insert", "edit", "flag", "announce"} :
         Stands(b, at) => Stands(b, at)'
  BY <1>1 DEF Stands, Does
<1>11. \A b \in Taken(o) : Told(b) => Told(b)'
  BY <1>1, <1>10 DEF Told
<1>12. Made(o)'
  BY <1>1, <1>2, <1>3, <1>11 DEF Steady, Made, Exists
<1>13. \A d \in Celery, b \in Taken(o)' : d # c /\ Does(d, b)' => Does(d, b) /\ b \in Taken(o)
  BY <1>1, <1>2 DEF Does, Shows, Base, Taken
<1>14. \A d \in Celery : d # c => Hand(d, o)'
  BY <1>1, <1>3, <1>7, <1>9, <1>13 DEF Steady, Hand, Exists
<1>15. \A b \in Taken(o) :
         /\ b.kind \in EditKind => (Exists(o) \/ Stands(b, "insert"))'
         /\ b.kind = "Update" /\ Last(b)' =>
              \/ Stands(b, "insert")' \/ Stands(b, "edit")'
              \/ row'[o].edited /\ row'[o].version = b.version
         /\ b.kind \in Removal => Exists(o)'
         /\ b.kind \in Removal /\ Last(b)' =>
              Stands(b, "flag")' \/ row'[o].deleted = (b.kind = "Delete")
  BY <1>1, <1>3, <1>9, <1>10 DEF Steady, Shown, Exists
\* A worker begins with it.
<1>20. ASSUME NEW at \in {"insert", "edit", "flag"}, Begin(c, a, at),
              at = "insert" => a.kind \in EditKind /\ ~Exists(o),
              at = "edit" => a.kind = "Update" /\ Exists(o),
              at = "flag" => a.kind \in Removal
       PROVE  Steady(o)'
  <2>1. /\ celery'[c] = [at |-> at, does |-> a, saw |-> row[a.object].version]
        /\ celery'[c] # Idle
    BY <1>20 DEF Begin, TypeOK, Idle
  <2>2. celery'[c].at = at /\ celery'[c].does = a /\ celery'[c].saw = row[o].version
    BY <2>1
  <2>3. \A b \in Taken(o)' : Does(c, b)' <=> b = a
    BY <2>1, <2>2 DEF Does
  <2>4. InTurn(o)'
    BY <1>3, <1>7, <1>13, <2>3 DEF Steady, InTurn
  <2>5. Hand(c, o)'
    BY <1>1, <1>6, <1>20, <2>2, <2>3 DEF Hand, Exists
  <2>6. Stands(a, at)'
    BY <2>1, <2>2 DEF Stands, Does
  <2>7. Shown(o)'
    BY <1>1, <1>2, <1>8, <1>15, <1>20, <2>6 DEF Shown, Exists, EditKind, Removal
  <2> QED  BY <1>12, <1>14, <2>4, <2>5, <2>7 DEF Steady
\* Nothing is to be done for it.
<1>21. ASSUME UNCHANGED celery,
              \/ a.kind = "Create" /\ Exists(o)
              \/ a.kind \in Removal /\ row[o].deleted # (a.kind = "Restore")
       PROVE  Steady(o)'
  <2>1. InTurn(o)'
    BY <1>1, <1>3, <1>13, <1>21 DEF Steady, InTurn, Does
  <2>2. Hand(c, o)'
    BY <1>1, <1>21 DEF Hand, Does
  <2>3. a.kind \in Removal => row'[o].deleted = (a.kind = "Delete")
    <3>1. row[o].deleted \in BOOLEAN  BY DEF TypeOK
    <3>2. CASE a.kind = "Delete"
      BY <1>1, <1>21, <3>1, <3>2 DEF Removal
    <3>3. CASE a.kind = "Restore"
      BY <1>1, <1>21, <3>1, <3>3 DEF Removal
    <3> QED  BY <3>2, <3>3 DEF Removal
  <2>4. Shown(o)'
    BY <1>1, <1>2, <1>8, <1>15, <1>21, <2>3 DEF Shown, Exists, EditKind, Removal
  <2> QED  BY <1>12, <1>14, <2>1, <2>2, <2>4 DEF Steady
<1> QED
  <2>1. CASE a.kind \in EditKind /\ ~Exists(o) /\ Begin(c, a, "insert")
    BY <1>20, <2>1
  <2>2. CASE a.kind = "Update" /\ Exists(o) /\ Begin(c, a, "edit")
    BY <1>20, <2>2
  <2>3. CASE a.kind \in Removal /\ Begin(c, a, "flag")
    BY <1>20, <2>3
  <2>4. CASE /\ UNCHANGED celery
             /\ \/ a.kind = "Create" /\ Exists(o)
                \/ a.kind \in Removal /\ row[o].deleted # (a.kind = "Restore")
    BY <1>21, <2>4
  <2> QED  BY <1>4, <1>8, <2>1, <2>2, <2>3, <2>4 DEF Take, EditKind, Removal

\* Celery works at an activity.
LEMMA WorkOther ==
  ASSUME TypeOK, Shows, NEW c \in Celery,
         Insert(c) \/ Edit(c) \/ Flag(c) \/ Announce(c) \/ Fail(c),
         NEW o \in Object, o # celery[c].does.object, Smooth(o)'
  PROVE  Steady(o)'
<1>1. celery[c] # Idle /\ taken' = taken
  BY Somewhere DEF Insert, Edit, Flag, Announce, Fail
<1> PICK a \in Activity : a = celery[c].does
  BY <1>1, Jobs
<1>2. /\ row'[o] = row[o] /\ \A b \in Activity : b # a => announced'[b] = announced[b]
  BY <1>1 DEF Insert, Edit, Flag, Announce, Tell, Fail, TypeOK
<1>3. \A b \in Activity : mishaps[b] \subseteq mishaps'[b]
  <2>1. CASE Fail(c)  BY <1>1, <2>1, NoteGrows DEF Fail
  <2>2. CASE ~Fail(c)  BY <2>2 DEF Insert, Edit, Flag, Announce
  <2> QED  BY <2>1, <2>2
<1>4. Taken(o)' = Taken(o) /\ \A b \in Taken(o) : b # a /\ b \in Activity
  BY <1>1 DEF Taken, TypeOK
<1>5. Smooth(o)  BY <1>3, <1>4 DEF Smooth
<1>6. /\ \A d \in Celery : d # c => celery'[d] = celery[d]
      /\ celery'[c] = Idle \/ celery'[c].does = a
  <2>1. CASE Announce(c) \/ Fail(c)
    BY <2>1 DEF Announce, Tell, Fail, Done, TypeOK
  <2>2. CASE Edit(c) \/ Flag(c)
    BY <1>1, <2>2, GoneTo DEF Edit, Flag
  <2>3. CASE Insert(c)
    <3>1. CASE GoTo(c, "announce")
      BY <1>1, <3>1, GoneTo
    <3>2. CASE celery' = [celery EXCEPT ![c].at = "edit", ![c].saw = row[a.object].version]
      <4>1. row[a.object].version \in 0..3  BY Jobs DEF TypeOK
      <4> QED  BY <1>1, <3>2, <4>1, NowAt
    <3> QED  BY <2>3, <3>1, <3>2 DEF Insert
  <2> QED  BY <2>1, <2>2, <2>3
<1>7. \A d \in Celery, b \in Taken(o) :
        /\ Does(d, b)' <=> Does(d, b)
        /\ Does(d, b) => celery'[d] = celery[d]
  BY <1>1, <1>4, <1>6 DEF Does
<1> QED  BY <1>2, <1>4, <1>5, <1>7, Elsewhere DEF Shows

\* ... at the object itself: what the steps have in common.
LEMMA Working ==
  ASSUME TypeOK, Shows, NEW c \in Celery, NEW o \in Object, Steady(o),
         NEW a \in Taken(o), Does(c, a), taken' = taken,
         \A d \in Celery : d # c => celery'[d] = celery[d],
         celery'[c] = Idle \/ Does(c, a)'
  PROVE  /\ Taken(o)' = Taken(o) /\ Taken(o) \subseteq Activity
         /\ \A b \in Taken(o) : (Last(b)' <=> Last(b)) /\ b.object = o
         /\ \A d \in Celery, b \in Taken(o) : Does(d, b)' => Does(d, b)
         /\ \A d \in Celery, b \in Taken(o) :
              d # c => (Does(d, b)' <=> Does(d, b)) /\ celery'[d] = celery[d]
         /\ \A b \in Taken(o), at \in {"insert", "edit", "flag", "announce"} :
              /\ at # celery[c].at /\ Stands(b, at) => Stands(b, at)'
              /\ b # a /\ Stands(b, at) => Stands(b, at)'
         /\ InTurn(o)'
<1>1. Taken(o)' = Taken(o) /\ Taken(o) \subseteq Activity
      /\ \A b \in Taken(o) : b.object = o
  BY DEF Taken, TypeOK
<1>2. \A b \in Taken(o) : Last(b)' <=> Last(b)
  BY <1>1 DEF Last
<1>3. \A d \in Celery, b \in Taken(o) :
         d # c => (Does(d, b)' <=> Does(d, b)) /\ celery'[d] = celery[d]
  BY DEF Does
<1>4. \A d \in Celery, b \in Taken(o) : Does(d, b)' => Does(d, b)
  BY <1>3 DEF Does
<1>5. \A b \in Taken(o), at \in {"insert", "edit", "flag", "announce"} :
        /\ at # celery[c].at /\ Stands(b, at) => Stands(b, at)'
        /\ b # a /\ Stands(b, at) => Stands(b, at)'
  BY <1>3 DEF Stands, Does
<1>6. InTurn(o)'
  BY <1>1, <1>4 DEF Steady, InTurn
<1> QED  BY <1>1, <1>2, <1>3, <1>4, <1>5, <1>6

LEMMA InsertOwn ==
  ASSUME TypeOK, TypeOK', Shows, NEW c \in Celery, Insert(c), NEW o \in Object,
         NEW a \in Taken(o), Does(c, a), Steady(o)
  PROVE  Steady(o)'
<1>0. /\ a \in Activity /\ a.object = o /\ a.version \in 1..3
      /\ celery[c] # Idle /\ celery[c].does = a /\ celery[c].at = "insert"
  BY Jobs DEF Taken, TypeOK, Does, Insert, CeleryAt
<1>1. /\ Last(a) /\ a.kind \in EditKind
      /\ a.kind = "Update" /\ Exists(o) => ~row[o].edited
  BY <1>0 DEF Steady, Hand
<1>2. taken' = taken /\ announced' = announced
  BY DEF Insert
<1>3. CASE ~Exists(o)
  <2>1. /\ row' = [row EXCEPT ![o] =
             [version |-> a.version, edited |-> a.kind = "Update", deleted |-> FALSE]]
        /\ GoTo(c, "announce")
    BY <1>0, <1>3 DEF Insert
  <2>2. /\ row'[o].version = a.version /\ row'[o].edited = (a.kind = "Update")
        /\ row'[o].deleted = FALSE
    BY <2>1 DEF TypeOK
  <2>3. /\ Does(c, a)' /\ celery'[c].at = "announce"
        /\ \A d \in Celery : d # c => celery'[d] = celery[d]
    BY <1>0, <2>1, GoneTo DEF Does
  <2>4. /\ Taken(o)' = Taken(o) /\ Taken(o) \subseteq Activity
        /\ \A b \in Taken(o) : (Last(b)' <=> Last(b)) /\ b.object = o
        /\ \A d \in Celery, b \in Taken(o) :
             d # c => (Does(d, b)' <=> Does(d, b)) /\ celery'[d] = celery[d]
        /\ \A b \in Taken(o), at \in {"insert", "edit", "flag", "announce"} :
             b # a /\ Stands(b, at) => Stands(b, at)'
        /\ InTurn(o)'
    BY <1>0, <1>2, <2>3, Working
  <2>5. Exists(o)'  BY <1>0, <2>2 DEF Exists
  <2>6. row[o] = NoRow /\ row[o].edited = FALSE
    BY <1>3 DEF Shows, Base, NoRow
  <2>7. Hand(c, o)'
    BY <1>0, <1>1, <2>3, <2>4 DEF Hand, Does
  <2>8. ASSUME NEW d \in Celery, d # c  PROVE Hand(d, o)'
    <3>1. ASSUME NEW b \in Taken(o), Does(d, b)
          PROVE  /\ ~(b.kind = "Update" /\ a.kind = "Update")
                 /\ celery[d].at # "edit"
      <4>1. ~Alike(a, b)  BY <2>8, <3>1 DEF Steady, InTurn
      <4>2. celery[d].at # "edit"  BY <1>3, <3>1 DEF Steady, Hand
      <4> QED  BY <1>0, <2>4, <4>1, <4>2, AlikeIs
    <3>2. /\ row'[o].edited => a.kind = "Update"
      BY <2>2
    <3> QED  BY <2>4, <2>8, <3>1, <3>2 DEF Steady, Hand
  <2>9. Shown(o)'
    <3>1. ASSUME NEW b \in Taken(o), b.kind = "Update", Last(b)
          PROVE  \/ Stands(b, "insert")' \/ Stands(b, "edit")'
                 \/ row'[o].edited /\ row'[o].version = b.version
      <4>1. Stands(b, "insert") \/ Stands(b, "edit")
        BY <2>6, <3>1 DEF Steady, Shown
      <4>2. CASE b = a  BY <2>2, <3>1, <4>2
      <4>3. CASE b # a  BY <2>4, <4>1, <4>3
      <4> QED  BY <4>2, <4>3
    <3>2. \A b \in Taken(o) : b.kind \notin Removal
      BY <1>3 DEF Steady, Shown
    <3> QED  BY <2>4, <2>5, <3>1, <3>2 DEF Shown
  <2>10. Made(o)'
    <3>1. Told(a)'  BY <2>3 DEF Told, Stands
    <3>2. a.kind = IF row'[o].edited THEN "Update" ELSE "Create"
      BY <1>1, <2>2 DEF EditKind
    <3> QED  BY <2>2, <2>4, <3>1, <3>2 DEF Made
  <2> QED  BY <2>4, <2>7, <2>8, <2>9, <2>10 DEF Steady
\* The row is there: only the Create and the first Update are at it together.
<1>4. CASE Exists(o)
  <2>1. /\ row' = row /\ Does(c, a)'
        /\ \A d \in Celery : d # c => celery'[d] = celery[d]
        /\ \/ a.kind = "Create" /\ celery'[c].at = "announce"
           \/ /\ a.kind = "Update" /\ celery'[c].at = "edit"
              /\ celery'[c].saw = row[o].version
    <3>1. CASE a.kind = "Create"
      <4>1. GoTo(c, "announce") /\ row' = row
        BY <1>0, <1>4, <3>1 DEF Insert, LostToCreate
      <4> QED  BY <1>0, <3>1, <4>1, GoneTo DEF Does
    <3>2. CASE a.kind = "Update"
      <4>1. ~row[o].edited  BY <1>1, <1>4, <3>2
      <4>2. /\ celery' = [celery EXCEPT ![c].at = "edit", ![c].saw = row[o].version]
            /\ row' = row
        BY <1>0, <1>4, <3>2, <4>1 DEF Insert, LostToCreate
      <4>3. row[o].version \in 0..3  BY DEF TypeOK
      <4> QED  BY <1>0, <3>2, <4>2, <4>3, NowAt DEF Does
    <3> QED  BY <1>1, <3>1, <3>2 DEF EditKind
  <2>2. /\ Taken(o)' = Taken(o) /\ Taken(o) \subseteq Activity
        /\ \A b \in Taken(o) : (Last(b)' <=> Last(b)) /\ b.object = o
        /\ \A d \in Celery, b \in Taken(o) :
             d # c => (Does(d, b)' <=> Does(d, b)) /\ celery'[d] = celery[d]
        /\ \A b \in Taken(o), at \in {"insert", "edit", "flag", "announce"} :
             /\ at # "insert" /\ Stands(b, at) => Stands(b, at)'
             /\ b # a /\ Stands(b, at) => Stands(b, at)'
        /\ InTurn(o)'
    BY <1>0, <1>2, <2>1, Working
  <2>3. Exists(o)'  BY <1>4, <2>1 DEF Exists
  <2>4. Hand(c, o)'
    BY <1>0, <1>1, <2>1, <2>2, <2>3 DEF Hand, Does
  <2>5. \A d \in Celery : d # c => Hand(d, o)'
    BY <2>1, <2>2, <2>3, <1>4 DEF Steady, Hand
  <2>6. Shown(o)'
    <3>1. ASSUME NEW b \in Taken(o), b.kind = "Update", Last(b)
          PROVE  \/ Stands(b, "insert")' \/ Stands(b, "edit")'
                 \/ row'[o].edited /\ row'[o].version = b.version
      <4>1. CASE b = a
        BY <2>1, <3>1, <4>1 DEF Stands
      <4>2. CASE b # a
        BY <2>1, <2>2, <3>1, <4>2 DEF Steady, Shown
      <4> QED  BY <4>1, <4>2
    <3>2. ASSUME NEW b \in Taken(o), b.kind \in Removal, Last(b)
          PROVE  Stands(b, "flag")' \/ row'[o].deleted = (b.kind = "Delete")
      BY <2>1, <2>2, <3>2 DEF Steady, Shown
    <3> QED  BY <2>2, <2>3, <3>1, <3>2 DEF Shown
  <2>7. Made(o)'
    <3>1. \A b \in Taken(o) : Told(b) => Told(b)'
      BY <1>2, <2>2 DEF Told
    <3> QED  BY <1>4, <2>1, <2>2, <3>1 DEF Steady, Made
  <2> QED  BY <2>2, <2>4, <2>5, <2>6, <2>7 DEF Steady
<1> QED  BY <1>3, <1>4

LEMMA EditOwn ==
  ASSUME TypeOK, TypeOK', Shows, NEW c \in Celery, Edit(c), NEW o \in Object,
         NEW a \in Taken(o), Does(c, a), Steady(o)
  PROVE  Steady(o)'
<1>0. /\ a \in Activity /\ a.object = o /\ a.version \in 1..3 /\ a \in script
      /\ celery[c] # Idle /\ celery[c].does = a /\ celery[c].at = "edit"
  BY Jobs DEF Taken, TypeOK, Does, Edit, CeleryAt, Shows, Base
<1>1. /\ Last(a) /\ a.kind = "Update" /\ Exists(o) /\ celery[c].saw = row[o].version
  BY <1>0 DEF Steady, Hand
<1>2. taken' = taken /\ announced' = announced /\ GoTo(c, "announce")
  BY DEF Edit
<1>3. /\ row'[o].version = a.version /\ row'[o].edited = TRUE
      /\ row'[o].deleted = row[o].deleted
  BY <1>0, <1>1 DEF Edit, TypeOK
<1>4. /\ Does(c, a)' /\ celery'[c].at = "announce"
      /\ \A d \in Celery : d # c => celery'[d] = celery[d]
  BY <1>0, <1>2, GoneTo DEF Does
<1>5. /\ Taken(o)' = Taken(o) /\ Taken(o) \subseteq Activity
      /\ \A b \in Taken(o) : (Last(b)' <=> Last(b)) /\ b.object = o
      /\ \A d \in Celery, b \in Taken(o) :
           d # c => (Does(d, b)' <=> Does(d, b)) /\ celery'[d] = celery[d]
      /\ \A b \in Taken(o), at \in {"insert", "edit", "flag", "announce"} :
           at # "edit" /\ Stands(b, at) => Stands(b, at)'
      /\ InTurn(o)'
  BY <1>0, <1>2, <1>4, Working
<1>6. Exists(o)'  BY <1>0, <1>3 DEF Exists
<1>7. Hand(c, o)'
  BY <1>0, <1>1, <1>4, <1>5 DEF Hand, Does
<1>8. ASSUME NEW d \in Celery, d # c  PROVE Hand(d, o)'
  <2>1. ASSUME NEW b \in Taken(o), Does(d, b)  PROVE b.kind # "Update"
    <3>1. ~Alike(a, b)  BY <1>8, <2>1 DEF Steady, InTurn
    <3> QED  BY <1>0, <1>1, <1>5, <3>1, AlikeIs
  <2> QED  BY <1>5, <1>8, <2>1 DEF Steady, Hand
<1>9. Shown(o)'
  <2>1. ASSUME NEW b \in Taken(o), b.kind = "Update", Last(b)
        PROVE  row'[o].edited /\ row'[o].version = b.version
    <3>1. Alike(a, b) /\ Alike(b, a)  BY <1>0, <1>1, <1>5, <2>1, AlikeIs
    <3>2. Rank(a) <= Rank(b) /\ Rank(b) <= Rank(a)
      BY <1>0, <1>1, <1>5, <2>1, <3>1 DEF Last
    <3>3. Rank(a) = 1 + a.version /\ Rank(b) = 1 + b.version /\ b.version \in 1..3
      BY <1>0, <1>1, <1>5, <2>1, Ranks, InboxAssumption
    <3>4. a.version = b.version  BY <1>0, <3>2, <3>3
    <3> QED  BY <1>3, <3>4
  <2>2. ASSUME NEW b \in Taken(o), b.kind \in Removal, Last(b)
        PROVE  Stands(b, "flag")' \/ row'[o].deleted = (b.kind = "Delete")
    BY <1>3, <1>5, <2>2 DEF Steady, Shown
  <2> QED  BY <1>5, <1>6, <2>1, <2>2 DEF Shown
<1>10. Made(o)'
  <2>1. \A b \in Taken(o) : Told(b) => Told(b)'
    BY <1>2, <1>5 DEF Told
  <2>2. Told(a)'  BY <1>4 DEF Told, Stands
  <2>3. row[o].deleted => \E b \in Taken(o) : b.kind = "Delete" /\ Told(b)
    BY DEF Steady, Made
  <2> QED  BY <1>1, <1>3, <1>5, <2>1, <2>2, <2>3 DEF Made
<1> QED  BY <1>5, <1>7, <1>8, <1>9, <1>10 DEF Steady

LEMMA FlagOwn ==
  ASSUME TypeOK, TypeOK', Shows, NEW c \in Celery, Flag(c), NEW o \in Object,
         NEW a \in Taken(o), Does(c, a), Steady(o)
  PROVE  Steady(o)'
<1>0. /\ a \in Activity /\ a.object = o /\ a \in script
      /\ celery[c] # Idle /\ celery[c].does = a /\ celery[c].at = "flag"
  BY DEF Taken, TypeOK, Does, Flag, CeleryAt, Shows, Base
<1>1. Last(a) /\ a.kind \in Removal
  BY <1>0 DEF Steady, Hand
<1>2. taken' = taken /\ announced' = announced /\ GoTo(c, "announce")
  BY DEF Flag
<1>3. /\ row'[o].version = row[o].version /\ row'[o].edited = row[o].edited
      /\ row'[o].deleted = (a.kind = "Delete")
  BY <1>0 DEF Flag, TypeOK
<1>4. /\ Does(c, a)' /\ celery'[c].at = "announce"
      /\ \A d \in Celery : d # c => celery'[d] = celery[d]
  BY <1>0, <1>2, GoneTo DEF Does
<1>5. /\ Taken(o)' = Taken(o) /\ Taken(o) \subseteq Activity
      /\ \A b \in Taken(o) : (Last(b)' <=> Last(b)) /\ b.object = o
      /\ \A d \in Celery, b \in Taken(o) :
           d # c => (Does(d, b)' <=> Does(d, b)) /\ celery'[d] = celery[d]
      /\ \A b \in Taken(o), at \in {"insert", "edit", "flag", "announce"} :
           at # "flag" /\ Stands(b, at) => Stands(b, at)'
      /\ InTurn(o)'
  BY <1>0, <1>2, <1>4, Working
<1>6. Exists(o)' <=> Exists(o)  BY <1>3 DEF Exists
<1>7. Hand(c, o)'
  BY <1>0, <1>1, <1>4, <1>5 DEF Hand, Does
<1>8. \A d \in Celery : d # c => Hand(d, o)'
  BY <1>3, <1>5, <1>6 DEF Steady, Hand
<1>9. Shown(o)'
  <2>1. ASSUME NEW b \in Taken(o), b.kind \in Removal, Last(b)
        PROVE  row'[o].deleted = (b.kind = "Delete")
    <3>1. Alike(a, b) /\ Alike(b, a)  BY <1>0, <1>1, <1>5, <2>1, AlikeIs
    <3>2. Rank(a) <= Rank(b) /\ Rank(b) <= Rank(a)
      BY <1>0, <1>1, <1>5, <2>1, <3>1 DEF Last
    <3>3. a.kind = b.kind
      BY <1>0, <1>1, <1>5, <2>1, <3>2, Ranks DEF Removal
    <3> QED  BY <1>3, <3>3
  <2>2. ASSUME NEW b \in Taken(o), b.kind = "Update", Last(b)
        PROVE  \/ Stands(b, "insert")' \/ Stands(b, "edit")'
               \/ row'[o].edited /\ row'[o].version = b.version
    BY <1>3, <1>5, <2>2 DEF Steady, Shown
  <2>3. \A b \in Taken(o) :
          /\ b.kind \in EditKind => Exists(o)' \/ Stands(b, "insert")'
          /\ b.kind \in Removal => Exists(o)'
    BY <1>5, <1>6 DEF Steady, Shown
  <2> QED  BY <1>5, <2>1, <2>2, <2>3 DEF Shown
<1>10. Made(o)'
  <2>1. \A b \in Taken(o) : Told(b) => Told(b)'
    BY <1>2, <1>5 DEF Told
  <2>2. Told(a)'  BY <1>4 DEF Told, Stands
  <2>3. Exists(o) => \E b \in Taken(o) :
          /\ b.kind = (IF row[o].edited THEN "Update" ELSE "Create")
          /\ b.version = row[o].version /\ Told(b)
    BY DEF Steady, Made
  <2> QED  BY <1>3, <1>5, <1>6, <2>1, <2>2, <2>3 DEF Made
<1> QED  BY <1>5, <1>7, <1>8, <1>9, <1>10 DEF Steady

LEMMA AnnounceOwn ==
  ASSUME TypeOK, TypeOK', Shows, NEW c \in Celery, Announce(c), NEW o \in Object,
         NEW a \in Taken(o), Does(c, a), Steady(o)
  PROVE  Steady(o)'
<1>0. /\ a \in Activity /\ celery[c] # Idle /\ celery[c].does = a
      /\ celery[c].at = "announce"
  BY DEF Taken, TypeOK, Does, Announce, CeleryAt
<1>1. /\ taken' = taken /\ row' = row /\ celery'[c] = Idle
      /\ \A d \in Celery : d # c => celery'[d] = celery[d]
      /\ announced' = [announced EXCEPT ![a] = @ + 1]
  BY <1>0 DEF Announce, Tell, Done, TypeOK
<1>2. /\ Taken(o)' = Taken(o) /\ Taken(o) \subseteq Activity
      /\ \A b \in Taken(o) : (Last(b)' <=> Last(b)) /\ b.object = o
      /\ \A d \in Celery, b \in Taken(o) :
           d # c => (Does(d, b)' <=> Does(d, b)) /\ celery'[d] = celery[d]
      /\ \A b \in Taken(o), at \in {"insert", "edit", "flag", "announce"} :
           /\ at # "announce" /\ Stands(b, at) => Stands(b, at)'
           /\ b # a /\ Stands(b, at) => Stands(b, at)'
      /\ InTurn(o)'
  BY <1>0, <1>1, Working
<1>3. Exists(o)' <=> Exists(o)  BY <1>1 DEF Exists
<1>4. \A d \in Celery : Hand(d, o)'
  <2>1. Hand(c, o)'  BY <1>1 DEF Hand, Does
  <2>2. \A d \in Celery : d # c => Hand(d, o)'
    BY <1>1, <1>2, <1>3 DEF Steady, Hand
  <2> QED  BY <2>1, <2>2
<1>5. Shown(o)'
  BY <1>1, <1>2, <1>3 DEF Steady, Shown
<1>6. \A b \in Taken(o) : Told(b) => Told(b)'
  <2>1. announced'[a] > 0  BY <1>0, <1>1 DEF TypeOK
  <2>2. \A b \in Activity : b # a => announced'[b] = announced[b]
    BY <1>1 DEF TypeOK
  <2> QED  BY <1>2, <2>1, <2>2 DEF Told
<1>7. Made(o)'
  BY <1>1, <1>2, <1>3, <1>6 DEF Steady, Made
<1> QED  BY <1>2, <1>4, <1>5, <1>7 DEF Steady

LEMMA CelerySteady ==
  ASSUME TypeOK, TypeOK', Shows, NEW c \in Celery, CeleryNext(c),
         NEW o \in Object, Smooth(o)'
  PROVE  Steady(o)'
<1>1. ASSUME NEW a \in script, Take(c, a)  PROVE Steady(o)'
  BY <1>1, TakeOther, TakeOwn
<1>2. CASE Insert(c) \/ Edit(c) \/ Flag(c) \/ Announce(c) \/ Fail(c)
  <2>1. celery[c] # Idle /\ taken' = taken
    BY <1>2, Somewhere DEF Insert, Edit, Flag, Announce, Fail
  <2> PICK a : a = celery[c].does  OBVIOUS
  <2>2. a \in taken /\ a \in Activity /\ Does(c, a)
    BY <2>1, Jobs DEF Shows, Base, Does
  <2>3. CASE a.object # o
    BY <1>2, <2>3, WorkOther
  <2>4. CASE a.object = o
    <3>1. a \in Taken(o) /\ Taken(o)' = Taken(o) /\ Taken(o) \subseteq Activity
      BY <2>1, <2>2, <2>4 DEF Taken, TypeOK
    <3>2. ~Fail(c)
      <4>1. ASSUME Fail(c)  PROVE "killed" \in mishaps'[a]
        BY <2>2, <4>1 DEF Fail, Note, TypeOK
      <4> QED  BY <3>1, <4>1 DEF Smooth
    <3>3. mishaps' = mishaps
      BY <1>2, <3>2 DEF Insert, Edit, Flag, Announce
    <3>4. Steady(o)
      BY <3>1, <3>3 DEF Smooth, Shows
    <3> QED  BY <1>2, <2>2, <3>1, <3>2, <3>4, InsertOwn, EditOwn, FlagOwn, AnnounceOwn
  <2> QED  BY <2>3, <2>4
<1> QED  BY <1>1, <1>2 DEF CeleryNext

LEMMA CeleryBase ==
  ASSUME TypeOK, TypeOK', Shows, NEW c \in Celery, CeleryNext(c)
  PROVE  Base'
<1>1. ASSUME NEW a \in script, Take(c, a)  PROVE Base'
  <2>1. /\ taken' = taken \cup {a} /\ row' = row /\ a \in Activity
        /\ queue[a] > 0 /\ queue' = [queue EXCEPT ![a] = @ - 1]
        /\ UNCHANGED <<script, sender, web, handled>>
    BY <1>1, Published DEF Take, Waits
  <2>2. ASSUME NEW b \in Activity
        PROVE  /\ (queue[b] > 0 \/ b \in taken \/ (\E w \in Web : Serves(w, b)) =>
                    b \in script /\ sender[b] # "unsent")'
               /\ (handled[b] > 0 => queue[b] > 0 \/ b \in taken)'
    <3>1. /\ queue[b] \in Nat /\ queue'[b] = (IF b = a THEN queue[b] - 1 ELSE queue[b])
      BY <2>1 DEF TypeOK
    <3> QED  BY <2>1, <3>1 DEF Shows, Base, Serves
  <2>3. ASSUME NEW d \in Celery, celery'[d] # Idle
        PROVE  /\ celery'[d].does \in taken'
               /\ celery'[d].at \in {"edit", "flag"} => row'[celery'[d].does.object].version > 0
    <3>1. CASE celery'[d] = celery[d]
      BY <2>1, <2>3, <3>1 DEF Shows, Base, Exists
    <3>2. ASSUME NEW at, Begin(c, a, at), at \in {"edit", "flag"} => Exists(a.object), d = c
          PROVE  /\ celery'[d].does \in taken'
                 /\ celery'[d].at \in {"edit", "flag"} => row'[celery'[d].does.object].version > 0
      <4>1. celery'[d] = [at |-> at, does |-> a, saw |-> row[a.object].version]
        BY <3>2 DEF Begin, TypeOK
      <4>2. celery'[d].at = at /\ celery'[d].does = a
        BY <4>1
      <4> QED  BY <2>1, <3>2, <4>2 DEF Exists
    <3>3. CASE d # c
      BY <1>1, <3>1, <3>3 DEF Take, Begin, TypeOK
    <3>4. CASE d = c
      BY <1>1, <3>1, <3>2, <3>4 DEF Take
    <3> QED  BY <3>3, <3>4
  <2>4. \A o \in Object : ~Exists(o)' => row'[o] = NoRow
    BY <2>1 DEF Shows, Base, Exists
  <2> QED  BY <2>2, <2>3, <2>4 DEF Base, Exists
<1>2. CASE Insert(c) \/ Edit(c) \/ Flag(c) \/ Announce(c) \/ Fail(c)
  <2>1. celery[c] # Idle /\ UNCHANGED <<script, sender, web, handled, queue, taken>>
    BY <1>2, Somewhere DEF Insert, Edit, Flag, Announce, Fail
  <2> PICK a \in Activity : a = celery[c].does
    BY <2>1, Jobs
  <2>2. a.object \in Object /\ a.version \in 1..3  BY Jobs
  <2>3. ASSUME NEW o \in Object
        PROVE  /\ Exists(o) => Exists(o)'
               /\ ~Exists(o)' => row'[o] = NoRow
    <3>0. /\ row[o].version \in 0..3 /\ (~Exists(o) => row[o] = NoRow)
      BY DEF TypeOK, Shows, Base
    <3>1. CASE Announce(c) \/ Fail(c)
      BY <3>0, <3>1 DEF Announce, Fail, Exists
    <3>2. CASE Insert(c)
      <4>1. \/ row' = row
            \/ row' = [row EXCEPT ![a.object] =
                 [version |-> a.version, edited |-> a.kind = "Update", deleted |-> FALSE]]
        BY <3>2 DEF Insert
      <4> QED  BY <2>2, <3>0, <4>1 DEF Exists, TypeOK
    <3>3. CASE Edit(c)
      <4>1. Exists(a.object)  BY <2>1, <3>3 DEF Shows, Base, Edit, CeleryAt
      <4>2. o # a.object => row'[o] = row[o]
        BY <3>3 DEF Edit, TypeOK
      <4>3. o = a.object => row'[o].version \in {row[o].version, a.version}
        BY ZenonT(40), <3>3 DEF Edit, TypeOK
      <4> QED  BY <2>2, <3>0, <4>1, <4>2, <4>3 DEF Exists
    <3>4. CASE Flag(c)
      <4>1. Exists(a.object)  BY <2>1, <3>4 DEF Shows, Base, Flag, CeleryAt
      <4>2. o # a.object => row'[o] = row[o]
        BY <3>4 DEF Flag, TypeOK
      <4>3. o = a.object => row'[o].version = row[o].version
        BY <3>4 DEF Flag, TypeOK
      <4> QED  BY <3>0, <4>1, <4>2, <4>3 DEF Exists
    <3> QED  BY <1>2, <3>1, <3>2, <3>3, <3>4
  <2>4. ASSUME NEW d \in Celery, celery'[d] # Idle
        PROVE  /\ celery'[d].does \in taken'
               /\ celery'[d].at \in {"edit", "flag"} => row'[celery'[d].does.object].version > 0
    <3>1. CASE d # c
      <4>1. celery'[d] = celery[d]
        BY <1>2, <3>1 DEF Insert, Edit, Flag, Announce, Tell, Fail, GoTo, Done, TypeOK
      <4>2. celery[d].does.object \in Object  BY <2>4, <4>1, Jobs
      <4> QED  BY <2>1, <2>3, <2>4, <4>1, <4>2 DEF Shows, Base, Exists
    <3>2. CASE d = c
      <4>1. CASE Announce(c) \/ Fail(c)
        BY <2>4, <3>2, <4>1 DEF Announce, Tell, Fail, Done, TypeOK
      <4>2. CASE (Edit(c) \/ Flag(c) \/ Insert(c)) /\ GoTo(c, "announce")
        BY <2>1, <3>2, <4>2, GoneTo DEF Shows, Base, Exists
      <4>3. CASE /\ celery' = [celery EXCEPT ![c].at = "edit", ![c].saw = row[a.object].version]
                 /\ Exists(a.object)
        <5>1. row[a.object].version \in 0..3  BY <2>2 DEF TypeOK
        <5>2. celery'[c].does = a  BY <2>1, <4>3, <5>1, NowAt
        <5> QED  BY <2>1, <2>2, <2>3, <3>2, <4>3, <5>2 DEF Shows, Base, Exists
      <4> QED  BY <1>2, <4>1, <4>2, <4>3 DEF Insert, Edit, Flag
    <3> QED  BY <3>1, <3>2
  <2>5. ASSUME NEW b \in Activity
        PROVE  /\ (queue[b] > 0 \/ b \in taken \/ (\E w \in Web : Serves(w, b)) =>
                    b \in script /\ sender[b] # "unsent")'
               /\ (handled[b] > 0 => queue[b] > 0 \/ b \in taken)'
    BY <2>1 DEF Shows, Base, Serves
  <2> QED  BY <2>3, <2>4, <2>5 DEF Base, Exists
<1> QED  BY <1>1, <1>2 DEF CeleryNext

LEMMA StepShows == TypeOK /\ Shows /\ [Next]_vars => Shows'
<1> SUFFICES ASSUME TypeOK, Shows, [Next]_vars  PROVE Shows'
  OBVIOUS
<1>0. TypeOK'
  <2>1. CASE UNCHANGED vars  BY <2>1 DEF TypeOK, vars
  <2>2. CASE Next  BY <2>2, WebType, CeleryType, ExpireType DEF Next
  <2> QED  BY <2>1, <2>2
<1>1. CASE UNCHANGED vars
  <2>1. Base'  BY <1>1 DEF Shows, Base, vars, Serves, Exists
  <2>2. ASSUME NEW o \in Object, Smooth(o)'  PROVE Steady(o)'
    <3>1. Smooth(o)  BY <1>1, <2>2 DEF Smooth, Taken, vars
    <3> QED  BY <1>1, <3>1, Elsewhere DEF Shows, Taken, Does, vars
  <2> QED  BY <2>1, <2>2 DEF Shows
<1>2. ASSUME NEW c \in Celery, CeleryNext(c)  PROVE Shows'
  BY <1>0, <1>2, CelerySteady, CeleryBase DEF Shows
<1> QED  BY <1>1, <1>2, WebShows DEF Next

LEMMA AlwaysShows == Spec => []Shows
  BY InitShows, StepShows, TypeCorrect, PTL DEF Spec

\* All that was sent about an object has been dealt with.
LEMMA DealtWith ==
  ASSUME TypeOK, Shows, AnsweredIsHandled, NEW o \in Object, Sent(o) # {}, Quiet(o),
         Undisturbed(o)
  PROVE  /\ Sent(o) = Taken(o) /\ Sent(o) \subseteq Activity /\ Steady(o) /\ Exists(o)
         /\ \A a \in Sent(o) : a.object = o /\ a.kind \in EditKind \cup Removal
         /\ \A a \in Sent(o) : \A at \in {"insert", "edit", "flag", "announce"} : ~Stands(a, at)
<1>1. Sent(o) \subseteq Activity /\ Taken(o) \subseteq Activity
      /\ \A a \in Sent(o) : a.object = o
  BY Published DEF Sent, Taken, TypeOK
<1>2. \A a \in Taken(o) : a \in Sent(o)
  BY <1>1 DEF Shows, Base, Taken, Sent
<1>3. ASSUME NEW a \in Sent(o)  PROVE a \in Taken(o)
  <2>1. sender[a] = "answered" /\ queue[a] = 0 /\ \A w \in Web : ~Serves(w, a)
    BY DEF Quiet
  <2>2. "refused" \notin mishaps[a]  BY DEF Undisturbed
  <2>3. handled[a] > 0  BY <1>1, <2>1, <2>2 DEF AnsweredIsHandled
  <2> QED  BY <1>1, <2>1, <2>3 DEF Shows, Base, Taken
<1>4. Sent(o) = Taken(o)  BY <1>2, <1>3
<1>5. Steady(o)  BY <1>4 DEF Undisturbed, Smooth, Shows
<1>6. \A a \in Sent(o) : \A at \in {"insert", "edit", "flag", "announce"} : ~Stands(a, at)
  BY DEF Quiet, Stands
<1>7. \A a \in Sent(o) : a.kind \in EditKind \cup Removal
  BY <1>1, Jobs DEF Kind, EditKind, Removal
<1>8. Exists(o)
  <2> PICK a \in Sent(o) : TRUE  OBVIOUS
  <2> QED  BY <1>4, <1>5, <1>6, <1>7 DEF Steady, Shown
<1> QED  BY <1>1, <1>4, <1>5, <1>6, <1>7, <1>8

LEMMA LatestIs ==
  ASSUME TypeOK, NEW o \in Object, Sent(o) # {}
  PROVE  Latest(o) \in Sent(o) /\ \A b \in Sent(o) : Rank(b) <= Rank(Latest(o))
<1>1. Sent(o) \subseteq Activity  BY Published DEF Sent
<1>2. \E a \in Sent(o) : \A b \in Sent(o) : Rank(b) <= Rank(a)
  BY <1>1, GreatestRank
<1> QED  BY <1>2 DEF Latest

LEMMA NewestIs ==
  ASSUME TypeOK, NEW o \in Object, Edits(o) # {}
  PROVE  Newest(o) \in Edits(o) /\ \A b \in Edits(o) : Rank(b) <= Rank(Newest(o))
<1>1. Edits(o) \subseteq Activity  BY Published DEF Edits, Sent
<1>2. \E a \in Edits(o) : \A b \in Edits(o) : Rank(b) <= Rank(a)
  BY <1>1, GreatestRank
<1> QED  BY <1>2 DEF Newest

\* The row is as the newest edit has it, and deleted as was said last.
LEMMA RowSaysLast ==
  ASSUME TypeOK, Shows, AnsweredIsHandled, NEW o \in Object, Sent(o) # {}, Quiet(o),
         Undisturbed(o)
  PROVE  /\ row[o].version = Newest(o).version
         /\ row[o].deleted = (Latest(o).kind = "Delete")
<1>1. /\ Sent(o) = Taken(o) /\ Sent(o) \subseteq Activity /\ Steady(o) /\ Exists(o)
      /\ \A a \in Sent(o) : a.object = o /\ a.kind \in EditKind \cup Removal
      /\ \A a \in Sent(o) : \A at \in {"insert", "edit", "flag", "announce"} : ~Stands(a, at)
  BY DealtWith
<1> PICK e \in Sent(o) : /\ e.kind = (IF row[o].edited THEN "Update" ELSE "Create")
                         /\ e.version = row[o].version
  BY <1>1 DEF Steady, Made
<1> PICK n : n = Newest(o)  OBVIOUS
<1> PICK l : l = Latest(o)  OBVIOUS
<1>2. n \in Sent(o) /\ n.kind \in EditKind /\ \A b \in Edits(o) : Rank(b) <= Rank(n)
  <2>1. e \in Edits(o)  BY DEF Edits
  <2> QED  BY <2>1, NewestIs DEF Edits, EditKind
<1>3. l \in Sent(o) /\ \A b \in Sent(o) : Rank(b) <= Rank(l)
  BY LatestIs
<1>4. row[o].version = n.version
  <2>1. CASE n.kind = "Update"
    <3>1. \A b \in Taken(o) : Alike(n, b) => b \in Edits(o)
      BY <1>1, <1>2, <2>1, AlikeIs DEF Edits, Removal
    <3>2. Last(n)  BY <1>1, <1>2, <3>1 DEF Last
    <3> QED  BY <1>1, <1>2, <2>1, <3>2 DEF Steady, Shown
  <2>2. CASE n.kind = "Create"
    <3>1. e \in Edits(o) /\ Rank(e) <= Rank(n)  BY <1>2 DEF Edits
    <3>2. e.kind = "Create"
      BY <1>1, <1>2, <2>2, <3>1, Ranks
    <3>3. Rank(e) = Rank(n)  BY <1>1, <1>2, <2>2, <3>2, Ranks
    <3>4. e = n  BY <1>1, <1>2, <3>3, OneOfRank DEF Sent
    <3> QED  BY <3>4
  <2> QED  BY <1>2, <2>1, <2>2 DEF EditKind
<1>5. row[o].deleted = (l.kind = "Delete")
  <2>1. CASE l.kind \in Removal
    <3>1. Last(l)  BY <1>1, <1>3 DEF Last
    <3> QED  BY <1>1, <1>3, <2>1, <3>1 DEF Steady, Shown
  <2>2. CASE l.kind \in EditKind
    <3>1. Rank(l) \in 1..4 /\ l.kind # "Delete"
      BY <1>1, <1>3, <2>2, Ranks DEF EditKind
    <3>2. \A b \in Taken(o) : b.kind # "Delete"
      BY <1>1, <1>3, <3>1, Ranks
    <3>3. row[o].deleted = FALSE
      BY <1>1, <3>2 DEF Steady, Made, TypeOK
    <3> QED  BY <3>1, <3>3
  <2> QED  BY <1>1, <1>3, <2>1, <2>2
<1> QED  BY <1>4, <1>5

\* When all that was sent about an object has been dealt with it shows the
\* newest version, and is deleted if that was the last word, in whatever order
\* and however often the activities came, unless edits crossed each other,
\* the object came before what it answers to, or an attempt failed.
THEOREM NewestWins == Spec => []NewestShows
<1>1. TypeOK /\ Shows /\ AnsweredIsHandled => NewestShows
  BY RowSaysLast DEF NewestShows
<1> QED  BY <1>1, TypeCorrect, NothingForgotten, AlwaysShows, PTL

\* ... and the followers were told of the version that shows and of the deletion.
THEOREM FollowersTold == Spec => []FollowersKnow
<1>1. ASSUME TypeOK, Shows, AnsweredIsHandled, NEW o \in Object, Sent(o) # {}, Quiet(o),
             Undisturbed(o)
      PROVE  /\ \E a \in Edits(o) : announced[a] > 0 /\ a.version = row[o].version
             /\ row[o].deleted => announced[Latest(o)] > 0
  <2>1. /\ Sent(o) = Taken(o) /\ Sent(o) \subseteq Activity /\ Steady(o) /\ Exists(o)
        /\ \A a \in Sent(o) : a.object = o /\ a.kind \in EditKind \cup Removal
        /\ \A a \in Sent(o) : \A at \in {"insert", "edit", "flag", "announce"} : ~Stands(a, at)
    BY <1>1, DealtWith
  <2>2. \A a \in Sent(o) : Told(a) => announced[a] > 0
    BY <2>1 DEF Told
  <2>3. \E a \in Edits(o) : announced[a] > 0 /\ a.version = row[o].version
    BY <2>1, <2>2 DEF Steady, Made, Edits
  <2>4. ASSUME row[o].deleted  PROVE announced[Latest(o)] > 0
    <3> PICK d \in Sent(o) : d.kind = "Delete" /\ announced[d] > 0
      BY <2>1, <2>2, <2>4 DEF Steady, Made
    <3> PICK l : l = Latest(o)  OBVIOUS
    <3>1. l \in Sent(o)  BY <1>1, LatestIs
    <3>2. l.kind = "Delete"  BY <1>1, <2>4, RowSaysLast
    <3>3. Rank(l) = Rank(d)  BY <2>1, <3>1, <3>2, Ranks
    <3>4. l \in script /\ d \in script /\ l.object = d.object
      BY <2>1, <3>1 DEF Sent
    <3>5. l = d  BY <1>1, <3>3, <3>4, OneOfRank
    <3> QED  BY <3>5
  <2> QED  BY <2>3, <2>4
<1>2. TypeOK /\ Shows /\ AnsweredIsHandled => FollowersKnow
  BY <1>1 DEF FollowersKnow
<1> QED  BY <1>2, TypeCorrect, NothingForgotten, AlwaysShows, PTL

-----------------------------------------------------------------------------
(***************************************************************************)
(* Cron.                                                                   *)
(***************************************************************************)
Troubles == {"edited", "killed", "overrun", "purged", "orphaned"}

\* TypeOK without what it says of sent and public, which Balanced explains.
Types ==
  /\ clock \in 0..MaxTime
  /\ post \in [Post -> PostRow]
  /\ public \in [Post -> [Time -> Nat]] /\ sent \in [Post -> [Time -> Nat]]
  /\ \A p \in Post : post[p].purged => post[p].deleted
  /\ reminder \in [Reminder -> {"none", "asked", "waiting", "gone"}]
  /\ notified \in [Reminder -> Nat]
  /\ lock \in Run \cup {Free}
  /\ run \in [Run -> Runs]
  /\ edits \in 0..MaxEdits /\ failures \in 0..MaxFailures
  /\ trouble \in [Post -> SUBSET Troubles]

-----------------------------------------------------------------------------
\* The shapes of what a run is at.
LEMMA Shapes ==
  ASSUME Types, NEW r \in Run
  PROVE  /\ run[r] \in Runs
         /\ run[r].at \in {"publish", "copy", "advance", "send"} =>
              /\ run[r] \in AtPost /\ run[r].post \in Post /\ run[r].due \in Time
              /\ run[r].todo \in SUBSET Post
         /\ run[r].at = "posts" => run[r].todo \in SUBSET Post
         /\ run[r].at = "notify" =>
              run[r].todo \in SUBSET Reminder /\ run[r].about \in Reminder
         /\ run[r].at = "reminders" => run[r].todo \in SUBSET Reminder
         /\ run[r] = Resting <=> run[r].at = "idle"
  BY DEF Types, Runs, AtPost, Resting

LEMMA Moved ==
  ASSUME Types, NEW r \in Run, NEW s \in Runs, run' = [run EXCEPT ![r] = s]
  PROVE  /\ run' \in [Run -> Runs] /\ run'[r] = s
         /\ \A q \in Run : q # r => run'[q] = run[q]
  BY DEF Types

LEMMA Gone ==
  ASSUME Types, NEW r \in Run, Onward(r, "advance") \/ Onward(r, "send"),
         run[r].at \in {"publish", "copy", "advance", "send"}
  PROVE  /\ run' \in [Run -> Runs]
         /\ run'[r].at = "advance" <=> Onward(r, "advance")
         /\ run'[r].at = "send" <=> Onward(r, "send")
         /\ run'[r].at \in {"advance", "send"}
         /\ run'[r].post = run[r].post /\ run'[r].due = run[r].due
         /\ \A q \in Run : q # r => run'[q] = run[q]
<1>1. run[r] \in AtPost  BY Shapes
<1>2. ASSUME NEW at \in {"advance", "send"}, Onward(r, at)
      PROVE  /\ run' \in [Run -> Runs] /\ run'[r].at = at
             /\ run'[r].post = run[r].post /\ run'[r].due = run[r].due
             /\ \A q \in Run : q # r => run'[q] = run[q]
  <2> DEFINE s == [run[r] EXCEPT !.at = at]
  <2>1. s \in AtPost /\ s.at = at /\ s.post = run[r].post /\ s.due = run[r].due
    BY <1>1 DEF AtPost
  <2>2. s \in Runs  BY <2>1 DEF Runs
  <2>3. run' = [run EXCEPT ![r] = s]  BY <1>2 DEF Onward
  <2> HIDE DEF s
  <2> QED  BY <2>1, <2>2, <2>3, Moved
<1>3. CASE Onward(r, "advance")
  <2>1. run'[r].at = "advance"  BY <1>2, <1>3
  <2>2. ~Onward(r, "send")  BY <1>2, <2>1
  <2> QED  BY <1>2, <1>3, <2>1, <2>2
<1>4. CASE Onward(r, "send")
  <2>1. run'[r].at = "send"  BY <1>2, <1>4
  <2>2. ~Onward(r, "advance")  BY <1>2, <2>1
  <2> QED  BY <1>2, <1>4, <2>1, <2>2
<1> QED  BY <1>3, <1>4

LEMMA IdleRun == Resting \in Runs /\ Resting.at = "idle"
  BY DEF Runs, Resting

LEMMA Ended ==
  ASSUME Types, NEW r \in Run, Over(r)
  PROVE  /\ run' \in [Run -> Runs] /\ run'[r] = Resting /\ run'[r].at = "idle"
         /\ lock' = IF lock = r THEN Free ELSE lock
         /\ \A q \in Run : q # r => run'[q] = run[q]
  BY Moved, IdleRun DEF Over, Release

\* Counting an occurrence once more.
LEMMA Counted ==
  ASSUME NEW f \in [Post -> [Time -> Nat]], NEW p \in Post, NEW t \in Time,
         NEW g, g = [f EXCEPT ![p][t] = @ + 1]
  PROVE  /\ g \in [Post -> [Time -> Nat]] /\ g[p][t] = f[p][t] + 1
         /\ \A q \in Post, u \in Time : q # p \/ u # t => g[q][u] = f[q][u]
  OBVIOUS

\* What is changed in a row.
LEMMA Rows ==
  ASSUME Types, NEW p \in Post
  PROVE  /\ post[p] \in PostRow /\ post[p].due \in 0..MaxTime + 1
         /\ post[p].deleted \in BOOLEAN /\ post[p].purged \in BOOLEAN
         /\ post[p].status \in {"scheduled", "published"}
  BY DEF Types, PostRow

LEMMA NewRow ==
  ASSUME Types, NEW p \in Post, NEW x \in PostRow, post' = [post EXCEPT ![p] = x],
         x.purged => x.deleted
  PROVE  /\ post' \in [Post -> PostRow] /\ post'[p] = x
         /\ \A q \in Post : q # p => post'[q] = post[q]
         /\ \A q \in Post : post'[q].purged => post'[q].deleted
  BY DEF Types

LEMMA NewTime ==
  ASSUME Types, NEW p \in Post, NEW status \in {"scheduled", "published"},
         NEW due \in 0..MaxTime + 1,
         post' = [post EXCEPT ![p].due = due, ![p].status = status]
           \/ post' = [post EXCEPT ![p].due = due]
           \/ post' = [post EXCEPT ![p].status = status, ![p].due = due]
  PROVE  /\ post' \in [Post -> PostRow]
         /\ post'[p].due = due /\ post'[p].purged = post[p].purged
         /\ \A q \in Post : q # p => post'[q] = post[q]
         /\ \A q \in Post : post'[q].purged => post'[q].deleted
<1>1. ASSUME NEW s \in {"scheduled", "published"},
             post' = [post EXCEPT ![p] = [post[p] EXCEPT !.due = due, !.status = s]]
      PROVE  /\ post' \in [Post -> PostRow]
             /\ post'[p].due = due /\ post'[p].purged = post[p].purged
             /\ \A q \in Post : q # p => post'[q] = post[q]
             /\ \A q \in Post : post'[q].purged => post'[q].deleted
  <2> DEFINE x == [post[p] EXCEPT !.due = due, !.status = s]
  <2>1. /\ x \in PostRow /\ x.due = due /\ x.purged = post[p].purged
        /\ x.purged => x.deleted
    BY ZenonT(40), Rows DEF PostRow, Types
  <2>2. post' = [post EXCEPT ![p] = x]  BY <1>1
  <2> HIDE DEF x
  <2> QED  BY <2>1, <2>2, NewRow
<1>2. CASE post' = [post EXCEPT ![p].due = due]
  <2>1. [post[p] EXCEPT !.due = due]
          = [post[p] EXCEPT !.due = due, !.status = post[p].status]
    BY Rows DEF PostRow
  <2>2. post' = [post EXCEPT ![p] = [post[p] EXCEPT !.due = due]]
    BY <1>2
  <2> QED  BY <1>1, <2>1, <2>2, Rows
<1>3. CASE post' = [post EXCEPT ![p].due = due, ![p].status = status]
  <2>1. post' = [post EXCEPT ![p] = [post[p] EXCEPT !.due = due, !.status = status]]
    BY <1>3 DEF Types
  <2> QED  BY <1>1, <2>1
<1>4. CASE post' = [post EXCEPT ![p].status = status, ![p].due = due]
  <2>1. [post[p] EXCEPT !.status = status, !.due = due]
          = [post[p] EXCEPT !.due = due, !.status = status]
    BY Rows DEF PostRow
  <2>2. post' = [post EXCEPT ![p] = [post[p] EXCEPT !.status = status, !.due = due]]
    BY <1>4 DEF Types
  <2> QED  BY <1>1, <2>1, <2>2
<1> QED  BY <1>2, <1>3, <1>4

-----------------------------------------------------------------------------
\* Types step by step: first what a run does.
LEMMA InitTypes == CronInit => Types
  BY CronAssumption, IdleRun DEF CronInit, Types, PostRow, Troubles, Time

LEMMA LookTypes ==
  ASSUME Types, NEW r \in Run,
         \/ Start(r) \/ LookGone(r) \/ BeginReminders(r) \/ End(r)
         \/ \E p \in Post : LookDue(r, p)
         \/ \E x \in Reminder : NextReminder(r, x)
  PROVE  Types'
<1>1. CASE Start(r)
  <2>1. [at |-> "posts", todo |-> {p \in Post : Scheduled(p)}] \in Runs
    BY DEF Runs
  <2>2. run' \in [Run -> Runs]  BY <1>1, <2>1, Moved DEF Start
  <2> QED  BY <1>1, <2>2 DEF Types, Start
<1>2. CASE LookGone(r)
  BY <1>2, Ended DEF Types, LookGone
<1>3. CASE BeginReminders(r)
  <2>1. \A due \in SUBSET Waiting : \A x \in due :
          [at |-> "notify", todo |-> due \ {x}, about |-> x] \in Runs
    BY DEF Runs, Waiting
  <2>2. [at |-> "reminders", todo |-> {}] \in Runs
    BY DEF Runs
  <2>3. run' \in [Run -> Runs]
    BY <1>3, <2>1, <2>2, Moved DEF BeginReminders
  <2> QED  BY <1>3, <2>3 DEF Types, BeginReminders
<1>4. CASE End(r)
  BY <1>4, Ended DEF Types, End
<1>5. ASSUME NEW p \in Post, LookDue(r, p)  PROVE Types'
  <2> DEFINE s == [at |-> IF p \in Repeats THEN "copy" ELSE "publish",
                   todo |-> run[r].todo \ {p}, post |-> p, due |-> post[p].due]
  <2>1. run[r].todo \in SUBSET Post  BY <1>5, Shapes DEF LookDue, At
  <2>2. post[p].due \in Time
    BY <1>5, CronAssumption DEF LookDue, Due, Types, Time
  <2>3. s \in Runs  BY <2>1, <2>2 DEF Runs, AtPost
  <2>4. run' = [run EXCEPT ![r] = s]  BY <1>5 DEF LookDue
  <2> HIDE DEF s
  <2>5. run' \in [Run -> Runs]  BY <2>3, <2>4, Moved
  <2> QED  BY <1>5, <2>5 DEF Types, LookDue
<1>6. ASSUME NEW x \in Reminder, NextReminder(r, x)  PROVE Types'
  <2>1. CASE reminder[x] = "gone" /\ Over(r)
    BY <1>6, <2>1, Ended DEF Types, NextReminder
  <2>2. CASE run' = [run EXCEPT ![r] =
                      [at |-> "notify", todo |-> @.todo \ {x}, about |-> x]]
    <3> DEFINE s == [at |-> "notify", todo |-> run[r].todo \ {x}, about |-> x]
    <3>1. run[r].todo \in SUBSET Reminder
      BY <1>6, Shapes DEF NextReminder, At
    <3>2. s \in Runs  BY <3>1 DEF Runs
    <3>3. run' = [run EXCEPT ![r] = s]  BY <2>2
    <3> HIDE DEF s
    <3>4. run' \in [Run -> Runs] BY <3>2, <3>3, Moved
    <3>5. UNCHANGED <<clock, post, public, sent, reminder, notified, edits, failures,
                      trouble>>
      BY <1>6 DEF NextReminder
    <3>6. lock' = lock
      <4>1. run'[r] # Resting  BY <3>2, <3>3, Moved DEF s, Resting
      <4> QED  BY <1>6, <4>1, Ended DEF NextReminder
    <3> QED  BY <3>4, <3>5, <3>6 DEF Types
  <2> QED  BY <1>6, <2>1, <2>2 DEF NextReminder
<1> QED  BY <1>1, <1>2, <1>3, <1>4, <1>5, <1>6

\* What is not there any more ends a run.
LEMMA PublishTypes ==
  ASSUME Types, NEW r \in Run, Publish(r) \/ Copy(r) \/ Advance(r) \/ Send(r)
  PROVE  Types'
<1> USE DEF At
<1>0. /\ run[r].post \in Post /\ run[r].due \in Time /\ run[r].todo \in SUBSET Post
      /\ run[r].at \in {"publish", "copy", "advance", "send"}
  BY Shapes DEF Publish, Copy, Advance, Send
<1>1. CASE Publish(r)
  <2>1. CASE Over(r) /\ UNCHANGED <<post, public>>
    BY <1>1, <2>1, Ended DEF Types, Publish
  <2>2. CASE /\ post' = [post EXCEPT ![run[r].post].status = "published",
                                     ![run[r].post].due = Never]
             /\ Appears(run[r].post, run[r].due) /\ Onward(r, "send") /\ UNCHANGED lock
    <3>1. /\ post' \in [Post -> PostRow]
          /\ \A q \in Post : post'[q].purged => post'[q].deleted
      <4>1. Never \in 0..MaxTime + 1  BY CronAssumption DEF Never
      <4> QED  BY <1>0, <2>2, <4>1, NewTime
    <3>2. public' \in [Post -> [Time -> Nat]]
      BY <1>0, <2>2, Counted DEF Appears, Types
    <3>3. run' \in [Run -> Runs]  BY <1>0, <2>2, Gone
    <3> QED  BY <1>1, <2>2, <3>1, <3>2, <3>3 DEF Types, Publish
  <2> QED  BY <1>1, <2>1, <2>2 DEF Publish
<1>2. CASE Copy(r)
  <2>1. public' \in [Post -> [Time -> Nat]]
    BY <1>0, <1>2, Counted DEF Appears, Types, Copy
  <2>2. run' \in [Run -> Runs]  BY <1>0, <1>2, Gone DEF Copy
  <2> QED  BY <1>2, <2>1, <2>2 DEF Types, Copy
<1>3. CASE Advance(r)
  <2>1. CASE /\ Over(r) /\ UNCHANGED post
             /\ trouble' = [trouble EXCEPT ![run[r].post] = @ \cup {"purged"}]
    <3>1. trouble' \in [Post -> SUBSET Troubles]
      BY <1>0, <2>1 DEF Types, Troubles
    <3> QED  BY <1>3, <2>1, <3>1, Ended DEF Types, Advance
  <2>2. CASE /\ post' = [post EXCEPT ![run[r].post].due = NextTime(run[r].due)]
             /\ Onward(r, "send") /\ UNCHANGED <<lock, trouble>>
    <3>1. NextTime(run[r].due) \in 0..MaxTime + 1
      BY <1>0, CronAssumption DEF Time, NextTime
    <3>2. /\ post' \in [Post -> PostRow]
          /\ \A q \in Post : post'[q].purged => post'[q].deleted
      BY <1>0, <2>2, <3>1, NewTime
    <3>3. run' \in [Run -> Runs]  BY <1>0, <2>2, Gone
    <3> QED  BY <1>3, <2>2, <3>2, <3>3 DEF Types, Advance
  <2> QED  BY <1>3, <2>1, <2>2 DEF Advance
<1>4. CASE Send(r)
  <2>1. CASE /\ Over(r) /\ UNCHANGED sent
             /\ trouble' = [trouble EXCEPT ![run[r].post] = @ \cup {"purged"}]
    <3>1. trouble' \in [Post -> SUBSET Troubles]
      BY <1>0, <2>1 DEF Types, Troubles
    <3> QED  BY <1>4, <2>1, <3>1, Ended DEF Types, Send
  <2>2. CASE /\ Federate(r) /\ UNCHANGED <<lock, trouble>>
             /\ run' = [run EXCEPT ![r] = [at |-> "posts", todo |-> @.todo]]
    <3>1. sent' \in [Post -> [Time -> Nat]]
      BY <1>0, <2>2, Counted DEF Federate, Types
    <3>2. [at |-> "posts", todo |-> run[r].todo] \in Runs
      BY <1>0 DEF Runs
    <3>3. run' \in [Run -> Runs]  BY <2>2, <3>2, Moved
    <3> QED  BY <1>4, <2>2, <3>1, <3>3 DEF Types, Send
  <2> QED  BY <1>4, <2>1, <2>2 DEF Send
<1> QED  BY <1>1, <1>2, <1>3, <1>4

LEMMA NotifyTypes ==
  ASSUME Types, NEW r \in Run, Notify(r)
  PROVE  Types'
<1>0. run[r].todo \in SUBSET Reminder /\ run[r].about \in Reminder
  BY Shapes DEF Notify, At
<1>1. CASE Over(r) /\ UNCHANGED <<reminder, notified>>
  BY <1>1, Ended DEF Types, Notify
<1>2. CASE /\ reminder' = Without(run[r].about)
           /\ notified' = [notified EXCEPT ![run[r].about] = @ + 1]
           /\ run' = [run EXCEPT ![r] = [at |-> "reminders", todo |-> @.todo]]
           /\ UNCHANGED lock
  <2>1. [at |-> "reminders", todo |-> run[r].todo] \in Runs
    BY <1>0 DEF Runs
  <2>2. run' \in [Run -> Runs]  BY <1>2, <2>1, Moved
  <2>3. reminder' \in [Reminder -> {"none", "asked", "waiting", "gone"}]
    BY <1>2 DEF Types, Without
  <2>4. notified' \in [Reminder -> Nat]  BY <1>0, <1>2 DEF Types
  <2> QED  BY <1>2, <2>2, <2>3, <2>4 DEF Types, Notify
<1> QED  BY <1>1, <1>2 DEF Notify

LEMMA FaultTypes ==
  ASSUME Types, Tick \/ Lapse \/ \E r \in Run : Kill(r)
  PROVE  Types'
<1>1. CASE Tick
  BY <1>1, CronAssumption DEF Types, Tick
<1>2. CASE Lapse
  <2>1. trouble' \in [Post -> SUBSET Troubles]
    BY <1>2 DEF Types, Lapse, Troubles
  <2>2. failures' \in 0..MaxFailures  BY <1>2, CronAssumption DEF Types, Lapse
  <2> QED  BY <1>2, <2>1, <2>2 DEF Types, Lapse
<1>3. ASSUME NEW r \in Run, Kill(r)  PROVE Types'
  <2>1. run' \in [Run -> Runs]  BY <1>3, Moved, IdleRun DEF Kill
  <2>2. failures' \in 0..MaxFailures  BY <1>3, CronAssumption DEF Types, Kill
  <2>3. trouble' \in [Post -> SUBSET Troubles]
    BY <1>3, Shapes DEF Types, Kill, Troubles
  <2> QED  BY <1>3, <2>1, <2>2, <2>3 DEF Types, Kill
<1> QED  BY <1>1, <1>2, <1>3

LEMMA PeopleTypes ==
  ASSUME Types,
         \/ \E p \in Post : Delete(p) \/ Purge(p) \/ \E t \in Time : Reschedule(p, t)
         \/ \E x \in Reminder : AskReminder(x) \/ AddReminder(x)
  PROVE  Types'
<1>0. Asked => edits' \in 0..MaxEdits
  BY CronAssumption DEF Types, Asked
<1>1. ASSUME NEW p \in Post, Delete(p)  PROVE Types'
  <2> DEFINE x == [post[p] EXCEPT !.deleted = TRUE]
  <2>1. x \in PostRow /\ (x.purged => x.deleted)  BY Rows DEF PostRow
  <2>2. post' = [post EXCEPT ![p] = x]  BY <1>1 DEF Delete
  <2> HIDE DEF x
  <2>3. /\ post' \in [Post -> PostRow]
        /\ \A q \in Post : post'[q].purged => post'[q].deleted
    BY <2>1, <2>2, NewRow
  <2> QED  BY <1>0, <1>1, <2>3 DEF Types, Delete
<1>2. ASSUME NEW p \in Post, Purge(p)  PROVE Types'
  <2> DEFINE x == [post[p] EXCEPT !.purged = TRUE]
  <2>1. x \in PostRow /\ (x.purged => x.deleted)
    BY <1>2, Rows DEF PostRow, Purge, IsDeleted
  <2>2. post' = [post EXCEPT ![p] = x]  BY <1>2 DEF Purge
  <2> HIDE DEF x
  <2>3. /\ post' \in [Post -> PostRow]
        /\ \A q \in Post : post'[q].purged => post'[q].deleted
    BY <2>1, <2>2, NewRow
  <2>4. reminder' \in [Reminder -> {"none", "asked", "waiting", "gone"}]
    BY <1>2 DEF Types, Purge, WithoutReminders
  <2> QED  BY <1>2, <2>3, <2>4 DEF Types, Purge
<1>3. ASSUME NEW p \in Post, NEW t \in Time, Reschedule(p, t)  PROVE Types'
  <2> DEFINE s == IF t > clock THEN "scheduled" ELSE post[p].status
  <2>1. post' = [post EXCEPT ![p].due = t, ![p].status = s]
    BY <1>3, Rows DEF Reschedule, Types
  <2>2. s \in {"scheduled", "published"} /\ t \in 0..MaxTime + 1
    BY Rows, CronAssumption DEF Time
  <2> HIDE DEF s
  <2>3. /\ post' \in [Post -> PostRow]
        /\ \A q \in Post : post'[q].purged => post'[q].deleted
    BY <2>1, <2>2, NewTime
  <2>4. trouble' \in [Post -> SUBSET Troubles]
    BY <1>3 DEF Types, Reschedule, Troubles
  <2> QED  BY <1>0, <1>3, <2>3, <2>4 DEF Types, Reschedule
<1>4. ASSUME NEW x \in Reminder, AskReminder(x)  PROVE Types'
  BY <1>0, <1>4 DEF Types, AskReminder
<1>5. ASSUME NEW x \in Reminder, AddReminder(x)  PROVE Types'
  <2>1. trouble' \in [Post -> SUBSET Troubles]
    BY <1>5 DEF Types, AddReminder, Troubles
  <2>2. reminder' \in [Reminder -> {"none", "asked", "waiting", "gone"}]
    BY <1>5 DEF Types, AddReminder
  <2> QED  BY <1>5, <2>1, <2>2 DEF Types, AddReminder
<1> QED  BY <1>1, <1>2, <1>3, <1>4, <1>5

LEMMA StepTypes == Types /\ [CronNext]_cronVars => Types'
<1> SUFFICES ASSUME Types, [CronNext]_cronVars  PROVE Types'
  OBVIOUS
<1>1. CASE UNCHANGED cronVars
  BY <1>1 DEF Types, cronVars
<1>2. CASE CronNext
  BY <1>2, LookTypes, PublishTypes, NotifyTypes, FaultTypes, PeopleTypes
    DEF CronNext, RunOn
<1> QED  BY <1>1, <1>2

LEMMA AlwaysTypes == CronSpec => []Types
  BY InitTypes, StepTypes, PTL DEF CronSpec

-----------------------------------------------------------------------------
\* What a step does to the other runs, and that no mishap is forgotten.
LEMMA Others ==
  ASSUME Types, NEW r \in Run, Start(r) \/ RunOn(r) \/ Kill(r)
  PROVE  /\ \A q \in Run : q # r => run'[q] = run[q]
         /\ \A p \in Post : trouble[p] \subseteq trouble'[p]
<1>1. \A q \in Run : q # r => run'[q] = run[q]
  BY DEF Types, Start, RunOn, Kill, LookGone, LookDue, Publish, Copy, Advance,
         Send, BeginReminders, Notify, NextReminder, End, Over, Onward
<1>2. \A p \in Post : trouble[p] \subseteq trouble'[p]
  <2>1. CASE Advance(r)  BY <2>1 DEF Advance, Types
  <2>2. CASE Kill(r)  BY <2>2 DEF Kill, Types
  <2>3. CASE Send(r)  BY <2>3 DEF Send, Types
  <2>4. CASE ~Advance(r) /\ ~Kill(r) /\ ~Send(r)
    <3>1. trouble' = trouble
      BY <2>4 DEF Start, RunOn, LookGone, LookDue, Publish, Copy,
                  BeginReminders, Notify, NextReminder, End
    <3> QED  BY <3>1
  <2> QED  BY <2>1, <2>2, <2>3, <2>4
<1> QED  BY <1>1, <1>2

LEMMA Aside ==
  ASSUME Types,
         \/ Tick \/ Lapse
         \/ \E p \in Post : Delete(p) \/ Purge(p) \/ \E t \in Time : Reschedule(p, t)
         \/ \E x \in Reminder : AskReminder(x) \/ AddReminder(x)
  PROVE  /\ run' = run /\ public' = public /\ sent' = sent /\ notified' = notified
         /\ \A p \in Post : trouble[p] \subseteq trouble'[p]
<1>1. run' = run /\ public' = public /\ sent' = sent /\ notified' = notified
  BY DEF Tick, Lapse, Delete, Purge, Reschedule, AskReminder, AddReminder
<1>2. trouble \in [Post -> SUBSET Troubles]  BY DEF Types
<1>3. \A p \in Post : trouble[p] \subseteq trouble'[p]
  <2>1. CASE Lapse  BY <1>2, <2>1 DEF Lapse
  <2>2. CASE \E p \in Post, t \in Time : Reschedule(p, t)
    BY <1>2, <2>2 DEF Reschedule
  <2>3. CASE \E x \in Reminder : AddReminder(x)
    BY <1>2, <2>3 DEF AddReminder
  <2>4. CASE \/ Tick \/ \E p \in Post : Delete(p) \/ Purge(p)
             \/ \E x \in Reminder : AskReminder(x)
    <3>1. trouble' = trouble  BY <2>4 DEF Tick, Delete, Purge, AskReminder
    <3> QED  BY <3>1
  <2> QED  BY <2>1, <2>2, <2>3, <2>4
<1> QED  BY <1>1, <1>3

-----------------------------------------------------------------------------
\* What is public was sent or a run is about to send it, unless a run ended in
\* between.
Balance(p, t) ==
  /\ sent[p][t] + Cardinality(ToSend(p, t)) <= public[p][t]
  /\ Unharmed(p, {"killed", "purged"}) =>
       sent[p][t] + Cardinality(ToSend(p, t)) = public[p][t]
Balanced == \A p \in Post, t \in Time : Balance(p, t)

LEMMA Runners ==
  ASSUME NEW p \in Post, NEW t \in Time
  PROVE  IsFiniteSet(ToSend(p, t)) /\ Cardinality(ToSend(p, t)) \in Nat
<1>1. ToSend(p, t) \subseteq Run  BY DEF ToSend
<1>2. IsFiniteSet(Run)  BY CronAssumption
<1> QED  BY <1>1, <1>2, FS_Subset, FS_CardinalityType

LEMMA Numbers ==
  ASSUME Types, NEW p \in Post, NEW t \in Time
  PROVE  public[p][t] \in Nat /\ sent[p][t] \in Nat
  BY DEF Types

\* The ways in which a step of r can change what Balance speaks of: it leaves
\* all as it is, publishes, sends, or ends what it was about to send.
LEMMA BalanceStep ==
  ASSUME Types, Types', NEW p \in Post, NEW t \in Time, Balance(p, t), NEW r \in Run,
         \A q \in Run : q # r => run'[q] = run[q],
         trouble[p] \subseteq trouble'[p],
         \/ /\ r \in ToSend(p, t) <=> r \in ToSend(p, t)'
            /\ public'[p][t] = public[p][t] /\ sent'[p][t] = sent[p][t]
         \/ /\ r \notin ToSend(p, t) /\ r \in ToSend(p, t)'
            /\ public'[p][t] = public[p][t] + 1 /\ sent'[p][t] = sent[p][t]
         \/ /\ r \in ToSend(p, t) /\ r \notin ToSend(p, t)'
            /\ public'[p][t] = public[p][t] /\ sent'[p][t] = sent[p][t] + 1
         \/ /\ r \in ToSend(p, t) /\ r \notin ToSend(p, t)'
            /\ public'[p][t] = public[p][t] /\ sent'[p][t] = sent[p][t]
            /\ ~Unharmed(p, {"killed", "purged"})'
  PROVE  Balance(p, t)'
<1> USE Numbers, Runners
<1>0. Unharmed(p, {"killed", "purged"})' => Unharmed(p, {"killed", "purged"})
  BY DEF Unharmed
<1>a. \A q \in Run : q # r => (q \in ToSend(p, t) <=> q \in ToSend(p, t)')
  BY DEF ToSend
<1>b. ToSend(p, t) \subseteq Run /\ ToSend(p, t)' \subseteq Run
  BY DEF ToSend
<1>1. CASE /\ r \in ToSend(p, t) <=> r \in ToSend(p, t)'
           /\ public'[p][t] = public[p][t] /\ sent'[p][t] = sent[p][t]
  <2>1. \A q \in Run : q \in ToSend(p, t) <=> q \in ToSend(p, t)'
    BY <1>1, <1>a
  <2>2. ToSend(p, t)' = ToSend(p, t)  BY <2>1, <1>b
  <2> QED  BY <1>0, <1>1, <2>2 DEF Balance
<1>2. CASE /\ r \notin ToSend(p, t) /\ r \in ToSend(p, t)'
           /\ public'[p][t] = public[p][t] + 1 /\ sent'[p][t] = sent[p][t]
  <2>1. ToSend(p, t)' = ToSend(p, t) \cup {r}  BY <1>2, <1>a, <1>b
  <2>2. Cardinality(ToSend(p, t)') = Cardinality(ToSend(p, t)) + 1
    BY <1>2, <2>1, FS_AddElement
  <2> HIDE DEF ToSend
  <2> QED  BY <1>0, <1>2, <2>2 DEF Balance
<1>3. CASE r \in ToSend(p, t) /\ r \notin ToSend(p, t)'
  <2>1. ToSend(p, t)' = ToSend(p, t) \ {r}  BY <1>3, <1>a, <1>b
  <2>2. Cardinality(ToSend(p, t)') = Cardinality(ToSend(p, t)) - 1
    BY <1>3, <2>1, FS_RemoveElement
  <2>3. CASE public'[p][t] = public[p][t] /\ sent'[p][t] = sent[p][t] + 1
    BY <1>0, <2>2, <2>3 DEF Balance
  <2>4. CASE /\ public'[p][t] = public[p][t] /\ sent'[p][t] = sent[p][t]
             /\ ~Unharmed(p, {"killed", "purged"})'
    BY <2>2, <2>4 DEF Balance
  <2> QED  BY <1>3, <2>3, <2>4
<1> QED  BY <1>1, <1>2, <1>3

\* Which runs are about to send.
LEMMA Sending ==
  ASSUME NEW p \in Post, NEW t \in Time, NEW r \in Run
  PROVE  /\ r \in ToSend(p, t) <=>
              run[r].at \in {"advance", "send"} /\ run[r].post = p /\ run[r].due = t
         /\ r \in ToSend(p, t)' <=>
              run'[r].at \in {"advance", "send"} /\ run'[r].post = p /\ run'[r].due = t
  BY DEF ToSend

LEMMA RunBalance ==
  ASSUME Types, Types', NEW r \in Run, Start(r) \/ RunOn(r) \/ Kill(r),
         NEW p \in Post, NEW t \in Time, Balance(p, t)
  PROVE  Balance(p, t)'
<1> USE Others DEF At
<1>1. ASSUME public' = public, sent' = sent, run[r].at \notin {"advance", "send"},
             run'[r].at \notin {"advance", "send"}
      PROVE  Balance(p, t)'
  BY <1>1, Sending, BalanceStep
<1>2. CASE Start(r)
  BY <1>1, <1>2, Moved, IdleRun DEF Start, Types
<1>3. CASE LookGone(r) \/ End(r)
  BY <1>1, <1>3, Ended DEF LookGone, End
<1>4. CASE BeginReminders(r)
  BY <1>1, <1>4 DEF BeginReminders, Types
<1>5. CASE Notify(r)
  <2>1. run'[r].at \in {"idle", "reminders"}
    BY <1>5, Ended DEF Notify, Types
  <2> QED  BY <1>1, <1>5, <2>1 DEF Notify
<1>6. CASE \E x \in Reminder : NextReminder(r, x)
  <2>1. run'[r].at \in {"idle", "notify"}
    BY <1>6, Ended DEF NextReminder, Types
  <2> QED  BY <1>1, <1>6, <2>1 DEF NextReminder
<1>7. CASE \E q \in Post : LookDue(r, q)
  <2>1. run'[r].at \in {"copy", "publish"}
    BY <1>7 DEF LookDue, Types
  <2> QED  BY <1>1, <1>7, <2>1 DEF LookDue
<1>8. CASE Publish(r) \/ Copy(r)
  <2>0. run[r].post \in Post /\ run[r].due \in Time /\ run[r].at \in {"publish", "copy"}
    BY <1>8, Shapes DEF Publish, Copy
  <2>1. CASE Over(r) /\ UNCHANGED public
    <3>1. sent' = sent  BY <1>8 DEF Publish, Copy
    <3> QED  BY <1>1, <2>0, <2>1, <3>1, Ended
  <2>2. CASE Appears(run[r].post, run[r].due) /\ (Onward(r, "send") \/ Onward(r, "advance"))
    <3>1. /\ run'[r].at \in {"advance", "send"}
          /\ run'[r].post = run[r].post /\ run'[r].due = run[r].due
      BY <2>0, <2>2, Gone
    <3>2. sent' = sent  BY <1>8 DEF Publish, Copy
    <3>3. /\ public'[run[r].post][run[r].due] = public[run[r].post][run[r].due] + 1
          /\ run[r].post # p \/ run[r].due # t => public'[p][t] = public[p][t]
      BY <2>0, <2>2, Counted DEF Appears, Types
    <3> QED  BY <2>0, <3>1, <3>2, <3>3, Sending, BalanceStep
  <2> QED  BY <1>8, <2>1, <2>2 DEF Publish, Copy
<1>9. CASE Advance(r)
  <2>0. /\ run[r].post \in Post /\ run[r].due \in Time /\ run[r].at = "advance"
        /\ public' = public /\ sent' = sent
    BY <1>9, Shapes DEF Advance
  <2>1. CASE /\ Over(r)
             /\ trouble' = [trouble EXCEPT ![run[r].post] = @ \cup {"purged"}]
    <3>1. run'[r].at = "idle"  BY <2>1, Ended
    <3>2. run[r].post = p => ~Unharmed(p, {"killed", "purged"})'
      BY ZenonT(40), <2>0, <2>1 DEF Unharmed, Types
    <3> QED  BY <2>0, <3>1, <3>2, Sending, BalanceStep
  <2>2. CASE Onward(r, "send")
    BY <2>0, <2>2, Gone, Sending, BalanceStep
  <2> QED  BY <1>9, <2>1, <2>2 DEF Advance
<1>10. CASE Send(r)
  <2>0. /\ run[r].post \in Post /\ run[r].due \in Time /\ run[r].at = "send"
        /\ public' = public
    BY <1>10, Shapes DEF Send
  <2>1. CASE /\ Over(r) /\ UNCHANGED sent
             /\ trouble' = [trouble EXCEPT ![run[r].post] = @ \cup {"purged"}]
    <3>1. run'[r].at = "idle"  BY <2>1, Ended
    <3>2. run[r].post = p => ~Unharmed(p, {"killed", "purged"})'
      BY ZenonT(40), <2>0, <2>1 DEF Unharmed, Types
    <3> QED  BY <2>0, <2>1, <3>1, <3>2, Sending, BalanceStep
  <2>2. CASE /\ Federate(r)
             /\ run' = [run EXCEPT ![r] = [at |-> "posts", todo |-> @.todo]]
    <3>1. run'[r].at = "posts"  BY <2>2 DEF Types
    <3>2. /\ sent'[run[r].post][run[r].due] = sent[run[r].post][run[r].due] + 1
          /\ run[r].post # p \/ run[r].due # t => sent'[p][t] = sent[p][t]
      BY <2>0, <2>2, Counted DEF Federate, Types
    <3> QED  BY <2>0, <3>1, <3>2, Sending, BalanceStep
  <2> QED  BY <1>10, <2>1, <2>2 DEF Send
<1>11. CASE Kill(r)
  <2>1. run'[r].at = "idle" /\ public' = public /\ sent' = sent
    BY <1>11, IdleRun, Moved DEF Kill
  <2>2. CASE run[r].at \in {"advance", "send"}
    <3>1. run[r].post \in Post  BY <2>2, Shapes
    <3>2. trouble' = [trouble EXCEPT ![run[r].post] = @ \cup {"killed"}]
      BY <1>11, <2>2 DEF Kill
    <3>3. trouble \in [Post -> SUBSET Troubles]  BY DEF Types
    <3>4. run[r].post = p => ~Unharmed(p, {"killed", "purged"})'
      BY <3>1, <3>2, <3>3 DEF Unharmed
    <3> QED  BY <2>1, <2>2, <3>4, Sending, BalanceStep
  <2>3. CASE run[r].at \notin {"advance", "send"}
    BY <1>1, <2>1, <2>3
  <2> QED  BY <2>2, <2>3
<1> QED  BY <1>2, <1>3, <1>4, <1>5, <1>6, <1>7, <1>8, <1>9, <1>10, <1>11 DEF RunOn

LEMMA StepBalanced == Types /\ Types' /\ Balanced /\ [CronNext]_cronVars => Balanced'
<1> SUFFICES ASSUME Types, Types', Balanced, [CronNext]_cronVars,
                    NEW p \in Post, NEW t \in Time
             PROVE  Balance(p, t)'
  BY DEF Balanced
<1>0. Balance(p, t)  BY DEF Balanced
<1>1. ASSUME run' = run, public' = public, sent' = sent, trouble[p] \subseteq trouble'[p]
      PROVE  Balance(p, t)'
  BY <1>0, <1>1 DEF Balance, ToSend, Unharmed
<1>2. CASE UNCHANGED cronVars  BY <1>1, <1>2 DEF cronVars
<1>3. CASE \E r \in Run : Start(r) \/ RunOn(r) \/ Kill(r)
  BY <1>0, <1>3, RunBalance
<1>4. CASE \/ Tick \/ Lapse
           \/ \E q \in Post : Delete(q) \/ Purge(q) \/ \E u \in Time : Reschedule(q, u)
           \/ \E x \in Reminder : AskReminder(x) \/ AddReminder(x)
  BY <1>1, <1>4, Aside
<1> QED  BY <1>2, <1>3, <1>4 DEF CronNext

LEMMA InitBalanced == CronInit => Balanced
<1> SUFFICES ASSUME CronInit, NEW p \in Post, NEW t \in Time  PROVE Balance(p, t)
  BY DEF Balanced
<1>1. ToSend(p, t) = {}  BY DEF CronInit, ToSend, Resting
<1> QED  BY <1>1, FS_EmptySet DEF CronInit, Balance

LEMMA AlwaysBalanced == CronSpec => []Balanced
  BY InitBalanced, StepBalanced, AlwaysTypes, PTL DEF CronSpec

\* Every variable keeps its type, only what is deleted is purged, and nothing
\* is federated more often than it became public.
THEOREM CronTypeCorrect == CronSpec => []CronTypeOK
<1>1. ASSUME Types, Balanced  PROVE CronTypeOK
  <2>1. \A p \in Post, t \in Time : sent[p][t] <= public[p][t]
    BY <1>1, Numbers, Runners DEF Balanced, Balance
  <2> QED  BY <1>1, <2>1 DEF Types, CronTypeOK, Troubles
<1> QED  BY <1>1, AlwaysTypes, AlwaysBalanced, PTL

\* What became public was federated once for every time it did, or a run is
\* about to, unless that run was killed or the post purged under its hands.
THEOREM AllSent == CronSpec => []PublicIsSent
<1>1. Balanced => PublicIsSent
  BY DEF Balanced, Balance, PublicIsSent
<1> QED  BY <1>1, AlwaysBalanced, PTL

-----------------------------------------------------------------------------
\* Whoever is at work holds the lock, as long as no run outlived it.
Alone == \A r \in Run : run[r] # Resting => lock = r
AloneUnlessOverrun == \A p \in Post : Unharmed(p, {"overrun"}) => Alone

LEMMA InitAlone == CronInit => AloneUnlessOverrun
  BY DEF CronInit, AloneUnlessOverrun, Alone

\* What a run does to the lock.
LEMMA LockStep ==
  ASSUME Types, NEW r \in Run, Start(r) \/ RunOn(r) \/ Kill(r)
  PROVE  \/ lock = Free /\ lock' = r
         \/ lock' = lock /\ (run[r] # Resting \/ run'[r] = Resting)
         \/ lock' = (IF lock = r THEN Free ELSE lock) /\ run'[r] = Resting
<1> USE Shapes DEF At
<1>1. CASE Start(r)  BY <1>1 DEF Start
<1>2. CASE RunOn(r)
  <2>1. run[r] # Resting
    BY <1>2 DEF RunOn, LookGone, LookDue, Publish, Copy, Advance, Send,
                BeginReminders, Notify, NextReminder, End
  <2>2. lock' = lock \/ Over(r)
    BY <1>2 DEF RunOn, LookGone, LookDue, Publish, Copy, Advance, Send,
                BeginReminders, Notify, NextReminder, End
  <2> QED  BY <2>1, <2>2, Ended
<1>3. CASE Kill(r)  BY <1>3 DEF Kill
<1> QED  BY <1>1, <1>2, <1>3

LEMMA StepAlone == Types /\ AloneUnlessOverrun /\ [CronNext]_cronVars => AloneUnlessOverrun'
<1> SUFFICES ASSUME Types, AloneUnlessOverrun, [CronNext]_cronVars,
                    NEW p \in Post, Unharmed(p, {"overrun"})'
             PROVE  Alone'
  BY DEF AloneUnlessOverrun
<1>1. CASE UNCHANGED cronVars
  BY <1>1 DEF cronVars, AloneUnlessOverrun, Alone, Unharmed
<1>2. ASSUME NEW r \in Run, Start(r) \/ RunOn(r) \/ Kill(r)  PROVE Alone'
  <2>1. Alone  BY <1>2, Others DEF AloneUnlessOverrun, Unharmed
  <2>2. \A q \in Run : q # r => run'[q] = run[q]  BY <1>2, Others
  <2> QED  BY <1>2, <2>1, <2>2, LockStep, CronAssumption DEF Alone
<1>3. CASE Lapse
  <2>1. lock \in Run /\ run' = run  BY <1>3 DEF Lapse, Types
  <2>2. run[lock] = Resting
    BY <1>3 DEF Lapse, Unharmed
  <2>3. Alone  BY <1>3, Aside DEF AloneUnlessOverrun, Unharmed
  <2> QED  BY <2>1, <2>2, <2>3 DEF Alone
<1>4. CASE \/ Tick
           \/ \E q \in Post : Delete(q) \/ Purge(q) \/ \E u \in Time : Reschedule(q, u)
           \/ \E x \in Reminder : AskReminder(x) \/ AddReminder(x)
  <2>1. Alone  BY <1>4, Aside DEF AloneUnlessOverrun, Unharmed
  <2>2. run' = run /\ lock' = lock
    BY <1>4 DEF Tick, Delete, Purge, Reschedule, AskReminder, AddReminder
  <2> QED  BY <2>1, <2>2 DEF Alone
<1> QED  BY <1>1, <1>2, <1>3, <1>4 DEF CronNext

LEMMA AlwaysAlone == CronSpec => []AloneUnlessOverrun
  BY InitAlone, StepAlone, AlwaysTypes, PTL DEF CronSpec

-----------------------------------------------------------------------------
\* What people do to a post leaves its time alone, or is an edit.
LEMMA PeopleRows ==
  ASSUME Types, NEW q \in Post,
         \/ \E p \in Post : Delete(p) \/ Purge(p) \/ \E t \in Time : Reschedule(p, t)
  PROVE  /\ post[q].purged => post'[q].purged
         /\ Purge(q) => post'[q].purged
         /\ "edited" \in trouble'[q] \/ post'[q].due = post[q].due
<1>1. ASSUME NEW p \in Post, Delete(p) \/ Purge(p)
      PROVE  /\ post[q].purged => post'[q].purged
             /\ Purge(q) => post'[q].purged
             /\ post'[q].due = post[q].due
  <2> DEFINE x == IF Delete(p) THEN [post[p] EXCEPT !.deleted = TRUE]
                  ELSE [post[p] EXCEPT !.purged = TRUE]
  <2>1. x \in PostRow /\ x.due = post[p].due /\ (post[p].purged => x.purged)
        /\ x.purged = (IF Delete(p) THEN post[p].purged ELSE TRUE)
    BY Rows DEF PostRow
  <2>2. post' = [post EXCEPT ![p] = x]  BY <1>1 DEF Delete, Purge
  <2>3. x.purged => x.deleted
    BY <1>1, <2>1, Rows DEF PostRow, Types, Purge, IsDeleted
  <2> HIDE DEF x
  <2>4. post'[p] = x /\ \A u \in Post : u # p => post'[u] = post[u]
    BY <2>1, <2>2, <2>3, NewRow
  <2>5. Purge(q) => post'[q].purged
    <3>1. SUFFICES ASSUME Purge(q)  PROVE post'[q].purged
      OBVIOUS
    <3>2. [post[q] EXCEPT !.purged = TRUE] \in PostRow
          /\ [post[q] EXCEPT !.purged = TRUE].purged
      BY Rows DEF PostRow
    <3> QED  BY <3>1, <3>2 DEF Purge, Types
  <2> QED  BY <2>1, <2>4, <2>5
<1>2. ASSUME NEW p \in Post, NEW t \in Time, Reschedule(p, t)
      PROVE  /\ post'[q].purged = post[q].purged
             /\ "edited" \in trouble'[q] \/ post'[q].due = post[q].due
             /\ \A u \in Post : ~Purge(u) \/ post'[u].purged
  <2> DEFINE s == IF t > clock THEN "scheduled" ELSE post[p].status
  <2>1. post' = [post EXCEPT ![p].due = t, ![p].status = s]
    BY <1>2, Rows DEF Reschedule, Types
  <2>2. s \in {"scheduled", "published"} /\ t \in 0..MaxTime + 1
    BY Rows, CronAssumption DEF Time
  <2> HIDE DEF s
  <2>3. /\ post'[p].purged = post[p].purged
        /\ \A u \in Post : u # p => post'[u] = post[u]
    BY <2>1, <2>2, NewTime
  <2>4. "edited" \in trouble'[p]  BY <1>2 DEF Reschedule, Types
  <2>5. \A u \in Post : ~Purge(u)
    BY <1>2, CronAssumption DEF Reschedule, Purge, Asked, Types
  <2> QED  BY <2>3, <2>4, <2>5
<1> QED  BY <1>1, <1>2

\* A reminder that is not gone was not given, and whoever is about to give one
\* still finds it, or its post was purged.
Given(x) ==
  /\ reminder[x] # "gone" => notified[x] = 0
  /\ notified[x] <= 1
  /\ \A r \in Run : run[r].at = "notify" /\ run[r].about = x =>
       reminder[x] = "waiting" \/ post[About[x]].purged
GivenOnce ==
  \A x \in Reminder : Unharmed(About[x], {"overrun"}) => Given(x)

LEMMA InitGiven == CronInit => GivenOnce
  BY DEF CronInit, GivenOnce, Given, Resting

\* When r goes on, nobody else is about to give anything.
LEMMA Single ==
  ASSUME Types, Alone, NEW r \in Run, RunOn(r), NEW q \in Run, q # r
  PROVE  run[r] # Resting /\ run[q] = Resting /\ run[q].at = "idle"
<1>1. run[r] # Resting
  BY Shapes DEF At, RunOn, LookGone, LookDue, Publish, Copy, Advance, Send,
            BeginReminders, Notify, NextReminder, End
<1> QED  BY <1>1, Shapes DEF Alone

LEMMA RunGiven ==
  ASSUME Types, Alone, NEW r \in Run, Start(r) \/ RunOn(r) \/ Kill(r),
         NEW x \in Reminder, Given(x)
  PROVE  Given(x)'
<1> USE DEF At
<1>a. About[x] \in Post  BY CronAssumption
<1>0. \A q \in Run : q # r => run'[q] = run[q]  BY Others
<1>1. ASSUME reminder' = reminder, notified' = notified,
             \A p \in Post : post'[p].purged = post[p].purged,
             run'[r].at = "notify" /\ run'[r].about = x => reminder[x] = "waiting"
      PROVE  Given(x)'
  BY <1>0, <1>1, <1>a DEF Given
<1>2. CASE Start(r) \/ Kill(r)
  <2>1. run'[r].at \in {"posts", "idle"}
    BY <1>2, IdleRun, Moved DEF Start, Kill, Types
  <2> QED  BY <1>1, <1>2, <2>1 DEF Start, Kill
<1>3. CASE LookGone(r) \/ End(r)
  BY <1>1, <1>3, Ended DEF LookGone, End
<1>4. CASE \E p \in Post : LookDue(r, p)
  <2>1. run'[r].at \in {"copy", "publish"}  BY <1>4 DEF LookDue, Types
  <2> QED  BY <1>1, <1>4, <2>1 DEF LookDue
<1>5. CASE Publish(r) \/ Copy(r) \/ Advance(r) \/ Send(r)
  <2>1. /\ run[r].post \in Post /\ run[r].due \in Time
        /\ run[r].at \in {"publish", "copy", "advance", "send"}
    BY <1>5, Shapes DEF Publish, Copy, Advance, Send
  <2>2. run'[r].at # "notify"
    <3>1. CASE Send(r) /\ ~Over(r)  BY <3>1 DEF Send, Types
    <3>2. CASE Over(r)  BY <3>2, Ended
    <3>3. CASE Onward(r, "send") \/ Onward(r, "advance")  BY <2>1, <3>3, Gone
    <3> QED  BY <1>5, <3>1, <3>2, <3>3 DEF Publish, Copy, Advance
  <2>3. \A p \in Post : post'[p].purged = post[p].purged
    <3>1. CASE post' = post  BY <3>1
    <3>2. CASE post' = [post EXCEPT ![run[r].post].status = "published",
                                    ![run[r].post].due = Never]
      <4>1. Never \in 0..MaxTime + 1  BY CronAssumption DEF Never
      <4> QED  BY <2>1, <3>2, <4>1, NewTime
    <3>3. CASE post' = [post EXCEPT ![run[r].post].due = NextTime(run[r].due)]
      <4>1. NextTime(run[r].due) \in 0..MaxTime + 1
        BY <2>1, CronAssumption DEF Time, NextTime
      <4> QED  BY <2>1, <3>3, <4>1, NewTime
    <3> QED  BY <1>5, <3>1, <3>2, <3>3 DEF Publish, Copy, Advance, Send
  <2> QED  BY <1>1, <1>5, <2>2, <2>3 DEF Publish, Copy, Advance, Send
<1>6. CASE BeginReminders(r)
  <2>1. run'[r].at = "notify" => run'[r].about \in Waiting
    BY <1>6 DEF BeginReminders, Types
  <2> QED  BY <1>1, <1>6, <2>1 DEF BeginReminders, Waiting
<1>7. CASE \E y \in Reminder : NextReminder(r, y)
  <2>1. run'[r].at = "notify" => reminder[run'[r].about] = "waiting"
    BY <1>7, Ended DEF NextReminder, Types
  <2> QED  BY <1>1, <1>7, <2>1 DEF NextReminder
<1>8. CASE Notify(r)
  <2>0. run[r].about \in Reminder /\ run[r].at = "notify"
    BY <1>8, Shapes DEF Notify
  <2>1. CASE Over(r) /\ UNCHANGED <<reminder, notified>>
    BY <1>1, <1>8, <2>1, Ended DEF Notify
  <2>2. CASE /\ ~post[About[run[r].about]].purged
             /\ reminder' = Without(run[r].about)
             /\ notified' = [notified EXCEPT ![run[r].about] = @ + 1]
             /\ run' = [run EXCEPT ![r] = [at |-> "reminders", todo |-> @.todo]]
    <3>1. run'[r].at = "reminders"  BY <2>2 DEF Types
    <3>2. \A q \in Run : run'[q].at # "notify"
      BY <1>0, <1>8, <3>1, Single DEF RunOn
    <3>3. CASE run[r].about = x
      <4>1. reminder[x] = "waiting" /\ notified[x] = 0
        BY <2>0, <2>2, <3>3 DEF Given
      <4>2. reminder'[x] = "gone" /\ notified'[x] = 1
        BY <2>2, <3>3, <4>1 DEF Types, Without
      <4> QED  BY <3>2, <4>2 DEF Given
    <3>4. CASE run[r].about # x
      <4>1. reminder'[x] = reminder[x] /\ notified'[x] = notified[x]
        BY <2>0, <2>2, <3>4 DEF Types, Without
      <4> QED  BY <3>2, <4>1 DEF Given
    <3> QED  BY <3>3, <3>4
  <2> QED  BY <1>8, <2>1, <2>2 DEF Notify
<1> QED  BY <1>2, <1>3, <1>4, <1>5, <1>6, <1>7, <1>8 DEF RunOn

LEMMA StepGiven ==
  Types /\ AloneUnlessOverrun /\ GivenOnce /\ [CronNext]_cronVars => GivenOnce'
<1> SUFFICES ASSUME Types, AloneUnlessOverrun, GivenOnce, [CronNext]_cronVars,
                    NEW x \in Reminder, Unharmed(About[x], {"overrun"})'
             PROVE  Given(x)'
  BY DEF GivenOnce
<1>0. About[x] \in Post  BY CronAssumption
<1>1. CASE UNCHANGED cronVars
  BY <1>1 DEF cronVars, GivenOnce, Given, Unharmed
<1>2. ASSUME NEW r \in Run, Start(r) \/ RunOn(r) \/ Kill(r)  PROVE Given(x)'
  <2>1. Unharmed(About[x], {"overrun"})  BY <1>0, <1>2, Others DEF Unharmed
  <2> QED  BY <1>0, <1>2, <2>1, RunGiven DEF AloneUnlessOverrun, GivenOnce
<1>3. CASE \/ Tick \/ Lapse
           \/ \E q \in Post : Delete(q) \/ Purge(q) \/ \E u \in Time : Reschedule(q, u)
           \/ \E y \in Reminder : AskReminder(y) \/ AddReminder(y)
  <2>1. Unharmed(About[x], {"overrun"})  BY <1>0, <1>3, Aside DEF Unharmed
  <2>2. Given(x)  BY <2>1 DEF GivenOnce
  <2>3. run' = run /\ notified' = notified  BY <1>3, Aside
  <2>4. post[About[x]].purged => post'[About[x]].purged
    <3>1. CASE \E q \in Post : Delete(q) \/ Purge(q) \/ \E u \in Time : Reschedule(q, u)
      BY <1>0, <3>1, PeopleRows
    <3>2. CASE Tick \/ Lapse \/ \E y \in Reminder : AskReminder(y) \/ AddReminder(y)
      BY <3>2 DEF Tick, Lapse, AskReminder, AddReminder
    <3> QED  BY <1>3, <3>1, <3>2
  <2>5. reminder[x] = "gone" => reminder'[x] = "gone"
    BY <1>3 DEF Types, Tick, Lapse, Delete, Purge, WithoutReminders, Reschedule,
                AskReminder, AddReminder
  <2>6. reminder[x] = "waiting" => reminder'[x] = "waiting" \/ post'[About[x]].purged
    <3>1. CASE \E q \in Post : Purge(q)
      <4>1. PICK q \in Post : Purge(q)  BY <3>1
      <4>2. About[x] # q /\ reminder[x] = "waiting" => reminder'[x] = "waiting"
        BY <4>1 DEF Purge, WithoutReminders, Types
      <4> QED  BY <4>1, <4>2, PeopleRows
    <3>2. CASE ~\E q \in Post : Purge(q)
      BY <1>3, <3>2 DEF Types, Tick, Lapse, Delete, Reschedule, AskReminder, AddReminder
    <3> QED  BY <3>1, <3>2
  <2> QED  BY <2>2, <2>3, <2>4, <2>5, <2>6 DEF Given
<1> QED  BY <1>1, <1>2, <1>3 DEF CronNext

\* Nobody is reminded twice of the same, unless a run outlived its lock.
THEOREM OnceReminded == CronSpec => []RemindedOnce
<1>1. GivenOnce => RemindedOnce
  BY DEF GivenOnce, Given, RemindedOnce
<1> QED  BY <1>1, InitGiven, StepGiven, AlwaysTypes, AlwaysAlone, PTL DEF CronSpec

-----------------------------------------------------------------------------
\* What a run does to the posts: Publish takes the time away, Advance moves it
\* on, everything else leaves it alone.
LEMMA RunRows ==
  ASSUME Types, NEW r \in Run, Start(r) \/ RunOn(r) \/ Kill(r), NEW q \in Post
  PROVE  /\ post'[q].purged = post[q].purged
         /\ \/ post'[q].due = post[q].due
            \/ run[r].at = "publish" /\ run[r].post = q /\ post'[q].due = Never
            \/ run[r].at = "advance" /\ run[r].post = q /\ post'[q].due = run[r].due + 1
<1> USE DEF At
<1>1. CASE Publish(r) \/ Advance(r)
  <2>1. run[r].post \in Post /\ run[r].due \in Time
    BY <1>1, Shapes DEF Publish, Advance
  <2>2. CASE post' = post  BY <2>2
  <2>3. CASE Publish(r) /\ post' = [post EXCEPT ![run[r].post].status = "published",
                                                ![run[r].post].due = Never]
    <3>1. Never \in 0..MaxTime + 1  BY CronAssumption DEF Never
    <3> QED  BY <2>1, <2>3, <3>1, NewTime DEF Publish
  <2>4. CASE Advance(r) /\ post' = [post EXCEPT ![run[r].post].due = NextTime(run[r].due)]
    <3>1. NextTime(run[r].due) \in 0..MaxTime + 1
      BY <2>1, CronAssumption DEF Time, NextTime
    <3>2. NextTime(run[r].due) = run[r].due + 1  BY DEF NextTime
    <3> QED  BY <2>1, <2>4, <3>1, <3>2, NewTime DEF Advance
  <2> QED  BY <1>1, <2>2, <2>3, <2>4 DEF Publish, Advance
<1>2. CASE ~Publish(r) /\ ~Advance(r)
  <2>1. post' = post
    BY <1>2 DEF Start, RunOn, Kill, LookGone, LookDue, Copy, Send,
                BeginReminders, Notify, NextReminder, End
  <2> QED  BY <2>1
<1> QED  BY <1>1, <1>2

\* What a run does to what is public: Publish and Copy count the occurrence they
\* are at.
LEMMA RunPublic ==
  ASSUME Types, NEW r \in Run, Start(r) \/ RunOn(r) \/ Kill(r)
  PROVE  \/ public' = public
         \/ /\ run[r].at \in {"publish", "copy"}
            /\ run[r].post \in Post /\ run[r].due \in Time
            /\ public'[run[r].post][run[r].due] = public[run[r].post][run[r].due] + 1
            /\ \A q \in Post, t \in Time :
                 run[r].post # q \/ run[r].due # t => public'[q][t] = public[q][t]
            /\ run'[r].post = run[r].post /\ run'[r].due = run[r].due
            /\ run'[r].at = IF run[r].at = "copy" THEN "advance" ELSE "send"
            /\ run[r].at = "publish" => post'[run[r].post].due = Never
<1> USE DEF At
<1>1. CASE /\ Appears(run[r].post, run[r].due)
           /\ \/ Copy(r) /\ Onward(r, "advance")
              \/ /\ Publish(r) /\ Onward(r, "send")
                 /\ post' = [post EXCEPT ![run[r].post].status = "published",
                                         ![run[r].post].due = Never]
  <2>1. /\ run[r].post \in Post /\ run[r].due \in Time
        /\ run[r].at \in {"publish", "copy"}
        /\ run[r].at = "copy" <=> Copy(r)
    BY <1>1, Shapes DEF Publish, Copy
  <2>2. /\ public'[run[r].post][run[r].due] = public[run[r].post][run[r].due] + 1
        /\ \A q \in Post, t \in Time :
             run[r].post # q \/ run[r].due # t => public'[q][t] = public[q][t]
    BY <1>1, <2>1, Counted DEF Appears, Types
  <2>3. /\ run'[r].post = run[r].post /\ run'[r].due = run[r].due
        /\ run'[r].at \in {"advance", "send"}
        /\ run'[r].at = "advance" <=> Onward(r, "advance")
    BY <1>1, <2>1, Gone
  <2>4. run'[r].at = "send" <=> Onward(r, "send")
    BY <2>1, <1>1, Gone
  <2>5. run[r].at = "publish" => post'[run[r].post].due = Never
    <3>1. Never \in 0..MaxTime + 1  BY CronAssumption DEF Never
    <3>2. SUFFICES ASSUME run[r].at = "publish"  PROVE post'[run[r].post].due = Never
      OBVIOUS
    <3>3. post' = [post EXCEPT ![run[r].post].status = "published",
                               ![run[r].post].due = Never]
      BY <1>1, <3>2 DEF Copy
    <3> QED  BY <2>1, <3>1, <3>3, NewTime
  <2>6. run'[r].at = IF run[r].at = "copy" THEN "advance" ELSE "send"
    <3>1. run[r].at = "copy" => ~Publish(r)  BY DEF Publish
    <3>2. run[r].at # "copy" => ~Copy(r)  BY DEF Copy
    <3> QED  BY <1>1, <2>3, <2>4, <3>1, <3>2
  <2> QED  BY <2>1, <2>2, <2>3, <2>5, <2>6
<1>2. CASE public' = public  BY <1>2
<1>3. public' = public \/ Copy(r) \/ Publish(r)
  BY DEF Start, RunOn, Kill, LookGone, LookDue, Advance, Send,
         BeginReminders, Notify, NextReminder, End
<1> QED  BY <1>1, <1>2, <1>3 DEF Copy, Publish

\* How a run gets to a post, and on from copying it.
LEMMA RunAt ==
  ASSUME Types, NEW r \in Run, Start(r) \/ RunOn(r) \/ Kill(r)
  PROVE  /\ run'[r].at \in {"publish", "copy"} =>
              /\ run[r].at = "posts" /\ run'[r].post \in Post
              /\ run'[r].due = post[run'[r].post].due /\ run'[r].due \in Time
              /\ ~post[run'[r].post].purged /\ public' = public /\ post' = post
         /\ run'[r].at = "advance" =>
              /\ run[r].at = "copy"
              /\ run'[r].post = run[r].post /\ run'[r].due = run[r].due
              /\ run[r].post \in Post /\ run[r].due \in Time
              /\ public'[run[r].post][run[r].due] = public[run[r].post][run[r].due] + 1
         /\ run[r].at = "advance" =>
              \/ /\ ~post[run[r].post].purged
                 /\ post'[run[r].post].due = run[r].due + 1
              \/ post[run[r].post].purged \/ "killed" \in trouble'[run[r].post]
<1> USE DEF At
<1>1. CASE \E p \in Post : LookDue(r, p)
  <2>1. PICK p \in Post : LookDue(r, p)  BY <1>1
  <2>2. run'[r].at \in {"publish", "copy"} /\ run'[r].post = p /\ run'[r].due = post[p].due
    BY <2>1 DEF LookDue, Types
  <2>3. post[p].due \in Time
    BY <2>1, CronAssumption DEF LookDue, Due, Types, Time
  <2> QED  BY <2>1, <2>2, <2>3 DEF LookDue
<1>2. CASE Copy(r)
  <2>1. /\ run[r].at = "copy" /\ run'[r].at = "advance"
        /\ run'[r].post = run[r].post /\ run'[r].due = run[r].due
    BY <1>2, Gone DEF Copy
  <2>2. run[r].post \in Post /\ run[r].due \in Time
    BY <2>1, Shapes
  <2>3. public'[run[r].post][run[r].due] = public[run[r].post][run[r].due] + 1
    BY <1>2, <2>2, Counted DEF Copy, Appears, Types
  <2> QED  BY <2>1, <2>2, <2>3
<1>3. CASE Advance(r)
  <2>1. run[r].at = "advance" /\ run[r].post \in Post /\ run[r].due \in Time
    BY <1>3, Shapes DEF Advance
  <2>2. run'[r].at \in {"idle", "send"}
    <3>1. CASE Over(r)  BY <3>1, Ended
    <3>2. CASE Onward(r, "send")  BY <3>2 DEF Onward, Types, Runs, AtPost
    <3> QED  BY <1>3, <3>1, <3>2 DEF Advance
  <2>3. \/ post[run[r].post].purged
        \/ /\ ~post[run[r].post].purged
           /\ post'[run[r].post].due = run[r].due + 1
    <3>1. NextTime(run[r].due) \in 0..MaxTime + 1
      BY <2>1, CronAssumption DEF Time, NextTime
    <3>2. NextTime(run[r].due) = run[r].due + 1  BY DEF NextTime
    <3>3. CASE post[run[r].post].purged  BY <3>3
    <3>4. CASE ~post[run[r].post].purged
      <4>1. post' = [post EXCEPT ![run[r].post].due = NextTime(run[r].due)]
        BY <1>3, <3>4 DEF Advance
      <4> QED  BY <2>1, <3>1, <3>2, <3>4, <4>1, NewTime
    <3> QED  BY <3>3, <3>4
  <2> QED  BY <2>1, <2>2, <2>3
<1>4. CASE Kill(r)
  <2>1. run'[r].at = "idle"  BY <1>4, IdleRun, Moved DEF Kill
  <2>2. run[r].at = "advance" => "killed" \in trouble'[run[r].post]
    <3>1. run[r].at = "advance" => run[r].post \in Post  BY Shapes
    <3>2. trouble \in [Post -> SUBSET Troubles]  BY DEF Types
    <3> QED  BY <1>4, <3>1, <3>2 DEF Kill
  <2> QED  BY <2>1, <2>2
<1>5. CASE Publish(r)
  <2>1. run[r].at = "publish" /\ run'[r].at \in {"idle", "send"}
    <3>1. CASE Over(r)  BY <1>5, <3>1, Ended DEF Publish
    <3>2. CASE Onward(r, "send")  BY <1>5, <3>2 DEF Publish, Onward, Types, Runs, AtPost
    <3> QED  BY <1>5, <3>1, <3>2 DEF Publish
  <2> QED  BY <2>1
<1>6. CASE Start(r) \/ Send(r) \/ LookGone(r) \/ BeginReminders(r) \/ Notify(r) \/ End(r)
             \/ \E x \in Reminder : NextReminder(r, x)
  <2>1. run'[r].at \in {"idle", "posts", "notify", "reminders"}
    <3>1. CASE Over(r)  BY <3>1, Ended
    <3> QED
      BY <1>6, <3>1 DEF Start, Send, LookGone, BeginReminders, Notify, End,
                        NextReminder, Types
  <2>2. run[r].at # "advance"
    BY <1>6, Shapes DEF Start, Send, LookGone, BeginReminders, Notify, End, NextReminder
  <2> QED  BY <2>1, <2>2
<1> QED  BY <1>1, <1>2, <1>3, <1>4, <1>5, <1>6 DEF RunOn

LEMMA RunGrows ==
  ASSUME Types, NEW r \in Run, Start(r) \/ RunOn(r) \/ Kill(r),
         NEW p \in Post, NEW t \in Time
  PROVE  public[p][t] <= public'[p][t]
<1>1. CASE public' = public  BY <1>1, Numbers
<1>2. CASE public' # public
  <2>1. /\ run[r].post \in Post /\ run[r].due \in Time
        /\ public'[run[r].post][run[r].due] = public[run[r].post][run[r].due] + 1
        /\ run[r].post # p \/ run[r].due # t => public'[p][t] = public[p][t]
    BY <1>2, RunPublic
  <2> QED  BY <2>1, Numbers
<1> QED  BY <1>1, <1>2

LEMMA OutsideRows ==
  ASSUME Types, NEW p \in Post, "edited" \notin trouble'[p],
         \/ Tick \/ Lapse
         \/ \E q \in Post : Delete(q) \/ Purge(q) \/ \E u \in Time : Reschedule(q, u)
         \/ \E x \in Reminder : AskReminder(x) \/ AddReminder(x)
  PROVE  post'[p].due = post[p].due /\ (post[p].purged => post'[p].purged)
<1>1. CASE \E q \in Post : Delete(q) \/ Purge(q) \/ \E u \in Time : Reschedule(q, u)
  BY <1>1, PeopleRows
<1>2. CASE Tick \/ Lapse \/ \E x \in Reminder : AskReminder(x) \/ AddReminder(x)
  <2>1. post' = post  BY <1>2 DEF Tick, Lapse, AskReminder, AddReminder
  <2> QED  BY <2>1
<1> QED  BY <1>1, <1>2

\* Every occurrence before the next one is public; so it is for every run that
\* is at an occurrence, whatever the others do.
Ahead(p) ==
  /\ \A t \in Time : t < post[p].due => public[p][t] > 0
  /\ \A r \in Run, t \in Time :
       /\ run[r].at = "copy" /\ run[r].post = p /\ t < run[r].due => public[p][t] > 0
       /\ run[r].at = "advance" /\ run[r].post = p /\ t <= run[r].due =>
            public[p][t] > 0
AllAhead == \A p \in Post : Unharmed(p, {"edited"}) => Ahead(p)

LEMMA InitAhead == CronInit => AllAhead
  BY DEF CronInit, AllAhead, Ahead, Resting, Time

LEMMA RunAhead ==
  ASSUME Types, Types', NEW r \in Run, Start(r) \/ RunOn(r) \/ Kill(r),
         NEW p \in Post, Ahead(p)
  PROVE  Ahead(p)'
<1>0. \A t \in Time : public[p][t] > 0 => public'[p][t] > 0
  BY RunGrows, Numbers DEF Types
<1>1. ASSUME NEW t \in Time, t < post'[p].due  PROVE public'[p][t] > 0
  <2>1. CASE post'[p].due = post[p].due  BY <1>0, <1>1, <2>1 DEF Ahead
  <2>2. CASE post'[p].due = Never  BY <1>1, <2>2, CronAssumption DEF Never, Time
  <2>3. CASE run[r].at = "advance" /\ run[r].post = p /\ post'[p].due = run[r].due + 1
    <3>1. run[r].due \in Time  BY <2>3, Shapes
    <3>2. t <= run[r].due  BY <1>1, <2>3, <3>1, CronAssumption DEF Time
    <3> QED  BY <1>0, <2>3, <3>2 DEF Ahead
  <2> QED  BY <2>1, <2>2, <2>3, RunRows
<1>2. ASSUME NEW q \in Run, NEW t \in Time, run'[q].at = "copy", run'[q].post = p,
             t < run'[q].due
      PROVE  public'[p][t] > 0
  <2>1. CASE q # r
    <3>1. run'[q] = run[q]  BY <2>1, Others
    <3> QED  BY <1>0, <1>2, <3>1 DEF Ahead
  <2>2. CASE q = r
    <3>1. run'[q].due = post[p].due  BY <1>2, <2>2, RunAt
    <3> QED  BY <1>0, <1>2, <3>1 DEF Ahead
  <2> QED  BY <2>1, <2>2
<1>3. ASSUME NEW q \in Run, NEW t \in Time, run'[q].at = "advance", run'[q].post = p,
             t <= run'[q].due
      PROVE  public'[p][t] > 0
  <2>1. CASE q # r
    <3>1. run'[q] = run[q]  BY <2>1, Others
    <3> QED  BY <1>0, <1>3, <3>1 DEF Ahead
  <2>2. CASE q = r
    <3>1. /\ run[q].at = "copy" /\ run[q].post = p /\ run'[q].due = run[q].due
          /\ run[q].due \in Time
          /\ public'[p][run[q].due] = public[p][run[q].due] + 1
      BY <1>3, <2>2, RunAt
    <3>2. CASE t < run[q].due  BY <1>0, <3>1, <3>2 DEF Ahead
    <3>3. CASE t = run[q].due  BY <3>1, <3>3, Numbers
    <3> QED  BY <1>3, <3>1, <3>2, <3>3, CronAssumption DEF Time
  <2> QED  BY <2>1, <2>2
<1> QED  BY <1>1, <1>2, <1>3 DEF Ahead

LEMMA StepAhead == Types /\ Types' /\ AllAhead /\ [CronNext]_cronVars => AllAhead'
<1> SUFFICES ASSUME Types, Types', AllAhead, [CronNext]_cronVars,
                    NEW p \in Post, Unharmed(p, {"edited"})'
             PROVE  Ahead(p)'
  BY DEF AllAhead
<1>1. CASE UNCHANGED cronVars
  BY <1>1 DEF cronVars, AllAhead, Ahead, Unharmed
<1>2. CASE \E r \in Run : Start(r) \/ RunOn(r) \/ Kill(r)
  <2>1. Unharmed(p, {"edited"})  BY <1>2, Others DEF Unharmed
  <2> QED  BY <1>2, <2>1, RunAhead DEF AllAhead
<1>3. CASE \/ Tick \/ Lapse
           \/ \E q \in Post : Delete(q) \/ Purge(q) \/ \E u \in Time : Reschedule(q, u)
           \/ \E x \in Reminder : AskReminder(x) \/ AddReminder(x)
  <2>1. /\ run' = run /\ public' = public /\ Unharmed(p, {"edited"})
    BY <1>3, Aside DEF Unharmed
  <2>2. post'[p].due = post[p].due  BY <1>3, OutsideRows DEF Unharmed
  <2> QED  BY <2>1, <2>2 DEF AllAhead, Ahead
<1> QED  BY <1>1, <1>2, <1>3 DEF CronNext

\* No occurrence of a post that repeats is passed over, not even when runs
\* overlap or are killed, unless its author changed its time.
THEOREM NothingSkipped == CronSpec => []NoneSkipped
<1>1. AllAhead => NoneSkipped
  BY CronAssumption DEF AllAhead, Ahead, NoneSkipped
<1> QED  BY <1>1, InitAhead, StepAhead, AlwaysTypes, PTL DEF CronSpec

-----------------------------------------------------------------------------
\* An occurrence that is still to come is not public, unless a run has just made
\* it so and is about to move the post on.
Fresh(p) ==
  /\ \A t \in Time : public[p][t] <= 1
  /\ \A r \in Run : run[r].post = p =>
       /\ run[r].at \in {"publish", "copy"} =>
            run[r].due = post[p].due /\ public[p][run[r].due] = 0
       /\ run[r].at = "advance" => run[r].due = post[p].due
  /\ ~post[p].purged /\ post[p].due # Never => \A t \in Time :
       t >= post[p].due => \/ public[p][t] = 0
                           \/ \E r \in Run : /\ run[r].at = "advance"
                                             /\ run[r].post = p /\ run[r].due = t
AllFresh == \A p \in Post : Unharmed(p, {"edited", "killed", "overrun"}) => Fresh(p)

LEMMA InitFresh == CronInit => AllFresh
<1> SUFFICES ASSUME CronInit, NEW p \in Post  PROVE Fresh(p)
  BY DEF AllFresh
<1>1. \A t \in Time : public[p][t] = 0  BY DEF CronInit
<1>2. \A r \in Run : run[r].at = "idle"  BY DEF CronInit, Resting
<1> QED  BY <1>1, <1>2 DEF Fresh

LEMMA OthersIdle ==
  ASSUME Types, Alone, NEW r \in Run, Start(r) \/ RunOn(r) \/ Kill(r),
         NEW q \in Run, q # r
  PROVE  run[q].at = "idle" /\ run'[q].at = "idle"
<1>1. run[q] = Resting
  <2>1. CASE Start(r)  BY <2>1, CronAssumption DEF Start, Alone
  <2>2. CASE RunOn(r)  BY <2>2, Single
  <2>3. CASE Kill(r)  BY <2>3 DEF Kill, Alone
  <2> QED  BY <2>1, <2>2, <2>3
<1> QED  BY <1>1, Others, IdleRun

LEMMA RunFresh ==
  ASSUME Types, Types', Alone, NEW r \in Run, Start(r) \/ RunOn(r) \/ Kill(r),
         NEW p \in Post, Fresh(p), "killed" \notin trouble'[p]
  PROVE  Fresh(p)'
<1>0. \A q \in Run : q # r => run[q].at = "idle" /\ run'[q].at = "idle"
  BY OthersIdle
<1>1. ASSUME NEW t \in Time  PROVE public'[p][t] <= 1
  <2>1. CASE public' = public  BY <2>1 DEF Fresh
  <2>2. CASE public' # public
    <3>1. /\ run[r].at \in {"publish", "copy"}
          /\ run[r].post \in Post /\ run[r].due \in Time
          /\ public'[run[r].post][run[r].due] = public[run[r].post][run[r].due] + 1
          /\ run[r].post # p \/ run[r].due # t => public'[p][t] = public[p][t]
      BY <2>2, RunPublic
    <3> QED  BY <3>1 DEF Fresh
  <2> QED  BY <2>1, <2>2
<1>2. ASSUME NEW q \in Run, run'[q].at \in {"publish", "copy"}, run'[q].post = p
      PROVE  run'[q].due = post'[p].due /\ public'[p][run'[q].due] = 0
  <2>1. q = r  BY <1>0, <1>2
  <2>2. /\ run[r].at = "posts" /\ run'[r].due = post[p].due /\ run'[r].due \in Time
        /\ ~post[p].purged /\ public' = public /\ post' = post
    BY <1>2, <2>1, RunAt
  <2>3. post[p].due # Never  BY <2>2, CronAssumption DEF Never, Time
  <2>4. ~\E u \in Run : run[u].at = "advance"  BY <1>0, <2>2
  <2>5. public[p][run'[r].due] = 0
    BY <2>2, <2>3, <2>4, CronAssumption DEF Fresh, Time
  <2> QED  BY <2>1, <2>2, <2>5
<1>3. ASSUME NEW q \in Run, run'[q].at = "advance", run'[q].post = p
      PROVE  run'[q].due = post'[p].due
  <2>1. q = r  BY <1>0, <1>3
  <2>2. run[r].at = "copy" /\ run[r].post = p /\ run'[r].due = run[r].due
    BY <1>3, <2>1, RunAt
  <2>3. post'[p].due = post[p].due  BY <2>2, RunRows
  <2> QED  BY <2>1, <2>2, <2>3 DEF Fresh
<1>4. ASSUME ~post'[p].purged, post'[p].due # Never, NEW t \in Time, t >= post'[p].due,
             public'[p][t] # 0
      PROVE  \E q \in Run : run'[q].at = "advance" /\ run'[q].post = p /\ run'[q].due = t
  <2>0. ~post[p].purged  BY <1>4, RunRows
  <2>1. CASE public' # public /\ run[r].post = p /\ run[r].due = t
    <3>1. run[r].at # "publish"  BY <1>4, <2>1, RunPublic
    <3>2. run'[r].at = "advance" /\ run'[r].post = p /\ run'[r].due = t
      BY <2>1, <3>1, RunPublic
    <3> QED  BY <3>2
  <2>2. CASE ~(public' # public /\ run[r].post = p /\ run[r].due = t)
    <3>1. public'[p][t] = public[p][t]  BY <2>2, RunPublic
    <3>2. CASE run[r].at = "advance" /\ run[r].post = p
      <4>1. run[r].due = post[p].due /\ run[r].due \in Time
        BY <3>2, Shapes DEF Fresh
      <4>2. post'[p].due = run[r].due + 1  BY <2>0, <3>2, RunAt
      <4>3. post[p].due # Never /\ t >= post[p].due /\ run[r].due # t
        BY <1>4, <4>1, <4>2, CronAssumption DEF Never, Time
      <4>4. public[p][t] = 0  BY <1>0, <2>0, <4>3 DEF Fresh
      <4> QED  BY <1>4, <3>1, <4>4
    <3>3. CASE ~(run[r].at = "advance" /\ run[r].post = p)
      <4>1. post'[p].due = post[p].due  BY <1>4, <3>3, RunRows
      <4>2. public[p][t] = 0  BY <1>0, <1>4, <2>0, <3>3, <4>1 DEF Fresh
      <4> QED  BY <1>4, <3>1, <4>2
    <3> QED  BY <3>2, <3>3
  <2> QED  BY <2>1, <2>2
<1> QED  BY <1>1, <1>2, <1>3, <1>4 DEF Fresh

LEMMA StepFresh ==
  Types /\ Types' /\ AloneUnlessOverrun /\ AllFresh /\ [CronNext]_cronVars => AllFresh'
<1> SUFFICES ASSUME Types, Types', AloneUnlessOverrun, AllFresh, [CronNext]_cronVars,
                    NEW p \in Post, Unharmed(p, {"edited", "killed", "overrun"})'
             PROVE  Fresh(p)'
  BY DEF AllFresh
<1>1. CASE UNCHANGED cronVars
  BY <1>1 DEF cronVars, AllFresh, Fresh, Unharmed
<1>2. CASE \E r \in Run : Start(r) \/ RunOn(r) \/ Kill(r)
  <2>1. Unharmed(p, {"edited", "killed", "overrun"}) /\ "killed" \notin trouble'[p]
    BY <1>2, Others DEF Unharmed
  <2>2. Alone  BY <2>1 DEF AloneUnlessOverrun, Unharmed
  <2> QED  BY <1>2, <2>1, <2>2, RunFresh DEF AllFresh
<1>3. CASE \/ Tick \/ Lapse
           \/ \E q \in Post : Delete(q) \/ Purge(q) \/ \E u \in Time : Reschedule(q, u)
           \/ \E x \in Reminder : AskReminder(x) \/ AddReminder(x)
  <2>1. /\ run' = run /\ public' = public
        /\ Unharmed(p, {"edited", "killed", "overrun"})
    BY <1>3, Aside DEF Unharmed
  <2>2. post'[p].due = post[p].due /\ (post[p].purged => post'[p].purged)
    BY <1>3, OutsideRows DEF Unharmed
  <2> QED  BY <2>1, <2>2 DEF AllFresh, Fresh
<1> QED  BY <1>1, <1>2, <1>3 DEF CronNext

\* Every occurrence of a post becomes public at most once, unless its author
\* changed its time, a run was killed between its commits or outlived its lock.
THEOREM OncePublished == CronSpec => []PublishedOnce
<1>1. AllFresh => PublishedOnce
  BY DEF AllFresh, Fresh, PublishedOnce
<1> QED  BY <1>1, InitFresh, StepFresh, AlwaysTypes, AlwaysAlone, PTL DEF CronSpec
=============================================================================
