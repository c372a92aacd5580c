----------------------------- MODULE ChatProofs -----------------------------
(***************************************************************************)
(* Chat for every value of its constants: its types, that the number at    *)
(* the bell is that of the unread notifications, and that both sides come  *)
(* to see the same messages.                                               *)
(***************************************************************************)
EXTENDS Chat, TLAPS, FiniteSetTheorems

\* The requests that bring a message on, and where each can be.
Moving == {"send", "edit", "delete", "restore", "receive"}
Telling == {"send", "edit", "receive"}
Place(j) ==
  \/ j.op = "send" /\ j.at \in {"open", "store", "address"}
  \/ j.op \in {"send", "edit"} /\ j.at = Onward(j.p, j.q)
  \/ j.op \in {"send", "edit"} /\ j.at = "write" /\ IsLocal(j.p, j.q)
  \/ j.op \in {"delete", "restore"} /\ j.at = IF IsLocal(j.p, j.q) THEN "end" ELSE "post"
  \/ j.op = "receive" /\ j.at \in {"open", "store", "count", "write"} /\ ~IsLocal(j.p, j.q)
  \/ j.op \in {"view", "read", "unread", "all"} /\ j.at \in {"count", "write"}
  \/ j.op = "leave" /\ j.at \in {"look", "remove"}
Placed(j) ==
  /\ Place(j)
  /\ j.op \in Moving => j.m \in 1 .. sent
  /\ j.op \in {"read", "unread"} => j.m \in Message
Places == \A w \in Worker : ~Idle(w) => Placed(job[w])
Mail == BagToSet(net)
Numbered ==
  /\ \A s \in Site, m \in Message : Known(s, m) => m <= sent
  /\ \A a \in Mail : a.m <= sent /\ ~IsLocal(a.p, a.q)

(***************************************************************************)
(* The number at the bell.                                                 *)
(***************************************************************************)
Viewing(p) == \E w \in Worker : job[w].op = "view" /\ At(w, "count") /\ Reader(w) = p
Writes(w, p) ==
  /\ job[w].op # "all" => job[w].num = Unread(notes[p])
  /\ job[w].op \notin {"view", "all"} => unread[p] = Unread(notes[p])
  /\ job[w].op \in {"read", "unread", "all"} => job[w].seen = BagToSet(notes[p])
BellRight(p) ==
  p \notin muddled =>
    /\ \A v, w \in Counting(p) : v = w
    /\ ~Viewing(p) =>
         IF Counting(p) = {} THEN unread[p] = Unread(notes[p])
         ELSE \A w \in Counting(p) : Writes(w, p)
BellsRight == \A p \in Person : BellRight(p)

(***************************************************************************)
(* The two sides.                                                          *)
(***************************************************************************)
Moves(w, m) == job[w].op \in Moving /\ job[w].m = m

\* What a request knows of its conversation, and who is in one nobody left.
InRoom(w) ==
  LET j == job[w]
      s == WorksAt(w)
  IN
  /\ j.op \in {"send", "receive"} /\ j.at = "store" =>
       j.c <= opened[s] /\ (j.c \in DOMAIN conv[s] => conv[s][j.c].who = {j.p, j.q})
  /\ j.op = "leave" =>
       j.c <= opened[s] /\ (j.c \in DOMAIN conv[s] => conv[s][j.c].who \in left)
Rooms ==
  /\ \A w \in Worker : InRoom(w)
  /\ \A s \in Site : \A c \in DOMAIN conv[s] :
       conv[s][c].who \notin left => conv[s][c].joined = conv[s][c].who

\* A message is between two.
Written(x, m, p, q) ==
  LET r == row[x][m] IN
  /\ x \in {Lives[p], Lives[q]}
  /\ r.from = p /\ r.to \in {{}, {q}} /\ conv[x][r.conv].who = {p, q}
Of(m, p, q) ==
  /\ \A x \in Site : Known(x, m) => Written(x, m, p, q)
  /\ \A a \in Mail : a.m = m => a.p = p /\ a.q = q
  /\ \A w \in Worker : Moves(w, m) => job[w].p = p /\ job[w].q = q

Alone(m) ==
  /\ \A v, w \in Worker : Moves(v, m) /\ Moves(w, m) => v = w
  /\ \A a \in Mail : a.m = m =>
       /\ net[a] = 1 /\ \A w \in Worker : ~Moves(w, m)
       /\ \A b \in Mail : b.m = m => a = b

\* S is the row of the sender, T the one of the recipient.
Sent(S, q) == S # None /\ S.to = {q}
SameBody(S, T, q) == Sent(S, q) /\ T # None /\ T.body = S.body
SameFlag(S, T, q) == Sent(S, q) /\ (IF T = None THEN ~S.deleted ELSE T.deleted = S.deleted)
Matches(S, T, q) == SameBody(S, T, q) /\ SameFlag(S, T, q)
Does(j, S, T, q) ==
  /\ j.op = "send" => T = None
  /\ j.op = "send" /\ j.at \in {"open", "store"} => S = None
  /\ j.op = "send" /\ j.at = "address" => S # None /\ ~S.deleted
  /\ j.op = "send" /\ j.at = "post" => SameFlag(S, T, q)
  /\ j.op = "edit" => T # None /\ SameFlag(S, T, q)
  /\ j.op \in {"delete", "restore"} => SameBody(S, T, q) /\ S.deleted = (j.op = "delete")
  /\ j.op = "receive" /\ j.at \in {"open", "store"} =>
       SameFlag(S, T, q) /\ j.num = S.body
  /\ j.op = "receive" /\ j.at = "store" => j.had = (T # None)
  /\ j.op = "receive" /\ j.at \in {"count", "write"} => Matches(S, T, q)
Brings(a, S, T, q) ==
  /\ a.kind = "Create" => SameFlag(S, T, q) /\ a.body = S.body
  /\ a.kind \in {"Delete", "Undo"} =>
       SameBody(S, T, q) /\ S.deleted = (a.kind = "Delete")
Side(m, p, q) ==
  LET S == row[Lives[p]][m]
      T == row[Lives[q]][m]
  IN
  /\ Alone(m)
  /\ T # None => T.to = {q}
  /\ \A w \in Worker : Moves(w, m) => Does(job[w], S, T, q)
  /\ \A w \in Worker : Moves(w, m) /\ job[w].op = "receive" /\ job[w].at = "store"
                         /\ ~job[w].had => job[w].c \in DOMAIN conv[Lives[q]]
  /\ \A a \in Mail : a.m = m => Brings(a, S, T, q)
  /\ \/ S = None \/ Matches(S, T, q)
     \/ \E w \in Worker : Moves(w, m)
     \/ \E a \in Mail : a.m = m
Told(m, p, q) ==
  /\ p # q /\ Of(m, p, q)
  /\ m \notin crossed /\ ~IsLocal(p, q) /\ {p, q} \notin left => Side(m, p, q)
MessagesRight ==
  \A m \in Message : m <= sent => \E p, q \in Person : Told(m, p, q)

-----------------------------------------------------------------------------
(***************************************************************************)
(* Jobs.                                                                   *)
(***************************************************************************)
Ops == Moving \cup {"view", "read", "unread", "all", "leave"}
Ats == {"open", "store", "address", "post", "end", "count", "write", "look", "remove"}
JobTypes == job \in [Worker -> Running \cup {NoJob}]
Others(w) == \A v \in Worker : v # w => job'[v] = job[v]
SameJob(j, k) ==
  /\ k.op = j.op /\ k.p = j.p /\ k.q = j.q /\ k.m = j.m

LEMMA Fields ==
  ASSUME NEW j \in Running
  PROVE  /\ j.op \in Ops /\ j.p \in Person /\ j.q \in Person /\ j.m \in 0 .. MaxMessages
         /\ j.c \in Nat /\ j.had \in BOOLEAN /\ j.num \in Nat /\ j.at \in Ats
         /\ j.seen \in SUBSET Notification /\ j.rows \in SUBSET Message
         /\ j # NoJob
<1>1. /\ j.op \in Ops /\ j.p \in Person /\ j.q \in Person /\ j.m \in 0 .. MaxMessages
      /\ j.c \in Nat /\ j.had \in BOOLEAN /\ j.num \in Nat /\ j.at \in Ats
      /\ j.seen \in SUBSET Notification /\ j.rows \in SUBSET Message
  BY DEF Running, Ops, Moving, Ats
<1>2. "none" \notin Ops  BY DEF Ops, Moving
<1>3. NoJob.op = "none"  BY DEF NoJob
<1> QED  BY <1>1, <1>2, <1>3

LEMMA LivesType == \A p \in Person : Lives[p] \in Site
  BY ChatAssumption

LEMMA Jobs ==
  ASSUME JobTypes, NEW w \in Worker, ~Idle(w)
  PROVE  /\ job[w] \in Running /\ job[w].p \in Person /\ job[w].q \in Person
         /\ Lives[job[w].p] \in Site /\ Lives[job[w].q] \in Site
         /\ WorksAt(w) \in Site /\ Reader(w) \in Person
<1>1. job[w] \in Running  BY DEF JobTypes, Idle
<1>2. job[w].p \in Person /\ job[w].q \in Person  BY <1>1, Fields
<1> QED  BY <1>1, <1>2, LivesType DEF WorksAt, Reader

LEMMA Somewhere ==
  \A w \in Worker : /\ \A at : At(w, at) => ~Idle(w) /\ job[w].at = at
                    /\ job[w].op \in Ops => ~Idle(w)
  BY DEF At, Idle, NoJob, Ops, Moving

LEMMA NewJob ==
  ASSUME NEW op \in Ops, NEW p \in Person, NEW q \in Person,
         NEW m \in 0 .. MaxMessages, NEW c \in Nat, NEW at \in Ats
  PROVE  LET j == Job(op, p, q, m, c, at) IN
         /\ j \in Running /\ j.op = op /\ j.p = p /\ j.q = q /\ j.m = m
         /\ j.c = c /\ j.at = at /\ j.num = 0 /\ ~j.had
<1>1. Job(op, p, q, m, c, at) \in Running
  BY DEF Job, Running, Ops, Moving, Ats
<1> QED  BY <1>1 DEF Job

LEMMA Setting ==
  ASSUME NEW r \in Running
  PROVE  /\ \A x \in Ats : [r EXCEPT !.at = x] \in Running
         /\ \A x \in Nat : [r EXCEPT !.num = x] \in Running
         /\ \A x \in Nat : [r EXCEPT !.c = x] \in Running
         /\ \A x \in BOOLEAN : [r EXCEPT !.had = x] \in Running
         /\ \A x \in SUBSET Notification : [r EXCEPT !.seen = x] \in Running
         /\ \A x \in SUBSET Message : [r EXCEPT !.rows = x] \in Running
<1>1. \A x \in Ats : [r EXCEPT !.at = x] \in Running  BY DEF Running, Ats
<1>2. \A x \in Nat : [r EXCEPT !.num = x] \in Running  BY DEF Running
<1>3. \A x \in Nat : [r EXCEPT !.c = x] \in Running  BY DEF Running
<1>4. \A x \in BOOLEAN : [r EXCEPT !.had = x] \in Running  BY DEF Running
<1>5. \A x \in SUBSET Notification : [r EXCEPT !.seen = x] \in Running  BY DEF Running
<1>6. \A x \in SUBSET Message : [r EXCEPT !.rows = x] \in Running  BY DEF Running
<1> QED  BY <1>1, <1>2, <1>3, <1>4, <1>5, <1>6

LEMMA Taking ==
  ASSUME JobTypes, NEW w \in Worker, NEW j \in Running, job' = [job EXCEPT ![w] = j]
  PROVE  JobTypes' /\ job'[w] = j /\ ~Idle(w)' /\ Others(w)
<1>1. j # NoJob  BY Fields
<1> QED  BY <1>1 DEF JobTypes, Others, Idle

LEMMA Ending ==
  ASSUME JobTypes, NEW w \in Worker, End(w)
  PROVE  JobTypes' /\ job'[w] = NoJob /\ Idle(w)' /\ Others(w)
  BY DEF End, JobTypes, Idle, Others

LEMMA Going ==
  ASSUME JobTypes, NEW w \in Worker, ~Idle(w), NEW at \in Ats, GoTo(w, at)
  PROVE  LET j == job'[w] IN
         /\ JobTypes' /\ j \in Running /\ ~Idle(w)' /\ Others(w)
         /\ SameJob(job[w], j) /\ j.at = at /\ j.c = job[w].c /\ j.num = job[w].num
<1> DEFINE j == [job[w] EXCEPT !.at = at]
<1>1. job[w] \in Running  BY Jobs
<1>2. j \in Running  BY <1>1, Setting
<1>3. job' = [job EXCEPT ![w] = j]  BY DEF GoTo, JobTypes
<1>4. SameJob(job[w], j) /\ j.at = at /\ j.c = job[w].c /\ j.num = job[w].num
  BY <1>1 DEF Running, SameJob
<1> HIDE DEF j
<1> QED  BY <1>2, <1>3, <1>4, Taking

LEMMA Opening ==
  ASSUME JobTypes, NEW w \in Worker, ~Idle(w), NEW c \in Nat, NEW had \in BOOLEAN,
         job' = [job EXCEPT ![w] = [@ EXCEPT !.c = c, !.at = "store", !.had = had]]
  PROVE  LET j == job'[w] IN
         /\ JobTypes' /\ j \in Running /\ ~Idle(w)' /\ Others(w)
         /\ SameJob(job[w], j) /\ j.at = "store" /\ j.c = c /\ j.had = had
         /\ j.num = job[w].num
<1> DEFINE j == [job[w] EXCEPT !.c = c, !.at = "store", !.had = had]
<1>1. job[w] \in Running  BY Jobs
<1>2. j \in Running
  <2>1. j = [[[job[w] EXCEPT !.c = c] EXCEPT !.at = "store"] EXCEPT !.had = had]
    OBVIOUS
  <2>2. "store" \in Ats  BY DEF Ats
  <2>3. [job[w] EXCEPT !.c = c] \in Running  BY <1>1, Setting
  <2>4. [[job[w] EXCEPT !.c = c] EXCEPT !.at = "store"] \in Running  BY <2>2, <2>3, Setting
  <2> QED  BY <2>1, <2>4, Setting
<1>3. job' = [job EXCEPT ![w] = j]  BY DEF JobTypes
<1>4. SameJob(job[w], j) /\ j.at = "store" /\ j.c = c /\ j.had = had /\ j.num = job[w].num
  BY <1>1 DEF Running, SameJob
<1> HIDE DEF j
<1> QED  BY <1>2, <1>3, <1>4, Taking

LEMMA Storing ==
  ASSUME JobTypes, NEW w \in Worker, ~Idle(w),
         job' = [job EXCEPT ![w] = [@ EXCEPT !.num = 0, !.at = "count"]]
  PROVE  LET j == job'[w] IN
         /\ JobTypes' /\ j \in Running /\ ~Idle(w)' /\ Others(w)
         /\ SameJob(job[w], j) /\ j.at = "count" /\ j.c = job[w].c
<1> DEFINE j == [job[w] EXCEPT !.num = 0, !.at = "count"]
<1>1. job[w] \in Running  BY Jobs
<1>2. j \in Running
  <2>1. j = [[job[w] EXCEPT !.num = 0] EXCEPT !.at = "count"]  OBVIOUS
  <2>2. "count" \in Ats  BY DEF Ats
  <2>3. [job[w] EXCEPT !.num = 0] \in Running  BY <1>1, Setting
  <2> QED  BY <2>1, <2>2, <2>3, Setting
<1>3. job' = [job EXCEPT ![w] = j]  BY DEF JobTypes
<1>4. SameJob(job[w], j) /\ j.at = "count" /\ j.c = job[w].c
  BY <1>1 DEF Running, SameJob
<1> HIDE DEF j
<1> QED  BY <1>2, <1>3, <1>4, Taking

LEMMA Reading ==
  ASSUME JobTypes, NEW w \in Worker, ~Idle(w), NEW n \in Nat,
         NEW S \in SUBSET Notification,
         job' = [job EXCEPT ![w] = [@ EXCEPT !.at = "write", !.num = n, !.seen = S]]
  PROVE  LET j == job'[w] IN
         /\ JobTypes' /\ j \in Running /\ ~Idle(w)' /\ Others(w)
         /\ SameJob(job[w], j) /\ j.at = "write" /\ j.num = n /\ j.seen = S
         /\ j.c = job[w].c
<1> DEFINE j == [job[w] EXCEPT !.at = "write", !.num = n, !.seen = S]
<1>1. job[w] \in Running  BY Jobs
<1>2. j \in Running
  <2>1. j = [[[job[w] EXCEPT !.at = "write"] EXCEPT !.num = n] EXCEPT !.seen = S]
    OBVIOUS
  <2>2. "write" \in Ats  BY DEF Ats
  <2>3. [job[w] EXCEPT !.at = "write"] \in Running  BY <1>1, <2>2, Setting
  <2>4. [[job[w] EXCEPT !.at = "write"] EXCEPT !.num = n] \in Running  BY <2>3, Setting
  <2> QED  BY <2>1, <2>4, Setting
<1>3. job' = [job EXCEPT ![w] = j]  BY DEF JobTypes
<1>4. /\ SameJob(job[w], j) /\ j.at = "write" /\ j.num = n /\ j.seen = S
      /\ j.c = job[w].c
  BY <1>1 DEF Running, SameJob
<1> HIDE DEF j
<1> QED  BY <1>2, <1>3, <1>4, Taking

LEMMA Looking ==
  ASSUME JobTypes, NEW w \in Worker, ~Idle(w), NEW S \in SUBSET Message,
         job' = [job EXCEPT ![w] = [@ EXCEPT !.at = "remove", !.rows = S]]
  PROVE  LET j == job'[w] IN
         /\ JobTypes' /\ j \in Running /\ ~Idle(w)' /\ Others(w)
         /\ SameJob(job[w], j) /\ j.at = "remove" /\ j.c = job[w].c
<1> DEFINE j == [job[w] EXCEPT !.at = "remove", !.rows = S]
<1>1. job[w] \in Running  BY Jobs
<1>2. j \in Running
  <2>1. j = [[job[w] EXCEPT !.at = "remove"] EXCEPT !.rows = S]  OBVIOUS
  <2>2. "remove" \in Ats  BY DEF Ats
  <2>3. [job[w] EXCEPT !.at = "remove"] \in Running  BY <1>1, <2>2, Setting
  <2> QED  BY <2>1, <2>3, Setting
<1>3. job' = [job EXCEPT ![w] = j]  BY DEF JobTypes
<1>4. SameJob(job[w], j) /\ j.at = "remove" /\ j.c = job[w].c
  BY <1>1 DEF Running, SameJob
<1> HIDE DEF j
<1> QED  BY <1>2, <1>3, <1>4, Taking

-----------------------------------------------------------------------------
(***************************************************************************)
(* Bags.                                                                   *)
(***************************************************************************)
IsSum(E, B, C) ==
  /\ \A x : x \in BagToSet(E) <=> x \in BagToSet(B) \/ x \in BagToSet(C)
  /\ \A x \in BagToSet(B) : x \notin BagToSet(C) => E[x] = B[x]
  /\ \A x \in BagToSet(C) : x \notin BagToSet(B) => E[x] = C[x]
  /\ \A x \in BagToSet(B) : x \in BagToSet(C) => E[x] = B[x] + C[x]

LEMMA BagSum ==
  ASSUME NEW S, NEW B, NEW C, IsBagOf(B, S), IsBagOf(C, S)
  PROVE  IsBagOf(B (+) C, S) /\ IsSum(B (+) C, B, C)
<1>1. BagToSet(B (+) C) = BagToSet(B) \cup BagToSet(C)
  BY DEF BagToSet, (+)
<1>2. IsFiniteSet(BagToSet(B) \cup BagToSet(C))  BY FS_Union DEF IsBagOf
<1>3. ASSUME NEW x \in BagToSet(B) \cup BagToSet(C)
      PROVE  (B (+) C)[x] = (IF x \in BagToSet(B) THEN B[x] ELSE 0) +
                            (IF x \in BagToSet(C) THEN C[x] ELSE 0)
  BY DEF BagToSet, (+)
<1>4. (\A x \in BagToSet(B) : B[x] \in Nat \ {0}) /\ \A x \in BagToSet(C) : C[x] \in Nat \ {0}
  BY DEF IsBagOf
<1>5. \A x \in BagToSet(B) \cup BagToSet(C) : (B (+) C)[x] \in Nat \ {0}
  BY <1>3, <1>4
<1>6. B (+) C = [x \in BagToSet(B) \cup BagToSet(C) |-> (B (+) C)[x]]
  BY DEF BagToSet, (+)
<1>7. B (+) C \in [BagToSet(B (+) C) -> Nat \ {0}]
  <2> DEFINE D == B (+) C
             T == BagToSet(B) \cup BagToSet(C)
  <2>1. D = [x \in T |-> D[x]] /\ \A x \in T : D[x] \in Nat \ {0}
    BY <1>5, <1>6
  <2> HIDE DEF D, T
  <2>2. D \in [T -> Nat \ {0}]  BY <2>1
  <2> QED  BY <1>1, <2>2 DEF D, T
<1>8. BagToSet(B (+) C) \subseteq S  BY <1>1 DEF IsBagOf
<1>9. \A x \in BagToSet(B) : x \notin BagToSet(C) => (B (+) C)[x] = B[x]
  BY <1>3, <1>4
<1>10. \A x \in BagToSet(C) : x \notin BagToSet(B) => (B (+) C)[x] = C[x]
  BY <1>3, <1>4
<1>11. \A x \in BagToSet(B) : x \in BagToSet(C) => (B (+) C)[x] = B[x] + C[x]
  BY <1>3
<1>12. IsBagOf(B (+) C, S)  BY <1>1, <1>2, <1>7, <1>8 DEF IsBagOf
<1> QED  BY <1>1, <1>9, <1>10, <1>11, <1>12 DEF IsSum

LEMMA OneOf ==
  ASSUME NEW S, NEW e \in S
  PROVE  IsBagOf(SetToBag({e}), S) /\ BagToSet(SetToBag({e})) = {e} /\ SetToBag({e})[e] = 1
  BY FS_Singleton DEF IsBagOf, SetToBag, BagToSet

LEMMA PutIn ==
  ASSUME NEW S, NEW B, IsBagOf(B, S), NEW e \in S
  PROVE  LET C == B (+) SetToBag({e}) IN
         /\ IsBagOf(C, S) /\ BagToSet(C) = BagToSet(B) \cup {e}
         /\ C[e] = IF e \in BagToSet(B) THEN B[e] + 1 ELSE 1
         /\ \A x \in BagToSet(B) : x # e => C[x] = B[x]
<1> DEFINE D == SetToBag({e})
<1>1. IsBagOf(D, S) /\ BagToSet(D) = {e} /\ D[e] = 1  BY OneOf
<1> HIDE DEF D
<1>2. IsBagOf(B (+) D, S) /\ IsSum(B (+) D, B, D)  BY <1>1, BagSum
<1> DEFINE C == B (+) D
<1>3. IsBagOf(C, S) /\ IsSum(C, B, D)  BY <1>2
<1> HIDE DEF C
<1>4. BagToSet(C) = BagToSet(B) \cup {e}  BY <1>1, <1>3 DEF IsSum
<1>5. C[e] = IF e \in BagToSet(B) THEN B[e] + 1 ELSE 1  BY <1>1, <1>3 DEF IsSum
<1>6. \A x \in BagToSet(B) : x # e => C[x] = B[x]  BY <1>1, <1>3 DEF IsSum
<1> QED  BY <1>3, <1>4, <1>5, <1>6 DEF C, D

IsTaken(C, B, e) ==
  /\ BagToSet(C) = IF B[e] = 1 THEN BagToSet(B) \ {e} ELSE BagToSet(B)
  /\ B[e] > 1 => C[e] = B[e] - 1
  /\ \A x \in BagToSet(B) : x # e => C[x] = B[x]
LEMMA TakeOut ==
  ASSUME NEW S, NEW B, IsBagOf(B, S), NEW e \in BagToSet(B)
  PROVE  IsBagOf(B (-) SetToBag({e}), S) /\ IsTaken(B (-) SetToBag({e}), B, e)
<1> DEFINE F == [x \in BagToSet(B) |-> IF x = e THEN B[x] - 1 ELSE B[x]]
           T == {x \in BagToSet(B) : F[x] > 0}
           C == B (-) SetToBag({e})
<1>1. C = [x \in T |-> F[x]]
  BY DEF BagToSet, SetToBag, (-)
<1>2. \A x \in BagToSet(B) : B[x] \in Nat \ {0}  BY DEF IsBagOf
<1>3. T = IF B[e] = 1 THEN BagToSet(B) \ {e} ELSE BagToSet(B)
  <2>1. \A x \in BagToSet(B) : x # e => x \in T  BY <1>2
  <2>2. e \in T <=> B[e] # 1  BY <1>2
  <2> QED  BY <2>1, <2>2
<1>4. \A x \in T : F[x] \in Nat \ {0}
  <2>1. \A x \in BagToSet(B) : F[x] \in Int  BY <1>2
  <2> QED  BY <2>1
<1>5. \A x \in T : F[x] = IF x = e THEN B[x] - 1 ELSE B[x]  OBVIOUS
<1>6. T \subseteq BagToSet(B)  OBVIOUS
<1> HIDE DEF F, T, C
<1>7. BagToSet(C) = T /\ C \in [T -> Nat \ {0}]
  BY <1>1, <1>4 DEF BagToSet
<1>8. IsFiniteSet(T)  BY <1>6, FS_Subset DEF IsBagOf
<1>9. IsBagOf(C, S)  BY <1>6, <1>7, <1>8 DEF IsBagOf
<1>10. B[e] > 1 => C[e] = B[e] - 1  BY <1>1, <1>3, <1>5
<1>11. \A x \in BagToSet(B) : x # e => C[x] = B[x]  BY <1>1, <1>3, <1>5
<1>12. IsTaken(C, B, e)  BY <1>3, <1>7, <1>10, <1>11 DEF IsTaken
<1> QED  BY <1>9, <1>12 DEF C

LEMMA NoneIn == \A S : IsBagOf(EmptyBag, S) /\ BagToSet(EmptyBag) = {}
  BY FS_EmptySet DEF IsBagOf, EmptyBag, SetToBag, BagToSet

(***************************************************************************)
(* Unread notifications.                                                   *)
(***************************************************************************)
IsRow(B, n, x) == n \in BagToSet(B) /\ ~n.read /\ \E i \in 1 .. B[n] : x = <<n, i>>

LEMMA InUnread == \A B, x : x \in UnreadRows(B) <=> \E n \in BagToSet(B) : IsRow(B, n, x)
  BY DEF UnreadRows, IsRow

LEMMA UnreadFinite ==
  ASSUME NEW B, IsBagOf(B, Notification)
  PROVE  IsFiniteSet(UnreadRows(B)) /\ Unread(B) \in Nat
<1> DEFINE us == {b \in BagToSet(B) : ~b.read}
           rowsOf == [n \in us |-> {n} \X (1 .. B[n])]
           ss == {{n} \X (1 .. B[n]) : n \in us}
<1>1. IsFiniteSet(us)  BY FS_Subset DEF IsBagOf
<1>2. IsFiniteSet(ss)
  <2>1. rowsOf \in Surjection(us, ss)  BY DEF Surjection
  <2> QED  BY <1>1, <2>1, FS_Surjection
<1>3. ASSUME NEW T \in ss  PROVE IsFiniteSet(T)
  <2>1. PICK n \in us : T = {n} \X (1 .. B[n])  OBVIOUS
  <2>2. B[n] \in Nat  BY DEF IsBagOf
  <2>3. IsFiniteSet(1 .. B[n])  BY <2>2, FS_Interval
  <2>4. IsFiniteSet({n})  BY FS_Singleton
  <2>5. IsFiniteSet({n} \X (1 .. B[n]))  BY <2>3, <2>4, FS_Product
  <2> QED  BY <2>1, <2>5
<1>4. UnreadRows(B) = UNION ss  BY DEF UnreadRows
<1> HIDE DEF ss
<1>5. IsFiniteSet(UNION ss)  BY <1>2, <1>3, FS_UNION
<1> QED  BY <1>4, <1>5, FS_CardinalityType DEF Unread

\* One row more of an unread notification; or one less.
LEMMA RowMore ==
  ASSUME NEW B, NEW C, IsBagOf(B, Notification), NEW n, ~n.read, NEW k \in Nat,
         n \in BagToSet(C), C[n] = k + 1,
         IF n \in BagToSet(B) THEN B[n] = k ELSE k = 0,
         \A x \in BagToSet(B) : ~x.read /\ x # n => x \in BagToSet(C) /\ C[x] = B[x],
         \A x \in BagToSet(C) : ~x.read /\ x # n => x \in BagToSet(B)
  PROVE  Unread(C) = Unread(B) + 1
<1> DEFINE r == <<n, k + 1>>
<1>1. r \notin UnreadRows(B)
  <2> SUFFICES ASSUME NEW x \in BagToSet(B), IsRow(B, x, r) PROVE FALSE
    BY InUnread
  <2>1. PICK i \in 1 .. B[x] : r = <<x, i>>  BY DEF IsRow
  <2>2. x = n /\ i = k + 1  BY <2>1
  <2> QED  BY <2>1, <2>2
<1>2. ASSUME NEW y  PROVE y \in UnreadRows(C) <=> y \in UnreadRows(B) \cup {r}
  <2>1. ASSUME y \in UnreadRows(C)  PROVE y \in UnreadRows(B) \cup {r}
    <3>1. PICK x \in BagToSet(C) : IsRow(C, x, y)  BY <2>1, InUnread
    <3>2. PICK i \in 1 .. C[x] : ~x.read /\ y = <<x, i>>  BY <3>1 DEF IsRow
    <3>3. CASE x # n
      <4>1. x \in BagToSet(B) /\ C[x] = B[x]  BY <3>2, <3>3
      <4>2. IsRow(B, x, y)  BY <3>2, <4>1 DEF IsRow
      <4> QED  BY <4>1, <4>2, InUnread
    <3>4. CASE x = n
      <4>1. i \in 1 .. k + 1  BY <3>2, <3>4
      <4>2. i = k + 1 \/ i \in 1 .. k  BY <4>1
      <4>3. ASSUME i \in 1 .. k  PROVE IsRow(B, x, y)
        <5>1. n \in BagToSet(B) /\ B[n] = k  BY <4>3
        <5> QED  BY <3>2, <3>4, <4>3, <5>1 DEF IsRow
      <4>4. i \in 1 .. k => y \in UnreadRows(B)
        <5> SUFFICES ASSUME i \in 1 .. k PROVE y \in UnreadRows(B)
          OBVIOUS
        <5>1. IsRow(B, x, y)  BY <4>3
        <5>2. x \in BagToSet(B)  BY <5>1 DEF IsRow
        <5> QED  BY <5>1, <5>2, InUnread
      <4> QED  BY <3>2, <3>4, <4>2, <4>4
    <3> QED  BY <3>3, <3>4
  <2>2. ASSUME y \in UnreadRows(B)  PROVE y \in UnreadRows(C)
    <3>1. PICK x \in BagToSet(B) : IsRow(B, x, y)  BY <2>2, InUnread
    <3>2. PICK i \in 1 .. B[x] : ~x.read /\ y = <<x, i>>  BY <3>1 DEF IsRow
    <3>3. x \in BagToSet(C) /\ i \in 1 .. C[x]
      <4>1. CASE x # n  BY <3>2, <4>1
      <4>2. CASE x = n  BY <3>2, <4>2
      <4> QED  BY <4>1, <4>2
    <3>4. IsRow(C, x, y)  BY <3>2, <3>3 DEF IsRow
    <3> QED  BY <3>3, <3>4, InUnread
  <2>3. r \in UnreadRows(C)
    <3>1. k + 1 \in 1 .. C[n]  OBVIOUS
    <3>2. IsRow(C, n, r)  BY <3>1 DEF IsRow
    <3> QED  BY <3>2, InUnread
  <2> QED  BY <2>1, <2>2, <2>3
<1> HIDE DEF r
<1>3. UnreadRows(C) = UnreadRows(B) \cup {r}  BY <1>2
<1>4. IsFiniteSet(UnreadRows(B))  BY UnreadFinite
<1>5. Cardinality(UnreadRows(B) \cup {r}) = Cardinality(UnreadRows(B)) + 1
  BY <1>1, <1>4, FS_AddElement
<1> QED  BY <1>3, <1>5 DEF Unread

LEMMA AddUnread ==
  ASSUME NEW B, IsBagOf(B, Notification), NEW n \in Notification, ~n.read
  PROVE  Unread(B (+) SetToBag({n})) = Unread(B) + 1
<1> DEFINE C == B (+) SetToBag({n})
           k == IF n \in BagToSet(B) THEN B[n] ELSE 0
<1>1. /\ BagToSet(C) = BagToSet(B) \cup {n}
      /\ C[n] = IF n \in BagToSet(B) THEN B[n] + 1 ELSE 1
      /\ \A x \in BagToSet(B) : x # n => C[x] = B[x]
  BY PutIn
<1>2. k \in Nat /\ C[n] = k + 1  BY <1>1 DEF IsBagOf
<1>3. \A x \in BagToSet(C) : x # n => x \in BagToSet(B)  BY <1>1
<1>4. \A x \in BagToSet(B) : x # n => x \in BagToSet(C) /\ C[x] = B[x]  BY <1>1
<1>5. IF n \in BagToSet(B) THEN B[n] = k ELSE k = 0  OBVIOUS
<1>6. n \in BagToSet(C)  BY <1>1
<1> HIDE DEF C, k
<1>7. Unread(C) = Unread(B) + 1  BY <1>2, <1>3, <1>4, <1>5, <1>6, RowMore
<1> QED  BY <1>7 DEF C


Turned(n) == [n EXCEPT !.read = ~@]
LEMMA TurnedRight ==
  ASSUME NEW n \in Notification
  PROVE  /\ Turned(n) \in Notification /\ Turned(n) # n /\ Turned(n).read = ~n.read
         /\ Turned(n).read \in BOOLEAN /\ n.read \in BOOLEAN
<1>1. /\ Turned(n) \in Notification /\ Turned(n).read = ~n.read
      /\ Turned(n).read \in BOOLEAN /\ n.read \in BOOLEAN
  BY DEF Turned, Notification
<1> QED  BY <1>1

LEMMA FlipRight ==
  ASSUME NEW B, IsBagOf(B, Notification), NEW n \in BagToSet(B)
  PROVE  /\ IsBagOf(Flip(B, n), Notification)
         /\ n.read => Unread(Flip(B, n)) = Unread(B) + 1
         /\ ~n.read => Unread(B) = Unread(Flip(B, n)) + 1
<1> DEFINE D == B (-) SetToBag({n})
           t == Turned(n)
           C == D (+) SetToBag({t})
<1>1. n \in Notification /\ B[n] \in Nat \ {0}  BY DEF IsBagOf
<1>2. t \in Notification /\ t # n /\ t.read = ~n.read /\ n.read \in BOOLEAN
  BY <1>1, TurnedRight
<1>3. Flip(B, n) = C  BY DEF Flip, Turned
<1>4. /\ IsBagOf(D, Notification)
      /\ BagToSet(D) = IF B[n] = 1 THEN BagToSet(B) \ {n} ELSE BagToSet(B)
      /\ B[n] > 1 => D[n] = B[n] - 1
      /\ \A x \in BagToSet(B) : x # n => D[x] = B[x]
  <2>1. IsBagOf(D, Notification) /\ IsTaken(D, B, n)  BY TakeOut
  <2> QED  BY <2>1 DEF IsTaken
<1>a. IsBagOf(D, Notification) /\ t \in Notification  BY <1>2, <1>4
<1> HIDE DEF t, D
<1>5. /\ IsBagOf(C, Notification) /\ BagToSet(C) = BagToSet(D) \cup {t}
      /\ C[t] = IF t \in BagToSet(D) THEN D[t] + 1 ELSE 1
      /\ \A x \in BagToSet(D) : x # t => C[x] = D[x]
  BY <1>a, PutIn
<1> HIDE DEF C
<1>6. ASSUME n.read  PROVE Unread(C) = Unread(B) + 1
  <2> DEFINE k == IF t \in BagToSet(B) THEN B[t] ELSE 0
  <2>1. k \in Nat  BY DEF IsBagOf
  <2>2. t \in BagToSet(D) <=> t \in BagToSet(B)  BY <1>2, <1>4
  <2>3. t \in BagToSet(C) /\ C[t] = k + 1  BY <1>2, <1>4, <1>5, <2>2
  <2>4. \A x \in BagToSet(B) : ~x.read /\ x # t => x \in BagToSet(C) /\ C[x] = B[x]
    <3> SUFFICES ASSUME NEW x \in BagToSet(B), ~x.read, x # t
                 PROVE  x \in BagToSet(C) /\ C[x] = B[x]
      OBVIOUS
    <3>1. x # n  BY <1>6
    <3>2. x \in BagToSet(D) /\ D[x] = B[x]  BY <1>4, <3>1
    <3> QED  BY <1>5, <3>2
  <2>5. \A x \in BagToSet(C) : ~x.read /\ x # t => x \in BagToSet(B)  BY <1>4, <1>5
  <2>6. IF t \in BagToSet(B) THEN B[t] = k ELSE k = 0  OBVIOUS
  <2>7. ~t.read  BY <1>2, <1>6
  <2> HIDE DEF k
  <2> QED  BY <2>1, <2>3, <2>4, <2>5, <2>6, <2>7, <1>5, RowMore
<1>7. ASSUME ~n.read  PROVE Unread(B) = Unread(C) + 1
  <2> DEFINE k == B[n] - 1
  <2>1. k \in Nat /\ B[n] = k + 1  BY <1>1
  <2>2. n \in BagToSet(C) <=> n \in BagToSet(D)  BY <1>2, <1>5
  <2>3. n \in BagToSet(D) <=> B[n] # 1  BY <1>4
  <2>4. IF n \in BagToSet(C) THEN C[n] = k ELSE k = 0
    <3>1. CASE B[n] = 1  BY <2>2, <2>3, <3>1
    <3>2. CASE B[n] # 1
      <4>1. B[n] > 1  BY <1>1, <3>2
      <4>2. D[n] = k  BY <1>4, <4>1
      <4> QED  BY <1>2, <1>5, <2>2, <2>3, <3>2, <4>2
    <3> QED  BY <3>1, <3>2
  <2>5. \A x \in BagToSet(C) : ~x.read /\ x # n => x \in BagToSet(B) /\ B[x] = C[x]
    <3> SUFFICES ASSUME NEW x \in BagToSet(C), ~x.read, x # n
                 PROVE  x \in BagToSet(B) /\ B[x] = C[x]
      OBVIOUS
    <3>1. x # t  BY <1>2, <1>7
    <3>2. x \in BagToSet(D) /\ C[x] = D[x]  BY <1>5, <3>1
    <3> QED  BY <1>4, <3>2
  <2>6. \A x \in BagToSet(B) : ~x.read /\ x # n => x \in BagToSet(C)
    <3> SUFFICES ASSUME NEW x \in BagToSet(B), x # n PROVE x \in BagToSet(C)
      OBVIOUS
    <3>1. x \in BagToSet(D)  BY <1>4
    <3> QED  BY <1>5, <3>1
  <2> HIDE DEF k
  <2> QED  BY <2>1, <2>4, <2>5, <2>6, <1>5, <1>7, RowMore
<1> QED  BY <1>3, <1>5, <1>6, <1>7

LEMMA MarkReadRight ==
  ASSUME NEW B, IsBagOf(B, Notification), NEW S
  PROVE  /\ IsBagOf(MarkRead(B, S), Notification)
         /\ S = BagToSet(B) => Unread(MarkRead(B, S)) = 0
<1> DEFINE hit == {n \in S : BagIn(n, B) /\ ~n.read}
           now == {[h EXCEPT !.read = TRUE] : h \in hit}
           old == BagToSet(B) \ hit
           X == [n \in old |-> B[n]]
           Y == [n \in now |-> B[[n EXCEPT !.read = FALSE]]]
<1>1. MarkRead(B, S) = X (+) Y  BY DEF MarkRead
<1>2. \A n \in hit : n \in BagToSet(B) /\ n \in Notification /\ n.read = FALSE
  <2>1. \A n \in hit : n \in BagToSet(B) /\ ~n.read  BY DEF BagIn
  <2>2. \A n \in BagToSet(B) : n \in Notification  BY DEF IsBagOf
  <2>3. \A n \in Notification : n.read \in BOOLEAN  BY DEF Notification
  <2> QED  BY <2>1, <2>2, <2>3
<1>3. \A h \in Notification : h.read = FALSE => [[h EXCEPT !.read = TRUE] EXCEPT !.read = FALSE] = h
  BY DEF Notification
<1>4. \A h \in Notification : [h EXCEPT !.read = TRUE] \in Notification /\ [h EXCEPT !.read = TRUE].read
  BY DEF Notification
<1>5. \A n \in BagToSet(B) : B[n] \in Nat \ {0}  BY DEF IsBagOf
<1>6. IsBagOf(X, Notification)
  <2>1. BagToSet(X) = old  BY DEF BagToSet
  <2>2. old \subseteq Notification /\ IsFiniteSet(old)  BY FS_Subset DEF IsBagOf
  <2>3. \A n \in old : B[n] \in Nat \ {0}  BY <1>5
  <2> HIDE DEF old
  <2>4. X \in [old -> Nat \ {0}]  BY <2>3
  <2> QED  BY <2>1, <2>2, <2>4 DEF IsBagOf
<1>7. \A n \in now : n \in Notification /\ n.read /\ B[[n EXCEPT !.read = FALSE]] \in Nat \ {0}
  <2> SUFFICES ASSUME NEW h \in hit
               PROVE  LET n == [h EXCEPT !.read = TRUE] IN
                      n \in Notification /\ n.read /\ B[[n EXCEPT !.read = FALSE]] \in Nat \ {0}
    OBVIOUS
  <2>1. h \in BagToSet(B) /\ h \in Notification /\ h.read = FALSE  BY <1>2
  <2>2. B[h] \in Nat \ {0}  BY <1>5, <2>1
  <2>3. [[h EXCEPT !.read = TRUE] EXCEPT !.read = FALSE] = h  BY <1>3, <2>1
  <2> QED  BY <1>4, <2>1, <2>2, <2>3
<1>8. IsFiniteSet(now)
  <2> DEFINE f == [h \in hit |-> [h EXCEPT !.read = TRUE]]
  <2>1. hit \subseteq BagToSet(B)  BY <1>2
  <2>2. IsFiniteSet(hit)  BY <2>1, FS_Subset DEF IsBagOf
  <2>3. f \in Surjection(hit, now)  BY DEF Surjection
  <2> HIDE DEF f, hit, now
  <2> QED  BY <2>2, <2>3, FS_Surjection
<1>9. IsBagOf(Y, Notification)
  <2>1. BagToSet(Y) = now  BY DEF BagToSet
  <2> HIDE DEF now
  <2>2. now \subseteq Notification /\ Y \in [now -> Nat \ {0}]  BY <1>7
  <2> QED  BY <1>8, <2>1, <2>2 DEF IsBagOf
<1>10. BagToSet(X) = old /\ BagToSet(Y) = now  BY DEF BagToSet
<1> HIDE DEF X, Y
<1>11. IsBagOf(X (+) Y, Notification) /\ IsSum(X (+) Y, X, Y)  BY <1>6, <1>9, BagSum
<1>12. ASSUME S = BagToSet(B)  PROVE Unread(X (+) Y) = 0
  <2> DEFINE Z == X (+) Y
  <2>1. IsSum(Z, X, Y)  BY <1>11
  <2> HIDE DEF Z
  <2>2. \A x \in BagToSet(Z) : x \in old \/ x \in now  BY <1>10, <2>1 DEF IsSum
  <2>3. \A x \in old : x.read  BY <1>12 DEF BagIn
  <2>4. \A x \in now : x.read  BY <1>7
  <2> HIDE DEF old, now
  <2>5. \A x \in BagToSet(Z) : x.read  BY <2>2, <2>3, <2>4
  <2>6. \A x : x \notin UnreadRows(Z)
    <3> SUFFICES ASSUME NEW x, x \in UnreadRows(Z) PROVE FALSE
      OBVIOUS
    <3>1. PICK n \in BagToSet(Z) : IsRow(Z, n, x)  BY InUnread
    <3> QED  BY <2>5, <3>1 DEF IsRow
  <2>7. UnreadRows(Z) = {}  BY <2>6
  <2>8. Unread(Z) = 0  BY <2>7, FS_EmptySet DEF Unread
  <2> QED  BY <2>8 DEF Z
<1> QED  BY <1>1, <1>11, <1>12

-----------------------------------------------------------------------------
(***************************************************************************)
(* Types.  That a message is between the two of its conversation is proved *)
(* with the rest of what is known of messages, below.                      *)
(***************************************************************************)
GoodConv(f, n) ==
  /\ DOMAIN f \subseteq 1 .. n /\ f \in [DOMAIN f -> Conversation]
  /\ \A c \in DOMAIN f : f[c].joined \subseteq f[c].who
ConvTypes ==
  /\ opened \in [Site -> Nat] /\ DOMAIN conv = Site
  /\ \A s \in Site : GoodConv(conv[s], opened[s])
RowTypes == row \in [Site -> [Message -> MessageRow \cup {None}]]
Filed == \A s \in Site, m \in Message : Known(s, m) => row[s][m].conv \in DOMAIN conv[s]
BellTypes ==
  /\ DOMAIN notes = Person /\ \A p \in Person : IsBagOf(notes[p], Notification)
  /\ unread \in [Person -> Nat]
NetTypes == IsBagOf(net, Activity)
Marks ==
  /\ sent \in 0 .. MaxMessages /\ requests \in 0 .. MaxRequests
  /\ crossed \subseteq Message /\ left \subseteq Pairs /\ muddled \subseteq Person
Typed == ConvTypes /\ RowTypes /\ Filed /\ BellTypes /\ NetTypes /\ JobTypes /\ Marks

Others0(s, m) ==
  \A t \in Site, n \in Message : t # s \/ n # m => row'[t][n] = row[t][n]
RowSet(s, m, r) == row'[s][m] = r /\ Others0(s, m)

LEMMA SetRow ==
  ASSUME RowTypes, NEW s \in Site, NEW m \in Message, NEW r \in MessageRow \cup {None},
         row' = [row EXCEPT ![s][m] = r]
  PROVE  RowTypes' /\ RowSet(s, m, r)
  BY DEF RowTypes, RowSet, Others0

LEMMA KnownRow ==
  ASSUME RowTypes, NEW s \in Site, NEW m \in Message
  PROVE  /\ Known(s, m) <=> row[s][m] # None
         /\ Known(s, m) => row[s][m] \in MessageRow
  BY DEF RowTypes, Known

LEMMA RowFields ==
  ASSUME NEW r \in MessageRow
  PROVE  /\ r # None /\ r.conv \in Nat \ {0} /\ r.from \in Person /\ r.to \subseteq Person
         /\ r.body \in Nat /\ r.deleted \in BOOLEAN
<1>1. /\ r.conv \in Nat \ {0} /\ r.from \in Person /\ r.to \subseteq Person
      /\ r.body \in Nat /\ r.deleted \in BOOLEAN
  BY DEF MessageRow
<1>2. None.conv = 0  BY DEF None
<1> QED  BY <1>1, <1>2

LEMMA ConvFields ==
  ASSUME ConvTypes, NEW s \in Site, NEW c \in DOMAIN conv[s]
  PROVE  /\ c \in Nat \ {0} /\ c <= opened[s] /\ opened[s] \in Nat
         /\ conv[s][c] \in Conversation /\ conv[s][c].who \in Pairs
         /\ conv[s][c].who \subseteq Person /\ conv[s][c].joined \subseteq conv[s][c].who
<1>1. GoodConv(conv[s], opened[s]) /\ opened[s] \in Nat  BY DEF ConvTypes
<1>2. c \in 1 .. opened[s] /\ conv[s][c] \in Conversation
      /\ conv[s][c].joined \subseteq conv[s][c].who
  BY <1>1 DEF GoodConv
<1>3. conv[s][c].who \in Pairs  BY <1>2 DEF Conversation
<1>4. \A P \in Pairs : P \subseteq Person  BY DEF Pairs
<1> QED  BY <1>1, <1>2, <1>3, <1>4

\* Where a request is tells what it is.
LEMMA AtOps ==
  ASSUME Places, NEW w \in Worker
  PROVE  /\ At(w, "open") => job[w].op \in {"send", "receive"}
         /\ At(w, "store") => job[w].op \in {"send", "receive"}
         /\ At(w, "address") => job[w].op = "send"
         /\ At(w, "post") => /\ job[w].op \in {"send", "edit", "delete", "restore"}
                             /\ ~IsLocal(job[w].p, job[w].q)
         /\ At(w, "end") => /\ job[w].op \in {"delete", "restore"}
                            /\ IsLocal(job[w].p, job[w].q)
         /\ At(w, "count") \/ At(w, "write") =>
              /\ job[w].op \in {"send", "edit", "receive", "view", "read", "unread", "all"}
              /\ job[w].op \in {"send", "edit"} => IsLocal(job[w].p, job[w].q)
         /\ At(w, "look") => job[w].op = "leave"
         /\ At(w, "remove") => job[w].op = "leave"
         /\ ~Idle(w) /\ job[w].op = "receive" => ~IsLocal(job[w].p, job[w].q)
<1> SUFFICES ASSUME ~Idle(w)
             PROVE  /\ job[w].at = "open" => job[w].op \in {"send", "receive"}
                    /\ job[w].at = "store" => job[w].op \in {"send", "receive"}
                    /\ job[w].at = "address" => job[w].op = "send"
                    /\ job[w].at = "post" =>
                         /\ job[w].op \in {"send", "edit", "delete", "restore"}
                         /\ ~IsLocal(job[w].p, job[w].q)
                    /\ job[w].at = "end" => /\ job[w].op \in {"delete", "restore"}
                                            /\ IsLocal(job[w].p, job[w].q)
                    /\ job[w].at = "count" \/ job[w].at = "write" =>
                         /\ job[w].op \in {"send", "edit", "receive", "view", "read",
                                           "unread", "all"}
                         /\ job[w].op \in {"send", "edit"} => IsLocal(job[w].p, job[w].q)
                    /\ job[w].at = "look" => job[w].op = "leave"
                    /\ job[w].at = "remove" => job[w].op = "leave"
                    /\ job[w].op = "receive" => ~IsLocal(job[w].p, job[w].q)
  BY DEF At
<1>1. Place(job[w])  BY DEF Places, Placed
<1> QED  BY <1>1 DEF Place, Onward

LEMMA MovesTyped ==
  ASSUME Typed, Places, NEW w \in Worker, ~Idle(w), job[w].op \in Moving
  PROVE  job[w].m \in Message /\ job[w].m <= sent /\ job[w].m \in 1 .. sent
<1>1. job[w].m \in 1 .. sent  BY DEF Places, Placed
<1>2. sent \in 0 .. MaxMessages /\ MaxMessages \in Nat  BY ChatAssumption DEF Typed, Marks
<1> QED  BY <1>1, <1>2 DEF Message

LEMMA MessageNat ==
  /\ Message \subseteq Nat /\ Message \subseteq 0 .. MaxMessages
  /\ 0 \in 0 .. MaxMessages /\ 0 \notin Message
  BY ChatAssumption DEF Message

LEMMA RoomLeft ==
  ASSUME Typed, Room
  PROVE  requests + 1 \in 0 .. MaxRequests
<1>1. requests \in Nat /\ sent \in Nat /\ MaxRequests \in Nat
  BY ChatAssumption DEF Typed, Marks
<1> QED  BY <1>1 DEF Room

LEMMA InitTypes == Init => Typed
<1> SUFFICES ASSUME Init PROVE Typed
  OBVIOUS
<1>1. MaxMessages \in Nat /\ MaxRequests \in Nat  BY ChatAssumption
<1>2. ConvTypes
  <2>1. opened \in [Site -> Nat] /\ DOMAIN conv = Site  BY DEF Init
  <2>2. ASSUME NEW s \in Site  PROVE GoodConv(conv[s], opened[s])
    BY DEF Init, GoodConv
  <2> QED  BY <2>1, <2>2 DEF ConvTypes
<1>3. RowTypes  BY DEF Init, RowTypes
<1>4. Filed  BY DEF Init, Filed, Known
<1>5. BellTypes
  <2>1. DOMAIN notes = Person /\ unread \in [Person -> Nat] /\ \A p \in Person : notes[p] = EmptyBag
    BY DEF Init
  <2>2. IsBagOf(EmptyBag, Notification)  BY NoneIn
  <2> QED  BY <2>1, <2>2 DEF BellTypes
<1>6. NetTypes
  <2>1. IsBagOf(EmptyBag, Activity)  BY NoneIn
  <2> QED  BY <2>1 DEF Init, NetTypes
<1>7. JobTypes  BY DEF Init, JobTypes
<1>8. Marks  BY <1>1 DEF Init, Marks
<1> QED  BY <1>2, <1>3, <1>4, <1>5, <1>6, <1>7, <1>8 DEF Typed

(***************************************************************************)
(* What each action does.                                                  *)
(***************************************************************************)
Starts(w, op, p, q, m, c, at) ==
  LET j == job'[w] IN
  /\ Idle(w) /\ Others(w) /\ j \in Running /\ j.op = op /\ j.p = p /\ j.q = q /\ j.m = m
  /\ j.c = c /\ j.at = at
Ends(w) == ~Idle(w) /\ Others(w) /\ job'[w] = NoJob
GoesOn(w, at) ==
  LET j == job'[w] IN
  /\ ~Idle(w) /\ Others(w) /\ j \in Running /\ SameJob(job[w], j) /\ j.at = at

LEMMA Rest ==
  ASSUME Typed
  PROVE  /\ UNCHANGED <<conv, opened>> => ConvTypes'
         /\ UNCHANGED row => RowTypes'
         /\ UNCHANGED <<conv, row>> => Filed'
         /\ UNCHANGED <<notes, unread>> => BellTypes'
         /\ UNCHANGED net => NetTypes'
         /\ UNCHANGED job => JobTypes'
         /\ UNCHANGED <<sent, requests, crossed, left, muddled>> => Marks'
         /\ ConvTypes' /\ RowTypes' /\ Filed' /\ BellTypes' /\ NetTypes' /\ JobTypes' /\ Marks'
              => Typed'
<1>1. UNCHANGED <<conv, opened>> => ConvTypes'  BY DEF Typed, ConvTypes
<1>2. UNCHANGED row => RowTypes'  BY DEF Typed, RowTypes
<1>3. UNCHANGED <<conv, row>> => Filed'  BY DEF Typed, Filed, Known
<1>4. UNCHANGED <<notes, unread>> => BellTypes'  BY DEF Typed, BellTypes
<1>5. UNCHANGED net => NetTypes'  BY DEF Typed, NetTypes
<1>6. UNCHANGED job => JobTypes'  BY DEF Typed, JobTypes
<1>7. UNCHANGED <<sent, requests, crossed, left, muddled>> => Marks'  BY DEF Typed, Marks
<1>8. ConvTypes' /\ RowTypes' /\ Filed' /\ BellTypes' /\ NetTypes' /\ JobTypes' /\ Marks' => Typed'
  BY DEF Typed
<1> QED  BY <1>1, <1>2, <1>3, <1>4, <1>5, <1>6, <1>7, <1>8

LEMMA Types ==
  ASSUME Typed
  PROVE  /\ ConvTypes /\ RowTypes /\ Filed /\ BellTypes /\ NetTypes /\ JobTypes /\ Marks
         /\ JobTypes /\ RowTypes
  BY DEF Typed

\* A row that is written belongs to a conversation that is there.
LEMMA FiledSet ==
  ASSUME Filed, NEW s \in Site, NEW m \in Message, NEW r, RowSet(s, m, r),
         r.conv \in DOMAIN conv[s], conv' = conv
  PROVE  Filed'
<1> SUFFICES ASSUME NEW t \in Site, NEW n \in Message, row'[t][n] # None
             PROVE  row'[t][n].conv \in DOMAIN conv[t]
  BY DEF Filed, Known
<1>1. CASE t = s /\ n = m  BY <1>1 DEF RowSet
<1>2. CASE t # s \/ n # m
  <2>1. row'[t][n] = row[t][n]  BY <1>2 DEF RowSet, Others0
  <2> QED  BY <2>1 DEF Filed, Known
<1> QED  BY <1>1, <1>2

RowOf(r, c, p, to, b, d) ==
  r.conv = c /\ r.from = p /\ r.to = to /\ r.body = b /\ r.deleted = d
LEMMA RowSetting ==
  ASSUME NEW r \in MessageRow
  PROVE  /\ \A x \in SUBSET Person : LET z == [r EXCEPT !.to = x] IN
              z \in MessageRow /\ RowOf(z, r.conv, r.from, x, r.body, r.deleted)
         /\ \A x \in Nat : LET z == [r EXCEPT !.body = x] IN
              z \in MessageRow /\ RowOf(z, r.conv, r.from, r.to, x, r.deleted)
         /\ \A x \in BOOLEAN : LET z == [r EXCEPT !.deleted = x] IN
              z \in MessageRow /\ RowOf(z, r.conv, r.from, r.to, r.body, x)
<1>1. \A x \in SUBSET Person : LET z == [r EXCEPT !.to = x] IN
        z \in MessageRow /\ RowOf(z, r.conv, r.from, x, r.body, r.deleted)
  BY DEF MessageRow, RowOf
<1>2. \A x \in Nat : LET z == [r EXCEPT !.body = x] IN
        z \in MessageRow /\ RowOf(z, r.conv, r.from, r.to, x, r.deleted)
  BY DEF MessageRow, RowOf
<1>3. \A x \in BOOLEAN : LET z == [r EXCEPT !.deleted = x] IN
        z \in MessageRow /\ RowOf(z, r.conv, r.from, r.to, r.body, x)
  BY DEF MessageRow, RowOf
<1> QED  BY <1>1, <1>2, <1>3

LEMMA NewRow ==
  ASSUME NEW c \in Nat \ {0}, NEW p \in Person, NEW to \in SUBSET Person, NEW b \in Nat,
         NEW d \in BOOLEAN
  PROVE  LET z == [conv |-> c, from |-> p, to |-> to, body |-> b, deleted |-> d] IN
         z \in MessageRow /\ RowOf(z, c, p, to, b, d)
  BY DEF MessageRow, RowOf

LEMMA SendDoes ==
  ASSUME Typed, NEW w \in Worker, NEW p \in Person, NEW q \in Person,
         NEW c \in Between(Lives[p], p, q) \cup {0}, Send(w, p, q, c)
  PROVE  /\ Typed' /\ p # q /\ sent' = sent + 1 /\ sent + 1 \in Message /\ sent \in Nat
         /\ Starts(w, "send", p, q, sent + 1, c, IF c = 0 THEN "open" ELSE "store")
         /\ UNCHANGED <<tables, net, requests, crossed, left, muddled>>
<1>1. /\ Idle(w) /\ p # q /\ sent < MaxMessages /\ sent' = sent + 1
      /\ job' = [job EXCEPT ![w] =
           Job("send", p, q, sent + 1, c, IF c = 0 THEN "open" ELSE "store")]
      /\ UNCHANGED <<tables, net, requests, crossed, left, muddled>>
  BY DEF Send
<1>2. sent \in Nat /\ MaxMessages \in Nat /\ requests \in 0 .. MaxRequests
  BY ChatAssumption DEF Typed, Marks
<1>3. sent + 1 \in Message /\ sent + 1 \in 0 .. MaxMessages
  BY <1>1, <1>2 DEF Message
<1>4. c \in Nat
  <2>1. \A d \in Between(Lives[p], p, q) : d \in Nat
    <3> SUFFICES ASSUME NEW d \in DOMAIN conv[Lives[p]] PROVE d \in Nat
      BY DEF Between
    <3>1. Lives[p] \in Site  BY LivesType
    <3>2. d \in Nat \ {0}  BY <3>1, Types, ConvFields
    <3> QED  BY <3>2
  <2> QED  BY <2>1
<1> DEFINE at == IF c = 0 THEN "open" ELSE "store"
           j == Job("send", p, q, sent + 1, c, at)
<1>5. at \in Ats /\ "send" \in Ops  BY DEF Ats, Ops, Moving
<1>6. /\ j \in Running /\ j.op = "send" /\ j.p = p /\ j.q = q /\ j.m = sent + 1
      /\ j.c = c /\ j.at = at
  <2> HIDE DEF at
  <2> QED  BY <1>3, <1>4, <1>5, NewJob
<1>7. job' = [job EXCEPT ![w] = j]  BY <1>1
<1> HIDE DEF j, at
<1>8. JobTypes' /\ job'[w] = j /\ Others(w)  BY <1>6, <1>7, Types, Taking
<1>9. Starts(w, "send", p, q, sent + 1, c, at)  BY <1>1, <1>6, <1>8 DEF Starts
<1>10. Marks'  BY <1>1, <1>3, <1>2 DEF Typed, Marks
<1>11. Typed'  BY <1>1, <1>8, <1>10, Rest DEF tables
<1> QED  BY <1>1, <1>2, <1>3, <1>9, <1>11 DEF at

\* A conversation is opened.
Opened(s, c, P) ==
  /\ opened' = [opened EXCEPT ![s] = c]
  /\ DOMAIN conv' = Site /\ \A t \in Site : t # s => conv'[t] = conv[t]
  /\ DOMAIN conv'[s] = DOMAIN conv[s] \cup {c}
  /\ conv'[s][c].who = P /\ conv'[s][c].joined = P
  /\ \A d \in DOMAIN conv[s] : d # c => conv'[s][d] = conv[s][d]
LEMMA OpenedTypes ==
  ASSUME ConvTypes, NEW s \in Site, NEW p \in Person, NEW q \in Person,
         opened' = [opened EXCEPT ![s] = opened[s] + 1],
         conv' = [conv EXCEPT ![s] =
           [d \in DOMAIN @ \cup {opened[s] + 1} |->
              IF d = opened[s] + 1 THEN [who |-> {p, q}, joined |-> {p, q}] ELSE @[d]]]
  PROVE  ConvTypes' /\ Opened(s, opened[s] + 1, {p, q})
<1> DEFINE c == opened[s] + 1
           r == [who |-> {p, q}, joined |-> {p, q}]
           f == [d \in DOMAIN conv[s] \cup {c} |-> IF d = c THEN r ELSE conv[s][d]]
<1>1. opened[s] \in Nat /\ GoodConv(conv[s], opened[s])  BY DEF ConvTypes
<1>2. conv' = [conv EXCEPT ![s] = f]  OBVIOUS
<1>3. r \in Conversation /\ r.joined \subseteq r.who /\ r.who = {p, q} /\ r.joined = {p, q}
  BY DEF Conversation, Pairs
<1>4. c \in 1 .. c /\ c \in Nat /\ \A d \in 1 .. opened[s] : d \in 1 .. c
  BY <1>1
<1> HIDE DEF c, r
<1>5. GoodConv(f, c)
  <2>1. DOMAIN f = DOMAIN conv[s] \cup {c}  OBVIOUS
  <2>2. DOMAIN f \subseteq 1 .. c  BY <1>1, <1>4, <2>1 DEF GoodConv
  <2>3. ASSUME NEW d \in DOMAIN f  PROVE f[d] \in Conversation /\ f[d].joined \subseteq f[d].who
    BY <1>1, <1>3 DEF GoodConv
  <2>4. f \in [DOMAIN f -> Conversation]  BY <2>1, <2>3
  <2> QED  BY <2>2, <2>3, <2>4 DEF GoodConv
<1>6. /\ DOMAIN f = DOMAIN conv[s] \cup {c} /\ f[c] = r
      /\ \A d \in DOMAIN conv[s] : d # c => f[d] = conv[s][d]
  OBVIOUS
<1>7. opened' = [opened EXCEPT ![s] = c]  BY DEF c
<1> HIDE DEF f
<1>8. /\ DOMAIN conv' = Site /\ conv'[s] = f
      /\ \A t \in Site : t # s => conv'[t] = conv[t]
  BY <1>2 DEF ConvTypes
<1>9. opened' \in [Site -> Nat] /\ opened'[s] = c /\ \A t \in Site : t # s => opened'[t] = opened[t]
  BY <1>4, <1>7 DEF ConvTypes
<1>10. \A t \in Site : GoodConv(conv'[t], opened'[t])
  <2> SUFFICES ASSUME NEW t \in Site PROVE GoodConv(conv'[t], opened'[t])
    OBVIOUS
  <2>1. CASE t = s  BY <1>5, <1>8, <1>9, <2>1
  <2>2. CASE t # s
    <3>1. GoodConv(conv[t], opened[t])  BY DEF ConvTypes
    <3> QED  BY <1>8, <1>9, <2>2, <3>1
  <2> QED  BY <2>1, <2>2
<1>11. ConvTypes'  BY <1>8, <1>9, <1>10 DEF ConvTypes
<1>12. Opened(s, c, {p, q})  BY <1>3, <1>6, <1>7, <1>8 DEF Opened
<1> QED  BY <1>11, <1>12 DEF c

LEMMA OpenDoes ==
  ASSUME Typed, Places, NEW w \in Worker, Open(w)
  PROVE  LET j == job[w]
             s == WorksAt(w)
         IN
         /\ Typed' /\ At(w, "open") /\ s \in Site /\ opened[s] \in Nat
         /\ GoesOn(w, "store") /\ job'[w].c = opened[s] + 1 /\ job'[w].num = j.num
         /\ job'[w].had = (j.op = "receive" /\ Known(s, j.m))
         /\ Opened(s, opened[s] + 1, {j.p, j.q})
         /\ UNCHANGED <<row, notes, unread, net, sent, requests, crossed, left, muddled>>
<1> DEFINE j == job[w]
           s == WorksAt(w)
           c == opened[s] + 1
           had == j.op = "receive" /\ Known(s, j.m)
<1>1. /\ At(w, "open") /\ opened' = [opened EXCEPT ![s] = c]
      /\ conv' = [conv EXCEPT ![s] =
           [d \in DOMAIN @ \cup {c} |->
              IF d = c THEN [who |-> {j.p, j.q}, joined |-> {j.p, j.q}] ELSE @[d]]]
      /\ job' = [job EXCEPT ![w] = [@ EXCEPT !.c = c, !.at = "store", !.had = had]]
      /\ UNCHANGED <<row, notes, unread, net, sent, requests, crossed, left, muddled>>
  BY DEF Open
<1>2. ~Idle(w)  BY <1>1, Somewhere
<1>3. s \in Site /\ j.p \in Person /\ j.q \in Person /\ JobTypes  BY <1>2, Types, Jobs
<1>4. opened[s] \in Nat /\ c \in Nat  BY <1>3 DEF Typed, ConvTypes
<1>5. had \in BOOLEAN  OBVIOUS
<1> HIDE DEF j, s, had
<1>6. ConvTypes' /\ Opened(s, c, {j.p, j.q})  BY <1>1, <1>3, Types, OpenedTypes
<1>7. job' = [job EXCEPT ![w] = [@ EXCEPT !.c = c, !.at = "store", !.had = had]]
  BY <1>1
<1> HIDE DEF c
<1>8. LET k == job'[w] IN
      /\ JobTypes' /\ k \in Running /\ ~Idle(w)' /\ Others(w)
      /\ SameJob(job[w], k) /\ k.at = "store" /\ k.c = c /\ k.had = had
      /\ k.num = job[w].num
  BY <1>2, <1>3, <1>4, <1>5, <1>7, Opening
<1>9. GoesOn(w, "store")  BY <1>2, <1>8 DEF GoesOn
<1>10. Filed'
  <2> SUFFICES ASSUME NEW t \in Site, NEW m \in Message, row[t][m] # None
               PROVE  row[t][m].conv \in DOMAIN conv'[t]
    BY <1>1 DEF Filed, Known
  <2>1. row[t][m].conv \in DOMAIN conv[t]  BY DEF Typed, Filed, Known
  <2> QED  BY <1>6, <2>1 DEF Opened
<1>11. Typed'  BY <1>1, <1>6, <1>8, <1>10, Rest
<1> QED  BY <1>1, <1>3, <1>4, <1>6, <1>8, <1>9, <1>11 DEF c, s, j, had

LEMMA StoreSentDoes ==
  ASSUME Typed, Places, NEW w \in Worker, StoreSent(w)
  PROVE  LET j == job[w]
             s == Lives[j.p]
         IN
         /\ Typed' /\ At(w, "store") /\ j.op = "send" /\ s \in Site /\ j.m \in Message
         /\ \/ /\ j.c \in DOMAIN conv[s] /\ GoesOn(w, "address")
               /\ \E r \in MessageRow :
                    RowSet(s, j.m, r) /\ RowOf(r, j.c, j.p, {}, 0, FALSE)
            \/ Ends(w) /\ row' = row
         /\ UNCHANGED <<conv, opened, notes, unread, net, sent, requests, crossed, left,
                        muddled>>
<1> DEFINE j == job[w]
           s == Lives[j.p]
           r == [conv |-> j.c, from |-> j.p, to |-> {}, body |-> 0, deleted |-> FALSE]
<1>1. /\ At(w, "store") /\ j.op = "send"
      /\ UNCHANGED <<conv, opened, notes, unread, net, sent, requests, crossed, left,
                     muddled>>
  BY DEF StoreSent
<1>2. ~Idle(w)  BY <1>1, Somewhere
<1>3. j \in Running /\ j.p \in Person /\ s \in Site /\ JobTypes  BY <1>2, Types, Jobs
<1>4. j.m \in Message
  <2>1. job[w].op \in Moving  BY <1>1 DEF Moving
  <2> QED  BY <1>2, <2>1, MovesTyped
<1>5. CASE j.c \in DOMAIN conv[s]
  <2>1. row' = [row EXCEPT ![s][j.m] = r] /\ GoTo(w, "address")  BY <1>5 DEF StoreSent
  <2>2. "address" \in Ats  BY DEF Ats
  <2>3. JobTypes' /\ GoesOn(w, "address")  BY <1>2, <1>3, <2>1, <2>2, Going DEF GoesOn
  <2>4. j.c \in Nat \ {0}  BY <1>3, <1>5, Types, ConvFields
  <2>5. r \in MessageRow /\ RowOf(r, j.c, j.p, {}, 0, FALSE)  BY <1>3, <2>4, NewRow
  <2> HIDE DEF r
  <2>6. RowTypes' /\ RowSet(s, j.m, r)  BY <1>3, <1>4, <2>1, <2>5, Types, SetRow
  <2>7. r.conv \in DOMAIN conv[s] /\ conv' = conv  BY <1>1, <1>5, <2>5 DEF RowOf
  <2>8. Filed'  BY <1>3, <1>4, <2>6, <2>7, Types, FiledSet
  <2>9. Typed'  BY <1>1, <2>3, <2>6, <2>8, Rest
  <2> QED  BY <1>1, <1>3, <1>4, <1>5, <2>3, <2>5, <2>6, <2>9
<1>6. CASE j.c \notin DOMAIN conv[s]
  <2>1. End(w) /\ row' = row  BY <1>6 DEF StoreSent
  <2>2. JobTypes' /\ Ends(w)  BY <1>2, <1>3, <2>1, Ending DEF Ends
  <2>3. Typed'  BY <1>1, <2>1, <2>2, Rest
  <2> QED  BY <1>1, <1>3, <1>4, <2>1, <2>2, <2>3
<1> QED  BY <1>5, <1>6

LEMMA AddressDoes ==
  ASSUME Typed, Places, NEW w \in Worker, Address(w)
  PROVE  LET j == job[w]
             s == Lives[j.p]
             r == row[s][j.m]
         IN
         /\ Typed' /\ At(w, "address") /\ j.op = "send" /\ s \in Site /\ j.m \in Message
         /\ \/ /\ r \in MessageRow /\ GoesOn(w, Onward(j.p, j.q))
               /\ \E z \in MessageRow :
                    RowSet(s, j.m, z) /\ RowOf(z, r.conv, r.from, {j.q}, r.body, r.deleted)
            \/ Ends(w) /\ row' = row /\ r = None
         /\ UNCHANGED <<conv, opened, notes, unread, net, sent, requests, crossed, left,
                        muddled>>
<1> DEFINE j == job[w]
           s == Lives[j.p]
           r == row[s][j.m]
           z == [r EXCEPT !.to = {j.q}]
<1>1. /\ At(w, "address")
      /\ UNCHANGED <<conv, opened, notes, unread, net, sent, requests, crossed, left,
                     muddled>>
  BY DEF Address
<1>2. ~Idle(w) /\ j.op = "send"  BY <1>1, Somewhere, AtOps
<1>3. j \in Running /\ j.p \in Person /\ j.q \in Person /\ s \in Site /\ JobTypes
  BY <1>2, Types, Jobs
<1>4. j.m \in Message
  <2>1. job[w].op \in Moving  BY <1>2 DEF Moving
  <2> QED  BY <1>2, <2>1, MovesTyped
<1>5. CASE Known(s, j.m)
  <2>1. row' = [row EXCEPT ![s][j.m] = z] /\ GoTo(w, Onward(j.p, j.q))
    <3>1. row' = [row EXCEPT ![s][j.m] = [@ EXCEPT !.to = {j.q}]] /\ GoTo(w, Onward(j.p, j.q))
      BY <1>5 DEF Address
    <3> QED  BY <3>1, <1>3, <1>4 DEF Typed, RowTypes
  <2>2. Onward(j.p, j.q) \in Ats  BY DEF Ats, Onward
  <2>3. JobTypes' /\ GoesOn(w, Onward(j.p, j.q))  BY <1>2, <1>3, <2>1, <2>2, Going DEF GoesOn
  <2>4. r \in MessageRow  BY <1>3, <1>4, <1>5, Types, KnownRow
  <2>5. z \in MessageRow /\ RowOf(z, r.conv, r.from, {j.q}, r.body, r.deleted)
    BY <1>3, <2>4, RowSetting
  <2> HIDE DEF z
  <2>6. RowTypes' /\ RowSet(s, j.m, z)  BY <1>3, <1>4, <2>1, <2>5, Types, SetRow
  <2>7. z.conv \in DOMAIN conv[s] /\ conv' = conv
    BY <1>1, <1>3, <1>4, <1>5, <2>5 DEF RowOf, Typed, Filed
  <2>8. Filed'  BY <1>3, <1>4, <2>6, <2>7, Types, FiledSet
  <2>9. Typed'  BY <1>1, <2>3, <2>6, <2>8, Rest
  <2> QED  BY <1>1, <1>2, <1>3, <1>4, <2>3, <2>4, <2>5, <2>6, <2>9
<1>6. CASE ~Known(s, j.m)
  <2>1. End(w) /\ row' = row  BY <1>6 DEF Address
  <2>2. JobTypes' /\ Ends(w)  BY <1>2, <1>3, <2>1, Ending DEF Ends
  <2>3. Typed'  BY <1>1, <2>1, <2>2, Rest
  <2>4. r = None  BY <1>6 DEF Known
  <2> QED  BY <1>1, <1>2, <1>3, <1>4, <2>1, <2>2, <2>3, <2>4
<1> QED  BY <1>5, <1>6

Turn(op, p, q) == IF op = "edit" \/ ~IsLocal(p, q) THEN Onward(p, q) ELSE "end"
LEMMA ChangeDoes ==
  ASSUME Typed, NEW w \in Worker, NEW op \in {"edit", "delete", "restore"},
         NEW p \in Person, NEW m \in Message, Change(w, op, p, m)
  PROVE  LET s == Lives[p]
             r == row[s][m]
         IN
         /\ JobTypes' /\ Marks' /\ s \in Site /\ r \in MessageRow /\ r.from = p
         /\ \E q \in Person :
              q \in r.to /\ Starts(w, op, p, q, m, r.conv, Turn(op, p, q))
         /\ crossed' = IF Under(m) THEN crossed \cup {m} ELSE crossed
         /\ UNCHANGED <<conv, opened, notes, unread, net, sent, left, muddled>>
<1> DEFINE s == Lives[p]
           r == row[s][m]
<1>1. /\ Idle(w) /\ Room /\ Known(s, m) /\ r.from = p /\ requests' = requests + 1
      /\ crossed' = IF Under(m) THEN crossed \cup {m} ELSE crossed
      /\ UNCHANGED <<conv, opened, notes, unread, net, sent, left, muddled>>
  BY DEF Change
<1>2. PICK q \in r.to : job' = [job EXCEPT ![w] = Job(op, p, q, m, r.conv, Turn(op, p, q))]
  BY DEF Change, Turn
<1>3. s \in Site /\ r \in MessageRow  BY <1>1, LivesType, Types, KnownRow
<1>4. q \in Person /\ r.conv \in Nat  BY <1>3, RowFields
<1>5. op \in Ops /\ m \in 0 .. MaxMessages /\ Turn(op, p, q) \in Ats
  BY MessageNat DEF Ops, Moving, Ats, Turn, Onward
<1> DEFINE j == Job(op, p, q, m, r.conv, Turn(op, p, q))
<1>6. /\ j \in Running /\ j.op = op /\ j.p = p /\ j.q = q /\ j.m = m
      /\ j.c = r.conv /\ j.at = Turn(op, p, q)
  BY <1>4, <1>5, NewJob
<1>7. job' = [job EXCEPT ![w] = j]  BY <1>2
<1> HIDE DEF j
<1>8. JobTypes' /\ job'[w] = j /\ Others(w)  BY <1>6, <1>7, Types, Taking
<1>9. Starts(w, op, p, q, m, r.conv, Turn(op, p, q))  BY <1>1, <1>6, <1>8 DEF Starts
<1>10. Marks'
  <2>1. requests' \in 0 .. MaxRequests  BY <1>1, RoomLeft
  <2> QED  BY <1>1, <2>1 DEF Typed, Marks
<1> QED  BY <1>1, <1>2, <1>3, <1>4, <1>8, <1>9, <1>10

LEMMA EditDoes ==
  ASSUME Typed, NEW w \in Worker, NEW p \in Person, NEW m \in Message, Edit(w, p, m)
  PROVE  LET s == Lives[p]
             r == row[s][m]
         IN
         /\ Typed' /\ s \in Site /\ r \in MessageRow /\ r.from = p
         /\ \E q \in Person :
              q \in r.to /\ Starts(w, "edit", p, q, m, r.conv, Onward(p, q))
         /\ \E z \in MessageRow :
              RowSet(s, m, z) /\ RowOf(z, r.conv, r.from, r.to, r.body + 1, r.deleted)
         /\ crossed' = IF Under(m) THEN crossed \cup {m} ELSE crossed
         /\ UNCHANGED <<conv, opened, notes, unread, net, sent, left, muddled>>
<1> DEFINE s == Lives[p]
           r == row[s][m]
           z == [r EXCEPT !.body = r.body + 1]
<1>1. Change(w, "edit", p, m) /\ row' = [row EXCEPT ![s][m] = [r EXCEPT !.body = @ + 1]]
  BY DEF Edit
<1>2. /\ JobTypes' /\ Marks' /\ s \in Site /\ r \in MessageRow /\ r.from = p
      /\ \E q \in Person :
           q \in r.to /\ Starts(w, "edit", p, q, m, r.conv, Turn("edit", p, q))
      /\ crossed' = IF Under(m) THEN crossed \cup {m} ELSE crossed
      /\ UNCHANGED <<conv, opened, notes, unread, net, sent, left, muddled>>
  BY <1>1, ChangeDoes
<1>3. \A q : Turn("edit", p, q) = Onward(p, q)  BY DEF Turn
<1>4. row' = [row EXCEPT ![s][m] = z]
  <2>1. z = [r EXCEPT !.body = @ + 1]  OBVIOUS
  <2> QED  BY <1>1, <2>1
<1>5. r.body \in Nat /\ r.body + 1 \in Nat  BY <1>2, RowFields
<1>6. z \in MessageRow /\ RowOf(z, r.conv, r.from, r.to, r.body + 1, r.deleted)
  BY <1>2, <1>5, RowSetting
<1> HIDE DEF z
<1>7. RowTypes' /\ RowSet(s, m, z)  BY <1>2, <1>4, <1>6, Types, SetRow
<1>8. z.conv \in DOMAIN conv[s] /\ conv' = conv
  <2>1. r # None  BY <1>2, RowFields
  <2> QED  BY <1>2, <1>6, <2>1 DEF RowOf, Typed, Filed, Known
<1>9. Filed'  BY <1>2, <1>7, <1>8, Types, FiledSet
<1>10. Typed'  BY <1>2, <1>7, <1>9, Rest
<1> QED  BY <1>2, <1>3, <1>6, <1>7, <1>10

LEMMA DeleteDoes ==
  ASSUME Typed, NEW w \in Worker, NEW p \in Person, NEW m \in Message, NEW gone \in BOOLEAN,
         Delete(w, p, m, gone)
  PROVE  LET s == Lives[p]
             r == row[s][m]
             op == IF gone THEN "delete" ELSE "restore"
         IN
         /\ Typed' /\ s \in Site /\ r \in MessageRow /\ r.from = p
         /\ \E q \in Person :
              q \in r.to /\ Starts(w, op, p, q, m, r.conv, Turn(op, p, q))
         /\ \E z \in MessageRow :
              RowSet(s, m, z) /\ RowOf(z, r.conv, r.from, r.to, r.body, gone)
         /\ crossed' = IF Under(m) THEN crossed \cup {m} ELSE crossed
         /\ UNCHANGED <<conv, opened, notes, unread, net, sent, left, muddled>>
<1> DEFINE s == Lives[p]
           r == row[s][m]
           op == IF gone THEN "delete" ELSE "restore"
           z == [r EXCEPT !.deleted = gone]
<1>1. Change(w, op, p, m) /\ row' = [row EXCEPT ![s][m] = [@ EXCEPT !.deleted = gone]]
  BY DEF Delete
<1>a. op \in {"edit", "delete", "restore"}  OBVIOUS
<1> HIDE DEF op
<1>2. /\ JobTypes' /\ Marks' /\ s \in Site /\ r \in MessageRow /\ r.from = p
      /\ \E q \in Person :
           q \in r.to /\ Starts(w, op, p, q, m, r.conv, Turn(op, p, q))
      /\ crossed' = IF Under(m) THEN crossed \cup {m} ELSE crossed
      /\ UNCHANGED <<conv, opened, notes, unread, net, sent, left, muddled>>
  BY <1>1, <1>a, ChangeDoes
<1>4. row' = [row EXCEPT ![s][m] = z]  BY <1>1, <1>2 DEF Typed, RowTypes
<1>6. z \in MessageRow /\ RowOf(z, r.conv, r.from, r.to, r.body, gone)
  BY <1>2, RowSetting
<1> HIDE DEF z
<1>7. RowTypes' /\ RowSet(s, m, z)  BY <1>2, <1>4, <1>6, Types, SetRow
<1>8. z.conv \in DOMAIN conv[s] /\ conv' = conv
  <2>1. r # None  BY <1>2, RowFields
  <2> QED  BY <1>2, <1>6, <2>1 DEF RowOf, Typed, Filed, Known
<1>9. Filed'  BY <1>2, <1>7, <1>8, Types, FiledSet
<1>10. Typed'  BY <1>2, <1>7, <1>9, Rest
<1> QED  BY <1>2, <1>6, <1>7, <1>10 DEF op

\* An activity goes out, or comes in.
NetPut(a) ==
  /\ BagToSet(net') = BagToSet(net) \cup {a}
  /\ a \notin BagToSet(net) => net'[a] = 1
  /\ \A b \in BagToSet(net) : b # a => net'[b] = net[b]
NetTake(a) ==
  /\ BagToSet(net') = IF net[a] = 1 THEN BagToSet(net) \ {a} ELSE BagToSet(net)
  /\ \A b \in BagToSet(net) : b # a => net'[b] = net[b]
LEMMA Putting ==
  ASSUME NetTypes, NEW a \in Activity, Put(a)
  PROVE  NetTypes' /\ NetPut(a)
<1>1. LET C == net (+) SetToBag({a}) IN
      /\ IsBagOf(C, Activity) /\ BagToSet(C) = BagToSet(net) \cup {a}
      /\ C[a] = IF a \in BagToSet(net) THEN net[a] + 1 ELSE 1
      /\ \A x \in BagToSet(net) : x # a => C[x] = net[x]
  BY PutIn DEF NetTypes
<1>2. net' = net (+) SetToBag({a})  BY DEF Put
<1> QED  BY <1>1, <1>2 DEF NetTypes, NetPut
LEMMA TakingMail ==
  ASSUME NetTypes, NEW a \in BagToSet(net), net' = net (-) SetToBag({a})
  PROVE  NetTypes' /\ NetTake(a)
<1>a. IsBagOf(net, Activity)  BY DEF NetTypes
<1> DEFINE C == net (-) SetToBag({a})
<1>1. IsBagOf(C, Activity) /\ IsTaken(C, net, a)
  BY <1>a, TakeOut
<1> HIDE DEF C
<1>2. net' = C  BY DEF C
<1> QED  BY <1>1, <1>2 DEF NetTypes, NetTake, IsTaken
LEMMA MailTypes ==
  ASSUME NetTypes, NEW a \in BagToSet(net)
  PROVE  /\ a \in Activity /\ net[a] \in Nat \ {0} /\ a.p \in Person /\ a.q \in Person
         /\ a.m \in Message /\ a.body \in Nat /\ Lives[a.p] \in Site /\ Lives[a.q] \in Site
         /\ a.kind \in {"Create", "Delete", "Undo"}
<1>1. a \in Activity /\ net[a] \in Nat \ {0}  BY DEF NetTypes, IsBagOf
<1> QED  BY <1>1, LivesType DEF Activity

MailOf(a, k, p, q, m, b) == a.kind = k /\ a.p = p /\ a.q = q /\ a.m = m /\ a.body = b
LEMMA PostDoes ==
  ASSUME Typed, Places, NEW w \in Worker, Post(w)
  PROVE  LET j == job[w]
             s == Lives[j.p]
             r == row[s][j.m]
         IN
         /\ Typed' /\ At(w, "post") /\ s \in Site /\ j.m \in Message /\ Ends(w)
         /\ j.op \in {"send", "edit", "delete", "restore"}
         /\ \/ /\ r \in MessageRow
               /\ \E a : NetPut(a) /\ MailOf(a, Kind(j.op), j.p, j.q, j.m, r.body)
            \/ r = None /\ net' = net
         /\ UNCHANGED <<tables, sent, requests, crossed, left, muddled>>
<1> DEFINE j == job[w]
           s == Lives[j.p]
           r == row[s][j.m]
           a == [kind |-> Kind(j.op), p |-> j.p, q |-> j.q, m |-> j.m, body |-> r.body]
<1>1. At(w, "post") /\ End(w) /\ UNCHANGED <<tables, sent, requests, crossed, left, muddled>>
  BY DEF Post
<1>2. ~Idle(w) /\ j.op \in {"send", "edit", "delete", "restore"}
  BY <1>1, Somewhere, AtOps
<1>3. j \in Running /\ j.p \in Person /\ j.q \in Person /\ s \in Site /\ JobTypes
  BY <1>2, Types, Jobs
<1>4. j.m \in Message
  <2>1. job[w].op \in Moving  BY <1>2 DEF Moving
  <2> QED  BY <1>2, <2>1, MovesTyped
<1>5. JobTypes' /\ Ends(w)  BY <1>1, <1>2, <1>3, Ending DEF Ends
<1>6. CASE Known(s, j.m)
  <2>1. Put(a)  BY <1>6 DEF Post
  <2>2. r \in MessageRow  BY <1>3, <1>4, <1>6, Types, KnownRow
  <2>3. r.body \in Nat  BY <2>2, RowFields
  <2>4. Kind(j.op) \in {"Create", "Delete", "Undo"}  BY <1>2 DEF Kind
  <2>5. a \in Activity /\ MailOf(a, Kind(j.op), j.p, j.q, j.m, r.body)
    BY <1>3, <1>4, <2>3, <2>4 DEF Activity, MailOf
  <2> HIDE DEF a
  <2>6. NetTypes' /\ NetPut(a)  BY <2>1, <2>5, Types, Putting
  <2>7. Typed'  BY <1>1, <1>5, <2>6, Rest DEF tables
  <2> QED  BY <1>1, <1>2, <1>3, <1>4, <1>5, <2>2, <2>5, <2>6, <2>7
<1>7. CASE ~Known(s, j.m)
  <2>1. net' = net  BY <1>7 DEF Post
  <2>2. Typed'  BY <1>1, <1>5, <2>1, Rest DEF tables
  <2>3. r = None  BY <1>7 DEF Known
  <2> QED  BY <1>1, <1>2, <1>3, <1>4, <1>5, <2>1, <2>2, <2>3
<1> QED  BY <1>6, <1>7

LEMMA FinishDoes ==
  ASSUME Typed, Places, NEW w \in Worker, Finish(w)
  PROVE  /\ Typed' /\ At(w, "end") /\ Ends(w) /\ job[w].op \in {"delete", "restore"}
         /\ IsLocal(job[w].p, job[w].q)
         /\ UNCHANGED <<tables, net, sent, requests, crossed, left, muddled>>
<1>1. /\ At(w, "end") /\ End(w)
      /\ UNCHANGED <<tables, net, sent, requests, crossed, left, muddled>>
  BY DEF Finish
<1>2. ~Idle(w) /\ job[w].op \in {"delete", "restore"} /\ IsLocal(job[w].p, job[w].q)
  BY <1>1, Somewhere, AtOps
<1>3. JobTypes' /\ Ends(w)  BY <1>1, <1>2, Types, Ending DEF Ends
<1>4. Typed'  BY <1>1, <1>3, Rest DEF tables
<1> QED  BY <1>1, <1>2, <1>3, <1>4

LEMMA ReceiveDoes ==
  ASSUME Typed, NEW w \in Worker, NEW a \in BagToSet(net), Receive(w, a)
  PROVE  LET s == Lives[a.q] IN
         /\ Typed' /\ a.kind = "Create" /\ NetTake(a)
         /\ \E c \in Between(s, a.p, a.q) \cup {0} :
              Starts(w, "receive", a.p, a.q, a.m, c, IF c = 0 THEN "open" ELSE "store")
         /\ job'[w].had = Known(s, a.m) /\ job'[w].num = a.body
         /\ UNCHANGED <<tables, sent, requests, crossed, left, muddled>>
<1> DEFINE s == Lives[a.q]
           cs == Between(s, a.p, a.q)
<1>1. /\ Idle(w) /\ a.kind = "Create" /\ net' = net (-) SetToBag({a})
      /\ UNCHANGED <<tables, sent, requests, crossed, left, muddled>>
  BY DEF Receive
<1>2. PICK c \in cs \cup {0} :
        job' = [job EXCEPT ![w] =
          [Job("receive", a.p, a.q, a.m, c, IF c = 0 THEN "open" ELSE "store")
             EXCEPT !.had = Known(s, a.m), !.num = a.body]]
  <2>1. PICK c \in IF cs = {} THEN {0} ELSE cs :
        job' = [job EXCEPT ![w] =
          [Job("receive", a.p, a.q, a.m, c, IF c = 0 THEN "open" ELSE "store")
             EXCEPT !.had = Known(s, a.m), !.num = a.body]]
    BY DEF Receive
  <2>2. c \in cs \cup {0}  OBVIOUS
  <2> QED  BY <2>1, <2>2
<1>3. /\ a \in Activity /\ a.p \in Person /\ a.q \in Person /\ a.m \in Message /\ a.body \in Nat
      /\ s \in Site
  BY Types, MailTypes
<1>4. c \in Nat
  <2>1. ASSUME NEW d \in cs  PROVE d \in Nat
    <3>1. d \in DOMAIN conv[s]  BY DEF Between
    <3>2. d \in Nat \ {0}  BY <1>3, <3>1, Types, ConvFields
    <3> QED  BY <3>2
  <2> QED  BY <2>1
<1> DEFINE at == IF c = 0 THEN "open" ELSE "store"
           j == Job("receive", a.p, a.q, a.m, c, at)
           had == Known(s, a.m)
           k == [j EXCEPT !.had = had, !.num = a.body]
<1>5. at \in Ats /\ "receive" \in Ops /\ a.m \in 0 .. MaxMessages
  BY <1>3, MessageNat DEF Ats, Ops, Moving
<1>6. /\ j \in Running /\ j.op = "receive" /\ j.p = a.p /\ j.q = a.q /\ j.m = a.m
      /\ j.c = c /\ j.at = at
  <2> HIDE DEF at
  <2> QED  BY <1>3, <1>4, <1>5, NewJob
<1>7. had \in BOOLEAN  BY DEF Known
<1>8. job' = [job EXCEPT ![w] = k]  BY <1>2
<1> HIDE DEF j, at, had
<1>9. k \in Running
  <2>1. k = [[j EXCEPT !.had = had] EXCEPT !.num = a.body]  OBVIOUS
  <2>2. [j EXCEPT !.had = had] \in Running  BY <1>6, <1>7, Setting
  <2> QED  BY <1>3, <2>1, <2>2, Setting
<1>10. /\ k.op = "receive" /\ k.p = a.p /\ k.q = a.q /\ k.m = a.m /\ k.c = c /\ k.at = at
       /\ k.had = had /\ k.num = a.body
  BY <1>6 DEF Running
<1> HIDE DEF k
<1>11. JobTypes' /\ job'[w] = k /\ Others(w)  BY <1>8, <1>9, Types, Taking
<1>12. Starts(w, "receive", a.p, a.q, a.m, c, at)  BY <1>1, <1>9, <1>10, <1>11 DEF Starts
<1>13. NetTypes' /\ NetTake(a)  BY <1>1, Types, TakingMail
<1>14. Typed'  BY <1>1, <1>11, <1>13, Rest DEF tables
<1> QED  BY <1>1, <1>10, <1>11, <1>12, <1>13, <1>14 DEF at, had

LEMMA StoreReceivedDoes ==
  ASSUME Typed, Places, NEW w \in Worker, StoreReceived(w)
  PROVE  LET j == job[w]
             s == WorksAt(w)
             r == row[s][j.m]
         IN
         /\ Typed' /\ At(w, "store") /\ j.op = "receive" /\ s = Lives[j.q]
         /\ s \in Site /\ j.m \in Message
         /\ \/ /\ ~Fails(w) /\ GoesOn(w, "count")
               /\ \E z \in MessageRow :
                    /\ RowSet(s, j.m, z)
                    /\ IF j.had
                       THEN /\ r \in MessageRow
                            /\ RowOf(z, r.conv, r.from, r.to, j.num, r.deleted)
                       ELSE /\ j.c \in DOMAIN conv[s] /\ r = None
                            /\ RowOf(z, j.c, j.p, {j.q}, j.num, FALSE)
            \/ Fails(w) /\ Ends(w) /\ row' = row
         /\ UNCHANGED <<conv, opened, notes, unread, net, sent, requests, crossed, left,
                        muddled>>
<1> DEFINE j == job[w]
           s == WorksAt(w)
           r == row[s][j.m]
<1>1. /\ At(w, "store") /\ j.op = "receive"
      /\ UNCHANGED <<conv, opened, notes, unread, net, sent, requests, crossed, left,
                     muddled>>
  BY DEF StoreReceived
<1>2. ~Idle(w)  BY <1>1, Somewhere
<1>3. /\ j \in Running /\ j.p \in Person /\ j.q \in Person /\ s \in Site /\ JobTypes
      /\ s = Lives[j.q] /\ j.num \in Nat /\ j.had \in BOOLEAN
  BY <1>1, <1>2, Types, Jobs, Fields DEF WorksAt
<1>4. j.m \in Message
  <2>1. job[w].op \in Moving  BY <1>1 DEF Moving
  <2> QED  BY <1>2, <2>1, MovesTyped
<1>5. CASE ~Fails(w)
  <2>1. /\ row' = [row EXCEPT ![s][j.m] =
             IF j.had THEN [@ EXCEPT !.body = j.num]
             ELSE [conv |-> j.c, from |-> j.p, to |-> {j.q}, body |-> j.num,
                   deleted |-> FALSE]]
        /\ job' = [job EXCEPT ![w] = [@ EXCEPT !.num = 0, !.at = "count"]]
    BY <1>5 DEF StoreReceived
  <2>2. JobTypes' /\ GoesOn(w, "count")  BY <1>2, <1>3, <2>1, Storing DEF GoesOn
  <2>3. j.had = Known(s, j.m) /\ (j.had \/ j.c \in DOMAIN conv[s])  BY <1>5 DEF Fails
  <2>4. conv' = conv  BY <1>1
  <2>5. CASE j.had
    <3> DEFINE z == [r EXCEPT !.body = j.num]
    <3>1. row' = [row EXCEPT ![s][j.m] = z]  BY <1>3, <1>4, <2>1, <2>5 DEF Typed, RowTypes
    <3>2. r \in MessageRow /\ r.conv \in DOMAIN conv[s]
      BY <1>3, <1>4, <2>3, <2>5, KnownRow DEF Typed, Filed
    <3>3. z \in MessageRow /\ RowOf(z, r.conv, r.from, r.to, j.num, r.deleted)
      BY <1>3, <3>2, RowSetting
    <3> HIDE DEF z
    <3>4. RowTypes' /\ RowSet(s, j.m, z)  BY <1>3, <1>4, <3>1, <3>3, Types, SetRow
    <3>5. z.conv \in DOMAIN conv[s]  BY <3>2, <3>3 DEF RowOf
    <3>6. Filed'  BY <1>3, <1>4, <2>4, <3>4, <3>5, Types, FiledSet
    <3>7. Typed'  BY <1>1, <2>2, <3>4, <3>6, Rest
    <3> QED  BY <1>1, <1>3, <1>4, <1>5, <2>2, <2>5, <3>2, <3>3, <3>4, <3>7
  <2>6. CASE ~j.had
    <3> DEFINE z == [conv |-> j.c, from |-> j.p, to |-> {j.q}, body |-> j.num,
                     deleted |-> FALSE]
    <3>1. row' = [row EXCEPT ![s][j.m] = z]  BY <2>1, <2>6
    <3>2. r = None /\ j.c \in DOMAIN conv[s]  BY <2>3, <2>6 DEF Known
    <3>3. j.c \in Nat \ {0}  BY <1>3, <3>2, Types, ConvFields
    <3>4. z \in MessageRow /\ RowOf(z, j.c, j.p, {j.q}, j.num, FALSE)
      <4>1. {j.q} \in SUBSET Person /\ FALSE \in BOOLEAN  BY <1>3
      <4> QED  BY <1>3, <3>3, <4>1, NewRow
    <3> HIDE DEF z
    <3>5. RowTypes' /\ RowSet(s, j.m, z)  BY <1>3, <1>4, <3>1, <3>4, Types, SetRow
    <3>6. z.conv \in DOMAIN conv[s]  BY <3>2, <3>4 DEF RowOf
    <3>7. Filed'  BY <1>3, <1>4, <2>4, <3>5, <3>6, Types, FiledSet
    <3>8. Typed'  BY <1>1, <2>2, <3>5, <3>7, Rest
    <3> QED  BY <1>1, <1>3, <1>4, <1>5, <2>2, <2>6, <3>2, <3>4, <3>5, <3>8
  <2> QED  BY <2>5, <2>6
<1>6. CASE Fails(w)
  <2>1. End(w) /\ row' = row  BY <1>6 DEF StoreReceived
  <2>2. JobTypes' /\ Ends(w)  BY <1>2, <1>3, <2>1, Ending DEF Ends
  <2>3. Typed'  BY <1>1, <2>1, <2>2, Rest
  <2> QED  BY <1>1, <1>3, <1>4, <1>6, <2>1, <2>2, <2>3
<1> QED  BY <1>5, <1>6

LEMMA ReceiveFlagDoes ==
  ASSUME Typed, NEW a \in BagToSet(net), ReceiveFlag(a)
  PROVE  LET s == Lives[a.q]
             r == row[s][a.m]
         IN
         /\ Typed' /\ a.kind \in {"Delete", "Undo"} /\ NetTake(a) /\ s \in Site
         /\ a.m \in Message
         /\ \/ /\ r \in MessageRow
               /\ \E z \in MessageRow :
                    /\ RowSet(s, a.m, z)
                    /\ RowOf(z, r.conv, r.from, r.to, r.body, a.kind = "Delete")
            \/ r = None /\ row' = row
         /\ UNCHANGED <<conv, opened, notes, unread, job, sent, requests, crossed, left,
                        muddled>>
<1> DEFINE s == Lives[a.q]
           r == row[s][a.m]
           z == [r EXCEPT !.deleted = ~Restores(a)]
<1>1. /\ a.kind \in {"Delete", "Undo"} /\ net' = net (-) SetToBag({a})
      /\ UNCHANGED <<conv, opened, notes, unread, job, sent, requests, crossed, left,
                     muddled>>
  BY DEF ReceiveFlag
<1>2. s \in Site /\ a.m \in Message  BY Types, MailTypes
<1>3. NetTypes' /\ NetTake(a)  BY <1>1, Types, TakingMail
<1>4. CASE Known(s, a.m)
  <2>1. row' = [row EXCEPT ![s][a.m] = [@ EXCEPT !.deleted = ~Restores(a)]]
    BY <1>4 DEF ReceiveFlag
  <2>2. row' = [row EXCEPT ![s][a.m] = z]  BY <1>2, <2>1 DEF Typed, RowTypes
  <2>3. r \in MessageRow /\ r.conv \in DOMAIN conv[s]
    BY <1>2, <1>4, KnownRow DEF Typed, Filed
  <2>4. (~Restores(a)) \in BOOLEAN /\ (~Restores(a) <=> a.kind = "Delete")
    BY <1>1 DEF Restores
  <2>5. z \in MessageRow /\ RowOf(z, r.conv, r.from, r.to, r.body, ~Restores(a))
    BY <2>3, <2>4, RowSetting
  <2> HIDE DEF z
  <2>6. RowTypes' /\ RowSet(s, a.m, z)  BY <1>2, <2>2, <2>5, Types, SetRow
  <2>7. z.conv \in DOMAIN conv[s] /\ conv' = conv  BY <1>1, <2>3, <2>5 DEF RowOf
  <2>8. Filed'  BY <1>2, <2>6, <2>7, Types, FiledSet
  <2>9. Typed'  BY <1>1, <1>3, <2>6, <2>8, Rest
  <2>10. RowOf(z, r.conv, r.from, r.to, r.body, a.kind = "Delete")
    BY <2>4, <2>5 DEF RowOf
  <2> QED  BY ZenonT(40), <1>1, <1>2, <1>3, <2>3, <2>5, <2>6, <2>9, <2>10
<1>5. CASE ~Known(s, a.m)
  <2>1. row' = row  BY <1>5 DEF ReceiveFlag
  <2>2. r = None  BY <1>5 DEF Known
  <2>3. Typed'  BY <1>1, <1>3, <2>1, Rest
  <2> QED  BY <1>1, <1>2, <1>3, <2>1, <2>2, <2>3
<1> QED  BY <1>4, <1>5

(***************************************************************************)
(* Notifications.                                                          *)
(***************************************************************************)
LEMMA AskDoes ==
  ASSUME Typed, NEW w \in Worker, NEW op \in Ops, NEW p \in Person,
         NEW m \in 0 .. MaxMessages, NEW c \in Nat, NEW at \in Ats,
         Ask(w, Job(op, p, p, m, c, at)), UNCHANGED <<left, muddled>>
  PROVE  /\ JobTypes' /\ Marks' /\ Starts(w, op, p, p, m, c, at)
         /\ UNCHANGED <<conv, opened, row, unread, net, sent, crossed, left, muddled>>
<1> DEFINE j == Job(op, p, p, m, c, at)
<1>1. /\ j \in Running /\ j.op = op /\ j.p = p /\ j.q = p /\ j.m = m
      /\ j.c = c /\ j.at = at
  <2>1. \A q \in Person : LET k == Job(op, p, q, m, c, at) IN
          /\ k \in Running /\ k.op = op /\ k.p = p /\ k.q = q /\ k.m = m
          /\ k.c = c /\ k.at = at
    BY NewJob
  <2> QED  BY <2>1
<1>2. /\ Idle(w) /\ Room /\ requests' = requests + 1 /\ job' = [job EXCEPT ![w] = j]
      /\ UNCHANGED <<conv, opened, row, unread, net, sent, crossed>>
  BY DEF Ask
<1> HIDE DEF j
<1>3. JobTypes' /\ job'[w] = j /\ Others(w)  BY <1>1, <1>2, Types, Taking
<1>4. Starts(w, op, p, p, m, c, at)  BY <1>1, <1>2, <1>3 DEF Starts
<1>5. requests' \in 0 .. MaxRequests  BY <1>2, RoomLeft
<1>6. Marks'  BY <1>2, <1>5 DEF Typed, Marks
<1> QED  BY <1>2, <1>3, <1>4, <1>6

LEMMA ViewDoes ==
  ASSUME Typed, NEW w \in Worker, NEW p \in Person, NEW c \in DOMAIN conv[Lives[p]],
         View(w, p, c)
  PROVE  /\ Typed' /\ Starts(w, "view", p, p, 0, c, "count")
         /\ \A x \in Person : x # p => notes'[x] = notes[x]
         /\ UNCHANGED <<conv, opened, row, unread, net, sent, crossed, left, muddled>>
<1> DEFINE S == {n \in BagToSet(notes[p]) : n.c = c}
<1>1. /\ Ask(w, Job("view", p, p, 0, c, "count"))
      /\ notes' = [notes EXCEPT ![p] = MarkRead(notes[p], S)]
      /\ UNCHANGED <<left, muddled>>
  BY DEF View, Typed, BellTypes
<1>2. c \in Nat
  <2>1. c \in Nat \ {0}  BY LivesType, Types, ConvFields
  <2> QED  BY <2>1
<1>3. "view" \in Ops /\ "count" \in Ats /\ 0 \in 0 .. MaxMessages
  BY MessageNat DEF Ops, Ats
<1>4. /\ JobTypes' /\ Marks' /\ Starts(w, "view", p, p, 0, c, "count")
      /\ UNCHANGED <<conv, opened, row, unread, net, sent, crossed, left, muddled>>
  BY <1>1, <1>2, <1>3, AskDoes
<1> HIDE DEF S
<1>5. IsBagOf(MarkRead(notes[p], S), Notification)
  <2>1. IsBagOf(notes[p], Notification)  BY DEF Typed, BellTypes
  <2> QED  BY <2>1, MarkReadRight
<1>6. BellTypes' /\ \A x \in Person : x # p => notes'[x] = notes[x]
  BY <1>1, <1>4, <1>5 DEF Typed, BellTypes
<1>7. Typed'  BY <1>4, <1>6, Rest
<1> QED  BY <1>4, <1>6, <1>7

LEMMA MarkDoes ==
  ASSUME Typed, NEW w \in Worker, NEW p \in Person, NEW m \in Message, NEW b \in BOOLEAN,
         Mark(w, p, m, b)
  PROVE  /\ Typed' /\ Starts(w, IF b THEN "read" ELSE "unread", p, p, m, 0, "count")
         /\ UNCHANGED <<tables, net, sent, crossed, left, muddled>>
<1> DEFINE op == IF b THEN "read" ELSE "unread"
<1>1. Ask(w, Job(op, p, p, m, 0, "count")) /\ UNCHANGED <<notes, left, muddled>>
  BY DEF Mark
<1>2. op \in Ops /\ "count" \in Ats /\ m \in 0 .. MaxMessages /\ 0 \in Nat
  BY MessageNat DEF Ops, Ats
<1> HIDE DEF op
<1>3. /\ JobTypes' /\ Marks' /\ Starts(w, op, p, p, m, 0, "count")
      /\ UNCHANGED <<conv, opened, row, unread, net, sent, crossed, left, muddled>>
  BY <1>1, <1>2, AskDoes
<1>4. Typed'  BY <1>1, <1>3, Rest
<1> QED  BY <1>1, <1>3, <1>4 DEF op, tables

LEMMA MarkAllDoes ==
  ASSUME Typed, NEW w \in Worker, NEW p \in Person, MarkAll(w, p)
  PROVE  /\ Typed' /\ Starts(w, "all", p, p, 0, 0, "count")
         /\ UNCHANGED <<tables, net, sent, crossed, left, muddled>>
<1>1. Ask(w, Job("all", p, p, 0, 0, "count")) /\ UNCHANGED <<notes, left, muddled>>
  BY DEF MarkAll
<1>2. "all" \in Ops /\ "count" \in Ats /\ 0 \in 0 .. MaxMessages /\ 0 \in Nat
  BY MessageNat DEF Ops, Ats
<1>3. /\ JobTypes' /\ Marks' /\ Starts(w, "all", p, p, 0, 0, "count")
      /\ UNCHANGED <<conv, opened, row, unread, net, sent, crossed, left, muddled>>
  BY <1>1, <1>2, AskDoes
<1>4. Typed'  BY <1>1, <1>3, Rest
<1> QED  BY <1>1, <1>3, <1>4 DEF tables

LEMMA CountDoes ==
  ASSUME Typed, Places, NEW w \in Worker, Count(w)
  PROVE  LET p == Reader(w) IN
         /\ Typed' /\ At(w, "count") /\ p \in Person /\ GoesOn(w, "write")
         /\ job'[w].num = Bell(w, p) /\ job'[w].seen = BagToSet(notes[p])
         /\ muddled' = (IF Counting(p) # {} THEN muddled \cup {p}
                        ELSE IF job[w].op \in {"view", "all"} THEN muddled \ {p} ELSE muddled)
         /\ UNCHANGED <<tables, net, sent, requests, crossed, left>>
<1> DEFINE p == Reader(w)
           n == Bell(w, p)
           S == BagToSet(notes[p])
<1>1. /\ At(w, "count")
      /\ job' = [job EXCEPT ![w] = [@ EXCEPT !.at = "write", !.num = n, !.seen = S]]
      /\ UNCHANGED <<tables, net, sent, requests, crossed, left>>
      /\ muddled' = (IF Counting(p) # {} THEN muddled \cup {p}
                     ELSE IF job[w].op \in {"view", "all"} THEN muddled \ {p} ELSE muddled)
  BY DEF Count, Overlap
<1>2. ~Idle(w)  BY <1>1, Somewhere
<1>3. p \in Person /\ JobTypes  BY <1>2, Types, Jobs
<1>4. n \in Nat /\ S \in SUBSET Notification
  <2>1. IsBagOf(notes[p], Notification) /\ unread[p] \in Nat  BY <1>3 DEF Typed, BellTypes
  <2>2. Unread(notes[p]) \in Nat  BY <2>1, UnreadFinite
  <2> QED  BY <2>1, <2>2 DEF Bell, IsBagOf
<1> HIDE DEF p, n, S
<1>5. LET j == job'[w] IN
      /\ JobTypes' /\ j \in Running /\ ~Idle(w)' /\ Others(w)
      /\ SameJob(job[w], j) /\ j.at = "write" /\ j.num = n /\ j.seen = S
      /\ j.c = job[w].c
  <2>1. job' = [job EXCEPT ![w] = [@ EXCEPT !.at = "write", !.num = n, !.seen = S]]
    BY <1>1
  <2> QED  BY <1>2, <1>3, <1>4, <2>1, Reading
<1>6. GoesOn(w, "write")  BY <1>2, <1>5 DEF GoesOn
<1>7. Marks'  BY <1>1, <1>3 DEF Typed, Marks
<1>8. Typed'  BY <1>1, <1>5, <1>7, Rest DEF tables
<1> QED  BY <1>1, <1>3, <1>5, <1>6, <1>8 DEF p, n, S

\* What the requests write: the notifications, and the number at the bell.
Notices(w, p) ==
  LET j == job[w]
      note == [c |-> j.c, m |-> j.m, read |-> FALSE]
  IN
  \/ /\ j.op \in {"send", "edit", "receive"} /\ note \in Notification
     /\ notes'[p] = notes[p] (+) SetToBag({note}) /\ unread'[p] = j.num + 1
  \/ j.op = "view" /\ notes'[p] = notes[p] /\ unread'[p] = j.num
  \/ j.op \in {"read", "unread"} /\ notes'[p] = notes[p] /\ unread'[p] = unread[p]
  \/ /\ j.op \in {"read", "unread"}
     /\ \E n \in j.seen :
          /\ n.read = (j.op = "unread")
          /\ notes'[p] = IF BagIn(n, notes[p]) THEN Flip(notes[p], n) ELSE notes[p]
          /\ unread'[p] = IF j.op = "unread" THEN j.num + 1
                          ELSE IF j.num > 0 THEN j.num - 1 ELSE unread[p]
  \/ /\ j.op = "all" /\ notes'[p] = MarkRead(notes[p], j.seen) /\ unread'[p] = 0

LEMMA WriteDoes ==
  ASSUME Typed, Places, NEW w \in Worker, Write(w)
  PROVE  LET p == Reader(w) IN
         /\ Typed' /\ At(w, "write") /\ p \in Person /\ Ends(w) /\ Notices(w, p)
         /\ \A x \in Person : x # p => notes'[x] = notes[x] /\ unread'[x] = unread[x]
         /\ UNCHANGED <<conv, opened, row, net, sent, requests, crossed, left, muddled>>
<1> DEFINE j == job[w]
           p == Reader(w)
<1>1. /\ At(w, "write") /\ End(w)
      /\ UNCHANGED <<conv, opened, row, net, sent, requests, crossed, left, muddled>>
  BY DEF Write
<1>2. ~Idle(w)  BY <1>1, Somewhere
<1>3. /\ j \in Running /\ p \in Person /\ JobTypes /\ j.num \in Nat /\ j.c \in Nat
      /\ j.seen \in SUBSET Notification
  BY <1>2, Types, Jobs, Fields
<1>4. JobTypes' /\ Ends(w)  BY <1>1, <1>2, <1>3, Ending DEF Ends
<1>5. /\ IsBagOf(notes[p], Notification) /\ unread[p] \in Nat
      /\ DOMAIN notes = Person /\ unread \in [Person -> Nat]
      /\ \A x \in Person : IsBagOf(notes[x], Notification)
  BY <1>3 DEF Typed, BellTypes
<1> DEFINE Good(B, u) ==
             /\ IsBagOf(B, Notification) /\ u \in Nat
             /\ notes' = [notes EXCEPT ![p] = B] /\ unread' = [unread EXCEPT ![p] = u]
           Set(B, u) ==
             /\ BellTypes' /\ notes'[p] = B /\ unread'[p] = u
             /\ \A x \in Person : x # p => notes'[x] = notes[x] /\ unread'[x] = unread[x]
<1>6. \A B, u : Good(B, u) => Set(B, u)
  BY <1>3, <1>5 DEF BellTypes
<1>7. UNCHANGED <<notes, unread>> => Set(notes[p], unread[p])
  BY <1>3, <1>5 DEF BellTypes
<1> HIDE DEF Good, Set
<1>8. (\E B, u : Set(B, u)) /\ Notices(w, p)
  <2>1. CASE j.op \in {"send", "edit", "receive"}
    <3> DEFINE note == [c |-> j.c, m |-> j.m, read |-> FALSE]
               B == notes[p] (+) SetToBag({note})
    <3>1. notes' = [notes EXCEPT ![p] = B] /\ unread' = [unread EXCEPT ![p] = j.num + 1]
      BY <2>1, <1>3, <1>5 DEF Write
    <3>2. j.m \in Message
      <4>1. job[w].op \in Moving  BY <2>1 DEF Moving
      <4> QED  BY <1>2, <4>1, MovesTyped
    <3>3. note \in Notification  BY <1>3, <3>2 DEF Notification
    <3> HIDE DEF note
    <3>4. IsBagOf(B, Notification)  BY <1>5, <3>3, PutIn
    <3> HIDE DEF B
    <3>5. Good(B, j.num + 1)  BY <1>3, <3>1, <3>4 DEF Good
    <3>6. Set(B, j.num + 1)  BY <3>5, <1>6
    <3> QED  BY <2>1, <3>3, <3>6 DEF Notices, Set, B, note
  <2>2. CASE j.op = "view"
    <3>1. notes' = notes /\ unread' = [unread EXCEPT ![p] = j.num]  BY <2>2 DEF Write
    <3>2. j.num \in Nat  BY <1>3
    <3>3. Set(notes[p], j.num)  BY <1>3, <1>5, <3>1, <3>2 DEF Set, BellTypes
    <3> QED  BY <2>2, <3>3 DEF Notices, Set
  <2>3. CASE j.op \in {"read", "unread"}
    <3> DEFINE about == {n \in j.seen : n.m = j.m /\ n.read = (j.op = "unread")}
    <3>1. CASE about = {}
      <4>1. UNCHANGED <<notes, unread>>  BY <2>3, <3>1 DEF Write
      <4>2. Set(notes[p], unread[p])  BY <4>1, <1>7
      <4> QED  BY <2>3, <4>2 DEF Notices, Set
    <3>2. CASE about # {}
      <4>1. PICK n \in about :
              /\ notes' = [notes EXCEPT ![p] = IF BagIn(n, @) THEN Flip(@, n) ELSE @]
              /\ unread' = [unread EXCEPT ![p] =
                   IF j.op = "unread" THEN j.num + 1
                   ELSE IF j.num > 0 THEN j.num - 1 ELSE @]
        BY <2>3, <3>2 DEF Write
      <4> DEFINE B == IF BagIn(n, notes[p]) THEN Flip(notes[p], n) ELSE notes[p]
                 u == IF j.op = "unread" THEN j.num + 1
                      ELSE IF j.num > 0 THEN j.num - 1 ELSE unread[p]
      <4>2. notes' = [notes EXCEPT ![p] = B] /\ unread' = [unread EXCEPT ![p] = u]
        BY <4>1, <1>3, <1>5
      <4>3. IsBagOf(B, Notification)
        <5>1. CASE BagIn(n, notes[p])
          <6>1. n \in BagToSet(notes[p])  BY <5>1 DEF BagIn
          <6>2. IsBagOf(Flip(notes[p], n), Notification)  BY <1>5, <6>1, FlipRight
          <6> QED  BY <5>1, <6>2
        <5>2. CASE ~BagIn(n, notes[p])  BY <1>5, <5>2
        <5> QED  BY <5>1, <5>2
      <4>4. u \in Nat  BY <1>3, <1>5
      <4>5. n \in j.seen /\ n.read = (j.op = "unread")  OBVIOUS
      <4> HIDE DEF B, u, about
      <4>6. Good(B, u)  BY <4>2, <4>3, <4>4 DEF Good
      <4>7. Set(B, u)  BY <4>6, <1>6
      <4> QED  BY <2>3, <4>5, <4>7 DEF Notices, Set, B, u
    <3> QED  BY <3>1, <3>2
  <2>4. CASE j.op = "all"
    <3> DEFINE B == MarkRead(notes[p], j.seen)
    <3>1. notes' = [notes EXCEPT ![p] = B] /\ unread' = [unread EXCEPT ![p] = 0]
      BY <2>4, <1>3, <1>5 DEF Write
    <3>2. IsBagOf(B, Notification)  BY <1>5, MarkReadRight
    <3> HIDE DEF B
    <3>3. Good(B, 0)  BY <3>1, <3>2 DEF Good
    <3>4. Set(B, 0)  BY <3>3, <1>6
    <3> QED  BY <2>4, <3>4 DEF Notices, Set, B
  <2>5. j.op \in {"send", "edit", "receive", "view", "read", "unread", "all"}
    BY <1>1, AtOps
  <2> QED  BY <2>1, <2>2, <2>3, <2>4, <2>5
<1>9. BellTypes' /\ \A x \in Person : x # p => notes'[x] = notes[x] /\ unread'[x] = unread[x]
  BY <1>8 DEF Set
<1>10. Typed'  BY <1>1, <1>4, <1>9, Rest
<1> QED  BY <1>1, <1>3, <1>4, <1>8, <1>9, <1>10

(***************************************************************************)
(* Leaving.                                                                *)
(***************************************************************************)
LEMMA LeaveDoes ==
  ASSUME Typed, NEW w \in Worker, NEW p \in Person, NEW c \in DOMAIN conv[Lives[p]],
         Leave(w, p, c)
  PROVE  LET s == Lives[p] IN
         /\ Typed' /\ s \in Site /\ Starts(w, "leave", p, p, 0, c, "look")
         /\ DOMAIN conv' = Site /\ \A t \in Site : t # s => conv'[t] = conv[t]
         /\ DOMAIN conv'[s] = DOMAIN conv[s] /\ conv'[s][c].who = conv[s][c].who
         /\ \A d \in DOMAIN conv[s] : d # c => conv'[s][d] = conv[s][d]
         /\ left' = left \cup {conv[s][c].who}
         /\ UNCHANGED <<opened, row, notes, unread, net, sent, crossed, muddled>>
<1> DEFINE s == Lives[p]
           r == [conv[s][c] EXCEPT !.joined = conv[s][c].joined \ {p}]
           f == [conv[s] EXCEPT ![c] = r]
           j == Job("leave", p, p, 0, c, "look")
<1>1. /\ Idle(w) /\ Room /\ requests' = requests + 1 /\ job' = [job EXCEPT ![w] = j]
      /\ left' = left \cup {conv[s][c].who}
      /\ UNCHANGED <<opened, row, notes, unread, net, sent, crossed, muddled>>
  BY DEF Leave
<1>2. s \in Site  BY LivesType
<1>3. c \in Nat /\ conv[s][c] \in Conversation /\ conv[s][c].who \in Pairs
      /\ conv[s][c].joined \subseteq conv[s][c].who
  BY <1>2, Types, ConvFields
<1>4. conv' = [conv EXCEPT ![s] = f]
  <2>1. conv' = [conv EXCEPT ![s][c].joined = @ \ {p}]  BY DEF Leave
  <2>2. GoodConv(conv[s], opened[s])  BY <1>2 DEF Typed, ConvTypes
  <2> QED  BY <1>2, <1>3, <2>1, <2>2 DEF Typed, ConvTypes, GoodConv, Conversation
<1>5. r \in Conversation /\ r.who = conv[s][c].who /\ r.joined \subseteq r.who
  BY <1>3 DEF Conversation
<1> HIDE DEF r
<1>6. GoodConv(conv[s], opened[s])  BY <1>2 DEF Typed, ConvTypes
<1>7. /\ DOMAIN f = DOMAIN conv[s] /\ f[c] = r
      /\ \A d \in DOMAIN conv[s] : d # c => f[d] = conv[s][d]
  OBVIOUS
<1>8. GoodConv(f, opened[s])
  <2>1. \A d \in DOMAIN f : f[d] \in Conversation /\ f[d].joined \subseteq f[d].who
    BY <1>5, <1>6, <1>7 DEF GoodConv
  <2>2. f \in [DOMAIN conv[s] -> Conversation]
    <3>1. f = [d \in DOMAIN conv[s] |-> f[d]]
      BY <1>6 DEF GoodConv
    <3> QED  BY <3>1, <2>1, <1>7
  <2> QED  BY <1>6, <1>7, <2>1, <2>2 DEF GoodConv
<1> HIDE DEF f
<1>9. /\ DOMAIN conv' = Site /\ conv'[s] = f
      /\ \A t \in Site : t # s => conv'[t] = conv[t]
  BY <1>2, <1>4 DEF Typed, ConvTypes
<1>10. ConvTypes'
  <2>1. \A t \in Site : GoodConv(conv'[t], opened[t])
    <3> SUFFICES ASSUME NEW t \in Site PROVE GoodConv(conv'[t], opened[t])
      OBVIOUS
    <3>1. CASE t = s  BY <1>8, <1>9, <3>1
    <3>2. CASE t # s
      <4>1. GoodConv(conv[t], opened[t])  BY DEF Typed, ConvTypes
      <4> QED  BY <1>9, <3>2, <4>1
    <3> QED  BY <3>1, <3>2
  <2>2. opened' = opened /\ opened \in [Site -> Nat]  BY <1>1 DEF Typed, ConvTypes
  <2> QED  BY <1>9, <2>1, <2>2 DEF ConvTypes
<1>11. Filed'
  <2> SUFFICES ASSUME NEW t \in Site, NEW m \in Message, row[t][m] # None
               PROVE  row[t][m].conv \in DOMAIN conv'[t]
    BY <1>1 DEF Filed, Known
  <2>1. row[t][m].conv \in DOMAIN conv[t]  BY DEF Typed, Filed, Known
  <2> QED  BY <1>7, <1>9, <2>1
<1>12. JobTypes' /\ Starts(w, "leave", p, p, 0, c, "look")
  <2>1. "leave" \in Ops /\ "look" \in Ats /\ 0 \in 0 .. MaxMessages
    BY MessageNat DEF Ops, Ats
  <2>2. \A q \in Person : LET k == Job("leave", p, q, 0, c, "look") IN
          /\ k \in Running /\ k.op = "leave" /\ k.p = p /\ k.q = q /\ k.m = 0
          /\ k.c = c /\ k.at = "look"
    BY <1>3, <2>1, NewJob
  <2>3. /\ j \in Running /\ j.op = "leave" /\ j.p = p /\ j.q = p /\ j.m = 0
        /\ j.c = c /\ j.at = "look"
    BY <2>2
  <2> HIDE DEF j
  <2>4. JobTypes' /\ job'[w] = j /\ Others(w)  BY <1>1, <2>3, Types, Taking
  <2> QED  BY <1>1, <2>3, <2>4 DEF Starts
<1>13. Marks'
  <2>1. requests' \in 0 .. MaxRequests  BY <1>1, RoomLeft
  <2> QED  BY <1>1, <1>3, <2>1 DEF Typed, Marks
<1>14. Typed'  BY <1>1, <1>10, <1>11, <1>12, <1>13, Rest
<1> QED  BY <1>1, <1>2, <1>5, <1>7, <1>9, <1>12, <1>14

LEMMA LookLeftDoes ==
  ASSUME Typed, Places, NEW w \in Worker, LookLeft(w)
  PROVE  /\ Typed' /\ At(w, "look") /\ job[w].op = "leave"
         /\ Ends(w) \/ (GoesOn(w, "remove") /\ job'[w].c = job[w].c)
         /\ UNCHANGED <<tables, net, sent, requests, crossed, left, muddled>>
<1> DEFINE s == Lives[job[w].p]
           c == job[w].c
<1>1. At(w, "look") /\ UNCHANGED <<tables, net, sent, requests, crossed, left, muddled>>
  BY DEF LookLeft
<1>2. ~Idle(w) /\ job[w].op = "leave" /\ JobTypes  BY <1>1, Somewhere, AtOps, Types
<1>3. CASE End(w)
  <2>1. JobTypes' /\ Ends(w)  BY <1>2, <1>3, Ending DEF Ends
  <2>2. Typed'  BY <1>1, <2>1, Rest DEF tables
  <2> QED  BY <1>1, <1>2, <2>1, <2>2
<1>4. CASE job' = [job EXCEPT ![w] = [@ EXCEPT !.at = "remove", !.rows = Within(s, c)]]
  <2> DEFINE S == Within(s, c)
  <2>1. S \in SUBSET Message  BY DEF Within
  <2>2. job' = [job EXCEPT ![w] = [@ EXCEPT !.at = "remove", !.rows = S]]  BY <1>4
  <2> HIDE DEF S
  <2>3. JobTypes' /\ GoesOn(w, "remove") /\ job'[w].c = job[w].c
    BY <1>2, <2>1, <2>2, Looking DEF GoesOn
  <2>4. Typed'  BY <1>1, <2>3, Rest DEF tables
  <2> QED  BY <1>1, <1>2, <2>3, <2>4
<1> QED  BY <1>3, <1>4 DEF LookLeft

LEMMA DeleteChatDoes ==
  ASSUME Typed, NEW w \in Worker, NEW p \in Person, NEW c \in DOMAIN conv[Lives[p]],
         DeleteChat(w, p, c)
  PROVE  LET s == Lives[p] IN
         /\ Typed' /\ s \in Site /\ Starts(w, "leave", p, p, 0, c, "remove")
         /\ left' = left \cup {conv[s][c].who}
         /\ UNCHANGED <<tables, net, sent, crossed, muddled>>
<1> DEFINE s == Lives[p]
           S == Within(s, c)
           j == Job("leave", p, p, 0, c, "remove")
           k == [j EXCEPT !.rows = S]
<1>1. /\ Idle(w) /\ Room /\ requests' = requests + 1 /\ job' = [job EXCEPT ![w] = k]
      /\ left' = left \cup {conv[s][c].who} /\ UNCHANGED <<tables, net, sent, crossed, muddled>>
  BY DEF DeleteChat
<1>2. s \in Site  BY LivesType
<1>3. c \in Nat /\ conv[s][c].who \in Pairs  BY <1>2, Types, ConvFields
<1>4. S \in SUBSET Message  BY DEF Within
<1>5. "leave" \in Ops /\ "remove" \in Ats /\ 0 \in 0 .. MaxMessages
  BY MessageNat DEF Ops, Ats
<1>6. \A q \in Person : LET i == Job("leave", p, q, 0, c, "remove") IN
        /\ i \in Running /\ i.op = "leave" /\ i.p = p /\ i.q = q /\ i.m = 0
        /\ i.c = c /\ i.at = "remove"
  BY <1>3, <1>5, NewJob
<1>7. /\ j \in Running /\ j.op = "leave" /\ j.p = p /\ j.q = p /\ j.m = 0
      /\ j.c = c /\ j.at = "remove"
  BY <1>6
<1> HIDE DEF j, S
<1>8. k \in Running  BY <1>4, <1>7, Setting
<1>9. /\ k.op = "leave" /\ k.p = p /\ k.q = p /\ k.m = 0 /\ k.c = c /\ k.at = "remove"
  BY <1>7 DEF Running
<1> HIDE DEF k
<1>10. JobTypes' /\ job'[w] = k /\ Others(w)  BY <1>1, <1>8, Types, Taking
<1>11. Starts(w, "leave", p, p, 0, c, "remove")  BY <1>1, <1>8, <1>9, <1>10 DEF Starts
<1>12. Marks'
  <2>1. requests' \in 0 .. MaxRequests  BY <1>1, RoomLeft
  <2> QED  BY <1>1, <1>3, <2>1 DEF Typed, Marks
<1>13. Typed'  BY <1>1, <1>10, <1>12, Rest DEF tables
<1> QED  BY <1>1, <1>2, <1>11, <1>13

\* A conversation goes, with its messages.
Removes(s, c) ==
  /\ DOMAIN conv' = Site /\ \A t \in Site : t # s => conv'[t] = conv[t]
  /\ DOMAIN conv'[s] = DOMAIN conv[s] \ {c}
  /\ \A d \in DOMAIN conv[s] : d # c => conv'[s][d] = conv[s][d]
  /\ \A t \in Site, m \in Message :
       row'[t][m] = IF t = s /\ row[s][m].conv = c THEN None ELSE row[t][m]
LEMMA RemoveDoes ==
  ASSUME Typed, Places, NEW w \in Worker, Remove(w)
  PROVE  LET s == Lives[job[w].p]
             c == job[w].c
         IN
         /\ Typed' /\ At(w, "remove") /\ job[w].op = "leave" /\ s \in Site /\ Ends(w)
         /\ \/ c \in DOMAIN conv[s] /\ Removes(s, c)
            \/ UNCHANGED <<conv, row>>
         /\ UNCHANGED <<opened, notes, unread, net, sent, requests, crossed, left, muddled>>
<1> DEFINE s == Lives[job[w].p]
           c == job[w].c
<1>1. /\ At(w, "remove") /\ End(w)
      /\ UNCHANGED <<opened, notes, unread, net, sent, requests, crossed, left, muddled>>
  BY DEF Remove
<1>2. ~Idle(w) /\ job[w].op = "leave" /\ JobTypes /\ s \in Site
  BY <1>1, Somewhere, AtOps, Types, Jobs
<1>3. JobTypes' /\ Ends(w)  BY <1>1, <1>2, Ending DEF Ends
<1>4. CASE UNCHANGED <<conv, row>>
  <2>1. Typed'  BY <1>1, <1>3, <1>4, Rest
  <2> QED  BY <1>1, <1>2, <1>3, <1>4, <2>1
<1>5. CASE /\ c \in DOMAIN conv[s]
           /\ conv' = [conv EXCEPT ![s] = [d \in DOMAIN @ \ {c} |-> @[d]]]
           /\ row' = [row EXCEPT ![s] =
                [m \in Message |-> IF m \in Within(s, c) THEN None ELSE @[m]]]
  <2> DEFINE f == [d \in DOMAIN conv[s] \ {c} |-> conv[s][d]]
             g == [m \in Message |-> IF m \in Within(s, c) THEN None ELSE row[s][m]]
  <2>1. conv' = [conv EXCEPT ![s] = f] /\ row' = [row EXCEPT ![s] = g]  BY <1>5
  <2>2. DOMAIN f = DOMAIN conv[s] \ {c} /\ \A d \in DOMAIN conv[s] : d # c => f[d] = conv[s][d]
    OBVIOUS
  <2>3. GoodConv(conv[s], opened[s])  BY <1>2 DEF Typed, ConvTypes
  <2>4. GoodConv(f, opened[s])
    <3>1. \A d \in DOMAIN f : f[d] \in Conversation /\ f[d].joined \subseteq f[d].who
      BY <2>3 DEF GoodConv
    <3>2. f \in [DOMAIN f -> Conversation]  BY <2>2, <3>1
    <3> QED  BY <2>2, <2>3, <3>1, <3>2 DEF GoodConv
  <2>5. g \in [Message -> MessageRow \cup {None}]
    <3>1. \A m \in Message : row[s][m] \in MessageRow \cup {None}
      BY <1>2 DEF Typed, RowTypes
    <3> QED  BY <3>1
  <2>6. \A m \in Message : g[m] = IF row[s][m].conv = c THEN None ELSE row[s][m]
    BY DEF Within
  <2> HIDE DEF f, g
  <2>7. /\ DOMAIN conv' = Site /\ conv'[s] = f
        /\ \A t \in Site : t # s => conv'[t] = conv[t]
    BY <1>2, <2>1 DEF Typed, ConvTypes
  <2>8. /\ RowTypes' /\ row'[s] = g /\ \A t \in Site : t # s => row'[t] = row[t]
    BY <1>2, <2>1, <2>5 DEF Typed, RowTypes
  <2>9. ConvTypes'
    <3>1. \A t \in Site : GoodConv(conv'[t], opened[t])
      <4> SUFFICES ASSUME NEW t \in Site PROVE GoodConv(conv'[t], opened[t])
        OBVIOUS
      <4>1. CASE t = s  BY <2>4, <2>7, <4>1
      <4>2. CASE t # s
        <5>1. GoodConv(conv[t], opened[t])  BY DEF Typed, ConvTypes
        <5> QED  BY <2>7, <4>2, <5>1
      <4> QED  BY <4>1, <4>2
    <3>2. opened' = opened /\ opened \in [Site -> Nat]  BY <1>1 DEF Typed, ConvTypes
    <3> QED  BY <2>7, <3>1, <3>2 DEF ConvTypes
  <2>10. Removes(s, c)
    <3>1. ASSUME NEW t \in Site, NEW m \in Message
          PROVE  row'[t][m] = IF t = s /\ row[s][m].conv = c THEN None ELSE row[t][m]
      BY <2>6, <2>8
    <3> QED  BY <2>2, <2>7, <3>1 DEF Removes
  <2>11. Filed'
    <3> SUFFICES ASSUME NEW t \in Site, NEW m \in Message, row'[t][m] # None
                 PROVE  row'[t][m].conv \in DOMAIN conv'[t]
      BY DEF Filed, Known
    <3>1. row'[t][m] = row[t][m] /\ ~(t = s /\ row[s][m].conv = c)
      BY <2>10 DEF Removes
    <3>2. row[t][m].conv \in DOMAIN conv[t]  BY <3>1 DEF Typed, Filed, Known
    <3>3. CASE t = s  BY <2>2, <2>7, <3>1, <3>2, <3>3
    <3>4. CASE t # s  BY <2>7, <3>1, <3>2, <3>4
    <3> QED  BY <3>3, <3>4
  <2>12. Typed'  BY <1>1, <1>3, <2>8, <2>9, <2>11, Rest
  <2> QED  BY <1>1, <1>2, <1>3, <1>5, <2>10, <2>12
<1> QED  BY <1>4, <1>5 DEF Remove

LEMMA TypesNext == Typed /\ Places /\ [Next]_vars => Typed'
<1> SUFFICES ASSUME Typed, Places, [Next]_vars PROVE Typed'
  OBVIOUS
<1>1. CASE UNCHANGED vars
  BY <1>1, Rest, Types DEF vars
<1>2. ASSUME NEW w \in Worker, NEW p \in Person, NEW q \in Person,
             NEW c \in Between(Lives[p], p, q) \cup {0}, Send(w, p, q, c)
      PROVE  Typed'
  BY <1>2, SendDoes
<1>3. ASSUME NEW w \in Worker,
             Open(w) \/ StoreSent(w) \/ Address(w) \/ Post(w) \/ Finish(w)
               \/ StoreReceived(w) \/ Count(w) \/ Write(w) \/ LookLeft(w) \/ Remove(w)
      PROVE  Typed'
  <2>1. CASE Open(w)  BY <2>1, OpenDoes
  <2>2. CASE StoreSent(w)  BY <2>2, StoreSentDoes
  <2>3. CASE Address(w)  BY <2>3, AddressDoes
  <2>4. CASE Post(w)  BY <2>4, PostDoes
  <2>5. CASE Finish(w)  BY <2>5, FinishDoes
  <2>6. CASE StoreReceived(w)  BY <2>6, StoreReceivedDoes
  <2>7. CASE Count(w)  BY <2>7, CountDoes
  <2>8. CASE Write(w)  BY <2>8, WriteDoes
  <2>9. CASE LookLeft(w)  BY <2>9, LookLeftDoes
  <2>10. CASE Remove(w)  BY <2>10, RemoveDoes
  <2> QED  BY <1>3, <2>1, <2>2, <2>3, <2>4, <2>5, <2>6, <2>7, <2>8, <2>9, <2>10
<1>4. ASSUME NEW w \in Worker, NEW p \in Person, NEW m \in Message, NEW b \in BOOLEAN,
             Edit(w, p, m) \/ Delete(w, p, m, b) \/ Mark(w, p, m, b)
      PROVE  Typed'
  BY <1>4, EditDoes, DeleteDoes, MarkDoes
<1>5. ASSUME NEW w \in Worker, NEW p \in Person, MarkAll(w, p)  PROVE Typed'
  BY <1>5, MarkAllDoes
<1>6. ASSUME NEW w \in Worker, NEW p \in Person, NEW c \in DOMAIN conv[Lives[p]],
             View(w, p, c) \/ Leave(w, p, c) \/ DeleteChat(w, p, c)
      PROVE  Typed'
  BY <1>6, ViewDoes, LeaveDoes, DeleteChatDoes
<1>7. ASSUME NEW w \in Worker, NEW a \in BagToSet(net), Receive(w, a)  PROVE Typed'
  BY <1>7, ReceiveDoes
<1>8. ASSUME NEW a \in BagToSet(net), ReceiveFlag(a)  PROVE Typed'
  BY <1>8, ReceiveFlagDoes
<1> QED  BY <1>1, <1>2, <1>3, <1>4, <1>5, <1>6, <1>7, <1>8 DEF Next

-----------------------------------------------------------------------------
(***************************************************************************)
(* Where requests are, and that none is about a message not yet sent.      *)
(***************************************************************************)
GoodJob(j, n) ==
  /\ Place(j) /\ (j.op \in Moving => j.m \in 1 .. n)
  /\ j.op \in {"read", "unread"} => j.m \in Message
Later == sent' \in Nat /\ sent <= sent'

LEMMA PlaceFrame ==
  ASSUME Typed, Places, Later, NEW w \in Worker, Others(w),
         job'[w] = NoJob \/ GoodJob(job'[w], sent')
  PROVE  Places'
<1> SUFFICES ASSUME NEW v \in Worker, job'[v] # NoJob  PROVE GoodJob(job'[v], sent')
  BY DEF Places, Idle, Placed, GoodJob
<1>1. CASE v = w  BY <1>1
<1>2. CASE v # w
  <2>1. job'[v] = job[v] /\ ~Idle(v)  BY <1>2 DEF Others, Idle
  <2>2. GoodJob(job[v], sent)  BY <2>1 DEF Places, Placed, GoodJob
  <2>3. sent \in Nat  BY DEF Typed, Marks
  <2>4. \A i \in 1 .. sent : i \in 1 .. sent'  BY <2>3 DEF Later
  <2> QED  BY <2>1, <2>2, <2>4 DEF GoodJob
<1> QED  BY <1>1, <1>2

LEMMA NumberFrame ==
  ASSUME Typed, Typed', Numbered, Later,
         \A s \in Site, m \in Message : row'[s][m] # None => row[s][m] # None \/ m <= sent,
         \A a \in BagToSet(net') :
           a \in BagToSet(net) \/ (a.m <= sent /\ ~IsLocal(a.p, a.q))
  PROVE  Numbered'
<1>1. sent \in Nat /\ sent' \in Nat /\ sent <= sent'  BY DEF Typed, Marks, Later
<1>2. ASSUME NEW s \in Site, NEW m \in Message, row'[s][m] # None  PROVE m <= sent'
  <2>1. m <= sent /\ m \in Nat  BY <1>2, MessageNat DEF Numbered, Known
  <2> QED  BY <1>1, <2>1
<1>3. ASSUME NEW a \in BagToSet(net')  PROVE a.m <= sent' /\ ~IsLocal(a.p, a.q)
  <2>1. a.m <= sent /\ ~IsLocal(a.p, a.q)  BY DEF Numbered, Mail
  <2>2. a \in Activity  BY DEF Typed, NetTypes, IsBagOf
  <2>3. a.m \in Nat  BY <2>2, MessageNat DEF Activity
  <2> QED  BY <1>1, <2>1, <2>3
<1> QED  BY <1>2, <1>3 DEF Numbered, Known, Mail

LEMMA Staying == ASSUME Typed, sent' = sent PROVE Later
  BY DEF Typed, Marks, Later

\* A request that goes on, is done, or begins.
LEMMA GoesWell ==
  ASSUME Typed, Places, NEW w \in Worker, NEW at, GoesOn(w, at), sent' = sent,
         \A j \in Running : SameJob(job[w], j) /\ j.at = at => Place(j)
  PROVE  Places'
<1>1. ~Idle(w) /\ Others(w) /\ job'[w] \in Running /\ SameJob(job[w], job'[w])
      /\ job'[w].at = at
  BY DEF GoesOn
<1>2. Place(job'[w])  BY <1>1
<1>3. GoodJob(job[w], sent)  BY <1>1 DEF Places, Placed, GoodJob
<1>4. GoodJob(job'[w], sent')  BY <1>1, <1>2, <1>3 DEF GoodJob, SameJob
<1> QED  BY <1>1, <1>4, Staying, PlaceFrame
LEMMA EndsWell ==
  ASSUME Typed, Places, NEW w \in Worker, Ends(w), sent' = sent
  PROVE  Places'
  BY Staying, PlaceFrame DEF Ends
LEMMA StartsWell ==
  ASSUME Typed, Places, Later, NEW w \in Worker, NEW op, NEW p, NEW q, NEW m, NEW c, NEW at,
         Starts(w, op, p, q, m, c, at),
         op \in Moving => m \in 1 .. sent', op \in {"read", "unread"} => m \in Message,
         \A j \in Running : j.op = op /\ j.p = p /\ j.q = q /\ j.m = m /\ j.at = at => Place(j)
  PROVE  Places'
<1>1. /\ Others(w) /\ job'[w] \in Running /\ job'[w].op = op /\ job'[w].p = p
      /\ job'[w].q = q /\ job'[w].m = m /\ job'[w].at = at
  BY DEF Starts
<1>2. Place(job'[w])  BY <1>1
<1>3. GoodJob(job'[w], sent')  BY <1>1, <1>2 DEF GoodJob
<1> QED  BY <1>1, <1>3, PlaceFrame

LEMMA SamePlaces ==
  ASSUME Typed, Typed', Places, Numbered, NEW w \in Worker,
         Post(w) \/ Finish(w) \/ Count(w) \/ Write(w) \/ LookLeft(w) \/ Remove(w)
  PROVE  Places' /\ Numbered'
<1>1. CASE Post(w)
  <2>1. /\ At(w, "post") /\ Ends(w) /\ row' = row /\ sent' = sent /\ job[w].m \in Message
        /\ job[w].op \in {"send", "edit", "delete", "restore"}
        /\ \/ \E a : NetPut(a) /\ a.p = job[w].p /\ a.q = job[w].q /\ a.m = job[w].m
           \/ net' = net
    BY <1>1, PostDoes DEF tables, MailOf
  <2>2. ~Idle(w) /\ ~IsLocal(job[w].p, job[w].q) /\ job[w].op \in Moving
    BY <2>1, Somewhere, AtOps DEF Moving
  <2>3. job[w].m <= sent  BY <2>2, MovesTyped
  <2>4. \A a \in BagToSet(net') :
           a \in BagToSet(net) \/ (a.m <= sent /\ ~IsLocal(a.p, a.q))
    BY <2>1, <2>2, <2>3 DEF NetPut
  <2> QED  BY <2>1, <2>4, EndsWell, NumberFrame, Staying
<1>2. CASE Finish(w)
  <2>1. Ends(w) /\ UNCHANGED <<row, net, sent>>  BY <1>2, FinishDoes DEF tables
  <2> QED  BY <2>1, EndsWell, NumberFrame, Staying
<1>3. CASE Count(w)
  <2>1. At(w, "count") /\ GoesOn(w, "write") /\ UNCHANGED <<row, net, sent>>
    BY <1>3, CountDoes DEF tables
  <2>2. ~Idle(w)  BY <2>1, Somewhere
  <2>3. Place(job[w]) /\ job[w].at = "count"  BY <2>1, <2>2 DEF Places, Placed, At
  <2>4. \A j \in Running : SameJob(job[w], j) /\ j.at = "write" => Place(j)
    BY <2>3 DEF Place, SameJob, Onward
  <2> QED  BY <2>1, <2>4, GoesWell, NumberFrame, Staying
<1>4. CASE Write(w)
  <2>1. Ends(w) /\ UNCHANGED <<row, net, sent>>  BY <1>4, WriteDoes
  <2> QED  BY <2>1, EndsWell, NumberFrame, Staying
<1>5. CASE LookLeft(w)
  <2>1. /\ job[w].op = "leave" /\ UNCHANGED <<row, net, sent>>
        /\ Ends(w) \/ GoesOn(w, "remove")
    BY <1>5, LookLeftDoes DEF tables
  <2>2. \A j \in Running : SameJob(job[w], j) /\ j.at = "remove" => Place(j)
    BY <2>1 DEF Place, SameJob
  <2> QED  BY <2>1, <2>2, GoesWell, EndsWell, NumberFrame, Staying
<1>6. CASE Remove(w)
  <2>1. /\ Ends(w) /\ UNCHANGED <<net, sent>>
        /\ \A s \in Site, m \in Message : row'[s][m] # None => row[s][m] # None
    BY <1>6, RemoveDoes DEF Removes
  <2> QED  BY <2>1, EndsWell, NumberFrame, Staying
<1> QED  BY <1>1, <1>2, <1>3, <1>4, <1>5, <1>6

LEMMA OnPlaces ==
  ASSUME Typed, Typed', Places, Numbered, NEW w \in Worker,
         Open(w) \/ StoreSent(w) \/ Address(w) \/ StoreReceived(w)
  PROVE  Places' /\ Numbered'
<1>1. CASE Open(w)
  <2>1. At(w, "open") /\ GoesOn(w, "store") /\ UNCHANGED <<row, net, sent>>
    BY <1>1, OpenDoes
  <2>2. /\ job[w].op \in {"send", "receive"}
        /\ job[w].op = "receive" => ~IsLocal(job[w].p, job[w].q)
    BY <2>1, AtOps, Somewhere
  <2>3. \A j \in Running : SameJob(job[w], j) /\ j.at = "store" => Place(j)
    BY <2>2 DEF Place, SameJob
  <2> QED  BY <2>1, <2>3, GoesWell, NumberFrame, Staying
<1>2. CASE StoreSent(w)
  <2>1. /\ At(w, "store") /\ job[w].op = "send" /\ UNCHANGED <<net, sent>>
        /\ Ends(w) \/ GoesOn(w, "address")
        /\ row' = row \/ \E r : RowSet(Lives[job[w].p], job[w].m, r)
    BY <1>2, StoreSentDoes
  <2>2. ~Idle(w) /\ job[w].op \in Moving  BY <2>1, Somewhere DEF Moving
  <2>3. job[w].m <= sent  BY <2>2, MovesTyped
  <2>4. \A s \in Site, m \in Message : row'[s][m] # None => row[s][m] # None \/ m <= sent
    BY <2>1, <2>3 DEF RowSet, Others0
  <2>5. \A j \in Running : SameJob(job[w], j) /\ j.at = "address" => Place(j)
    BY <2>1 DEF Place, SameJob
  <2>6. Places'  BY <2>1, <2>5, EndsWell, GoesWell
  <2> QED  BY <2>1, <2>4, <2>6, NumberFrame, Staying
<1>3. CASE Address(w)
  <2> DEFINE at == Onward(job[w].p, job[w].q)
  <2>1. /\ At(w, "address") /\ job[w].op = "send" /\ UNCHANGED <<net, sent>>
        /\ Ends(w) \/ GoesOn(w, at)
        /\ row' = row \/ \E r : RowSet(Lives[job[w].p], job[w].m, r)
    BY <1>3, AddressDoes
  <2>2. ~Idle(w) /\ job[w].op \in Moving  BY <2>1, Somewhere DEF Moving
  <2>3. job[w].m <= sent  BY <2>2, MovesTyped
  <2>4. \A s \in Site, m \in Message : row'[s][m] # None => row[s][m] # None \/ m <= sent
    BY <2>1, <2>3 DEF RowSet, Others0
  <2>5. \A j \in Running : SameJob(job[w], j) /\ j.at = at => Place(j)
    BY <2>1 DEF Place, SameJob
  <2> HIDE DEF at
  <2>6. Places'  BY <2>1, <2>5, EndsWell, GoesWell
  <2> QED  BY <2>1, <2>4, <2>6, NumberFrame, Staying
<1>4. CASE StoreReceived(w)
  <2>1. /\ At(w, "store") /\ job[w].op = "receive" /\ UNCHANGED <<net, sent>>
        /\ Ends(w) \/ GoesOn(w, "count")
        /\ row' = row \/ \E r : RowSet(WorksAt(w), job[w].m, r)
    BY <1>4, StoreReceivedDoes
  <2>2. ~Idle(w) /\ job[w].op \in Moving  BY <2>1, Somewhere DEF Moving
  <2>3. job[w].m <= sent /\ ~IsLocal(job[w].p, job[w].q)  BY <2>1, <2>2, MovesTyped, AtOps
  <2>4. \A s \in Site, m \in Message : row'[s][m] # None => row[s][m] # None \/ m <= sent
    BY <2>1, <2>3 DEF RowSet, Others0
  <2>5. \A j \in Running : SameJob(job[w], j) /\ j.at = "count" => Place(j)
    BY <2>1, <2>3 DEF Place, SameJob
  <2>6. Places'  BY <2>1, <2>5, EndsWell, GoesWell
  <2> QED  BY <2>1, <2>4, <2>6, NumberFrame, Staying
<1> QED  BY <1>1, <1>2, <1>3, <1>4

LEMMA KnownSent ==
  ASSUME Typed, Numbered, NEW s \in Site, NEW m \in Message, row[s][m] \in MessageRow
  PROVE  m \in 1 .. sent /\ row[s][m] # None /\ m <= sent
<1>1. row[s][m] # None  BY RowFields
<1>2. m <= sent  BY <1>1 DEF Numbered, Known
<1>3. sent \in Nat /\ MaxMessages \in Nat  BY ChatAssumption DEF Typed, Marks
<1> QED  BY <1>1, <1>2, <1>3 DEF Message

LEMMA BeginPlaces ==
  ASSUME Typed, Typed', Places, Numbered, NEW w \in Worker, NEW p \in Person
  PROVE  /\ \A q \in Person : \A c \in Between(Lives[p], p, q) \cup {0} :
              Send(w, p, q, c) => Places' /\ Numbered'
         /\ \A m \in Message : Edit(w, p, m) => Places' /\ Numbered'
         /\ \A m \in Message, b \in BOOLEAN :
              Delete(w, p, m, b) \/ Mark(w, p, m, b) => Places' /\ Numbered'
         /\ MarkAll(w, p) => Places' /\ Numbered'
         /\ \A c \in DOMAIN conv[Lives[p]] :
              View(w, p, c) \/ Leave(w, p, c) \/ DeleteChat(w, p, c) => Places' /\ Numbered'
<1>1. ASSUME NEW q \in Person, NEW c \in Between(Lives[p], p, q) \cup {0}, Send(w, p, q, c)
      PROVE  Places' /\ Numbered'
  <2> DEFINE at == IF c = 0 THEN "open" ELSE "store"
             n == sent + 1
  <2>1. /\ sent' = n /\ n \in Message /\ sent \in Nat /\ UNCHANGED <<row, net>>
        /\ Starts(w, "send", p, q, n, c, at)
    BY <1>1, SendDoes DEF tables
  <2>2. Later /\ n \in 1 .. sent'  BY <2>1 DEF Later
  <2>3. \A j \in Running : j.op = "send" /\ j.p = p /\ j.q = q /\ j.m = n /\ j.at = at
                             => Place(j)
    BY DEF Place
  <2> HIDE DEF at, n
  <2>4. Places'  BY <2>1, <2>2, <2>3, StartsWell
  <2> QED  BY <2>1, <2>2, <2>4, NumberFrame
<1>2. ASSUME NEW m \in Message, Edit(w, p, m)  PROVE Places' /\ Numbered'
  <2>1. /\ UNCHANGED <<net, sent>> /\ Lives[p] \in Site /\ row[Lives[p]][m] \in MessageRow
        /\ \E q \in Person : Starts(w, "edit", p, q, m, row[Lives[p]][m].conv, Onward(p, q))
        /\ \E z : RowSet(Lives[p], m, z)
    BY <1>2, EditDoes
  <2>2. PICK q \in Person : Starts(w, "edit", p, q, m, row[Lives[p]][m].conv, Onward(p, q))
    BY <2>1
  <2>3. m \in 1 .. sent /\ m <= sent  BY <2>1, KnownSent
  <2>4. \A s \in Site, n \in Message : row'[s][n] # None => row[s][n] # None \/ n <= sent
    BY <2>1, <2>3 DEF RowSet, Others0
  <2>5. \A j \in Running : j.op = "edit" /\ j.p = p /\ j.q = q /\ j.m = m
                             /\ j.at = Onward(p, q) => Place(j)
    BY DEF Place
  <2>6. Places'  BY <2>1, <2>2, <2>3, <2>5, StartsWell, Staying
  <2> QED  BY <2>1, <2>4, <2>6, NumberFrame, Staying
<1>3. ASSUME NEW m \in Message, NEW b \in BOOLEAN, Delete(w, p, m, b)
      PROVE  Places' /\ Numbered'
  <2> DEFINE op == IF b THEN "delete" ELSE "restore"
  <2>1. /\ UNCHANGED <<net, sent>> /\ Lives[p] \in Site /\ row[Lives[p]][m] \in MessageRow
        /\ \E q \in Person : Starts(w, op, p, q, m, row[Lives[p]][m].conv, Turn(op, p, q))
        /\ \E z : RowSet(Lives[p], m, z)
    BY <1>3, DeleteDoes
  <2>2. PICK q \in Person : Starts(w, op, p, q, m, row[Lives[p]][m].conv, Turn(op, p, q))
    BY <2>1
  <2>3. m \in 1 .. sent /\ m <= sent  BY <2>1, KnownSent
  <2>4. \A s \in Site, n \in Message : row'[s][n] # None => row[s][n] # None \/ n <= sent
    BY <2>1, <2>3 DEF RowSet, Others0
  <2>5. op \notin {"read", "unread"} /\ op \in {"delete", "restore"}  OBVIOUS
  <2> HIDE DEF op
  <2>6. \A j \in Running : j.op = op /\ j.p = p /\ j.q = q /\ j.m = m
                             /\ j.at = Turn(op, p, q) => Place(j)
    BY <2>5 DEF Place, Turn, Onward
  <2>7. Places'  BY <2>1, <2>2, <2>3, <2>5, <2>6, StartsWell, Staying
  <2> QED  BY <2>1, <2>4, <2>7, NumberFrame, Staying
<1>4. ASSUME NEW m \in Message, NEW b \in BOOLEAN, Mark(w, p, m, b)
      PROVE  Places' /\ Numbered'
  <2> DEFINE op == IF b THEN "read" ELSE "unread"
  <2>1. UNCHANGED <<row, net, sent>> /\ Starts(w, op, p, p, m, 0, "count")
    BY <1>4, MarkDoes DEF tables
  <2>2. op \in {"read", "unread"} /\ op \notin Moving  BY DEF Moving
  <2> HIDE DEF op
  <2>3. \A j \in Running : j.op = op /\ j.p = p /\ j.q = p /\ j.m = m /\ j.at = "count"
                             => Place(j)
    BY <2>2 DEF Place
  <2>4. Places'  BY <2>1, <2>2, <2>3, StartsWell, Staying
  <2> QED  BY <2>1, <2>4, NumberFrame, Staying
<1>5. ASSUME MarkAll(w, p)  PROVE Places' /\ Numbered'
  <2>1. UNCHANGED <<row, net, sent>> /\ Starts(w, "all", p, p, 0, 0, "count")
    BY <1>5, MarkAllDoes DEF tables
  <2>2. "all" \notin Moving  BY DEF Moving
  <2>3. \A j \in Running : j.op = "all" /\ j.p = p /\ j.q = p /\ j.m = 0 /\ j.at = "count"
                             => Place(j)
    BY DEF Place
  <2>4. Places'  BY <2>1, <2>2, <2>3, StartsWell, Staying
  <2> QED  BY <2>1, <2>4, NumberFrame, Staying
<1>6. ASSUME NEW c \in DOMAIN conv[Lives[p]],
             View(w, p, c) \/ Leave(w, p, c) \/ DeleteChat(w, p, c)
      PROVE  Places' /\ Numbered'
  <2>1. /\ UNCHANGED <<row, net, sent>>
        /\ \E op \in {"view", "leave"}, at \in {"count", "look", "remove"} :
             /\ op = "view" <=> at = "count"
             /\ Starts(w, op, p, p, 0, c, at)
    BY <1>6, ViewDoes, LeaveDoes, DeleteChatDoes DEF tables
  <2>2. PICK op \in {"view", "leave"}, at \in {"count", "look", "remove"} :
             /\ op = "view" <=> at = "count"
             /\ Starts(w, op, p, p, 0, c, at)
    BY <2>1
  <2>3. op \notin Moving /\ op \notin {"read", "unread"}  BY DEF Moving
  <2>4. \A j \in Running : j.op = op /\ j.p = p /\ j.q = p /\ j.m = 0 /\ j.at = at
                             => Place(j)
    BY <2>2 DEF Place
  <2>5. Places'  BY <2>1, <2>2, <2>3, <2>4, StartsWell, Staying
  <2> QED  BY <2>1, <2>5, NumberFrame, Staying
<1> QED  BY <1>1, <1>2, <1>3, <1>4, <1>5, <1>6

LEMMA MailPlaces ==
  ASSUME Typed, Typed', Places, Numbered, NEW a \in BagToSet(net)
  PROVE  /\ \A w \in Worker : Receive(w, a) => Places' /\ Numbered'
         /\ ReceiveFlag(a) => Places' /\ Numbered'
<1>1. a.m <= sent /\ ~IsLocal(a.p, a.q) /\ a.m \in 1 .. sent /\ a.m \in Message
  <2>1. a.m <= sent /\ ~IsLocal(a.p, a.q)  BY DEF Numbered, Mail
  <2>2. a.m \in Message /\ sent \in Nat /\ MaxMessages \in Nat
    BY Types, MailTypes, ChatAssumption DEF Marks
  <2> QED  BY <2>1, <2>2 DEF Message
<1>2. ASSUME NEW w \in Worker, Receive(w, a)  PROVE Places' /\ Numbered'
  <2>1. /\ NetTake(a) /\ UNCHANGED <<row, sent>>
        /\ \E c : Starts(w, "receive", a.p, a.q, a.m, c, IF c = 0 THEN "open" ELSE "store")
    BY <1>2, ReceiveDoes DEF tables
  <2>2. PICK c : Starts(w, "receive", a.p, a.q, a.m, c, IF c = 0 THEN "open" ELSE "store")
    BY <2>1
  <2> DEFINE at == IF c = 0 THEN "open" ELSE "store"
  <2>3. \A j \in Running : j.op = "receive" /\ j.p = a.p /\ j.q = a.q /\ j.m = a.m /\ j.at = at
                             => Place(j)
    BY <1>1 DEF Place
  <2>4. Starts(w, "receive", a.p, a.q, a.m, c, at)  BY <2>2
  <2> HIDE DEF at
  <2>5. Places'  BY <1>1, <2>1, <2>3, <2>4, StartsWell, Staying
  <2>6. \A b \in BagToSet(net') : b \in BagToSet(net)  BY <2>1 DEF NetTake
  <2> QED  BY <2>1, <2>5, <2>6, NumberFrame, Staying
<1>3. ASSUME ReceiveFlag(a)  PROVE Places' /\ Numbered'
  <2>1. /\ NetTake(a) /\ UNCHANGED <<job, sent>>
        /\ row' = row \/ \E z : RowSet(Lives[a.q], a.m, z)
    BY <1>3, ReceiveFlagDoes
  <2>2. \A b \in BagToSet(net') : b \in BagToSet(net)  BY <2>1 DEF NetTake
  <2>3. \A s \in Site, n \in Message : row'[s][n] # None => row[s][n] # None \/ n <= sent
    BY <1>1, <2>1 DEF RowSet, Others0
  <2>4. Places'  BY <2>1 DEF Places, Placed, Idle
  <2> QED  BY <2>1, <2>2, <2>3, <2>4, NumberFrame, Staying
<1> QED  BY <1>2, <1>3

LEMMA PlacesNext == Typed /\ Places /\ Numbered /\ [Next]_vars => Places' /\ Numbered'
<1> SUFFICES ASSUME Typed, Places, Numbered, [Next]_vars PROVE Places' /\ Numbered'
  OBVIOUS
<1>1. Typed'  BY TypesNext
<1>2. CASE UNCHANGED vars
  BY <1>2 DEF vars, Places, Placed, Idle, Numbered, Known, Mail
<1>3. CASE Next
  BY <1>1, <1>3, SamePlaces, OnPlaces, BeginPlaces, MailPlaces DEF Next
<1> QED  BY <1>2, <1>3

LEMMA InitPlaces == Init => Places /\ Numbered
<1> SUFFICES ASSUME Init PROVE Places /\ Numbered
  OBVIOUS
<1>1. Places  BY DEF Init, Places, Idle
<1>2. BagToSet(net) = {}  BY NoneIn DEF Init
<1>3. Numbered  BY <1>2 DEF Init, Numbered, Known, Mail
<1> QED  BY <1>1, <1>3

-----------------------------------------------------------------------------
(***************************************************************************)
(* Conversations: those a request knows are of the two it is about, and    *)
(* all have joined one that nobody has left.                               *)
(***************************************************************************)
ConvStep ==
  \A s \in Site :
    /\ opened'[s] \in Nat /\ opened[s] <= opened'[s]
    /\ \A c \in DOMAIN conv'[s] : c <= opened[s] =>
         c \in DOMAIN conv[s] /\ conv'[s][c].who = conv[s][c].who
Joined ==
  \A s \in Site : \A c \in DOMAIN conv[s] :
    conv[s][c].who \notin left => conv[s][c].joined = conv[s][c].who
RoomOf(j, s) ==
  /\ j.op \in {"send", "receive"} /\ j.at = "store" =>
       j.c <= opened[s] /\ (j.c \in DOMAIN conv[s] => conv[s][j.c].who = {j.p, j.q})
  /\ j.op = "leave" =>
       j.c <= opened[s] /\ (j.c \in DOMAIN conv[s] => conv[s][j.c].who \in left)
RoomNext(j, s) ==
  /\ j.op \in {"send", "receive"} /\ j.at = "store" =>
       j.c <= opened'[s] /\ (j.c \in DOMAIN conv'[s] => conv'[s][j.c].who = {j.p, j.q})
  /\ j.op = "leave" =>
       j.c <= opened'[s] /\ (j.c \in DOMAIN conv'[s] => conv'[s][j.c].who \in left')
SiteOf(j) == IF j.op = "receive" THEN Lives[j.q] ELSE Lives[j.p]
RoomIn(j) == RoomOf(j, SiteOf(j))

LEMMA RoomSplit == Rooms <=> Joined /\ \A w \in Worker : RoomIn(job[w])
  BY DEF Rooms, Joined, InRoom, WorksAt, RoomIn, RoomOf, SiteOf
LEMMA RoomSplitNext == Joined' /\ (\A w \in Worker : RoomIn(job[w])') => Rooms'
  BY DEF Rooms, Joined, InRoom, WorksAt, RoomIn, RoomOf, SiteOf
LEMMA SiteIn == \A j \in Running : SiteOf(j) \in Site
  BY Fields, LivesType DEF SiteOf

LEMMA SameConv == ASSUME Typed, UNCHANGED <<conv, opened>> PROVE ConvStep
<1>1. \A s \in Site : opened[s] \in Nat  BY DEF Typed, ConvTypes
<1> QED  BY <1>1 DEF ConvStep

\* What a request knows stays so.
LEMMA RoomKept ==
  ASSUME Typed, ConvStep, left \subseteq left', NEW j \in Running, RoomIn(j)
  PROVE  RoomNext(j, SiteOf(j))
<1> DEFINE s == SiteOf(j)
<1>1. s \in Site /\ j.c \in Nat  BY SiteIn, Fields
<1>2. /\ opened[s] \in Nat /\ opened'[s] \in Nat /\ opened[s] <= opened'[s]
      /\ j.c \in DOMAIN conv'[s] /\ j.c <= opened[s] =>
           j.c \in DOMAIN conv[s] /\ conv'[s][j.c].who = conv[s][j.c].who
  BY <1>1 DEF ConvStep, Typed, ConvTypes
<1>3. RoomOf(j, s)  BY DEF RoomIn
<1>4. j.c <= opened[s] => j.c <= opened'[s]  BY <1>1, <1>2
<1> HIDE DEF s
<1>5. RoomNext(j, s)  BY <1>2, <1>3, <1>4 DEF RoomOf, RoomNext
<1> QED  BY <1>5 DEF s

LEMMA RoomsFrame ==
  ASSUME Typed, Rooms, ConvStep, left \subseteq left', NEW w \in Worker, Others(w),
         job'[w] = NoJob \/ RoomIn(job[w])', Joined'
  PROVE  Rooms'
<1>1. ASSUME NEW v \in Worker  PROVE RoomIn(job[v])'
  <2>1. CASE job'[v] = NoJob  BY <2>1 DEF RoomIn, RoomOf, NoJob
  <2>2. CASE v = w /\ job'[v] # NoJob  BY <2>2
  <2>3. CASE v # w /\ job'[v] # NoJob
    <3>1. job'[v] = job[v] /\ job[v] \in Running  BY <2>3 DEF Others, Typed, JobTypes
    <3>2. RoomIn(job[v])  BY RoomSplit
    <3>3. RoomNext(job[v], SiteOf(job[v]))  BY <3>1, <3>2, RoomKept
    <3> QED  BY <3>1, <3>3 DEF RoomIn, RoomOf, RoomNext, SiteOf
  <2> QED  BY <2>1, <2>2, <2>3
<1> QED  BY <1>1, RoomSplitNext

\* A request that no longer stores or leaves anything.
LEMMA NoRoom ==
  ASSUME NEW w \in Worker, job'[w].op # "leave", job'[w].at # "store"
  PROVE  RoomIn(job[w])'
  BY DEF RoomIn, RoomOf

LEMMA RoomsOn ==
  ASSUME Typed, Typed', Places, Rooms, NEW w \in Worker,
         Open(w) \/ StoreSent(w) \/ Address(w) \/ Post(w) \/ Finish(w)
           \/ StoreReceived(w) \/ Count(w) \/ Write(w) \/ LookLeft(w) \/ Remove(w)
  PROVE  Rooms'
<1>0. Joined /\ RoomIn(job[w])  BY RoomSplit
<1>1. ASSUME UNCHANGED <<conv, opened, left>>, Others(w),
             job'[w] = NoJob \/ (job'[w].op # "leave" /\ job'[w].at # "store")
      PROVE  Rooms'
  <2>1. ConvStep /\ left \subseteq left'  BY <1>1, SameConv
  <2>2. Joined'  BY <1>0, <1>1 DEF Joined
  <2>3. job'[w] = NoJob \/ RoomIn(job[w])'  BY <1>1, NoRoom
  <2> QED  BY <1>1, <2>1, <2>2, <2>3, RoomsFrame
<1>2. ASSUME UNCHANGED <<conv, opened, left>>, Ends(w)  PROVE Rooms'
  BY <1>1, <1>2 DEF Ends
<1>3. ASSUME NEW at \in {"address", "post", "count", "write"}, GoesOn(w, at),
             job[w].op # "leave", UNCHANGED <<conv, opened, left>>
      PROVE  Rooms'
  BY <1>1, <1>3 DEF GoesOn, SameJob
<1>4. CASE Open(w)
  <2> DEFINE j == job[w]
             s == WorksAt(w)
             c == opened[s] + 1
  <2>1. /\ At(w, "open") /\ s \in Site /\ opened[s] \in Nat /\ GoesOn(w, "store")
        /\ job'[w].c = c /\ Opened(s, c, {j.p, j.q}) /\ left' = left
    BY <1>4, OpenDoes
  <2>2. ~Idle(w) /\ j.op \in {"send", "receive"} /\ c \in Nat  BY <2>1, Somewhere, AtOps
  <2>3. \A t \in Site : opened[t] \in Nat  BY DEF Typed, ConvTypes
  <2>4. /\ opened'[s] = c /\ \A t \in Site : t # s => opened'[t] = opened[t]
        /\ \A t \in Site : t # s => conv'[t] = conv[t]
        /\ DOMAIN conv'[s] = DOMAIN conv[s] \cup {c}
        /\ conv'[s][c].who = {j.p, j.q} /\ conv'[s][c].joined = {j.p, j.q}
        /\ \A d \in DOMAIN conv[s] : d # c => conv'[s][d] = conv[s][d]
    BY <2>1 DEF Opened, Typed, ConvTypes
  <2>5. job'[w].op = j.op /\ job'[w].p = j.p /\ job'[w].q = j.q /\ Others(w)
        /\ s = IF j.op = "receive" THEN Lives[j.q] ELSE Lives[j.p]
    BY <2>1 DEF GoesOn, SameJob, WorksAt
  <2> HIDE DEF j, s
  <2>6. ConvStep
    <3> SUFFICES ASSUME NEW t \in Site
                 PROVE  /\ opened'[t] \in Nat /\ opened[t] <= opened'[t]
                        /\ \A d \in DOMAIN conv'[t] : d <= opened[t] =>
                             d \in DOMAIN conv[t] /\ conv'[t][d].who = conv[t][d].who
      BY DEF ConvStep
    <3>1. CASE t = s
      <4>1. \A d \in DOMAIN conv'[t] : d <= opened[t] => d # c  BY <2>1, <3>1
      <4> QED  BY <2>1, <2>2, <2>4, <3>1, <4>1
    <3>2. CASE t # s  BY <2>3, <2>4, <3>2
    <3> QED  BY <3>1, <3>2
  <2>7. Joined'
    <3> SUFFICES ASSUME NEW t \in Site, NEW d \in DOMAIN conv'[t], conv'[t][d].who \notin left
                 PROVE  conv'[t][d].joined = conv'[t][d].who
      BY <2>1 DEF Joined
    <3>1. CASE t = s /\ d = c  BY <2>4, <3>1
    <3>2. CASE t # s \/ d # c
      <4>1. d \in DOMAIN conv[t] /\ conv'[t][d] = conv[t][d]  BY <2>4, <3>2
      <4> QED  BY <1>0, <4>1 DEF Joined
    <3> QED  BY <3>1, <3>2
  <2>8. c <= opened'[s]  BY <2>2, <2>4
  <2>9. RoomIn(job[w])'
    <3>1. SiteOf(job'[w]) = s  BY <2>5 DEF SiteOf
    <3>2. RoomNext(job'[w], s)  BY <2>1, <2>2, <2>4, <2>5, <2>8 DEF RoomNext
    <3>3. RoomNext(job'[w], SiteOf(job'[w])) => RoomIn(job[w])'
      BY DEF RoomIn, RoomOf, RoomNext, SiteOf
    <3> QED  BY <3>1, <3>2, <3>3
  <2> QED  BY <2>1, <2>5, <2>6, <2>7, <2>9, RoomsFrame
<1>5. CASE StoreSent(w)
  <2>1. /\ job[w].op = "send" /\ UNCHANGED <<conv, opened, left>>
        /\ GoesOn(w, "address") \/ Ends(w)
    BY <1>5, StoreSentDoes
  <2> QED  BY <2>1, <1>2, <1>3
<1>6. CASE Address(w)
  <2>1. /\ job[w].op = "send" /\ UNCHANGED <<conv, opened, left>>
        /\ GoesOn(w, Onward(job[w].p, job[w].q)) \/ Ends(w)
    BY <1>6, AddressDoes
  <2>2. Onward(job[w].p, job[w].q) \in {"post", "count"}  BY DEF Onward
  <2> QED  BY <2>1, <2>2, <1>2, <1>3
<1>7. CASE Post(w) \/ Finish(w) \/ Write(w)
  <2>1. UNCHANGED <<conv, opened, left>> /\ Ends(w)
    BY <1>7, PostDoes, FinishDoes, WriteDoes DEF tables
  <2> QED  BY <2>1, <1>2
<1>8. CASE StoreReceived(w)
  <2>1. /\ job[w].op = "receive" /\ UNCHANGED <<conv, opened, left>>
        /\ GoesOn(w, "count") \/ Ends(w)
    BY <1>8, StoreReceivedDoes
  <2> QED  BY <2>1, <1>2, <1>3
<1>9. CASE Count(w)
  <2>1. At(w, "count") /\ UNCHANGED <<conv, opened, left>> /\ GoesOn(w, "write")
    BY <1>9, CountDoes DEF tables
  <2>2. job[w].op # "leave"  BY <2>1, AtOps
  <2> QED  BY <2>1, <2>2, <1>3
<1>10. CASE LookLeft(w)
  <2>1. /\ job[w].op = "leave" /\ UNCHANGED <<conv, opened, left>>
        /\ Ends(w) \/ (GoesOn(w, "remove") /\ job'[w].c = job[w].c)
    BY <1>10, LookLeftDoes DEF tables
  <2>2. ASSUME GoesOn(w, "remove"), job'[w].c = job[w].c  PROVE Rooms'
    <3>1. ConvStep /\ left \subseteq left' /\ Joined'
      BY <1>0, <2>1, SameConv DEF Joined
    <3>2. Others(w) /\ job'[w].op = "leave" /\ job'[w].p = job[w].p /\ job'[w].at = "remove"
      BY <2>1, <2>2 DEF GoesOn, SameJob
    <3>3. RoomIn(job[w])'
      BY <1>0, <2>1, <2>2, <3>2 DEF RoomIn, RoomOf, SiteOf
    <3> QED  BY <3>1, <3>2, <3>3, RoomsFrame
  <2> QED  BY <2>1, <2>2, <1>2
<1>11. CASE Remove(w)
  <2> DEFINE s == Lives[job[w].p]
             c == job[w].c
  <2>1. /\ s \in Site /\ Ends(w) /\ UNCHANGED <<opened, left>>
        /\ (c \in DOMAIN conv[s] /\ Removes(s, c)) \/ UNCHANGED <<conv, row>>
    BY <1>11, RemoveDoes
  <2>2. CASE UNCHANGED conv  BY <2>1, <2>2, <1>2
  <2>3. CASE Removes(s, c)
    <3> HIDE DEF s, c
    <3>2. ASSUME NEW t \in Site, NEW d \in DOMAIN conv'[t]
          PROVE  d \in DOMAIN conv[t] /\ conv'[t][d] = conv[t][d]
      <4>1. CASE t = s  BY <2>3, <4>1 DEF Removes
      <4>2. CASE t # s  BY <2>3, <4>2 DEF Removes
      <4> QED  BY <4>1, <4>2
    <3>3. ConvStep
      <4>1. \A t \in Site : opened[t] \in Nat  BY DEF Typed, ConvTypes
      <4> QED  BY <2>1, <3>2, <4>1 DEF ConvStep
    <3>4. Joined'  BY <1>0, <2>1, <3>2 DEF Joined
    <3> QED  BY <2>1, <3>3, <3>4, RoomsFrame DEF Ends
  <2> QED  BY <2>1, <2>2, <2>3
<1> QED  BY <1>4, <1>5, <1>6, <1>7, <1>8, <1>9, <1>10, <1>11

LEMMA RoomsBegin ==
  ASSUME Typed, Typed', Rooms, NEW w \in Worker, NEW op, NEW p, NEW q, NEW m, NEW c, NEW at,
         Starts(w, op, p, q, m, c, at), UNCHANGED <<conv, opened>>, left \subseteq left',
         op # "leave", at = "store" => c \in Between(SiteOf(job'[w]), p, q)
  PROVE  Rooms'
<1>0. Joined  BY RoomSplit
<1>1. ConvStep  BY SameConv
<1>2. Joined'  BY <1>0 DEF Joined
<1>3. /\ Others(w) /\ job'[w] \in Running /\ job'[w].op = op /\ job'[w].p = p /\ job'[w].q = q
      /\ job'[w].c = c /\ job'[w].at = at
  BY DEF Starts
<1> DEFINE s == SiteOf(job'[w])
<1>4. s \in Site  BY <1>3, SiteIn
<1> HIDE DEF s
<1>5. ASSUME at = "store"
      PROVE  c <= opened'[s] /\ (c \in DOMAIN conv'[s] => conv'[s][c].who = {p, q})
  <2>1. c \in DOMAIN conv[s] /\ conv[s][c].who = {p, q}  BY <1>5 DEF Between, s
  <2>2. c <= opened[s]  BY <1>4, <2>1, Types, ConvFields
  <2> QED  BY <2>1, <2>2
<1>6. RoomNext(job'[w], s)  BY <1>3, <1>5 DEF RoomNext
<1>7. RoomIn(job[w])'
  <2>1. RoomNext(job'[w], SiteOf(job'[w])) => RoomIn(job[w])'
    BY DEF RoomIn, RoomOf, RoomNext, SiteOf
  <2> QED  BY <1>6, <2>1 DEF s
<1> QED  BY <1>1, <1>2, <1>3, <1>7, RoomsFrame

LEMMA RoomsLeave ==
  ASSUME Typed, Typed', Rooms, NEW w \in Worker, NEW p \in Person,
         NEW c \in DOMAIN conv[Lives[p]], Leave(w, p, c) \/ DeleteChat(w, p, c)
  PROVE  Rooms'
<1> DEFINE s == Lives[p]
<1>0. Joined  BY RoomSplit
<1>1. PICK at \in {"look", "remove"} : Starts(w, "leave", p, p, 0, c, at)
  BY LeaveDoes, DeleteChatDoes
<1>2. /\ s \in Site /\ left' = left \cup {conv[s][c].who} /\ opened' = opened
      /\ \A t \in Site : t # s => conv'[t] = conv[t]
      /\ DOMAIN conv'[s] = DOMAIN conv[s] /\ conv'[s][c].who = conv[s][c].who
      /\ \A d \in DOMAIN conv[s] : d # c => conv'[s][d] = conv[s][d]
  BY LeaveDoes, DeleteChatDoes DEF tables
<1>3. /\ Others(w) /\ job'[w] \in Running /\ job'[w].op = "leave" /\ job'[w].p = p
      /\ job'[w].c = c /\ job'[w].at = at
  BY <1>1 DEF Starts
<1>4. c <= opened[s] /\ \A t \in Site : opened[t] \in Nat
  BY <1>2, Types, ConvFields DEF ConvTypes
<1> HIDE DEF s
<1>5. ASSUME NEW t \in Site, NEW d \in DOMAIN conv'[t]
      PROVE  d \in DOMAIN conv[t] /\ conv'[t][d].who = conv[t][d].who
             /\ (t # s \/ d # c => conv'[t][d] = conv[t][d])
  <2>1. CASE t = s  BY <1>2, <2>1
  <2>2. CASE t # s  BY <1>2, <2>2
  <2> QED  BY <2>1, <2>2
<1>6. ConvStep  BY <1>2, <1>4, <1>5 DEF ConvStep
<1>7. Joined'
  <2> SUFFICES ASSUME NEW t \in Site, NEW d \in DOMAIN conv'[t], conv'[t][d].who \notin left'
               PROVE  conv'[t][d].joined = conv'[t][d].who
    BY DEF Joined
  <2>1. t # s \/ d # c  BY <1>2
  <2>2. d \in DOMAIN conv[t] /\ conv'[t][d] = conv[t][d]  BY <1>5, <2>1
  <2>3. conv[t][d].who \notin left  BY <1>2, <2>2
  <2> QED  BY <1>0, <2>2, <2>3 DEF Joined
<1>8. RoomIn(job[w])'
  <2>1. SiteOf(job'[w]) = s  BY <1>3 DEF SiteOf, s
  <2>2. RoomNext(job'[w], s)  BY <1>2, <1>3, <1>4 DEF RoomNext
  <2>3. RoomNext(job'[w], SiteOf(job'[w])) => RoomIn(job[w])'
    BY DEF RoomIn, RoomOf, RoomNext, SiteOf
  <2> QED  BY <2>1, <2>2, <2>3
<1> QED  BY <1>2, <1>3, <1>6, <1>7, <1>8, RoomsFrame

LEMMA RoomsNext ==
  Typed /\ Places /\ Rooms /\ [Next]_vars => Rooms'
<1> SUFFICES ASSUME Typed, Places, Rooms, [Next]_vars PROVE Rooms'
  OBVIOUS
<1>1. Typed'  BY TypesNext
<1>2. CASE UNCHANGED vars
  BY <1>2 DEF vars, Rooms, InRoom, WorksAt
<1>3. ASSUME NEW w \in Worker, NEW p \in Person, NEW q \in Person,
             NEW c \in Between(Lives[p], p, q) \cup {0}, Send(w, p, q, c)
      PROVE  Rooms'
  <2> DEFINE at == IF c = 0 THEN "open" ELSE "store"
  <2>1. /\ Starts(w, "send", p, q, sent + 1, c, at) /\ UNCHANGED <<conv, opened, left>>
    BY <1>3, SendDoes DEF tables
  <2>2. SiteOf(job'[w]) = Lives[p]  BY <2>1 DEF Starts, SiteOf
  <2>3. at = "store" => c \in Between(SiteOf(job'[w]), p, q)  BY <2>2
  <2> HIDE DEF at
  <2> QED  BY <1>1, <2>1, <2>3, RoomsBegin
<1>4. ASSUME NEW w \in Worker,
             Open(w) \/ StoreSent(w) \/ Address(w) \/ Post(w) \/ Finish(w)
               \/ StoreReceived(w) \/ Count(w) \/ Write(w) \/ LookLeft(w) \/ Remove(w)
      PROVE  Rooms'
  BY <1>1, <1>4, RoomsOn
<1>5. ASSUME NEW w \in Worker, NEW p \in Person, NEW m \in Message, NEW b \in BOOLEAN,
             Edit(w, p, m) \/ Delete(w, p, m, b) \/ Mark(w, p, m, b)
      PROVE  Rooms'
  <2>1. /\ UNCHANGED <<conv, opened, left>>
        /\ \E op, q, c, at : /\ Starts(w, op, p, q, m, c, at)
                             /\ op # "leave" /\ at # "store"
    <3>1. CASE Edit(w, p, m)  BY <3>1, EditDoes DEF Onward
    <3>2. CASE Delete(w, p, m, b)  BY <3>2, DeleteDoes DEF Turn, Onward
    <3>3. CASE Mark(w, p, m, b)  BY <3>3, MarkDoes DEF tables
    <3> QED  BY <1>5, <3>1, <3>2, <3>3
  <2> QED  BY <1>1, <2>1, RoomsBegin
<1>6. ASSUME NEW w \in Worker, NEW p \in Person, MarkAll(w, p)  PROVE Rooms'
  <2>1. UNCHANGED <<conv, opened, left>> /\ Starts(w, "all", p, p, 0, 0, "count")
    BY <1>6, MarkAllDoes DEF tables
  <2> QED  BY <1>1, <2>1, RoomsBegin
<1>7. ASSUME NEW w \in Worker, NEW p \in Person, NEW c \in DOMAIN conv[Lives[p]], View(w, p, c)
      PROVE  Rooms'
  <2>1. UNCHANGED <<conv, opened, left>> /\ Starts(w, "view", p, p, 0, c, "count")
    BY <1>7, ViewDoes
  <2> QED  BY <1>1, <2>1, RoomsBegin
<1>8. ASSUME NEW w \in Worker, NEW p \in Person, NEW c \in DOMAIN conv[Lives[p]],
             Leave(w, p, c) \/ DeleteChat(w, p, c)
      PROVE  Rooms'
  BY <1>1, <1>8, RoomsLeave
<1>9. ASSUME NEW w \in Worker, NEW a \in BagToSet(net), Receive(w, a)  PROVE Rooms'
  <2>1. /\ UNCHANGED <<conv, opened, left>>
        /\ \E c \in Between(Lives[a.q], a.p, a.q) \cup {0} :
              Starts(w, "receive", a.p, a.q, a.m, c, IF c = 0 THEN "open" ELSE "store")
    BY <1>9, ReceiveDoes DEF tables
  <2>2. PICK c \in Between(Lives[a.q], a.p, a.q) \cup {0} :
              Starts(w, "receive", a.p, a.q, a.m, c, IF c = 0 THEN "open" ELSE "store")
    BY <2>1
  <2> DEFINE at == IF c = 0 THEN "open" ELSE "store"
  <2>3. Starts(w, "receive", a.p, a.q, a.m, c, at)  BY <2>2
  <2>4. SiteOf(job'[w]) = Lives[a.q]  BY <2>3 DEF Starts, SiteOf
  <2>5. at = "store" => c \in Between(SiteOf(job'[w]), a.p, a.q)  BY <2>4
  <2> HIDE DEF at
  <2> QED  BY <1>1, <2>1, <2>3, <2>5, RoomsBegin
<1>10. ASSUME NEW a \in BagToSet(net), ReceiveFlag(a)  PROVE Rooms'
  <2>1. UNCHANGED <<conv, opened, left, job>>  BY <1>10, ReceiveFlagDoes
  <2> QED  BY <2>1 DEF Rooms, InRoom, WorksAt
<1> QED
  BY <1>2, <1>3, <1>4, <1>5, <1>6, <1>7, <1>8, <1>9, <1>10 DEF Next

LEMMA InitRooms == Init => Rooms
  BY DEF Init, Rooms, InRoom, NoJob

-----------------------------------------------------------------------------
(***************************************************************************)
(* The number at the bell.                                                 *)
(***************************************************************************)
ReaderOf(j) == IF j.op \in {"send", "edit", "receive"} THEN j.q ELSE j.p
Looks(j, p) == j # NoJob /\ j.op = "view" /\ j.at = "count" /\ ReaderOf(j) = p
Counts(j, p) == j # NoJob /\ j.at = "write" /\ ReaderOf(j) = p
Heeds(j, B, u) ==
  /\ j.op # "all" => j.num = Unread(B)
  /\ j.op \notin {"view", "all"} => u = Unread(B)
  /\ j.op \in {"read", "unread", "all"} => j.seen = BagToSet(B)
\* BellRight, of jobs.
Bell0(jobs, p, B, u, mud) ==
  p \notin mud =>
    /\ \A v, w \in Worker : Counts(jobs[v], p) /\ Counts(jobs[w], p) => v = w
    /\ (\A w \in Worker : ~Looks(jobs[w], p)) =>
         /\ (\A w \in Worker : ~Counts(jobs[w], p)) => u = Unread(B)
         /\ \A w \in Worker : Counts(jobs[w], p) => Heeds(jobs[w], B, u)
NowBell(p) == Bell0(job, p, notes[p], unread[p], muddled)
ThenBell(p) == Bell0(job', p, notes'[p], unread'[p], muddled')

LEMMA Bells ==
  ASSUME NEW p
  PROVE  (BellRight(p) <=> NowBell(p)) /\ (BellRight(p)' <=> ThenBell(p))
<1>1. BellRight(p) <=> NowBell(p)
  <2>1. \A w : w \in Counting(p) <=> w \in Worker /\ Counts(job[w], p)
    BY DEF Counting, Counts, At, Idle, Reader, ReaderOf
  <2>2. Viewing(p) <=> \E w \in Worker : Looks(job[w], p)
    BY DEF Viewing, Looks, At, Idle, Reader, ReaderOf
  <2>3. \A w : Writes(w, p) <=> Heeds(job[w], notes[p], unread[p])
    BY DEF Writes, Heeds
  <2>4. Counting(p) = {} <=> \A w \in Worker : ~Counts(job[w], p)  BY <2>1
  <2>5. (\A v, w \in Counting(p) : v = w) <=>
        \A v, w \in Worker : Counts(job[v], p) /\ Counts(job[w], p) => v = w
    BY <2>1
  <2>6. (\A w \in Counting(p) : Writes(w, p)) <=>
        \A w \in Worker : Counts(job[w], p) => Heeds(job[w], notes[p], unread[p])
    BY <2>1, <2>3
  <2> QED  BY <2>2, <2>4, <2>5, <2>6 DEF BellRight, NowBell, Bell0
<1>2. BellRight(p)' <=> ThenBell(p)
  <2>1. \A w : w \in Counting(p)' <=> w \in Worker /\ Counts(job'[w], p)
    BY DEF Counting, Counts, At, Idle, Reader, ReaderOf
  <2>2. Viewing(p)' <=> \E w \in Worker : Looks(job'[w], p)
    BY DEF Viewing, Looks, At, Idle, Reader, ReaderOf
  <2>3. \A w : Writes(w, p)' <=> Heeds(job'[w], notes'[p], unread'[p])
    BY DEF Writes, Heeds
  <2>4. Counting(p)' = {} <=> \A w \in Worker : ~Counts(job'[w], p)  BY <2>1
  <2>5. (\A v, w \in Counting(p)' : v = w) <=>
        \A v, w \in Worker : Counts(job'[v], p) /\ Counts(job'[w], p) => v = w
    BY <2>1
  <2>6. (\A w \in Counting(p)' : Writes(w, p)') <=>
        \A w \in Worker : Counts(job'[w], p) => Heeds(job'[w], notes'[p], unread'[p])
    BY <2>1, <2>3
  <2> QED  BY <2>2, <2>4, <2>5, <2>6 DEF BellRight, ThenBell, Bell0
<1> QED  BY <1>1, <1>2

\* A request that neither counts for somebody nor is about to.
LEMMA BellFrame ==
  ASSUME NEW p, BellRight(p), NEW w \in Worker, Others(w),
         ~Counts(job[w], p), ~Counts(job'[w], p), Looks(job[w], p) => Looks(job'[w], p),
         notes'[p] = notes[p], unread'[p] = unread[p], p \in muddled => p \in muddled'
  PROVE  BellRight(p)'
<1>1. NowBell(p)  BY Bells
<1>2. \A v \in Worker : v # w => job'[v] = job[v]  BY DEF Others
<1>3. \A v \in Worker : Counts(job'[v], p) <=> Counts(job[v], p)  BY <1>2
<1>4. \A v \in Worker : Counts(job[v], p) => job'[v] = job[v]  BY <1>2
<1>5. (\A v \in Worker : ~Looks(job'[v], p)) => \A v \in Worker : ~Looks(job[v], p)
  BY <1>2
<1>6. ThenBell(p)
  <2> SUFFICES ASSUME p \notin muddled'
               PROVE  /\ \A u, v \in Worker : Counts(job'[u], p) /\ Counts(job'[v], p) => u = v
                      /\ (\A v \in Worker : ~Looks(job'[v], p)) =>
                           /\ (\A v \in Worker : ~Counts(job'[v], p)) => unread'[p] = Unread(notes'[p])
                           /\ \A v \in Worker : Counts(job'[v], p) =>
                                Heeds(job'[v], notes'[p], unread'[p])
    BY DEF ThenBell, Bell0
  <2>1. /\ \A u, v \in Worker : Counts(job[u], p) /\ Counts(job[v], p) => u = v
        /\ (\A v \in Worker : ~Looks(job[v], p)) =>
             /\ (\A v \in Worker : ~Counts(job[v], p)) => unread[p] = Unread(notes[p])
             /\ \A v \in Worker : Counts(job[v], p) => Heeds(job[v], notes[p], unread[p])
    BY <1>1 DEF NowBell, Bell0
  <2>2. \A u, v \in Worker : Counts(job'[u], p) /\ Counts(job'[v], p) => u = v
    BY <1>3, <2>1
  <2>3. ASSUME \A v \in Worker : ~Looks(job'[v], p)
        PROVE  /\ (\A v \in Worker : ~Counts(job'[v], p)) => unread'[p] = Unread(notes'[p])
               /\ \A v \in Worker : Counts(job'[v], p) => Heeds(job'[v], notes'[p], unread'[p])
    <3>1. \A v \in Worker : ~Looks(job[v], p)  BY <1>5, <2>3
    <3>2. (\A v \in Worker : ~Counts(job'[v], p)) => \A v \in Worker : ~Counts(job[v], p)
      BY <1>3
    <3>3. (\A v \in Worker : ~Counts(job'[v], p)) => unread'[p] = Unread(notes'[p])
      BY <2>1, <3>1, <3>2
    <3>4. ASSUME NEW v \in Worker, Counts(job'[v], p)
          PROVE  Heeds(job'[v], notes'[p], unread'[p])
      <4>1. Counts(job[v], p) /\ job'[v] = job[v]  BY <1>3, <1>4, <3>4
      <4>2. Heeds(job[v], notes[p], unread[p])  BY <2>1, <3>1, <4>1
      <4> QED  BY <4>1, <4>2
    <3> QED  BY <3>3, <3>4
  <2> QED  BY <2>2, <2>3
<1> QED  BY <1>6, Bells

\* A request that counts for nobody, before and after.
Silent(j) == j = NoJob \/ (j.at # "write" /\ (j.at = "count" => j.op # "view"))
LEMMA BellsFrame ==
  ASSUME BellsRight, NEW w \in Worker, Others(w), Silent(job[w]), Silent(job'[w]),
         UNCHANGED <<notes, unread, muddled>>
  PROVE  BellsRight'
<1> SUFFICES ASSUME NEW p \in Person PROVE BellRight(p)'
  BY DEF BellsRight
<1>1. BellRight(p)  BY DEF BellsRight
<1>2. ~Counts(job[w], p) /\ ~Counts(job'[w], p) /\ ~Looks(job[w], p)
  BY DEF Silent, Counts, Looks
<1> QED  BY <1>1, <1>2, BellFrame

LEMMA BellsOn ==
  ASSUME Typed, Typed', Places, BellsRight, NEW w \in Worker,
         Open(w) \/ StoreSent(w) \/ Address(w) \/ Post(w) \/ Finish(w)
           \/ StoreReceived(w) \/ LookLeft(w) \/ Remove(w)
  PROVE  BellsRight'
<1>1. /\ UNCHANGED <<notes, unread, muddled>>
      /\ \E at \in {"open", "store", "address", "post", "end", "look", "remove"} : At(w, at)
      /\ \/ Ends(w)
         \/ \E at \in {"store", "address", "post", "remove"} : GoesOn(w, at)
         \/ GoesOn(w, "count") /\ job[w].op # "view"
  <2>1. CASE Open(w)  BY <2>1, OpenDoes
  <2>2. CASE StoreSent(w)  BY <2>2, StoreSentDoes
  <2>3. CASE Address(w)
    <3>1. Onward(job[w].p, job[w].q) \in {"post", "count"}  BY DEF Onward
    <3> QED  BY <2>3, <3>1, AddressDoes
  <2>4. CASE Post(w) \/ Finish(w)  BY <2>4, PostDoes, FinishDoes DEF tables
  <2>5. CASE StoreReceived(w)  BY <2>5, StoreReceivedDoes
  <2>6. CASE LookLeft(w)  BY <2>6, LookLeftDoes DEF tables
  <2>7. CASE Remove(w)  BY <2>7, RemoveDoes
  <2> QED  BY <2>1, <2>2, <2>3, <2>4, <2>5, <2>6, <2>7
<1>2. Silent(job[w])  BY <1>1, Somewhere DEF Silent
<1>3. Silent(job'[w]) /\ Others(w)  BY <1>1 DEF Ends, GoesOn, SameJob, Silent
<1> QED  BY <1>1, <1>2, <1>3, BellsFrame

LEMMA BellsBegin ==
  ASSUME Typed, BellsRight, NEW w \in Worker, NEW op, NEW p, NEW q, NEW m, NEW c, NEW at,
         Starts(w, op, p, q, m, c, at), UNCHANGED <<notes, unread, muddled>>,
         op # "view", at # "write"
  PROVE  BellsRight'
<1>1. Others(w) /\ Silent(job[w]) /\ Silent(job'[w])  BY DEF Starts, Idle, Silent
<1> QED  BY <1>1, BellsFrame

LEMMA BellsView ==
  ASSUME Typed, BellsRight, NEW w \in Worker, NEW p \in Person,
         NEW c \in DOMAIN conv[Lives[p]], View(w, p, c)
  PROVE  BellsRight'
<1>1. /\ Starts(w, "view", p, p, 0, c, "count") /\ UNCHANGED <<unread, muddled>>
      /\ \A x \in Person : x # p => notes'[x] = notes[x]
  BY ViewDoes
<1>2. /\ Others(w) /\ job[w] = NoJob /\ job'[w] # NoJob /\ job'[w].op = "view"
      /\ job'[w].at = "count" /\ job'[w].p = p
  BY <1>1, Fields DEF Starts, Idle
<1> SUFFICES ASSUME NEW x \in Person PROVE BellRight(x)'
  BY DEF BellsRight
<1>3. BellRight(x)  BY DEF BellsRight
<1>4. ~Counts(job[w], x) /\ ~Counts(job'[w], x) /\ ~Looks(job[w], x)
  BY <1>2 DEF Counts, Looks
<1>5. CASE x # p  BY <1>1, <1>2, <1>3, <1>4, <1>5, BellFrame
<1>6. CASE x = p
  <2>1. Looks(job'[w], x)  BY <1>2, <1>6 DEF Looks, ReaderOf
  <2>2. \A v \in Worker : Counts(job'[v], x) <=> Counts(job[v], x)
    BY <1>2, <1>4 DEF Others
  <2>3. x \notin muddled =>
          \A u, v \in Worker : Counts(job[u], x) /\ Counts(job[v], x) => u = v
    BY <1>3, Bells DEF NowBell, Bell0
  <2>4. x \notin muddled' =>
          \A u, v \in Worker : Counts(job'[u], x) /\ Counts(job'[v], x) => u = v
    BY <1>1, <2>2, <2>3
  <2>5. ThenBell(x)  BY <2>1, <2>4 DEF ThenBell, Bell0
  <2> QED  BY <2>5, Bells
<1> QED  BY <1>5, <1>6

LEMMA BellsCount ==
  ASSUME Typed, Places, BellsRight, NEW w \in Worker, Count(w)
  PROVE  BellsRight'
<1> DEFINE p == Reader(w)
           B == notes[p]
<1>1. /\ At(w, "count") /\ p \in Person /\ GoesOn(w, "write")
      /\ job'[w].num = Bell(w, p) /\ job'[w].seen = BagToSet(B)
      /\ muddled' = (IF Counting(p) # {} THEN muddled \cup {p}
                     ELSE IF job[w].op \in {"view", "all"} THEN muddled \ {p} ELSE muddled)
      /\ UNCHANGED <<notes, unread>>
  BY CountDoes DEF tables
<1>2. /\ Others(w) /\ job'[w].op = job[w].op /\ job'[w].at = "write" /\ job[w].at = "count"
      /\ ReaderOf(job'[w]) = p /\ ReaderOf(job[w]) = p /\ job'[w] # NoJob /\ job[w] # NoJob
  <2>1. job'[w] # NoJob  BY <1>1, Fields DEF GoesOn
  <2>2. job[w] # NoJob /\ job[w].at = "count"  BY <1>1, Somewhere DEF Idle
  <2> QED  BY <1>1, <2>1, <2>2 DEF GoesOn, SameJob, ReaderOf, Reader
<1>3. Counting(p) = {} <=> \A v \in Worker : ~Counts(job[v], p)
  BY DEF Counting, Counts, At, Idle, Reader, ReaderOf
<1> HIDE DEF p
<1> SUFFICES ASSUME NEW x \in Person PROVE BellRight(x)'
  BY DEF BellsRight
<1>4. BellRight(x)  BY DEF BellsRight
<1>5. CASE x # p
  <2>1. ~Counts(job[w], x) /\ ~Counts(job'[w], x) /\ ~Looks(job[w], x)
    BY <1>2, <1>5 DEF Counts, Looks
  <2>2. x \in muddled => x \in muddled'  BY <1>1, <1>5
  <2> QED  BY <1>1, <1>2, <1>4, <2>1, <2>2, BellFrame
<1>6. CASE x = p /\ Counting(p) # {}
  <2>1. x \in muddled'  BY <1>1, <1>6
  <2> QED  BY <2>1, Bells DEF ThenBell, Bell0
<1>7. CASE x = p /\ Counting(p) = {}
  <2>1. \A v \in Worker : Counts(job'[v], x) => v = w
    BY <1>2, <1>3, <1>7 DEF Others
  <2>2. \E v \in Worker : Counts(job'[v], x)  BY <1>2, <1>7 DEF Counts
  <2>3. ASSUME x \notin muddled', \A v \in Worker : ~Looks(job'[v], x)
        PROVE  Heeds(job'[w], notes'[x], unread'[x])
    <3>1. CASE job[w].op \in {"view", "all"}
      BY <1>1, <1>2, <1>7, <3>1 DEF Heeds, Bell
    <3>2. CASE job[w].op \notin {"view", "all"}
      <4>1. x \notin muddled  BY <1>1, <1>7, <2>3, <3>2
      <4>2. ASSUME NEW v \in Worker  PROVE ~Looks(job[v], x)
        <5>1. CASE v = w  BY <3>2, <5>1 DEF Looks
        <5>2. CASE v # w
          <6>1. job'[v] = job[v]  BY <1>2, <5>2 DEF Others
          <6>2. ~Looks(job'[v], x)  BY <2>3
          <6> QED  BY <6>1, <6>2
        <5> QED  BY <5>1, <5>2
      <4>3. \A v \in Worker : ~Counts(job[v], x)  BY <1>3, <1>7
      <4>4. unread[x] = Unread(notes[x])
        BY <1>4, <4>1, <4>2, <4>3, Bells DEF NowBell, Bell0
      <4> QED  BY <1>1, <1>2, <1>7, <3>2, <4>4 DEF Heeds, Bell
    <3> QED  BY <3>1, <3>2
  <2>4. ThenBell(x)
    <3>1. \A v \in Worker : Counts(job'[v], x) /\ x \notin muddled' /\ (\A u \in Worker : ~Looks(job'[u], x))
            => Heeds(job'[v], notes'[x], unread'[x])
      BY <2>1, <2>3
    <3>2. \A u, v \in Worker : Counts(job'[u], x) /\ Counts(job'[v], x) => u = v
      BY <2>1
    <3> QED  BY <2>2, <3>1, <3>2 DEF ThenBell, Bell0
  <2> QED  BY <2>4, Bells
<1> QED  BY <1>5, <1>6, <1>7

\* What is written is the number of unread notifications there are then.
LEMMA Written0 ==
  ASSUME Typed, NEW w \in Worker, NEW p \in Person, Notices(w, p),
         Heeds(job[w], notes[p], unread[p])
  PROVE  unread'[p] = Unread(notes'[p])
<1> DEFINE j == job[w]
           B == notes[p]
           note == [c |-> j.c, m |-> j.m, read |-> FALSE]
<1>1. IsBagOf(B, Notification)  BY DEF Typed, BellTypes
<1>2. /\ j.op # "all" => j.num = Unread(B)
      /\ j.op \notin {"view", "all"} => unread[p] = Unread(B)
      /\ j.op \in {"read", "unread", "all"} => j.seen = BagToSet(B)
  BY DEF Heeds
<1>3. CASE /\ j.op \in {"send", "edit", "receive"} /\ note \in Notification
           /\ notes'[p] = B (+) SetToBag({note}) /\ unread'[p] = j.num + 1
  <2>1. ~note.read  OBVIOUS
  <2> HIDE DEF note
  <2>2. Unread(B (+) SetToBag({note})) = Unread(B) + 1  BY <1>1, <1>3, <2>1, AddUnread
  <2> QED  BY <1>2, <1>3, <2>2
<1>4. CASE j.op = "view" /\ notes'[p] = B /\ unread'[p] = j.num
  BY <1>2, <1>4
<1>5. CASE j.op \in {"read", "unread"} /\ notes'[p] = B /\ unread'[p] = unread[p]
  BY <1>2, <1>5
<1>6. CASE /\ j.op \in {"read", "unread"}
           /\ \E n \in j.seen :
                /\ n.read = (j.op = "unread")
                /\ notes'[p] = IF BagIn(n, B) THEN Flip(B, n) ELSE B
                /\ unread'[p] = IF j.op = "unread" THEN j.num + 1
                                ELSE IF j.num > 0 THEN j.num - 1 ELSE unread[p]
  <2>1. PICK n \in j.seen :
                /\ n.read = (j.op = "unread")
                /\ notes'[p] = IF BagIn(n, B) THEN Flip(B, n) ELSE B
                /\ unread'[p] = IF j.op = "unread" THEN j.num + 1
                                ELSE IF j.num > 0 THEN j.num - 1 ELSE unread[p]
    BY <1>6
  <2>2. j.seen = BagToSet(B)  BY <1>2, <1>6
  <2>3. n \in BagToSet(B)  BY <2>1, <2>2
  <2>4. notes'[p] = Flip(B, n)  BY <2>1, <2>3 DEF BagIn
  <2>5. /\ IsBagOf(Flip(B, n), Notification)
        /\ n.read => Unread(Flip(B, n)) = Unread(B) + 1
        /\ ~n.read => Unread(B) = Unread(Flip(B, n)) + 1
    BY <1>1, <2>3, FlipRight
  <2>6. Unread(Flip(B, n)) \in Nat /\ Unread(B) \in Nat  BY <1>1, <2>5, UnreadFinite
  <2>7. CASE j.op = "unread"  BY <1>2, <1>6, <2>1, <2>4, <2>5, <2>7
  <2>8. CASE j.op = "read"
    <3>1. ~n.read  BY <2>1, <2>8
    <3>2. j.num = Unread(Flip(B, n)) + 1  BY <1>2, <2>5, <2>8, <3>1
    <3>3. j.num > 0 /\ j.num - 1 = Unread(Flip(B, n))  BY <2>6, <3>2
    <3> QED  BY <2>1, <2>4, <2>8, <3>3
  <2> QED  BY <1>6, <2>7, <2>8
<1>7. CASE j.op = "all" /\ notes'[p] = MarkRead(B, j.seen) /\ unread'[p] = 0
  <2>1. j.seen = BagToSet(B)  BY <1>2, <1>7
  <2>2. Unread(MarkRead(B, j.seen)) = 0  BY <1>1, <2>1, MarkReadRight
  <2> QED  BY <1>7, <2>2
<1> QED  BY <1>3, <1>4, <1>5, <1>6, <1>7 DEF Notices

LEMMA BellsWrite ==
  ASSUME Typed, Places, BellsRight, NEW w \in Worker, Write(w)
  PROVE  BellsRight'
<1> DEFINE p == Reader(w)
<1>1. /\ At(w, "write") /\ p \in Person /\ Ends(w) /\ Notices(w, p) /\ muddled' = muddled
      /\ \A x \in Person : x # p => notes'[x] = notes[x] /\ unread'[x] = unread[x]
  BY WriteDoes
<1>2. /\ Others(w) /\ job'[w] = NoJob /\ job[w] # NoJob /\ job[w].at = "write"
      /\ ReaderOf(job[w]) = p
  <2>1. job[w] # NoJob /\ job[w].at = "write"  BY <1>1, Somewhere DEF Idle
  <2> QED  BY <1>1, <2>1 DEF Ends, Reader, ReaderOf
<1> HIDE DEF p
<1> SUFFICES ASSUME NEW x \in Person PROVE BellRight(x)'
  BY DEF BellsRight
<1>4. BellRight(x)  BY DEF BellsRight
<1>5. ~Counts(job'[w], x) /\ ~Looks(job[w], x) /\ ~Looks(job'[w], x)
  BY <1>2 DEF Counts, Looks
<1>6. CASE x # p
  <2>1. ~Counts(job[w], x)  BY <1>2, <1>6 DEF Counts
  <2> QED  BY <1>1, <1>2, <1>4, <1>5, <1>6, <2>1, BellFrame
<1>7. CASE x = p
  <2>1. Counts(job[w], x)  BY <1>2, <1>7 DEF Counts
  <2>2. ASSUME x \notin muddled
        PROVE  /\ \A v \in Worker : ~Counts(job'[v], x)
               /\ (\A v \in Worker : ~Looks(job'[v], x)) => unread'[x] = Unread(notes'[x])
    <3>1. \A u, v \in Worker : Counts(job[u], x) /\ Counts(job[v], x) => u = v
      BY <1>4, <2>2, Bells DEF NowBell, Bell0
    <3>2. \A v \in Worker : ~Counts(job'[v], x)  BY <1>2, <1>5, <2>1, <3>1 DEF Others
    <3>3. ASSUME \A v \in Worker : ~Looks(job'[v], x)  PROVE unread'[x] = Unread(notes'[x])
      <4>1. \A v \in Worker : ~Looks(job[v], x)  BY <1>2, <1>5, <3>3 DEF Others
      <4>2. Heeds(job[w], notes[x], unread[x])
        BY <1>4, <2>1, <2>2, <4>1, Bells DEF NowBell, Bell0
      <4> QED  BY <1>1, <1>7, <4>2, Written0
    <3> QED  BY <3>2, <3>3
  <2>3. ThenBell(x)  BY <1>1, <2>2 DEF ThenBell, Bell0
  <2> QED  BY <2>3, Bells
<1> QED  BY <1>6, <1>7

LEMMA BellsNext == Typed /\ Places /\ BellsRight /\ [Next]_vars => BellsRight'
<1> SUFFICES ASSUME Typed, Places, BellsRight, [Next]_vars PROVE BellsRight'
  OBVIOUS
<1>1. Typed'  BY TypesNext
<1>2. ASSUME UNCHANGED <<job, notes, unread, muddled>>  PROVE BellsRight'
  <2>1. \A p : NowBell(p) <=> ThenBell(p)  BY <1>2 DEF NowBell, ThenBell
  <2>2. \A p \in Person : BellRight(p)  BY DEF BellsRight
  <2>3. \A p \in Person : BellRight(p)'  BY <2>1, <2>2, Bells
  <2> QED  BY <2>3 DEF BellsRight
<1>3. ASSUME NEW w \in Worker, NEW p \in Person, NEW q \in Person,
             NEW c \in Between(Lives[p], p, q) \cup {0}, Send(w, p, q, c)
      PROVE  BellsRight'
  <2> DEFINE at == IF c = 0 THEN "open" ELSE "store"
  <2>1. Starts(w, "send", p, q, sent + 1, c, at) /\ UNCHANGED <<notes, unread, muddled>>
    BY <1>3, SendDoes DEF tables
  <2>2. at # "write"  OBVIOUS
  <2> HIDE DEF at
  <2> QED  BY <2>1, <2>2, BellsBegin
<1>4. ASSUME NEW w \in Worker,
             Open(w) \/ StoreSent(w) \/ Address(w) \/ Post(w) \/ Finish(w)
               \/ StoreReceived(w) \/ Count(w) \/ Write(w) \/ LookLeft(w) \/ Remove(w)
      PROVE  BellsRight'
  BY <1>1, <1>4, BellsOn, BellsCount, BellsWrite
<1>5. ASSUME NEW w \in Worker, NEW p \in Person, NEW m \in Message, NEW b \in BOOLEAN,
             Edit(w, p, m) \/ Delete(w, p, m, b) \/ Mark(w, p, m, b)
      PROVE  BellsRight'
  <2>1. /\ UNCHANGED <<notes, unread, muddled>>
        /\ \E op, q, c, at : /\ Starts(w, op, p, q, m, c, at)
                             /\ op # "view" /\ at # "write"
    <3>1. CASE Edit(w, p, m)  BY <3>1, EditDoes DEF Onward
    <3>2. CASE Delete(w, p, m, b)  BY <3>2, DeleteDoes DEF Turn, Onward
    <3>3. CASE Mark(w, p, m, b)  BY <3>3, MarkDoes DEF tables
    <3> QED  BY <1>5, <3>1, <3>2, <3>3
  <2> QED  BY <2>1, BellsBegin
<1>6. ASSUME NEW w \in Worker, NEW p \in Person, MarkAll(w, p)  PROVE BellsRight'
  <2>1. UNCHANGED <<notes, unread, muddled>> /\ Starts(w, "all", p, p, 0, 0, "count")
    BY <1>6, MarkAllDoes DEF tables
  <2> QED  BY <2>1, BellsBegin
<1>7. ASSUME NEW w \in Worker, NEW p \in Person, NEW c \in DOMAIN conv[Lives[p]],
             View(w, p, c) \/ Leave(w, p, c) \/ DeleteChat(w, p, c)
      PROVE  BellsRight'
  <2>1. CASE View(w, p, c)  BY <2>1, BellsView
  <2>2. CASE Leave(w, p, c) \/ DeleteChat(w, p, c)
    <3>1. /\ UNCHANGED <<notes, unread, muddled>>
          /\ \E at \in {"look", "remove"} : Starts(w, "leave", p, p, 0, c, at)
      BY <2>2, LeaveDoes, DeleteChatDoes DEF tables
    <3> QED  BY <3>1, BellsBegin
  <2> QED  BY <1>7, <2>1, <2>2
<1>8. ASSUME NEW w \in Worker, NEW a \in BagToSet(net), Receive(w, a)  PROVE BellsRight'
  <2>1. /\ UNCHANGED <<notes, unread, muddled>>
        /\ \E c : \E at \in {"open", "store"} :
              Starts(w, "receive", a.p, a.q, a.m, c, at)
    BY <1>8, ReceiveDoes DEF tables
  <2> QED  BY <2>1, BellsBegin
<1>9. ASSUME NEW a \in BagToSet(net), ReceiveFlag(a)  PROVE BellsRight'
  BY <1>2, <1>9, ReceiveFlagDoes
<1>10. CASE UNCHANGED vars  BY <1>2, <1>10 DEF vars
<1> QED
  BY <1>3, <1>4, <1>5, <1>6, <1>7, <1>8, <1>9, <1>10 DEF Next

LEMMA InitBells == Init => BellsRight
<1> SUFFICES ASSUME Init, NEW p \in Person PROVE BellRight(p)
  BY DEF BellsRight
<1>1. Unread(EmptyBag) = 0
  <2>1. \A x : x \notin UnreadRows(EmptyBag)
    <3> SUFFICES ASSUME NEW x, x \in UnreadRows(EmptyBag) PROVE FALSE
      OBVIOUS
    <3>1. \E n \in BagToSet(EmptyBag) : IsRow(EmptyBag, n, x)  BY InUnread
    <3> QED  BY <3>1, NoneIn
  <2>2. UnreadRows(EmptyBag) = {}  BY <2>1
  <2> QED  BY <2>2, FS_EmptySet DEF Unread
<1>2. \A w \in Worker : job[w] = NoJob  BY DEF Init
<1>3. notes[p] = EmptyBag /\ unread[p] = 0  BY DEF Init
<1>4. NowBell(p)  BY <1>1, <1>2, <1>3 DEF NowBell, Bell0, Counts, Looks
<1> QED  BY <1>4, Bells

-----------------------------------------------------------------------------
(***************************************************************************)
(* The two sides.  What is known of a message, of the values of the        *)
(* variables: before a step and after it.                                  *)
(***************************************************************************)
MovesJ(j, m) == j.op \in Moving /\ j.m = m
Fits(r, f, x, p, q) ==
  /\ x \in {Lives[p], Lives[q]}
  /\ r.from = p /\ r.to \in {{}, {q}} /\ f[r.conv].who = {p, q}
OfIn(rw, cv, bag, jobs, m, p, q) ==
  /\ \A x \in Site : rw[x][m] # None => Fits(rw[x][m], cv[x], x, p, q)
  /\ \A a \in BagToSet(bag) : a.m = m => a.p = p /\ a.q = q
  /\ \A w \in Worker : MovesJ(jobs[w], m) => jobs[w].p = p /\ jobs[w].q = q
AloneIn(bag, jobs, m) ==
  /\ \A v, w \in Worker : MovesJ(jobs[v], m) /\ MovesJ(jobs[w], m) => v = w
  /\ \A a \in BagToSet(bag) : a.m = m =>
       /\ bag[a] = 1 /\ \A w \in Worker : ~MovesJ(jobs[w], m)
       /\ \A b \in BagToSet(bag) : b.m = m => a = b
Housed(j, D) == j.op = "receive" /\ j.at = "store" /\ ~j.had => j.c \in D
Good(S, T, q) == T # None => T.to = {q}
Rests(S, T, q) == S = None \/ Matches(S, T, q)
SideOf(S, T, D, bag, jobs, m, q) ==
  /\ AloneIn(bag, jobs, m) /\ Good(S, T, q)
  /\ \A w \in Worker : MovesJ(jobs[w], m) => Does(jobs[w], S, T, q) /\ Housed(jobs[w], D)
  /\ \A a \in BagToSet(bag) : a.m = m => Brings(a, S, T, q)
  /\ \/ Rests(S, T, q)
     \/ \E w \in Worker : MovesJ(jobs[w], m)
     \/ \E a \in BagToSet(bag) : a.m = m
SideIn(rw, cv, bag, jobs, m, p, q) ==
  SideOf(rw[Lives[p]][m], rw[Lives[q]][m], DOMAIN cv[Lives[q]], bag, jobs, m, q)
Aside(cr, lf, m, p, q) == m \in cr \/ IsLocal(p, q) \/ {p, q} \in lf
ToldIn(rw, cv, bag, jobs, cr, lf, m, p, q) ==
  /\ p # q /\ OfIn(rw, cv, bag, jobs, m, p, q)
  /\ ~Aside(cr, lf, m, p, q) => SideIn(rw, cv, bag, jobs, m, p, q)
NowTold(m, p, q) == ToldIn(row, conv, net, job, crossed, left, m, p, q)
ThenTold(m, p, q) == ToldIn(row', conv', net', job', crossed', left', m, p, q)

LEMMA ToldIs ==
  ASSUME NEW m, NEW p, NEW q
  PROVE  (Told(m, p, q) <=> NowTold(m, p, q)) /\ (Told(m, p, q)' <=> ThenTold(m, p, q))
<1>1. \A w : Moves(w, m) <=> MovesJ(job[w], m)  BY DEF Moves, MovesJ
<1>2. \A w : Moves(w, m)' <=> MovesJ(job'[w], m)  BY DEF Moves, MovesJ
<1>3. Of(m, p, q) <=> OfIn(row, conv, net, job, m, p, q)
  BY <1>1 DEF Of, OfIn, Mail, Known, Written, Fits
<1>4. Of(m, p, q)' <=> OfIn(row', conv', net', job', m, p, q)
  BY <1>2 DEF Of, OfIn, Mail, Known, Written, Fits
<1>5. Alone(m) <=> AloneIn(net, job, m)  BY <1>1 DEF Alone, AloneIn, Mail
<1>6. Alone(m)' <=> AloneIn(net', job', m)  BY <1>2 DEF Alone, AloneIn, Mail
<1>7. Side(m, p, q) <=> SideIn(row, conv, net, job, m, p, q)
  BY <1>1, <1>5 DEF Side, SideIn, SideOf, Mail, Housed, Good, Rests
<1>8. Side(m, p, q)' <=> SideIn(row', conv', net', job', m, p, q)
  BY <1>2, <1>6 DEF Side, SideIn, SideOf, Mail, Housed, Good, Rests
<1>9. Told(m, p, q) <=> NowTold(m, p, q)  BY <1>3, <1>7 DEF Told, NowTold, ToldIn, Aside
<1>10. Told(m, p, q)' <=> ThenTold(m, p, q)
  BY <1>4, <1>8 DEF Told, ThenTold, ToldIn, Aside
<1> QED  BY <1>9, <1>10

\* Where a message is: with a request, under way, or nowhere.
Carried(bag, jobs, w, m) ==
  /\ \A v \in Worker : MovesJ(jobs[v], m) <=> v = w
  /\ \A a \in BagToSet(bag) : a.m # m
Mailed(bag, jobs, a, m) ==
  /\ \A v \in Worker : ~MovesJ(jobs[v], m)
  /\ a \in BagToSet(bag) /\ a.m = m /\ bag[a] = 1
  /\ \A b \in BagToSet(bag) : b.m = m => b = a
Resting(bag, jobs, m) ==
  /\ \A v \in Worker : ~MovesJ(jobs[v], m)
  /\ \A a \in BagToSet(bag) : a.m # m

LEMMA SideCarried ==
  ASSUME NEW S, NEW T, NEW D, NEW bag, NEW jobs, NEW m, NEW q, NEW w \in Worker,
         Carried(bag, jobs, w, m)
  PROVE  SideOf(S, T, D, bag, jobs, m, q) <=>
           Good(S, T, q) /\ Does(jobs[w], S, T, q) /\ Housed(jobs[w], D)
<1>1. AloneIn(bag, jobs, m)  BY DEF Carried, AloneIn
<1>2. MovesJ(jobs[w], m) /\ (\A v \in Worker : MovesJ(jobs[v], m) => v = w)
      /\ \A a \in BagToSet(bag) : a.m # m
  BY DEF Carried
<1> QED  BY <1>1, <1>2 DEF SideOf
LEMMA SideMailed ==
  ASSUME NEW S, NEW T, NEW D, NEW bag, NEW jobs, NEW m, NEW q, NEW a,
         Mailed(bag, jobs, a, m)
  PROVE  SideOf(S, T, D, bag, jobs, m, q) <=> Good(S, T, q) /\ Brings(a, S, T, q)
<1>1. AloneIn(bag, jobs, m)  BY DEF Mailed, AloneIn
<1>2. /\ \A v \in Worker : ~MovesJ(jobs[v], m)
      /\ a \in BagToSet(bag) /\ a.m = m /\ \A b \in BagToSet(bag) : b.m = m => b = a
  BY DEF Mailed
<1> QED  BY <1>1, <1>2 DEF SideOf
LEMMA SideResting ==
  ASSUME NEW S, NEW T, NEW D, NEW bag, NEW jobs, NEW m, NEW q, Resting(bag, jobs, m)
  PROVE  SideOf(S, T, D, bag, jobs, m, q) <=> Good(S, T, q) /\ Rests(S, T, q)
<1>1. AloneIn(bag, jobs, m)  BY DEF Resting, AloneIn
<1>2. (\A v \in Worker : ~MovesJ(jobs[v], m)) /\ \A a \in BagToSet(bag) : a.m # m
  BY DEF Resting
<1> QED  BY <1>1, <1>2 DEF SideOf
LEMMA WhereIs ==
  ASSUME NEW S, NEW T, NEW D, NEW bag, NEW jobs, NEW m, NEW q,
         SideOf(S, T, D, bag, jobs, m, q)
  PROVE  /\ \A w \in Worker : MovesJ(jobs[w], m) => Carried(bag, jobs, w, m)
         /\ \A a \in BagToSet(bag) : a.m = m => Mailed(bag, jobs, a, m)
<1>1. AloneIn(bag, jobs, m)  BY DEF SideOf
<1>2. \A w \in Worker : MovesJ(jobs[w], m) => Carried(bag, jobs, w, m)
  BY <1>1 DEF AloneIn, Carried
<1>3. \A a \in BagToSet(bag) : a.m = m => Mailed(bag, jobs, a, m)
  BY <1>1 DEF AloneIn, Mailed
<1> QED  BY <1>2, <1>3

(***************************************************************************)
(* A message that a step does not touch.                                   *)
(***************************************************************************)
SameMail(n) ==
  \A a : a.m = n =>
    /\ a \in BagToSet(net') <=> a \in BagToSet(net)
    /\ a \in BagToSet(net) => net'[a] = net[a]
SameMovers(n) ==
  \A v \in Worker :
    /\ MovesJ(job'[v], n) <=> MovesJ(job[v], n)
    /\ MovesJ(job[v], n) => job'[v] = job[v]
SameRows(n) == \A x \in Site : row'[x][n] = row[x][n]
Untouched(n) == SameMail(n) /\ SameMovers(n) /\ SameRows(n)
Grows ==
  \A x \in Site : \A d \in DOMAIN conv[x] :
    d \in DOMAIN conv'[x] /\ conv'[x][d].who = conv[x][d].who

LEMMA SideFrame ==
  ASSUME NEW S, NEW T, NEW D, NEW E, NEW n, NEW q, SameMail(n), SameMovers(n),
         \A v \in Worker : MovesJ(job[v], n) /\ Housed(job[v], D) => Housed(job[v], E),
         SideOf(S, T, D, net, job, n, q)
  PROVE  SideOf(S, T, E, net', job', n, q)
<1>1. /\ \A a : a.m = n => (a \in BagToSet(net') <=> a \in BagToSet(net))
      /\ \A a : a.m = n /\ a \in BagToSet(net) => net'[a] = net[a]
  BY DEF SameMail
<1>2. /\ \A v \in Worker : MovesJ(job'[v], n) <=> MovesJ(job[v], n)
      /\ \A v \in Worker : MovesJ(job[v], n) => job'[v] = job[v]
  BY DEF SameMovers
<1>3. AloneIn(net', job', n)
  <2>1. AloneIn(net, job, n)  BY DEF SideOf
  <2> QED  BY <1>1, <1>2, <2>1 DEF AloneIn
<1>4. ASSUME NEW w \in Worker, MovesJ(job'[w], n)
      PROVE  Does(job'[w], S, T, q) /\ Housed(job'[w], E)
  <2>1. MovesJ(job[w], n) /\ job'[w] = job[w]  BY <1>2, <1>4
  <2>2. Does(job[w], S, T, q) /\ Housed(job[w], D)  BY <2>1 DEF SideOf
  <2> QED  BY <2>1, <2>2
<1>5. \A a \in BagToSet(net') : a.m = n => Brings(a, S, T, q)  BY <1>1 DEF SideOf
<1>6. \/ Rests(S, T, q)
      \/ \E w \in Worker : MovesJ(job'[w], n)
      \/ \E a \in BagToSet(net') : a.m = n
  BY <1>1, <1>2 DEF SideOf
<1> QED  BY <1>3, <1>4, <1>5, <1>6 DEF SideOf

LEMMA OfFrame ==
  ASSUME NEW n, NEW p, NEW q, SameMail(n), SameMovers(n),
         \A x \in Site : row'[x][n] # None =>
           row'[x][n] = row[x][n] /\ conv'[x][row[x][n].conv].who = conv[x][row[x][n].conv].who,
         OfIn(row, conv, net, job, n, p, q)
  PROVE  OfIn(row', conv', net', job', n, p, q)
<1>1. ASSUME NEW x \in Site, row'[x][n] # None
      PROVE  Fits(row'[x][n], conv'[x], x, p, q)
  BY <1>1 DEF OfIn, Fits
<1>2. \A a \in BagToSet(net') : a.m = n => a.p = p /\ a.q = q  BY DEF OfIn, SameMail
<1>3. \A w \in Worker : MovesJ(job'[w], n) => job'[w].p = p /\ job'[w].q = q
  BY DEF OfIn, SameMovers
<1> QED  BY <1>1, <1>2, <1>3 DEF OfIn

LEMMA ToldFrame ==
  ASSUME Typed, NEW n \in Message, NEW p \in Person, NEW q \in Person, NowTold(n, p, q),
         Untouched(n), Grows, crossed \subseteq crossed', left \subseteq left'
  PROVE  ThenTold(n, p, q)
<1>1. p # q /\ OfIn(row, conv, net, job, n, p, q)  BY DEF NowTold, ToldIn
<1>2. SameMail(n) /\ SameMovers(n) /\ SameRows(n)  BY DEF Untouched
<1>3. ASSUME NEW x \in Site, row'[x][n] # None
      PROVE  row'[x][n] = row[x][n]
             /\ conv'[x][row[x][n].conv].who = conv[x][row[x][n].conv].who
  <2>1. row'[x][n] = row[x][n]  BY <1>2 DEF SameRows
  <2>2. row[x][n].conv \in DOMAIN conv[x]  BY <1>3, <2>1 DEF Typed, Filed, Known
  <2> QED  BY <2>1, <2>2 DEF Grows
<1>4. OfIn(row', conv', net', job', n, p, q)  BY <1>1, <1>2, <1>3, OfFrame
<1>5. ASSUME ~Aside(crossed', left', n, p, q)
      PROVE  SideIn(row', conv', net', job', n, p, q)
  <2>1. ~Aside(crossed, left, n, p, q)  BY <1>5 DEF Aside
  <2>2. SideIn(row, conv, net, job, n, p, q)  BY <2>1 DEF NowTold, ToldIn
  <2>3. Lives[p] \in Site /\ Lives[q] \in Site  BY LivesType
  <2> DEFINE D == DOMAIN conv[Lives[q]]
             E == DOMAIN conv'[Lives[q]]
             S == row[Lives[p]][n]
             T == row[Lives[q]][n]
  <2>4. row'[Lives[p]][n] = S /\ row'[Lives[q]][n] = T  BY <1>2, <2>3 DEF SameRows
  <2>5. \A d \in D : d \in E  BY <2>3 DEF Grows
  <2>6. SideOf(S, T, D, net, job, n, q)  BY <2>2 DEF SideIn
  <2> HIDE DEF S, T, D, E
  <2>7. \A v \in Worker : MovesJ(job[v], n) /\ Housed(job[v], D) => Housed(job[v], E)
    BY <2>5 DEF Housed
  <2>8. SideOf(S, T, E, net', job', n, q)  BY <1>2, <2>6, <2>7, SideFrame
  <2> QED  BY <2>4, <2>8 DEF SideIn, E
<1> QED  BY <1>1, <1>4, <1>5 DEF ThenTold, ToldIn

(***************************************************************************)
(* A step touches one message at most.                                     *)
(***************************************************************************)
RowsBut(m) == \A n \in Message : n # m => SameRows(n)
MailBut(m) == \A n \in Message : n # m => SameMail(n)
MoversBut(m) == \A n \in Message : n # m => SameMovers(n)
Apart(m) == RowsBut(m) /\ MailBut(m) /\ MoversBut(m)
Kept0 == Grows /\ crossed \subseteq crossed' /\ left \subseteq left'

LEMMA SetBut == ASSUME NEW s, NEW m, NEW r, RowSet(s, m, r) PROVE RowsBut(m)
  BY DEF RowSet, Others0, RowsBut, SameRows
LEMMA NoSet == UNCHANGED row => \A m : RowsBut(m)
  BY DEF RowsBut, SameRows
LEMMA NoMail == UNCHANGED net => \A m : MailBut(m) /\ SameMail(m)
  BY DEF MailBut, SameMail
LEMMA PutBut == ASSUME NEW a, NetPut(a) PROVE MailBut(a.m)
<1>1. /\ \A b : b \in BagToSet(net') <=> b \in BagToSet(net) \/ b = a
      /\ \A b \in BagToSet(net) : b # a => net'[b] = net[b]
  BY DEF NetPut
<1> QED  BY <1>1 DEF MailBut, SameMail
LEMMA TakeBut == ASSUME NEW a \in BagToSet(net), NetTake(a) PROVE MailBut(a.m)
<1>1. /\ \A b : b \in BagToSet(net') => b \in BagToSet(net)
      /\ \A b : b \in BagToSet(net) /\ b # a => b \in BagToSet(net') /\ net'[b] = net[b]
  <2>1. CASE net[a] = 1  BY <2>1 DEF NetTake
  <2>2. CASE net[a] # 1  BY <2>2 DEF NetTake
  <2> QED  BY <2>1, <2>2
<1> QED  BY <1>1 DEF MailBut, SameMail
LEMMA OthersBut ==
  ASSUME NEW w \in Worker, Others(w), NEW m,
         \A n \in Message : n # m => ~MovesJ(job[w], n) /\ ~MovesJ(job'[w], n)
  PROVE  MoversBut(m)
  BY DEF Others, MoversBut, SameMovers

LEMMA StartsBut ==
  ASSUME NEW w \in Worker, NEW op, NEW p, NEW q, NEW m, NEW c, NEW at,
         Starts(w, op, p, q, m, c, at)
  PROVE  /\ MoversBut(m) /\ (op \notin Moving => \A n : MoversBut(n) /\ SameMovers(n))
         /\ \A n : ~MovesJ(job[w], n)
<1>1. /\ Others(w) /\ job[w] = NoJob /\ job'[w].op = op /\ job'[w].m = m
  BY DEF Starts, Idle
<1>2. \A n : ~MovesJ(job[w], n)  BY <1>1 DEF MovesJ, NoJob, Moving
<1>3. MoversBut(m)
  <2>1. \A n \in Message : n # m => ~MovesJ(job[w], n) /\ ~MovesJ(job'[w], n)
    BY <1>1, <1>2 DEF MovesJ
  <2> QED  BY <1>1, <2>1, OthersBut
<1>4. ASSUME op \notin Moving, NEW n  PROVE MoversBut(n) /\ SameMovers(n)
  <2>1. \A k : ~MovesJ(job[w], k) /\ ~MovesJ(job'[w], k)  BY <1>1, <1>2, <1>4 DEF MovesJ
  <2> QED  BY <1>1, <2>1 DEF Others, MoversBut, SameMovers
<1> QED  BY <1>2, <1>3, <1>4
LEMMA EndsBut ==
  ASSUME NEW w \in Worker, Ends(w)
  PROVE  MoversBut(job[w].m) /\ (\A n : ~MovesJ(job'[w], n))
         /\ (job[w].op \notin Moving => \A n : MoversBut(n) /\ SameMovers(n))
<1>1. Others(w) /\ job'[w] = NoJob  BY DEF Ends
<1>2. \A n : ~MovesJ(job'[w], n)  BY <1>1 DEF MovesJ, NoJob, Moving
<1>3. MoversBut(job[w].m)
  <2> DEFINE m == job[w].m
  <2>1. \A n \in Message : n # m => ~MovesJ(job[w], n) /\ ~MovesJ(job'[w], n)
    BY <1>2 DEF MovesJ
  <2> QED  BY <1>1, <2>1 DEF Others, MoversBut, SameMovers
<1>4. ASSUME job[w].op \notin Moving, NEW n  PROVE MoversBut(n) /\ SameMovers(n)
  <2>1. \A k : ~MovesJ(job[w], k) /\ ~MovesJ(job'[w], k)  BY <1>2, <1>4 DEF MovesJ
  <2> QED  BY <1>1, <2>1 DEF Others, MoversBut, SameMovers
<1> QED  BY <1>2, <1>3, <1>4
LEMMA GoesBut ==
  ASSUME NEW w \in Worker, NEW at, GoesOn(w, at)
  PROVE  /\ MoversBut(job[w].m)
         /\ \A n : MovesJ(job'[w], n) <=> MovesJ(job[w], n)
         /\ job[w].op \notin Moving => \A n : MoversBut(n) /\ SameMovers(n)
<1>1. Others(w) /\ job'[w].op = job[w].op /\ job'[w].m = job[w].m
  BY DEF GoesOn, SameJob
<1>2. \A n : MovesJ(job'[w], n) <=> MovesJ(job[w], n)  BY <1>1 DEF MovesJ
<1>3. MoversBut(job[w].m)
  <2>1. \A n \in Message : n # job[w].m => ~MovesJ(job[w], n) /\ ~MovesJ(job'[w], n)
    BY <1>2 DEF MovesJ
  <2> QED  BY <1>1, <2>1 DEF Others, MoversBut, SameMovers
<1>4. ASSUME job[w].op \notin Moving, NEW n  PROVE MoversBut(n) /\ SameMovers(n)
  <2>1. \A k : ~MovesJ(job[w], k) /\ ~MovesJ(job'[w], k)  BY <1>2, <1>4 DEF MovesJ
  <2> QED  BY <1>1, <2>1 DEF Others, MoversBut, SameMovers
<1> QED  BY <1>2, <1>3, <1>4

LEMMA SameConvGrows == UNCHANGED <<conv>> => Grows
  BY DEF Grows

LEMMA MessagesAre ==
  /\ MessagesRight <=> \A m \in Message : m <= sent => \E p, q \in Person : NowTold(m, p, q)
  /\ MessagesRight' <=> \A m \in Message : m <= sent' => \E p, q \in Person : ThenTold(m, p, q)
<1>1. \A m, p, q : Told(m, p, q) <=> NowTold(m, p, q)  BY ToldIs
<1>2. \A m, p, q : Told(m, p, q)' <=> ThenTold(m, p, q)  BY ToldIs
<1> QED  BY <1>1, <1>2 DEF MessagesRight

LEMMA OwnStep ==
  ASSUME Typed, MessagesRight, Kept0, NEW m, Apart(m),
         \A n \in Message : n # m => (n <= sent' <=> n <= sent),
         m \in Message /\ m <= sent' => \E p, q \in Person : ThenTold(m, p, q)
  PROVE  MessagesRight'
<1> SUFFICES ASSUME NEW n \in Message, n <= sent'
             PROVE  \E p, q \in Person : ThenTold(n, p, q)
  BY MessagesAre
<1>1. CASE n = m  BY <1>1
<1>2. CASE n # m
  <2>1. n <= sent  BY <1>2
  <2>2. PICK p \in Person, q \in Person : NowTold(n, p, q)  BY <2>1, MessagesAre
  <2>3. Untouched(n)  BY <1>2 DEF Apart, RowsBut, MailBut, MoversBut, Untouched
  <2>4. Grows /\ crossed \subseteq crossed' /\ left \subseteq left'  BY DEF Kept0
  <2>5. ThenTold(n, p, q)  BY <2>2, <2>3, <2>4, ToldFrame
  <2> QED  BY <2>5
<1> QED  BY <1>1, <1>2

\* Steps that touch no message.
LEMMA NoStep ==
  ASSUME Typed, MessagesRight, Kept0, UNCHANGED <<row, net, sent>>,
         \A n : MoversBut(n)
  PROVE  MessagesRight'
<1>1. 0 \notin Message  BY MessageNat
<1>2. Apart(0)  BY NoSet, NoMail DEF Apart
<1> QED  BY <1>1, <1>2, OwnStep

(***************************************************************************)
(* The message that a step is about.                                       *)
(***************************************************************************)
LEMMA OwnIs ==
  ASSUME Typed, Places, MessagesRight, NEW w \in Worker, ~Idle(w), job[w].op \in Moving
  PROVE  LET j == job[w] IN
         /\ j.m \in Message /\ j.m <= sent /\ j.p \in Person /\ j.q \in Person
         /\ MovesJ(j, j.m) /\ NowTold(j.m, j.p, j.q) /\ j.p # j.q
         /\ OfIn(row, conv, net, job, j.m, j.p, j.q)
         /\ Lives[j.p] \in Site /\ Lives[j.q] \in Site
         /\ ~Aside(crossed, left, j.m, j.p, j.q) =>
              Carried(net, job, w, j.m) /\ SideIn(row, conv, net, job, j.m, j.p, j.q)
<1> DEFINE j == job[w]
           m == job[w].m
<1>1. m \in Message /\ m <= sent  BY MovesTyped
<1>2. j.p \in Person /\ j.q \in Person /\ Lives[j.p] \in Site /\ Lives[j.q] \in Site
  BY Types, Jobs
<1>3. MovesJ(j, m)  BY DEF MovesJ
<1>4. PICK p \in Person, q \in Person : NowTold(m, p, q)  BY <1>1, MessagesAre
<1>5. j.p = p /\ j.q = q  BY <1>3, <1>4 DEF NowTold, ToldIn, OfIn
<1>6. p # q /\ OfIn(row, conv, net, job, m, p, q)  BY <1>4 DEF NowTold, ToldIn
<1>7. ASSUME ~Aside(crossed, left, m, p, q)
      PROVE  Carried(net, job, w, m) /\ SideIn(row, conv, net, job, m, p, q)
  <2>1. SideIn(row, conv, net, job, m, p, q)  BY <1>4, <1>7 DEF NowTold, ToldIn
  <2> QED  BY <1>3, <2>1, WhereIs DEF SideIn
<1> QED  BY <1>1, <1>2, <1>3, <1>4, <1>5, <1>6, <1>7

LEMMA Refits ==
  ASSUME NEW r, NEW z, NEW f, NEW g, NEW x, NEW p, NEW q, Fits(r, f, x, p, q),
         z.conv = r.conv, z.from = r.from, z.to = r.to \/ z.to = {q},
         g[r.conv].who = f[r.conv].who
  PROVE  Fits(z, g, x, p, q)
  BY DEF Fits

LEMMA OwnOf ==
  ASSUME Typed, NEW m \in Message, NEW p, NEW q, OfIn(row, conv, net, job, m, p, q), Grows,
         \A x \in Site : row'[x][m] # None =>
           row'[x][m] = row[x][m] \/ Fits(row'[x][m], conv'[x], x, p, q),
         \A a \in BagToSet(net') : a.m = m => a \in BagToSet(net) \/ (a.p = p /\ a.q = q),
         \A v \in Worker : MovesJ(job'[v], m) =>
           job'[v] = job[v] \/ (job'[v].p = p /\ job'[v].q = q)
  PROVE  OfIn(row', conv', net', job', m, p, q)
<1>1. ASSUME NEW x \in Site, row'[x][m] # None
      PROVE  Fits(row'[x][m], conv'[x], x, p, q)
  <2>1. CASE row'[x][m] = row[x][m]
    <3>1. Fits(row[x][m], conv[x], x, p, q)  BY <1>1, <2>1 DEF OfIn
    <3>2. row[x][m].conv \in DOMAIN conv[x]  BY <1>1, <2>1 DEF Typed, Filed, Known
    <3>3. conv'[x][row[x][m].conv].who = conv[x][row[x][m].conv].who  BY <3>2 DEF Grows
    <3> QED  BY <2>1, <3>1, <3>3, Refits
  <2>2. CASE row'[x][m] # row[x][m]  BY <1>1, <2>2
  <2> QED  BY <2>1, <2>2
<1>2. \A a \in BagToSet(net') : a.m = m => a.p = p /\ a.q = q  BY DEF OfIn
<1>3. \A v \in Worker : MovesJ(job'[v], m) => job'[v].p = p /\ job'[v].q = q
  BY DEF OfIn
<1> QED  BY <1>1, <1>2, <1>3 DEF OfIn

LEMMA ToldNext ==
  ASSUME NEW m, NEW p, NEW q, p # q, OfIn(row', conv', net', job', m, p, q),
         ~Aside(crossed', left', m, p, q) => SideIn(row', conv', net', job', m, p, q)
  PROVE  ThenTold(m, p, q)
  BY DEF ThenTold, ToldIn

LEMMA Far ==
  ASSUME NEW m, NEW p, NEW q, ~Aside(crossed, left, m, p, q)
  PROVE  Lives[p] # Lives[q] /\ ~IsLocal(p, q)
  BY DEF Aside, IsLocal

\* A request goes on and remains with its message.
LEMMA CarriedOn ==
  ASSUME NEW w \in Worker, NEW at, GoesOn(w, at), NEW m, UNCHANGED net,
         Carried(net, job, w, m)
  PROVE  Carried(net', job', w, m)
<1>1. \A n : MovesJ(job'[w], n) <=> MovesJ(job[w], n)  BY GoesBut
<1>2. \A v \in Worker : v # w => job'[v] = job[v]  BY DEF GoesOn, Others
<1>3. \A v \in Worker : MovesJ(job'[v], m) <=> MovesJ(job[v], m)  BY <1>1, <1>2
<1> QED  BY <1>3 DEF Carried
\* A request ends and leaves its message where it is.
LEMMA CarriedEnd ==
  ASSUME NEW w \in Worker, Ends(w), NEW m, UNCHANGED net, Carried(net, job, w, m)
  PROVE  Resting(net', job', m)
<1>1. ~MovesJ(job'[w], m)  BY EndsBut
<1>2. \A v \in Worker : v # w => job'[v] = job[v]  BY DEF Ends, Others
<1>3. \A v \in Worker : ~MovesJ(job'[v], m)  BY <1>1, <1>2 DEF Carried
<1> QED  BY <1>3 DEF Carried, Resting

\* The other workers keep what they have; the one that goes on keeps for whom.
LEMMA SameFor ==
  ASSUME NEW w \in Worker, Ends(w) \/ \E at : GoesOn(w, at)
  PROVE  \A v \in Worker : \A m : MovesJ(job'[v], m) =>
           job'[v] = job[v] \/ (v = w /\ job'[v].p = job[w].p /\ job'[v].q = job[w].q)
<1>1. CASE Ends(w)  BY <1>1, EndsBut DEF Ends, Others
<1>2. ASSUME NEW at, GoesOn(w, at)
      PROVE  \A v \in Worker : \A m : MovesJ(job'[v], m) =>
               job'[v] = job[v] \/ (v = w /\ job'[v].p = job[w].p /\ job'[v].q = job[w].q)
  BY <1>2 DEF GoesOn, SameJob, Others
<1> QED  BY <1>1, <1>2

LEMMA MessagesOpen ==
  ASSUME Typed, Places, MessagesRight, NEW w \in Worker, Open(w)
  PROVE  MessagesRight'
<1> DEFINE j == job[w]
           m == job[w].m
           p == job[w].p
           q == job[w].q
           s == WorksAt(w)
           c == opened[s] + 1
<1>1. /\ At(w, "open") /\ s \in Site /\ opened[s] \in Nat
      /\ GoesOn(w, "store") /\ job'[w].c = c /\ job'[w].num = j.num
      /\ job'[w].had = (j.op = "receive" /\ Known(s, m)) /\ Opened(s, c, {p, q})
      /\ UNCHANGED <<row, net, sent, crossed, left>>
  BY OpenDoes
<1>2. ~Idle(w) /\ j.at = "open" /\ j.op \in {"send", "receive"}
  BY <1>1, Somewhere, AtOps
<1>3. /\ m \in Message /\ m <= sent /\ p \in Person /\ q \in Person
      /\ MovesJ(j, m) /\ NowTold(m, p, q) /\ p # q
      /\ OfIn(row, conv, net, job, m, p, q)
      /\ Lives[p] \in Site /\ Lives[q] \in Site
      /\ ~Aside(crossed, left, m, p, q) =>
           Carried(net, job, w, m) /\ SideIn(row, conv, net, job, m, p, q)
  BY <1>2, OwnIs DEF Moving
<1>4. /\ job'[w].op = j.op /\ job'[w].at = "store"
      /\ j.op = "receive" => s = Lives[q]
  BY <1>1, <1>2 DEF GoesOn, SameJob, WorksAt
<1>5. Grows /\ c \in DOMAIN conv'[s]
  <2>1. ASSUME NEW x \in Site, NEW d \in DOMAIN conv[x]
        PROVE  d \in DOMAIN conv'[x] /\ conv'[x][d].who = conv[x][d].who
    <3>1. CASE x = s
      <4>1. d \in Nat /\ d <= opened[s]  BY <3>1, Types, ConvFields
      <4>2. d # c  BY <1>1, <4>1
      <4> QED  BY <1>1, <3>1, <4>2 DEF Opened
    <3>2. CASE x # s  BY <1>1, <3>2 DEF Opened
    <3> QED  BY <3>1, <3>2
  <2>2. c \in DOMAIN conv'[s]  BY <1>1 DEF Opened
  <2> QED  BY <2>1, <2>2 DEF Grows
<1>6. MoversBut(m)  BY <1>1, GoesBut
<1>7. Apart(m) /\ Kept0  BY <1>1, <1>5, <1>6, NoSet, NoMail DEF Apart, Kept0
<1>8. OfIn(row', conv', net', job', m, p, q)
  <2>1. \A v \in Worker : MovesJ(job'[v], m) =>
           job'[v] = job[v] \/ (job'[v].p = p /\ job'[v].q = q)
    BY <1>1, SameFor
  <2> QED  BY <1>1, <1>3, <1>5, <2>1, OwnOf
<1>9. ASSUME ~Aside(crossed', left', m, p, q)
      PROVE  SideIn(row', conv', net', job', m, p, q)
  <2> DEFINE S == row[Lives[p]][m]
             T == row[Lives[q]][m]
             D == DOMAIN conv[Lives[q]]
             E == DOMAIN conv'[Lives[q]]
             k == job'[w]
  <2>1. Carried(net, job, w, m) /\ SideIn(row, conv, net, job, m, p, q)  BY <1>1, <1>3, <1>9
  <2>2. Good(S, T, q) /\ Does(j, S, T, q)  BY <2>1, SideCarried DEF SideIn
  <2>3. Carried(net', job', w, m)  BY <1>1, <2>1, CarriedOn
  <2>4. /\ k.op = j.op /\ k.at = "store" /\ k.num = j.num /\ k.c = c
        /\ j.op = "receive" => k.had = (T # None) /\ c \in E
    <3>1. k.op = j.op /\ k.at = "store" /\ k.num = j.num /\ k.c = c  BY <1>1, <1>4
    <3>2. ASSUME j.op = "receive"  PROVE k.had = (T # None) /\ c \in E
      <4>1. s = Lives[q]  BY <1>4, <3>2
      <4>2. Known(s, m) = (T # None)  BY <4>1 DEF Known
      <4>3. k.had = (j.op = "receive" /\ Known(s, m))  BY <1>1
      <4>4. k.had = Known(s, m)
        <5> DEFINE kn == Known(s, m)
        <5>1. kn \in BOOLEAN  BY DEF Known
        <5> HIDE DEF kn
        <5>2. k.had = (j.op = "receive" /\ kn)  BY <4>3 DEF kn
        <5>3. k.had = kn  BY <3>2, <5>1, <5>2
        <5> QED  BY <5>3 DEF kn
      <4> QED  BY <1>5, <4>1, <4>2, <4>4
    <3> QED  BY <3>1, <3>2
  <2>5. row'[Lives[p]][m] = S /\ row'[Lives[q]][m] = T  BY <1>1
  <2> HIDE DEF S, T, E, k, c, j
  <2>6. Does(k, S, T, q) /\ Housed(k, E)
    BY <1>2, <2>2, <2>4 DEF Does, Housed, SameFlag, Matches
  <2>7. SideOf(S, T, E, net', job', m, q)  BY <2>2, <2>3, <2>6, SideCarried DEF k
  <2> QED  BY <2>5, <2>7 DEF SideIn, E
<1>10. ThenTold(m, p, q)  BY <1>3, <1>8, <1>9, ToldNext
<1> QED  BY <1>1, <1>3, <1>7, <1>10, OwnStep

LEMMA MessagesSent ==
  ASSUME Typed, Places, Rooms, MessagesRight, NEW w \in Worker, StoreSent(w) \/ Address(w)
  PROVE  MessagesRight'
<1> DEFINE j == job[w]
           m == job[w].m
           p == job[w].p
           q == job[w].q
           s == Lives[p]
           S == row[Lives[p]][m]
           T == row[Lives[q]][m]
           D == DOMAIN conv[Lives[q]]
           k == job'[w]
           Stored(z) ==
             /\ j.at = "store" /\ GoesOn(w, "address") /\ j.c \in DOMAIN conv[s]
             /\ RowSet(s, m, z) /\ RowOf(z, j.c, p, {}, 0, FALSE)
           Addressed(z) ==
             /\ j.at = "address" /\ GoesOn(w, Onward(p, q)) /\ S \in MessageRow
             /\ RowSet(s, m, z) /\ RowOf(z, S.conv, S.from, {q}, S.body, S.deleted)
<1>1. /\ ~Idle(w) /\ j.op = "send" /\ UNCHANGED <<conv, net, sent, crossed, left>>
      /\ j.at \in {"store", "address"}
      /\ \/ \E z \in MessageRow : Stored(z)
         \/ \E z \in MessageRow : Addressed(z)
         \/ Ends(w) /\ row' = row /\ (j.at = "address" => S = None)
  <2>1. CASE StoreSent(w)
    <3>1. At(w, "store")  BY <2>1, StoreSentDoes
    <3>2. ~Idle(w) /\ j.at = "store"  BY <3>1, Somewhere
    <3> QED  BY <2>1, <3>2, StoreSentDoes
  <2>2. CASE Address(w)  BY <2>2, AddressDoes, Somewhere
  <2> QED  BY <2>1, <2>2
<1>2. /\ m \in Message /\ m <= sent /\ p \in Person /\ q \in Person
      /\ MovesJ(j, m) /\ NowTold(m, p, q) /\ p # q
      /\ OfIn(row, conv, net, job, m, p, q)
      /\ Lives[p] \in Site /\ Lives[q] \in Site
      /\ ~Aside(crossed, left, m, p, q) =>
           Carried(net, job, w, m) /\ SideIn(row, conv, net, job, m, p, q)
  BY <1>1, OwnIs DEF Moving
<1>3. Kept0 /\ Grows  BY <1>1, SameConvGrows DEF Kept0
<1>4. Ends(w) \/ \E at : GoesOn(w, at)  BY <1>1
<1>5. MoversBut(m)  BY <1>4, GoesBut, EndsBut
<1>6. RowsBut(m)
  <2>1. (\E z : RowSet(s, m, z)) \/ row' = row  BY <1>1
  <2> QED  BY <2>1, SetBut, NoSet
<1>7. Apart(m)  BY <1>1, <1>5, <1>6, NoMail DEF Apart
<1>8. \A v \in Worker : MovesJ(job'[v], m) =>
         job'[v] = job[v] \/ (job'[v].p = p /\ job'[v].q = q)
  BY <1>4, SameFor
<1>9. ASSUME ~Aside(crossed', left', m, p, q)
      PROVE  /\ Carried(net, job, w, m) /\ Good(S, T, q) /\ Does(j, S, T, q)
             /\ Lives[p] # Lives[q] /\ ~IsLocal(p, q)
  <2>1. Carried(net, job, w, m) /\ SideIn(row, conv, net, job, m, p, q)  BY <1>1, <1>2, <1>9
  <2>2. Good(S, T, q) /\ Does(j, S, T, q)  BY <2>1, SideCarried DEF SideIn
  <2> QED  BY <1>1, <1>9, <2>1, <2>2, Far
<1>10. ASSUME NEW z, RowSet(s, m, z), Fits(z, conv[s], s, p, q), \E at : GoesOn(w, at),
              ~Aside(crossed', left', m, p, q) => Does(k, z, T, q) /\ Housed(k, D)
       PROVE  ThenTold(m, p, q)
  <2>1. /\ row'[s][m] = z
        /\ \A x \in Site : x # s => row'[x][m] = row[x][m]
    BY <1>2, <1>10 DEF RowSet, Others0
  <2>2. \A x \in Site : row'[x][m] # None =>
           row'[x][m] = row[x][m] \/ Fits(row'[x][m], conv'[x], x, p, q)
    BY <1>1, <1>10, <2>1
  <2>3. OfIn(row', conv', net', job', m, p, q)
    BY <1>1, <1>2, <1>3, <1>8, <2>2, OwnOf
  <2>4. ASSUME ~Aside(crossed', left', m, p, q)
        PROVE  SideIn(row', conv', net', job', m, p, q)
    <3>1. row'[Lives[p]][m] = z /\ row'[Lives[q]][m] = T  BY <1>2, <1>9, <2>1, <2>4
    <3>2. Carried(net', job', w, m)  BY <1>1, <1>9, <1>10, <2>4, CarriedOn
    <3>3. Good(z, T, q) /\ Does(k, z, T, q) /\ Housed(k, D)
      BY <1>9, <1>10, <2>4 DEF Good
    <3> HIDE DEF k, T, D
    <3>4. SideOf(z, T, D, net', job', m, q)  BY <3>2, <3>3, SideCarried DEF k
    <3>5. D = DOMAIN conv'[Lives[q]]  BY <1>1 DEF D
    <3> QED  BY <3>1, <3>4, <3>5 DEF SideIn
  <2> QED  BY <1>2, <2>3, <2>4, ToldNext
<1>11. ASSUME NEW z \in MessageRow, Stored(z)  PROVE ThenTold(m, p, q)
  <2>1. RowSet(s, m, z) /\ RowOf(z, j.c, p, {}, 0, FALSE) /\ GoesOn(w, "address")
        /\ j.c \in DOMAIN conv[s] /\ j.at = "store"
    BY <1>11
  <2>2. conv[s][j.c].who = {p, q}
    <3>1. InRoom(w) /\ WorksAt(w) = s  BY <1>1 DEF Rooms, WorksAt
    <3> QED  BY <1>1, <2>1, <3>1 DEF InRoom
  <2>3. Fits(z, conv[s], s, p, q)  BY <2>1, <2>2 DEF Fits, RowOf
  <2>4. k.op = "send" /\ k.at = "address" /\ z # None /\ z.deleted = FALSE
    BY <1>1, <2>1, RowFields DEF GoesOn, SameJob, RowOf
  <2>5. ASSUME ~Aside(crossed', left', m, p, q)  PROVE Does(k, z, T, q) /\ Housed(k, D)
    <3>1. T = None  BY <1>1, <1>9, <2>5 DEF Does
    <3> HIDE DEF k, T, D
    <3> QED  BY <2>4, <3>1 DEF Does, Housed
  <2> QED  BY <1>10, <2>1, <2>3, <2>5
<1>12. ASSUME NEW z \in MessageRow, Addressed(z)  PROVE ThenTold(m, p, q)
  <2>1. /\ RowSet(s, m, z) /\ RowOf(z, S.conv, S.from, {q}, S.body, S.deleted)
        /\ GoesOn(w, Onward(p, q)) /\ S \in MessageRow /\ j.at = "address"
    BY <1>12
  <2>2. Fits(S, conv[s], s, p, q)  BY <1>2, <2>1, RowFields DEF OfIn
  <2>3. Fits(z, conv[s], s, p, q)  BY <2>1, <2>2 DEF Fits, RowOf
  <2>4. k.op = "send" /\ k.at = Onward(p, q) /\ z # None /\ z.to = {q} /\ z.deleted = S.deleted
    BY <1>1, <2>1, RowFields DEF GoesOn, SameJob, RowOf
  <2>5. ASSUME ~Aside(crossed', left', m, p, q)  PROVE Does(k, z, T, q) /\ Housed(k, D)
    <3>1. T = None /\ ~S.deleted  BY <1>1, <1>9, <2>1, <2>5 DEF Does
    <3>2. k.at = "post"  BY <1>9, <2>4, <2>5 DEF Onward
    <3> HIDE DEF k, T, D, S
    <3> QED  BY <2>4, <3>1, <3>2 DEF Does, Housed, SameFlag, Sent
  <2> QED  BY <1>10, <2>1, <2>3, <2>5
<1>13. ASSUME Ends(w), row' = row, j.at = "address" => S = None  PROVE ThenTold(m, p, q)
  <2>1. OfIn(row', conv', net', job', m, p, q)
    BY <1>1, <1>2, <1>3, <1>8, <1>13, OwnOf
  <2>2. ASSUME ~Aside(crossed', left', m, p, q)
        PROVE  SideIn(row', conv', net', job', m, p, q)
    <3>1. Resting(net', job', m)  BY <1>1, <1>9, <1>13, <2>2, CarriedEnd
    <3>2. S = None  BY <1>1, <1>9, <1>13, <2>2 DEF Does
    <3>3. Rests(S, T, q)  BY <3>2 DEF Rests
    <3> QED  BY <1>9, <1>13, <2>2, <3>1, <3>3, SideResting DEF SideIn
  <2> QED  BY <1>2, <2>1, <2>2, ToldNext
<1>14. ThenTold(m, p, q)  BY <1>1, <1>11, <1>12, <1>13
<1> QED  BY <1>1, <1>2, <1>3, <1>7, <1>14, OwnStep

LEMMA MessagesPost ==
  ASSUME Typed, Places, MessagesRight, NEW w \in Worker, Post(w)
  PROVE  MessagesRight'
<1> DEFINE j == job[w]
           m == job[w].m
           p == job[w].p
           q == job[w].q
           S == row[Lives[p]][m]
           T == row[Lives[q]][m]
           D == DOMAIN conv[Lives[q]]
<1>1. /\ At(w, "post") /\ Ends(w) /\ j.op \in {"send", "edit", "delete", "restore"}
      /\ \/ \E a : NetPut(a) /\ MailOf(a, Kind(j.op), p, q, m, S.body)
         \/ S = None /\ net' = net
      /\ UNCHANGED <<conv, row, sent, crossed, left>>
  BY PostDoes DEF tables
<1>2. ~Idle(w) /\ j.at = "post"  BY <1>1, Somewhere
<1>3. /\ m \in Message /\ m <= sent /\ p \in Person /\ q \in Person
      /\ MovesJ(j, m) /\ NowTold(m, p, q) /\ p # q
      /\ OfIn(row, conv, net, job, m, p, q)
      /\ ~Aside(crossed, left, m, p, q) =>
           Carried(net, job, w, m) /\ SideIn(row, conv, net, job, m, p, q)
  BY <1>1, <1>2, OwnIs DEF Moving
<1>4. Kept0 /\ Grows  BY <1>1, SameConvGrows DEF Kept0
<1>5. MailBut(m)
  <2>1. ASSUME NEW a, NetPut(a), MailOf(a, Kind(j.op), p, q, m, S.body)  PROVE MailBut(m)
    <3>1. a.m = m  BY <2>1 DEF MailOf
    <3>2. MailBut(a.m)  BY <2>1, PutBut
    <3> QED  BY <3>1, <3>2
  <2> QED  BY <1>1, <2>1, NoMail
<1>6. Apart(m)  BY <1>1, <1>5, EndsBut, NoSet DEF Apart
<1>7. \A v \in Worker : MovesJ(job'[v], m) =>
         job'[v] = job[v] \/ (job'[v].p = p /\ job'[v].q = q)
  BY <1>1, SameFor
<1>8. \A a \in BagToSet(net') : a.m = m => a \in BagToSet(net) \/ (a.p = p /\ a.q = q)
  <2>1. ASSUME NEW a, NetPut(a), MailOf(a, Kind(j.op), p, q, m, S.body)
        PROVE  \A b \in BagToSet(net') : b \in BagToSet(net) \/ (b.p = p /\ b.q = q)
    <3>1. \A b \in BagToSet(net') : b \in BagToSet(net) \/ b = a  BY <2>1 DEF NetPut
    <3> QED  BY <2>1, <3>1 DEF MailOf
  <2> QED  BY <1>1, <2>1
<1>9. OfIn(row', conv', net', job', m, p, q)
  <2>1. \A x \in Site : row'[x][m] # None =>
           row'[x][m] = row[x][m] \/ Fits(row'[x][m], conv'[x], x, p, q)
    BY <1>1
  <2> QED  BY <1>3, <1>4, <1>7, <1>8, <2>1, OwnOf
<1>10. ASSUME ~Aside(crossed', left', m, p, q)
       PROVE  SideIn(row', conv', net', job', m, p, q)
  <2>1. Carried(net, job, w, m) /\ SideIn(row, conv, net, job, m, p, q)  BY <1>1, <1>3, <1>10
  <2>2. Good(S, T, q) /\ Does(j, S, T, q)  BY <2>1, SideCarried DEF SideIn
  <2>3. \A v \in Worker : ~MovesJ(job'[v], m)
    <3>1. ~MovesJ(job'[w], m)  BY <1>1, EndsBut
    <3>2. \A v \in Worker : v # w => job'[v] = job[v]  BY <1>1 DEF Ends, Others
    <3> QED  BY <2>1, <3>1, <3>2 DEF Carried
  <2>4. \A b \in BagToSet(net) : b.m # m  BY <2>1 DEF Carried
  <2>5. ASSUME NEW a, NetPut(a), MailOf(a, Kind(j.op), p, q, m, S.body)
        PROVE  SideOf(S, T, D, net', job', m, q)
    <3>1. a.m = m /\ a.kind = Kind(j.op) /\ a.body = S.body  BY <2>5 DEF MailOf
    <3>2. a \notin BagToSet(net)  BY <2>4, <3>1
    <3>3. /\ a \in BagToSet(net') /\ net'[a] = 1
          /\ \A b \in BagToSet(net') : b \in BagToSet(net) \/ b = a
      BY <2>5, <3>2 DEF NetPut
    <3>4. Mailed(net', job', a, m)  BY <2>3, <2>4, <3>1, <3>3 DEF Mailed
    <3>5. Brings(a, S, T, q)
      <4>1. CASE j.op \in {"send", "edit"}
        <5>1. a.kind = "Create"  BY <3>1, <4>1 DEF Kind
        <5>2. SameFlag(S, T, q)  BY <1>2, <2>2, <4>1 DEF Does
        <5> QED  BY <3>1, <5>1, <5>2 DEF Brings
      <4>2. CASE j.op \in {"delete", "restore"}
        <5>1. a.kind = IF j.op = "delete" THEN "Delete" ELSE "Undo"  BY <3>1, <4>2 DEF Kind
        <5>2. SameBody(S, T, q) /\ S.deleted = (j.op = "delete")  BY <2>2, <4>2 DEF Does
        <5> QED  BY <4>2, <5>1, <5>2 DEF Brings
      <4> QED  BY <1>1, <4>1, <4>2
    <3> QED  BY <2>2, <3>4, <3>5, SideMailed
  <2>6. ASSUME S = None, net' = net  PROVE SideOf(S, T, D, net', job', m, q)
    <3>1. Resting(net', job', m)  BY <1>1, <2>1, <2>6, CarriedEnd
    <3>2. Rests(S, T, q)  BY <2>6 DEF Rests
    <3> QED  BY <2>2, <3>1, <3>2, SideResting
  <2>7. SideOf(S, T, D, net', job', m, q)  BY <1>1, <2>5, <2>6
  <2> QED  BY <1>1, <2>7 DEF SideIn
<1>11. ThenTold(m, p, q)  BY <1>3, <1>9, <1>10, ToldNext
<1> QED  BY <1>1, <1>3, <1>4, <1>6, <1>11, OwnStep

\* Nothing is left but to count for somebody, or not even that.
LEMMA MessagesCounted ==
  ASSUME Typed, Places, MessagesRight, NEW w \in Worker, Count(w) \/ Write(w) \/ Finish(w)
  PROVE  MessagesRight'
<1> DEFINE j == job[w]
           m == job[w].m
           p == job[w].p
           q == job[w].q
           S == row[Lives[p]][m]
           T == row[Lives[q]][m]
           D == DOMAIN conv[Lives[q]]
<1>1. /\ UNCHANGED <<conv, row, net, sent, crossed, left>>
      /\ \/ GoesOn(w, "write") /\ At(w, "count")
         \/ Ends(w) /\ (At(w, "write") \/ At(w, "end"))
  <2>1. CASE Count(w)  BY <2>1, CountDoes DEF tables
  <2>2. CASE Write(w)  BY <2>2, WriteDoes
  <2>3. CASE Finish(w)  BY <2>3, FinishDoes DEF tables
  <2> QED  BY <2>1, <2>2, <2>3
<1>2. ~Idle(w) /\ (At(w, "count") \/ At(w, "write") \/ At(w, "end"))
      /\ j.at \in {"count", "write", "end"}
  BY <1>1, Somewhere
<1>3. Kept0 /\ Grows  BY <1>1, SameConvGrows DEF Kept0
<1>4. CASE j.op \notin Moving
  <2>1. \A n : MoversBut(n)  BY <1>1, <1>4, GoesBut, EndsBut
  <2> QED  BY <1>1, <1>3, <2>1, NoStep
<1>5. CASE j.op \in Moving
  <2>1. /\ m \in Message /\ m <= sent /\ p \in Person /\ q \in Person
        /\ MovesJ(j, m) /\ NowTold(m, p, q) /\ p # q
        /\ OfIn(row, conv, net, job, m, p, q)
        /\ ~Aside(crossed, left, m, p, q) =>
             Carried(net, job, w, m) /\ SideIn(row, conv, net, job, m, p, q)
    BY <1>2, <1>5, OwnIs
  <2>2. Apart(m)  BY <1>1, GoesBut, EndsBut, NoSet, NoMail DEF Apart
  <2>3. OfIn(row', conv', net', job', m, p, q)
    <3>1. \A v \in Worker : MovesJ(job'[v], m) =>
           job'[v] = job[v] \/ (job'[v].p = p /\ job'[v].q = q)
      BY <1>1, SameFor
    <3>2. \A x \in Site : row'[x][m] # None =>
           row'[x][m] = row[x][m] \/ Fits(row'[x][m], conv'[x], x, p, q)
      BY <1>1
    <3> QED  BY <1>1, <1>3, <2>1, <3>1, <3>2, OwnOf
  <2>4. ASSUME ~Aside(crossed', left', m, p, q)
        PROVE  SideIn(row', conv', net', job', m, p, q)
    <3>1. Carried(net, job, w, m) /\ SideIn(row, conv, net, job, m, p, q)  BY <1>1, <2>1, <2>4
    <3>2. Good(S, T, q) /\ Does(j, S, T, q)  BY <3>1, SideCarried DEF SideIn
    <3>3. ~IsLocal(p, q)  BY <1>1, <2>4, Far
    <3>4. j.op = "receive" /\ j.at \in {"count", "write"}
      BY <1>2, <1>5, <3>3, Somewhere, AtOps DEF Moving
    <3>5. Matches(S, T, q)  BY <3>2, <3>4 DEF Does
    <3>6. SideOf(S, T, D, net', job', m, q)
      <4>1. CASE GoesOn(w, "write")
        <5> DEFINE k == job'[w]
        <5>1. k.op = "receive" /\ k.at = "write"  BY <3>4, <4>1 DEF GoesOn, SameJob
        <5>2. Carried(net', job', w, m)  BY <1>1, <3>1, <4>1, CarriedOn
        <5> HIDE DEF k, S, T, D
        <5>3. Does(k, S, T, q) /\ Housed(k, D)  BY <3>5, <5>1 DEF Does, Housed
        <5> QED  BY <3>2, <5>2, <5>3, SideCarried DEF k
      <4>2. CASE Ends(w)
        <5>1. Resting(net', job', m)  BY <1>1, <3>1, <4>2, CarriedEnd
        <5> QED  BY <3>2, <3>5, <5>1, SideResting DEF Rests
      <4> QED  BY <1>1, <4>1, <4>2
    <3> QED  BY <1>1, <3>6 DEF SideIn
  <2>5. ThenTold(m, p, q)  BY <2>1, <2>3, <2>4, ToldNext
  <2> QED  BY <1>1, <1>3, <2>1, <2>2, <2>5, OwnStep
<1> QED  BY <1>4, <1>5

\* A request that starts has its message to itself when nobody else had it.
LEMMA StartsCarried ==
  ASSUME NEW w \in Worker, NEW op \in Moving, NEW p, NEW q, NEW m, NEW c, NEW at,
         Starts(w, op, p, q, m, c, at), \A v \in Worker : ~MovesJ(job[v], m),
         \A a \in BagToSet(net') : a.m # m
  PROVE  Carried(net', job', w, m)
<1>1. job'[w].op = op /\ job'[w].m = m /\ \A v \in Worker : v # w => job'[v] = job[v]
  BY DEF Starts, Others
<1>2. \A v \in Worker : MovesJ(job'[v], m) <=> v = w  BY <1>1 DEF MovesJ
<1> QED  BY <1>2 DEF Carried
LEMMA StartsFor ==
  ASSUME NEW w \in Worker, NEW op, NEW p, NEW q, NEW m, NEW c, NEW at,
         Starts(w, op, p, q, m, c, at)
  PROVE  \A v \in Worker : job'[v] = job[v] \/ (job'[v].p = p /\ job'[v].q = q)
  BY DEF Starts, Others

LEMMA MessagesBegin ==
  ASSUME Typed, Places, Numbered, MessagesRight, NEW w \in Worker, NEW p \in Person,
         NEW q \in Person, NEW c \in Between(Lives[p], p, q) \cup {0}, Send(w, p, q, c)
  PROVE  MessagesRight'
<1> DEFINE m == sent + 1
           at == IF c = 0 THEN "open" ELSE "store"
           k == job'[w]
           E == DOMAIN conv[Lives[q]]
<1>1. /\ p # q /\ sent' = m /\ m \in Message /\ sent \in Nat
      /\ Starts(w, "send", p, q, m, c, at) /\ UNCHANGED <<conv, row, net, crossed, left>>
  BY SendDoes DEF tables
<1>2. at = "open" \/ at = "store"  OBVIOUS
<1>3. m > sent /\ m <= sent' /\ \A n \in Message : n # m => (n <= sent' <=> n <= sent)
  <2>1. \A n \in Message : n \in Nat  BY MessageNat
  <2>2. m > sent /\ m <= sent' /\ \A n \in Nat : n # m => (n <= sent' <=> n <= sent)
    BY <1>1
  <2> QED  BY <2>1, <2>2
<1>4. \A x \in Site : row[x][m] = None
  <2>1. \A x \in Site : Known(x, m) => m <= sent  BY <1>1 DEF Numbered
  <2>2. ~(m <= sent)  BY <1>1, <1>3
  <2> QED  BY <2>1, <2>2 DEF Known
<1>5. \A a \in BagToSet(net) : a.m # m
  <2>1. \A a \in BagToSet(net) : a.m <= sent  BY DEF Numbered, Mail
  <2>2. ~(m <= sent)  BY <1>1, <1>3
  <2> QED  BY <2>1, <2>2
<1>6. \A v \in Worker : ~MovesJ(job[v], m)
  <2> SUFFICES ASSUME NEW v \in Worker, MovesJ(job[v], m) PROVE FALSE
    OBVIOUS
  <2>1. ~Idle(v) /\ job[v].op \in Moving /\ job[v].m = m
    BY Somewhere DEF MovesJ, Ops
  <2>2. job[v].m <= sent  BY <2>1, MovesTyped
  <2>3. ~(m <= sent)  BY <1>1, <1>3
  <2> QED  BY <2>1, <2>2, <2>3
<1> HIDE DEF m, at
<1>7. Kept0 /\ Apart(m)
  BY <1>1, StartsBut, NoSet, NoMail, SameConvGrows DEF Kept0, Apart
<1>8. Lives[p] \in Site /\ Lives[q] \in Site  BY LivesType
<1>9. OfIn(row', conv', net', job', m, p, q)
  <2>1. \A x \in Site : row'[x][m] = None  BY <1>1, <1>4
  <2>2. \A a \in BagToSet(net') : a.m # m  BY <1>1, <1>5
  <2>3. \A v \in Worker : job'[v] = job[v] \/ (job'[v].p = p /\ job'[v].q = q)
    BY <1>1, StartsFor
  <2>4. \A v \in Worker : MovesJ(job'[v], m) => job'[v].p = p /\ job'[v].q = q
    BY <1>6, <2>3
  <2> QED  BY <2>1, <2>2, <2>4 DEF OfIn
<1>10. SideIn(row', conv', net', job', m, p, q)
  <2>1. Carried(net', job', w, m)
    <3>1. "send" \in Moving  BY DEF Moving
    <3>2. \A a \in BagToSet(net') : a.m # m  BY <1>1, <1>5
    <3> QED  BY <1>1, <1>6, <3>1, <3>2, StartsCarried
  <2>2. k.op = "send" /\ k.at = at  BY <1>1 DEF Starts
  <2> HIDE DEF k, E
  <2>3. Does(k, None, None, q) /\ Housed(k, E) /\ Good(None, None, q)
    BY <1>2, <2>2 DEF Does, Housed, Good, at
  <2>4. SideOf(None, None, E, net', job', m, q)  BY <2>1, <2>3, SideCarried DEF k
  <2>5. row'[Lives[p]][m] = None /\ row'[Lives[q]][m] = None /\ E = DOMAIN conv'[Lives[q]]
    BY <1>1, <1>4, <1>8 DEF E
  <2> QED  BY <2>4, <2>5 DEF SideIn
<1>11. ThenTold(m, p, q)  BY <1>1, <1>9, <1>10, ToldNext
<1> QED  BY <1>1, <1>3, <1>7, <1>11, OwnStep

LEMMA NotUnder ==
  ASSUME NEW m, ~Under(m)
  PROVE  Resting(net, job, m)
<1>1. \A a \in BagToSet(net) : a.m # m  BY DEF Under
<1>2. \A v \in Worker : ~MovesJ(job[v], m)
  <2>1. \A v \in Worker : MovesJ(job[v], m) => ~Idle(v) /\ job[v].m = m
    BY Somewhere DEF MovesJ, Ops
  <2> QED  BY <2>1 DEF Under
<1> QED  BY <1>1, <1>2 DEF Resting

LEMMA MessagesChanged ==
  ASSUME Typed, Places, Numbered, MessagesRight, NEW w \in Worker, NEW p \in Person,
         NEW m \in Message, NEW gone \in BOOLEAN, Edit(w, p, m) \/ Delete(w, p, m, gone)
  PROVE  MessagesRight'
<1> DEFINE s == Lives[p]
           S == row[s][m]
<1>1. PICK op \in {"edit", "delete", "restore"}, at \in Ats, q \in Person, z \in MessageRow :
        /\ S \in MessageRow /\ S.from = p /\ q \in S.to
        /\ Starts(w, op, p, q, m, S.conv, at) /\ RowSet(s, m, z)
        /\ z.conv = S.conv /\ z.from = S.from /\ z.to = S.to
        /\ op = "edit" => z.deleted = S.deleted
        /\ op # "edit" => z.body = S.body /\ z.deleted = (op = "delete")
  <2>1. CASE Edit(w, p, m)
    <3>1. \A y : Onward(p, y) \in Ats  BY DEF Onward, Ats
    <3> QED  BY <2>1, <3>1, EditDoes DEF RowOf
  <2>2. CASE Delete(w, p, m, gone)
    <3> DEFINE op == IF gone THEN "delete" ELSE "restore"
    <3>1. \A y : Turn(op, p, y) \in Ats  BY DEF Turn, Onward, Ats
    <3>2. op # "edit" /\ op \in {"edit", "delete", "restore"} /\ gone = (op = "delete")
      OBVIOUS
    <3>3. /\ S \in MessageRow /\ S.from = p
          /\ \E q \in Person : q \in S.to /\ Starts(w, op, p, q, m, S.conv, Turn(op, p, q))
          /\ \E z \in MessageRow :
               RowSet(s, m, z) /\ RowOf(z, S.conv, S.from, S.to, S.body, gone)
      BY <2>2, DeleteDoes
    <3> HIDE DEF op
    <3> QED  BY <3>1, <3>2, <3>3 DEF RowOf
  <2> QED  BY <2>1, <2>2
<1>2. /\ s \in Site /\ crossed' = (IF Under(m) THEN crossed \cup {m} ELSE crossed)
      /\ UNCHANGED <<conv, net, sent, left>>
  BY EditDoes, DeleteDoes
<1>3. m <= sent /\ S # None  BY <1>1, <1>2, KnownSent
<1>4. PICK a \in Person, b \in Person : NowTold(m, a, b)  BY <1>3, MessagesAre
<1>5. a # b /\ OfIn(row, conv, net, job, m, a, b)  BY <1>4 DEF NowTold, ToldIn
<1>6. Fits(S, conv[s], s, a, b)  BY <1>2, <1>3, <1>5 DEF OfIn
<1>7. a = p /\ b = q /\ S.to = {q}  BY <1>1, <1>6 DEF Fits
<1>8. Kept0 /\ Grows  BY <1>2, SameConvGrows DEF Kept0
<1>9. Apart(m)
  <2>1. MoversBut(m) /\ RowsBut(m)  BY <1>1, StartsBut, SetBut
  <2> QED  BY <1>2, <2>1, NoMail DEF Apart
<1>10. OfIn(row', conv', net', job', m, p, q)
  <2>1. \A v \in Worker : MovesJ(job'[v], m) =>
           job'[v] = job[v] \/ (job'[v].p = p /\ job'[v].q = q)
    BY <1>1, StartsFor
  <2>2. Fits(z, conv[s], s, p, q)  BY <1>1, <1>6, <1>7 DEF Fits
  <2>3. \A x \in Site : row'[x][m] # None =>
           row'[x][m] = row[x][m] \/ Fits(row'[x][m], conv'[x], x, p, q)
    <3>1. row'[s][m] = z /\ \A x \in Site : x # s => row'[x][m] = row[x][m]
      BY <1>1 DEF RowSet, Others0
    <3> QED  BY <1>2, <2>2, <3>1
  <2> QED  BY <1>2, <1>5, <1>7, <1>8, <2>1, <2>3, OwnOf
<1>11. ASSUME ~Aside(crossed', left', m, p, q)
       PROVE  SideIn(row', conv', net', job', m, p, q)
  <2> DEFINE T == row[Lives[q]][m]
             D == DOMAIN conv[Lives[q]]
             k == job'[w]
  <2>1. ~Under(m) /\ ~Aside(crossed, left, m, p, q)  BY <1>2, <1>11 DEF Aside
  <2>2. SideIn(row, conv, net, job, m, p, q)  BY <1>4, <1>7, <2>1 DEF NowTold, ToldIn
  <2>3. Resting(net, job, m)  BY <2>1, NotUnder
  <2>4. Good(S, T, q) /\ Rests(S, T, q)  BY <2>2, <2>3, SideResting DEF SideIn
  <2>5. Matches(S, T, q)  BY <1>3, <2>4 DEF Rests
  <2>6. Lives[q] # s /\ Lives[q] \in Site  BY <2>1, Far, LivesType
  <2>7. row'[s][m] = z /\ row'[Lives[q]][m] = T  BY <1>1, <2>6 DEF RowSet, Others0
  <2>8. op \in Moving /\ k.op = op  BY <1>1 DEF Moving, Starts
  <2>9. Carried(net', job', w, m)
    <3>1. /\ \A v \in Worker : ~MovesJ(job[v], m)
          /\ \A e \in BagToSet(net') : e.m # m
      BY <1>2, <2>3 DEF Resting
    <3> QED  BY <1>1, <2>8, <3>1, StartsCarried
  <2> HIDE DEF T, k, D, S
  <2>10. Does(k, z, T, q)
    <3>1. z # None /\ z.to = {q}  BY <1>1, <1>7, RowFields
    <3>2. CASE op = "edit"
      <4>1. z.deleted = S.deleted  BY <1>1, <3>2
      <4> QED  BY <2>5, <2>8, <3>1, <3>2, <4>1 DEF Does, Matches, SameBody, SameFlag, Sent
    <3>3. CASE op \in {"delete", "restore"}
      <4>1. z.body = S.body /\ z.deleted = (op = "delete")  BY <1>1, <3>3
      <4> QED  BY <2>5, <2>8, <3>1, <3>3, <4>1 DEF Does, Matches, SameBody, Sent
    <3> QED  BY <3>2, <3>3
  <2>11. Housed(k, D) /\ Good(z, T, q)  BY <2>4, <2>8 DEF Housed, Good
  <2>12. SideOf(z, T, D, net', job', m, q)  BY <2>9, <2>10, <2>11, SideCarried DEF k
  <2>13. D = DOMAIN conv'[Lives[q]]  BY <1>2 DEF D
  <2> QED  BY <2>7, <2>12, <2>13 DEF SideIn
<1>12. ThenTold(m, p, q)  BY <1>5, <1>7, <1>10, <1>11, ToldNext
<1> QED  BY <1>2, <1>8, <1>9, <1>12, OwnStep

\* What is under way is about a message that was sent.
LEMMA MailIs ==
  ASSUME Typed, Numbered, MessagesRight, NEW a \in BagToSet(net)
  PROVE  /\ a.m \in Message /\ a.m <= sent /\ a.p \in Person /\ a.q \in Person
         /\ NowTold(a.m, a.p, a.q) /\ a.p # a.q /\ ~IsLocal(a.p, a.q)
         /\ OfIn(row, conv, net, job, a.m, a.p, a.q)
         /\ Lives[a.p] \in Site /\ Lives[a.q] \in Site /\ Lives[a.p] # Lives[a.q]
         /\ ~Aside(crossed, left, a.m, a.p, a.q) =>
              Mailed(net, job, a, a.m) /\ SideIn(row, conv, net, job, a.m, a.p, a.q)
<1> DEFINE m == a.m
<1>1. m \in Message /\ a.p \in Person /\ a.q \in Person /\ Lives[a.p] \in Site
      /\ Lives[a.q] \in Site
  BY Types, MailTypes
<1>2. m <= sent /\ ~IsLocal(a.p, a.q)  BY DEF Numbered, Mail
<1>3. PICK p \in Person, q \in Person : NowTold(m, p, q)  BY <1>1, <1>2, MessagesAre
<1>4. p # q /\ OfIn(row, conv, net, job, m, p, q)  BY <1>3 DEF NowTold, ToldIn
<1>5. a.p = p /\ a.q = q  BY <1>4 DEF OfIn
<1>6. ASSUME ~Aside(crossed, left, m, p, q)
      PROVE  Mailed(net, job, a, m) /\ SideIn(row, conv, net, job, m, p, q)
  <2>1. SideIn(row, conv, net, job, m, p, q)  BY <1>3, <1>6 DEF NowTold, ToldIn
  <2> QED  BY <2>1, WhereIs DEF SideIn
<1>7. Lives[a.p] # Lives[a.q]  BY <1>2 DEF IsLocal
<1> QED  BY <1>1, <1>2, <1>3, <1>4, <1>5, <1>6, <1>7

LEMMA Taken ==
  ASSUME NEW a \in BagToSet(net), NetTake(a)
  PROVE  /\ \A b \in BagToSet(net') : b \in BagToSet(net)
         /\ Mailed(net, job, a, a.m) => \A b \in BagToSet(net') : b.m # a.m
<1>1. \A b \in BagToSet(net') : b \in BagToSet(net)
  <2>1. CASE net[a] = 1  BY <2>1 DEF NetTake
  <2>2. CASE net[a] # 1  BY <2>2 DEF NetTake
  <2> QED  BY <2>1, <2>2
<1>2. ASSUME Mailed(net, job, a, a.m)  PROVE \A b \in BagToSet(net') : b.m # a.m
  <2>1. net[a] = 1 /\ \A b \in BagToSet(net) : b.m = a.m => b = a  BY <1>2 DEF Mailed
  <2>2. BagToSet(net') = BagToSet(net) \ {a}  BY <2>1 DEF NetTake
  <2> QED  BY <2>1, <2>2
<1> QED  BY <1>1, <1>2

LEMMA MessagesTaken ==
  ASSUME Typed, Places, Numbered, MessagesRight, NEW w \in Worker, NEW a \in BagToSet(net),
         Receive(w, a)
  PROVE  MessagesRight'
<1> DEFINE m == a.m
           p == a.p
           q == a.q
           S == row[Lives[p]][m]
           T == row[Lives[q]][m]
           D == DOMAIN conv[Lives[q]]
           k == job'[w]
<1>1. PICK c \in Between(Lives[q], p, q) \cup {0}, at \in {"open", "store"} :
        /\ at = "store" => c \in D
        /\ Starts(w, "receive", p, q, m, c, at)
  <2>1. \E c \in Between(Lives[q], p, q) \cup {0} :
          Starts(w, "receive", p, q, m, c, IF c = 0 THEN "open" ELSE "store")
    BY ReceiveDoes
  <2>2. \A c \in Between(Lives[q], p, q) : c \in D  BY DEF Between
  <2> HIDE DEF D, m, p, q
  <2> QED  BY <2>1, <2>2
<1>2. /\ a.kind = "Create" /\ NetTake(a) /\ k.had = Known(Lives[q], m) /\ k.num = a.body
      /\ UNCHANGED <<conv, row, sent, crossed, left>>
  BY ReceiveDoes DEF tables
<1>3. /\ m \in Message /\ m <= sent /\ p \in Person /\ q \in Person /\ p # q
      /\ OfIn(row, conv, net, job, m, p, q) /\ Lives[p] \in Site /\ Lives[q] \in Site
      /\ ~Aside(crossed, left, m, p, q) =>
           Mailed(net, job, a, m) /\ SideIn(row, conv, net, job, m, p, q)
  BY MailIs
<1>4. Kept0 /\ Grows  BY <1>2, SameConvGrows DEF Kept0
<1>5. Apart(m)
  <2>1. MoversBut(m) /\ RowsBut(m)  BY <1>1, <1>2, StartsBut, NoSet
  <2>2. MailBut(m)  BY <1>2, TakeBut
  <2> QED  BY <2>1, <2>2 DEF Apart
<1>6. OfIn(row', conv', net', job', m, p, q)
  <2>1. \A v \in Worker : MovesJ(job'[v], m) =>
           job'[v] = job[v] \/ (job'[v].p = p /\ job'[v].q = q)
    BY <1>1, StartsFor
  <2>2. \A b \in BagToSet(net') : b.m = m => b \in BagToSet(net) \/ (b.p = p /\ b.q = q)
    BY <1>2, Taken
  <2>3. \A x \in Site : row'[x][m] # None =>
           row'[x][m] = row[x][m] \/ Fits(row'[x][m], conv'[x], x, p, q)
    BY <1>2
  <2> QED  BY <1>3, <1>4, <2>1, <2>2, <2>3, OwnOf
<1>7. ASSUME ~Aside(crossed', left', m, p, q)
      PROVE  SideIn(row', conv', net', job', m, p, q)
  <2>1. Mailed(net, job, a, m) /\ SideIn(row, conv, net, job, m, p, q)  BY <1>2, <1>3, <1>7
  <2>2. Good(S, T, q) /\ Brings(a, S, T, q)  BY <2>1, SideMailed DEF SideIn
  <2>3. Carried(net', job', w, m)
    <3>1. \A v \in Worker : ~MovesJ(job[v], m)  BY <2>1 DEF Mailed
    <3>2. \A b \in BagToSet(net') : b.m # m  BY <1>2, <2>1, Taken
    <3>3. "receive" \in Moving  BY DEF Moving
    <3> QED  BY <1>1, <3>1, <3>2, <3>3, StartsCarried
  <2>4. SameFlag(S, T, q) /\ k.num = S.body  BY <1>2, <2>2 DEF Brings
  <2>5. k.op = "receive" /\ k.at = at /\ k.c = c  BY <1>1 DEF Starts
  <2>6. k.had = (T # None)  BY <1>2 DEF Known
  <2> HIDE DEF S, T, D, k
  <2>7. Does(k, S, T, q) /\ Housed(k, D)  BY <1>1, <2>4, <2>5, <2>6 DEF Does, Housed
  <2>8. SideOf(S, T, D, net', job', m, q)  BY <2>2, <2>3, <2>7, SideCarried DEF k
  <2> QED  BY <1>2, <2>8 DEF SideIn, S, T, D
<1>8. ThenTold(m, p, q)  BY <1>3, <1>6, <1>7, ToldNext
<1> QED  BY <1>2, <1>3, <1>4, <1>5, <1>8, OwnStep

LEMMA MessagesFlagged ==
  ASSUME Typed, Places, Numbered, MessagesRight, NEW a \in BagToSet(net), ReceiveFlag(a)
  PROVE  MessagesRight'
<1> DEFINE m == a.m
           p == a.p
           q == a.q
           s == Lives[q]
           S == row[Lives[p]][m]
           T == row[s][m]
           D == DOMAIN conv[s]
           Flagged(z) ==
             RowSet(s, m, z) /\ RowOf(z, T.conv, T.from, T.to, T.body, a.kind = "Delete")
<1>1. /\ a.kind \in {"Delete", "Undo"} /\ NetTake(a)
      /\ \/ T \in MessageRow /\ \E z \in MessageRow : Flagged(z)
         \/ T = None /\ row' = row
      /\ UNCHANGED <<conv, job, sent, crossed, left>>
  BY ReceiveFlagDoes
<1>2. /\ m \in Message /\ m <= sent /\ p \in Person /\ q \in Person /\ p # q
      /\ OfIn(row, conv, net, job, m, p, q) /\ Lives[p] \in Site /\ s \in Site
      /\ Lives[p] # s
      /\ ~Aside(crossed, left, m, p, q) =>
           Mailed(net, job, a, m) /\ SideIn(row, conv, net, job, m, p, q)
  BY MailIs
<1>3. Kept0 /\ Grows  BY <1>1, SameConvGrows DEF Kept0
<1>4. Apart(m)
  <2>1. MoversBut(m)  BY <1>1 DEF MoversBut, SameMovers
  <2>2. MailBut(m)  BY <1>1, TakeBut
  <2>3. RowsBut(m)
    <3>1. (\E z : RowSet(s, m, z)) \/ row' = row  BY <1>1
    <3> QED  BY <3>1, SetBut, NoSet
  <2> QED  BY <2>1, <2>2, <2>3 DEF Apart
<1>5. ASSUME \A x \in Site : row'[x][m] # None =>
               row'[x][m] = row[x][m] \/ Fits(row'[x][m], conv'[x], x, p, q)
      PROVE  OfIn(row', conv', net', job', m, p, q)
  <2>1. \A b \in BagToSet(net') : b.m = m => b \in BagToSet(net) \/ (b.p = p /\ b.q = q)
    BY <1>1, Taken
  <2> QED  BY <1>1, <1>2, <1>3, <1>5, <2>1, OwnOf
<1>6. ASSUME ~Aside(crossed', left', m, p, q)
      PROVE  /\ Good(S, T, q) /\ Brings(a, S, T, q) /\ Resting(net', job', m)
  <2>1. Mailed(net, job, a, m) /\ SideIn(row, conv, net, job, m, p, q)  BY <1>1, <1>2, <1>6
  <2>2. Good(S, T, q) /\ Brings(a, S, T, q)  BY <2>1, SideMailed DEF SideIn
  <2>3. \A b \in BagToSet(net') : b.m # m  BY <1>1, <2>1, Taken
  <2>4. Resting(net', job', m)  BY <1>1, <2>1, <2>3 DEF Resting, Mailed
  <2> QED  BY <2>2, <2>4
<1>7. ASSUME NEW z \in MessageRow, Flagged(z), T \in MessageRow  PROVE ThenTold(m, p, q)
  <2>1. /\ row'[s][m] = z /\ \A x \in Site : x # s => row'[x][m] = row[x][m]
    BY <1>2, <1>7 DEF RowSet, Others0
  <2>2. /\ z.conv = T.conv /\ z.from = T.from /\ z.to = T.to /\ z.body = T.body
        /\ z.deleted = (a.kind = "Delete") /\ z # None /\ T # None
    BY <1>7, RowFields DEF RowOf
  <2>3. Fits(T, conv[s], s, p, q)  BY <1>2, <2>2 DEF OfIn
  <2>4. Fits(z, conv[s], s, p, q)  BY <2>2, <2>3 DEF Fits
  <2>5. \A x \in Site : row'[x][m] # None =>
               row'[x][m] = row[x][m] \/ Fits(row'[x][m], conv'[x], x, p, q)
    BY <1>1, <2>1, <2>4
  <2>6. ASSUME ~Aside(crossed', left', m, p, q)
        PROVE  SideIn(row', conv', net', job', m, p, q)
    <3>1. SameBody(S, T, q) /\ S.deleted = (a.kind = "Delete")  BY <1>1, <1>6, <2>6 DEF Brings
    <3>2. Good(S, T, q) /\ Resting(net', job', m)  BY <1>6, <2>6
    <3>3. row'[Lives[p]][m] = S /\ row'[s][m] = z  BY <1>2, <2>1
    <3> HIDE DEF S, T, D
    <3>4. Good(S, z, q) /\ Rests(S, z, q)
      BY <2>2, <3>1, <3>2 DEF Good, Rests, Matches, SameBody, SameFlag
    <3>6. SideOf(S, z, D, net', job', m, q)  BY <3>2, <3>4, SideResting
    <3> QED  BY <1>1, <3>3, <3>6 DEF SideIn, D
  <2> QED  BY <1>2, <1>5, <2>5, <2>6, ToldNext
<1>8. ASSUME T = None, row' = row  PROVE ThenTold(m, p, q)
  <2>1. ASSUME ~Aside(crossed', left', m, p, q)  PROVE FALSE
    BY <1>1, <1>6, <1>8, <2>1 DEF Brings, SameBody
  <2> QED  BY <1>2, <1>5, <1>8, <2>1, ToldNext
<1>9. ThenTold(m, p, q)  BY <1>1, <1>7, <1>8
<1> QED  BY <1>1, <1>2, <1>3, <1>4, <1>9, OwnStep

LEMMA MessagesStored ==
  ASSUME Typed, Places, Rooms, MessagesRight, NEW w \in Worker, StoreReceived(w)
  PROVE  MessagesRight'
<1> DEFINE j == job[w]
           m == job[w].m
           p == job[w].p
           q == job[w].q
           s == Lives[q]
           S == row[Lives[p]][m]
           T == row[s][m]
           D == DOMAIN conv[s]
           k == job'[w]
           Again(z) ==
             j.had /\ T \in MessageRow /\ RowOf(z, T.conv, T.from, T.to, j.num, T.deleted)
           New(z) ==
             ~j.had /\ j.c \in D /\ T = None /\ RowOf(z, j.c, p, {q}, j.num, FALSE)
<1>1. /\ At(w, "store") /\ j.op = "receive" /\ WorksAt(w) = s
      /\ \/ /\ GoesOn(w, "count")
            /\ \E z \in MessageRow : RowSet(s, m, z) /\ (Again(z) \/ New(z))
         \/ Fails(w) /\ Ends(w) /\ row' = row
      /\ UNCHANGED <<conv, net, sent, crossed, left>>
  BY StoreReceivedDoes
<1>2. ~Idle(w) /\ j.at = "store"  BY <1>1, Somewhere
<1>3. /\ m \in Message /\ m <= sent /\ p \in Person /\ q \in Person
      /\ MovesJ(j, m) /\ NowTold(m, p, q) /\ p # q
      /\ OfIn(row, conv, net, job, m, p, q)
      /\ Lives[p] \in Site /\ s \in Site
      /\ ~Aside(crossed, left, m, p, q) =>
           Carried(net, job, w, m) /\ SideIn(row, conv, net, job, m, p, q)
  BY <1>1, <1>2, OwnIs DEF Moving
<1>4. Kept0 /\ Grows  BY <1>1, SameConvGrows DEF Kept0
<1>5. Ends(w) \/ \E at : GoesOn(w, at)  BY <1>1
<1>6. Apart(m)
  <2>1. MoversBut(m)  BY <1>5, GoesBut, EndsBut
  <2>2. RowsBut(m)
    <3>1. (\E z : RowSet(s, m, z)) \/ row' = row  BY <1>1
    <3> QED  BY <3>1, SetBut, NoSet
  <2> QED  BY <1>1, <2>1, <2>2, NoMail DEF Apart
<1>7. ASSUME \A x \in Site : row'[x][m] # None =>
               row'[x][m] = row[x][m] \/ Fits(row'[x][m], conv'[x], x, p, q)
      PROVE  OfIn(row', conv', net', job', m, p, q)
  <2>1. \A v \in Worker : MovesJ(job'[v], m) =>
         job'[v] = job[v] \/ (job'[v].p = p /\ job'[v].q = q)
    BY <1>5, SameFor
  <2> QED  BY <1>1, <1>3, <1>4, <1>7, <2>1, OwnOf
<1>8. ASSUME ~Aside(crossed', left', m, p, q)
      PROVE  /\ Carried(net, job, w, m) /\ Good(S, T, q) /\ Does(j, S, T, q) /\ Housed(j, D)
             /\ Lives[p] # s
  <2>1. Carried(net, job, w, m) /\ SideIn(row, conv, net, job, m, p, q)  BY <1>1, <1>3, <1>8
  <2>2. Good(S, T, q) /\ Does(j, S, T, q) /\ Housed(j, D)  BY <2>1, SideCarried DEF SideIn
  <2> QED  BY <1>1, <1>8, <2>1, <2>2, Far
<1>9. ASSUME NEW z \in MessageRow, RowSet(s, m, z), Again(z) \/ New(z), GoesOn(w, "count")
      PROVE  ThenTold(m, p, q)
  <2>1. /\ row'[s][m] = z /\ \A x \in Site : x # s => row'[x][m] = row[x][m]
    BY <1>3, <1>9 DEF RowSet, Others0
  <2>2. z # None  BY RowFields
  <2>3. Fits(z, conv[s], s, p, q)
    <3>1. CASE Again(z)
      <4>1. T # None  BY <3>1, RowFields
      <4>2. Fits(T, conv[s], s, p, q)  BY <1>3, <4>1 DEF OfIn
      <4> QED  BY <3>1, <4>2 DEF Fits, RowOf
    <3>2. CASE New(z)
      <4>1. conv[s][j.c].who = {p, q}
        <5>1. InRoom(w)  BY DEF Rooms
        <5> QED  BY <1>1, <1>2, <3>2, <5>1 DEF InRoom
      <4> QED  BY <3>2, <4>1 DEF Fits, RowOf
    <3> QED  BY <1>9, <3>1, <3>2
  <2>4. \A x \in Site : row'[x][m] # None =>
               row'[x][m] = row[x][m] \/ Fits(row'[x][m], conv'[x], x, p, q)
    BY <1>1, <2>1, <2>3
  <2>5. ASSUME ~Aside(crossed', left', m, p, q)
        PROVE  SideIn(row', conv', net', job', m, p, q)
    <3>1. Good(S, T, q) /\ SameFlag(S, T, q) /\ j.num = S.body
      BY <1>1, <1>2, <1>8, <2>5 DEF Does
    <3>2. Carried(net', job', w, m)  BY <1>1, <1>8, <1>9, <2>5, CarriedOn
    <3>3. k.op = "receive" /\ k.at = "count"  BY <1>1, <1>9 DEF GoesOn, SameJob
    <3>4. z.body = S.body /\ z.to = {q} /\ z.deleted = S.deleted /\ Sent(S, q)
      <4>1. CASE Again(z)
        <5>1. T # None /\ z.to = T.to /\ z.deleted = T.deleted /\ z.body = j.num
          BY <4>1, RowFields DEF RowOf
        <5> QED  BY <3>1, <5>1 DEF Good, SameFlag
      <4>2. CASE New(z)
        <5>1. T = None /\ z.to = {q} /\ z.deleted = FALSE /\ z.body = j.num
          BY <4>2 DEF RowOf
        <5>2. Sent(S, q) /\ ~S.deleted  BY <3>1, <5>1 DEF SameFlag
        <5>3. S.deleted \in BOOLEAN
          <6>1. S # None  BY <5>2 DEF Sent
          <6>2. S \in MessageRow  BY <1>3, <6>1, Types, KnownRow
          <6> QED  BY <6>2, RowFields
        <5> QED  BY <3>1, <5>1, <5>2, <5>3
      <4> QED  BY <1>9, <4>1, <4>2
    <3>5. row'[Lives[p]][m] = S /\ row'[s][m] = z  BY <1>3, <1>8, <2>1, <2>5
    <3> HIDE DEF S, T, D, k
    <3>6. Good(S, z, q) /\ Matches(S, z, q)
      BY <2>2, <3>4 DEF Good, Matches, SameBody, SameFlag
    <3>7. Does(k, S, z, q) /\ Housed(k, D)  BY <3>3, <3>6 DEF Does, Housed
    <3>8. Good(S, z, q)  BY <2>2, <3>4 DEF Good
    <3>9. SideOf(S, z, D, net', job', m, q)  BY <3>2, <3>7, <3>8, SideCarried DEF k
    <3> QED  BY <1>1, <3>5, <3>9 DEF SideIn, D
  <2> QED  BY <1>3, <1>7, <2>4, <2>5, ToldNext
<1>10. ASSUME Fails(w), Ends(w), row' = row  PROVE ThenTold(m, p, q)
  <2>1. ASSUME ~Aside(crossed', left', m, p, q)  PROVE FALSE
    <3>1. j.had = (T # None) /\ (~j.had => j.c \in D)
      BY <1>1, <1>2, <1>8, <2>1 DEF Does, Housed
    <3>2. j.had # Known(s, m) \/ (~j.had /\ j.c \notin D)  BY <1>1, <1>10 DEF Fails
    <3>3. Known(s, m) = (T # None)  BY DEF Known
    <3>4. j.had = Known(s, m)  BY <3>1, <3>3
    <3> QED  BY <3>1, <3>2, <3>4
  <2> QED  BY <1>3, <1>7, <1>10, <2>1, ToldNext
<1>11. ThenTold(m, p, q)  BY <1>1, <1>9, <1>10
<1> QED  BY <1>1, <1>3, <1>4, <1>6, <1>11, OwnStep

\* A conversation that is removed was left.
LEMMA MessagesRemoved ==
  ASSUME Typed, Places, Rooms, MessagesRight, NEW w \in Worker, Remove(w)
  PROVE  MessagesRight'
<1> DEFINE s == Lives[job[w].p]
           c == job[w].c
<1>1. /\ job[w].op = "leave" /\ s \in Site /\ Ends(w) /\ ~Idle(w)
      /\ \/ c \in DOMAIN conv[s] /\ Removes(s, c)
         \/ UNCHANGED <<conv, row>>
      /\ UNCHANGED <<net, sent, crossed, left>>
  BY RemoveDoes DEF Ends
<1>2. \A n : MoversBut(n) /\ SameMovers(n)  BY <1>1, EndsBut DEF Moving
<1>3. CASE UNCHANGED <<conv, row>>
  <2>1. Kept0  BY <1>1, <1>3, SameConvGrows DEF Kept0
  <2> QED  BY <1>1, <1>2, <1>3, <2>1, NoStep
<1>4. CASE c \in DOMAIN conv[s] /\ Removes(s, c)
  <2>1. conv[s][c].who \in left
    <3>1. InRoom(w) /\ WorksAt(w) = s  BY <1>1 DEF Rooms, WorksAt
    <3> QED  BY <1>1, <1>4, <3>1 DEF InRoom
  <2> HIDE DEF s, c
  <2>2. ASSUME NEW x \in Site, NEW d \in DOMAIN conv[x], x # s \/ d # c
        PROVE  d \in DOMAIN conv'[x] /\ conv'[x][d] = conv[x][d]
    <3>1. CASE x = s  BY <1>4, <2>2, <3>1 DEF Removes
    <3>2. CASE x # s  BY <1>4, <2>2, <3>2 DEF Removes
    <3> QED  BY <3>1, <3>2
  <2>3. \A x \in Site, n \in Message :
          row'[x][n] = IF x = s /\ row[s][n].conv = c THEN None ELSE row[x][n]
    BY <1>4 DEF Removes
  <2> SUFFICES ASSUME NEW n \in Message, n <= sent'
               PROVE  \E p, q \in Person : ThenTold(n, p, q)
    BY MessagesAre
  <2>4. PICK p \in Person, q \in Person : NowTold(n, p, q)  BY <1>1, MessagesAre
  <2>5. p # q /\ OfIn(row, conv, net, job, n, p, q)  BY <2>4 DEF NowTold, ToldIn
  <2>6. SameMail(n) /\ SameMovers(n)  BY <1>1, <1>2, NoMail
  <2>7. OfIn(row', conv', net', job', n, p, q)
    <3>1. ASSUME NEW x \in Site, row'[x][n] # None
          PROVE  row'[x][n] = row[x][n]
                 /\ conv'[x][row[x][n].conv].who = conv[x][row[x][n].conv].who
      <4>1. row'[x][n] = row[x][n] /\ (x # s \/ row[x][n].conv # c)  BY <2>3, <3>1
      <4>2. row[x][n].conv \in DOMAIN conv[x]  BY <3>1, <4>1 DEF Typed, Filed, Known
      <4> QED  BY <2>2, <4>1, <4>2
    <3> QED  BY <2>5, <2>6, <3>1, OfFrame
  <2>8. ASSUME ~Aside(crossed', left', n, p, q)
        PROVE  SideIn(row', conv', net', job', n, p, q)
    <3> DEFINE S == row[Lives[p]][n]
               T == row[Lives[q]][n]
               D == DOMAIN conv[Lives[q]]
               E == DOMAIN conv'[Lives[q]]
    <3>1. {p, q} \notin left /\ ~Aside(crossed, left, n, p, q)  BY <1>1, <2>8 DEF Aside
    <3>2. SideIn(row, conv, net, job, n, p, q)  BY <2>4, <3>1 DEF NowTold, ToldIn
    <3>3. Lives[p] \in Site /\ Lives[q] \in Site  BY LivesType
    <3>4. \A x \in Site : row'[x][n] = row[x][n]
      <4> SUFFICES ASSUME NEW x \in Site, x = s, row[s][n].conv = c PROVE row[s][n] = None
        BY <2>3
      <4> SUFFICES ASSUME row[s][n] # None PROVE FALSE
        OBVIOUS
      <4>1. Fits(row[s][n], conv[s], s, p, q)  BY <2>5 DEF OfIn
      <4> QED  BY <2>1, <3>1, <4>1 DEF Fits
    <3>5. SideOf(S, T, D, net, job, n, q)  BY <3>2 DEF SideIn
    <3>6. ASSUME NEW v \in Worker, MovesJ(job[v], n), Housed(job[v], D)
          PROVE  Housed(job[v], E)
      <4> SUFFICES ASSUME job[v].op = "receive", job[v].at = "store", ~job[v].had
                   PROVE  job[v].c \in E
        BY DEF Housed
      <4>1. job[v].c \in D  BY <3>6 DEF Housed
      <4>2. job[v].p = p /\ job[v].q = q  BY <2>5, <3>6 DEF OfIn
      <4>3. conv[Lives[q]][job[v].c].who = {p, q}
        <5>1. InRoom(v) /\ WorksAt(v) = Lives[q]  BY <4>2 DEF Rooms, WorksAt
        <5> QED  BY <4>1, <4>2, <5>1 DEF InRoom
      <4>4. Lives[q] # s \/ job[v].c # c  BY <2>1, <3>1, <4>3
      <4> QED  BY <2>2, <3>3, <4>1, <4>4
    <3>7. row'[Lives[p]][n] = S /\ row'[Lives[q]][n] = T  BY <3>3, <3>4
    <3> HIDE DEF S, T, D, E
    <3>8. SideOf(S, T, E, net', job', n, q)  BY <2>6, <3>5, <3>6, SideFrame
    <3> QED  BY <3>7, <3>8 DEF SideIn, E
  <2>9. ThenTold(n, p, q)  BY <2>5, <2>7, <2>8, ToldNext
  <2> QED  BY <2>9
<1> QED  BY <1>1, <1>3, <1>4

\* Requests that touch no message.
LEMMA MessagesLooked ==
  ASSUME Typed, Places, MessagesRight, NEW w \in Worker, NEW p \in Person
  PROVE  /\ LookLeft(w) => MessagesRight'
         /\ \A m \in Message, b \in BOOLEAN : Mark(w, p, m, b) => MessagesRight'
         /\ MarkAll(w, p) => MessagesRight'
         /\ \A c \in DOMAIN conv[Lives[p]] :
              View(w, p, c) \/ Leave(w, p, c) \/ DeleteChat(w, p, c) => MessagesRight'
<1>1. ASSUME NEW op, NEW m, NEW c, NEW at, Starts(w, op, p, p, m, c, at), op \notin Moving,
             UNCHANGED <<row, net, sent, crossed>>, Grows, left \subseteq left'
      PROVE  MessagesRight'
  <2>1. \A n : MoversBut(n)  BY <1>1, StartsBut
  <2>2. Kept0  BY <1>1 DEF Kept0
  <2> QED  BY <1>1, <2>1, <2>2, NoStep
<1>2. ASSUME LookLeft(w)  PROVE MessagesRight'
  <2>1. /\ job[w].op \notin Moving /\ UNCHANGED <<row, conv, net, sent, crossed, left>>
        /\ Ends(w) \/ GoesOn(w, "remove")
    BY <1>2, LookLeftDoes DEF tables, Moving
  <2>2. \A n : MoversBut(n)  BY <2>1, EndsBut, GoesBut
  <2>3. Kept0  BY <2>1, SameConvGrows DEF Kept0
  <2> QED  BY <2>1, <2>2, <2>3, NoStep
<1>3. ASSUME NEW m \in Message, NEW b \in BOOLEAN, Mark(w, p, m, b)  PROVE MessagesRight'
  <2> DEFINE op == IF b THEN "read" ELSE "unread"
  <2>1. Starts(w, op, p, p, m, 0, "count") /\ UNCHANGED <<row, conv, net, sent, crossed, left>>
    BY <1>3, MarkDoes DEF tables
  <2>2. op \notin Moving  BY DEF Moving
  <2> HIDE DEF op
  <2> QED  BY <1>1, <2>1, <2>2, SameConvGrows
<1>4. ASSUME MarkAll(w, p)  PROVE MessagesRight'
  <2>1. /\ Starts(w, "all", p, p, 0, 0, "count")
        /\ UNCHANGED <<row, conv, net, sent, crossed, left>> /\ "all" \notin Moving
    BY <1>4, MarkAllDoes DEF tables, Moving
  <2> QED  BY <1>1, <2>1, SameConvGrows
<1>5. ASSUME NEW c \in DOMAIN conv[Lives[p]], View(w, p, c)  PROVE MessagesRight'
  <2>1. /\ Starts(w, "view", p, p, 0, c, "count")
        /\ UNCHANGED <<row, conv, net, sent, crossed, left>> /\ "view" \notin Moving
    BY <1>5, ViewDoes DEF Moving
  <2> QED  BY <1>1, <2>1, SameConvGrows
<1>6. ASSUME NEW c \in DOMAIN conv[Lives[p]], Leave(w, p, c) \/ DeleteChat(w, p, c)
      PROVE  MessagesRight'
  <2> DEFINE s == Lives[p]
  <2>1. /\ s \in Site /\ \E at : Starts(w, "leave", p, p, 0, c, at)
        /\ \A t \in Site : t # s => conv'[t] = conv[t]
        /\ DOMAIN conv'[s] = DOMAIN conv[s] /\ conv'[s][c].who = conv[s][c].who
        /\ \A d \in DOMAIN conv[s] : d # c => conv'[s][d] = conv[s][d]
        /\ left' = left \cup {conv[s][c].who} /\ UNCHANGED <<row, net, sent, crossed>>
    BY <1>6, LeaveDoes, DeleteChatDoes DEF tables
  <2>2. "leave" \notin Moving  BY DEF Moving
  <2> HIDE DEF s
  <2>3. Grows
    <3> SUFFICES ASSUME NEW x \in Site, NEW d \in DOMAIN conv[x]
                 PROVE  d \in DOMAIN conv'[x] /\ conv'[x][d].who = conv[x][d].who
      BY DEF Grows
    <3>1. CASE x = s  BY <2>1, <3>1
    <3>2. CASE x # s  BY <2>1, <3>2
    <3> QED  BY <3>1, <3>2
  <2>4. left \subseteq left'  BY <2>1
  <2> QED  BY <1>1, <2>1, <2>2, <2>3, <2>4
<1> QED  BY <1>2, <1>3, <1>4, <1>5, <1>6

LEMMA MessagesNext ==
  Typed /\ Places /\ Numbered /\ Rooms /\ MessagesRight /\ [Next]_vars => MessagesRight'
<1> SUFFICES ASSUME Typed, Places, Numbered, Rooms, MessagesRight, [Next]_vars
             PROVE  MessagesRight'
  OBVIOUS
<1>1. CASE UNCHANGED vars
  <2>1. \A m, p, q : NowTold(m, p, q) <=> ThenTold(m, p, q)
    BY <1>1 DEF vars, NowTold, ThenTold
  <2>2. sent' = sent  BY <1>1 DEF vars
  <2> QED  BY <2>1, <2>2, MessagesAre
<1>2. ASSUME NEW w \in Worker, NEW p \in Person, NEW q \in Person,
             NEW c \in Between(Lives[p], p, q) \cup {0}, Send(w, p, q, c)
      PROVE  MessagesRight'
  BY <1>2, MessagesBegin
<1>3. ASSUME NEW w \in Worker,
             Open(w) \/ StoreSent(w) \/ Address(w) \/ Post(w) \/ Finish(w)
               \/ StoreReceived(w) \/ Count(w) \/ Write(w) \/ LookLeft(w) \/ Remove(w)
      PROVE  MessagesRight'
  <2>1. CASE Open(w)  BY <2>1, MessagesOpen
  <2>2. CASE StoreSent(w) \/ Address(w)  BY <2>2, MessagesSent
  <2>3. CASE Post(w)  BY <2>3, MessagesPost
  <2>4. CASE Count(w) \/ Write(w) \/ Finish(w)  BY <2>4, MessagesCounted
  <2>5. CASE StoreReceived(w)  BY <2>5, MessagesStored
  <2>6. CASE LookLeft(w)
    <3>1. job[w].p \in Person /\ ~Idle(w)  BY <2>6, LookLeftDoes, Somewhere, Types, Jobs
    <3> QED  BY <2>6, <3>1, MessagesLooked
  <2>7. CASE Remove(w)  BY <2>7, MessagesRemoved
  <2> QED  BY <1>3, <2>1, <2>2, <2>3, <2>4, <2>5, <2>6, <2>7
<1>4. ASSUME NEW w \in Worker, NEW p \in Person, NEW m \in Message, NEW b \in BOOLEAN,
             Edit(w, p, m) \/ Delete(w, p, m, b) \/ Mark(w, p, m, b)
      PROVE  MessagesRight'
  BY <1>4, MessagesChanged, MessagesLooked
<1>5. ASSUME NEW w \in Worker, NEW p \in Person, MarkAll(w, p)  PROVE MessagesRight'
  BY <1>5, MessagesLooked
<1>6. ASSUME NEW w \in Worker, NEW p \in Person, NEW c \in DOMAIN conv[Lives[p]],
             View(w, p, c) \/ Leave(w, p, c) \/ DeleteChat(w, p, c)
      PROVE  MessagesRight'
  BY <1>6, MessagesLooked
<1>7. ASSUME NEW w \in Worker, NEW a \in BagToSet(net), Receive(w, a)  PROVE MessagesRight'
  BY <1>7, MessagesTaken
<1>8. ASSUME NEW a \in BagToSet(net), ReceiveFlag(a)  PROVE MessagesRight'
  BY <1>8, MessagesFlagged
<1> QED
  BY <1>1, <1>2, <1>3, <1>4, <1>5, <1>6, <1>7, <1>8 DEF Next

LEMMA InitMessages == Init => MessagesRight
<1> SUFFICES ASSUME Init, NEW m \in Message PROVE ~(m <= sent)
  BY DEF MessagesRight
<1>1. sent = 0 /\ m \in Nat /\ m # 0  BY MessageNat DEF Init
<1> QED  BY <1>1

-----------------------------------------------------------------------------
(***************************************************************************)
(* Theorems.                                                               *)
(***************************************************************************)
IInv == Typed /\ Places /\ Numbered /\ Rooms /\ BellsRight /\ MessagesRight

LEMMA Invariant == Spec => []IInv
<1>1. Init => IInv
  BY InitTypes, InitPlaces, InitRooms, InitBells, InitMessages DEF IInv
<1>2. IInv /\ [Next]_vars => IInv'
  BY TypesNext, PlacesNext, RoomsNext, BellsNext, MessagesNext DEF IInv
<1> QED  BY <1>1, <1>2, PTL DEF Spec

(***************************************************************************)
(* Types, and the foreign keys of ChatMessage: a message is in a           *)
(* conversation of its instance, of the two it is between.                 *)
(***************************************************************************)
THEOREM TypeCorrect == Spec => []TypeOK
<1>1. IInv => TypeOK
  <2> SUFFICES ASSUME IInv PROVE TypeOK
    OBVIOUS
  <2>1. Typed /\ Numbered /\ MessagesRight  BY DEF IInv
  <2>2. ASSUME NEW s \in Site, NEW m \in Message, Known(s, m)
        PROVE  /\ row[s][m].conv \in DOMAIN conv[s]
               /\ {row[s][m].from} \cup row[s][m].to \subseteq conv[s][row[s][m].conv].who
    <3>1. row[s][m].conv \in DOMAIN conv[s]  BY <2>1, <2>2 DEF Typed, Filed
    <3>2. m <= sent /\ row[s][m] # None  BY <2>1, <2>2 DEF Numbered, Known
    <3>3. PICK p \in Person, q \in Person : NowTold(m, p, q)  BY <2>1, <3>2, MessagesAre
    <3>4. Fits(row[s][m], conv[s], s, p, q)  BY <3>2, <3>3 DEF NowTold, ToldIn, OfIn
    <3> QED  BY <3>1, <3>4 DEF Fits
  <2>3. ASSUME NEW s \in Site
        PROVE  /\ DOMAIN conv[s] \subseteq 1 .. opened[s]
               /\ conv[s] \in [DOMAIN conv[s] -> Conversation]
               /\ \A c \in DOMAIN conv[s] : conv[s][c].joined \subseteq conv[s][c].who
    BY <2>1 DEF Typed, ConvTypes, GoodConv
  <2>4. opened \in [Site -> Nat] /\ DOMAIN conv = Site  BY <2>1 DEF Typed, ConvTypes
  <2>5. row \in [Site -> [Message -> MessageRow \cup {None}]]  BY <2>1 DEF Typed, RowTypes
  <2>6. /\ DOMAIN notes = Person /\ \A p \in Person : IsBagOf(notes[p], Notification)
        /\ unread \in [Person -> Nat]
    BY <2>1 DEF Typed, BellTypes
  <2>7. IsBagOf(net, Activity) /\ job \in [Worker -> Running \cup {NoJob}]
    BY <2>1 DEF Typed, NetTypes, JobTypes
  <2>8. /\ sent \in 0 .. MaxMessages /\ requests \in 0 .. MaxRequests
        /\ crossed \subseteq Message /\ left \subseteq Pairs /\ muddled \subseteq Person
    BY <2>1 DEF Typed, Marks
  <2> QED  BY <2>2, <2>3, <2>4, <2>5, <2>6, <2>7, <2>8 DEF TypeOK
<1> QED  BY <1>1, Invariant, PTL

(***************************************************************************)
(* The number at the bell of somebody for whom nothing runs is that of his *)
(* unread notifications, unless two requests counted for him at once.      *)
(***************************************************************************)
THEOREM UnreadRight == Spec => []UnreadAgrees
<1>1. IInv => UnreadAgrees
  <2> SUFFICES ASSUME IInv, NEW p \in Person \ muddled,
                      \A w \in Worker : ~Idle(w) => Reader(w) # p
               PROVE  unread[p] = Unread(notes[p])
    BY DEF UnreadAgrees
  <2>1. BellRight(p)  BY DEF IInv, BellsRight
  <2>2. Counting(p) = {}  BY DEF Counting, At
  <2>3. ~Viewing(p)  BY DEF Viewing, At
  <2> QED  BY <2>1, <2>2, <2>3 DEF BellRight
<1> QED  BY <1>1, Invariant, PTL

(***************************************************************************)
(* When everything has arrived, the recipient on another instance has the  *)
(* message as its sender has it, in a conversation he has open, unless two *)
(* changes of it crossed or one of the two has left.                       *)
(***************************************************************************)
THEOREM SidesRight == Spec => []SidesAgree
<1>1. IInv => SidesAgree
  <2> SUFFICES ASSUME IInv, Quiet, NEW p \in Person, NEW q \in Person,
                      NEW m \in Message \ crossed, ~IsLocal(p, q), {p, q} \notin left,
                      Known(Lives[p], m), row[Lives[p]][m].from = p,
                      row[Lives[p]][m].to = {q}
               PROVE  LET mine == row[Lives[p]][m]
                          theirs == row[Lives[q]][m]
                      IN
                      /\ theirs # None /\ theirs.from = p /\ theirs.to = {q}
                      /\ theirs.body = mine.body /\ theirs.deleted = mine.deleted
                      /\ q \in conv[Lives[q]][theirs.conv].joined
    BY DEF SidesAgree
  <2> DEFINE S == row[Lives[p]][m]
             T == row[Lives[q]][m]
  <2>1. Typed /\ Numbered /\ Rooms /\ MessagesRight  BY DEF IInv
  <2>2. Lives[p] \in Site /\ Lives[q] \in Site  BY LivesType
  <2>3. m <= sent /\ S # None  BY <2>1, <2>2 DEF Numbered, Known
  <2>4. PICK a \in Person, b \in Person : NowTold(m, a, b)  BY <2>1, <2>3, MessagesAre
  <2>5. OfIn(row, conv, net, job, m, a, b)  BY <2>4 DEF NowTold, ToldIn
  <2>6. a = p /\ b = q
    <3>1. Fits(S, conv[Lives[p]], Lives[p], a, b)  BY <2>2, <2>3, <2>5 DEF OfIn
    <3> QED  BY <3>1 DEF Fits
  <2>7. ~Aside(crossed, left, m, p, q)  BY DEF Aside
  <2>8. SideIn(row, conv, net, job, m, p, q)  BY <2>4, <2>6, <2>7 DEF NowTold, ToldIn
  <2>9. Resting(net, job, m)
    <3>1. \A v \in Worker : job[v] = NoJob  BY DEF Quiet, Idle
    <3>2. \A v \in Worker : ~MovesJ(job[v], m)  BY <3>1 DEF MovesJ, NoJob, Moving
    <3>3. \A e \in BagToSet(net) : e.m # m  BY NoneIn DEF Quiet
    <3> QED  BY <3>2, <3>3 DEF Resting
  <2>10. Good(S, T, q) /\ Rests(S, T, q)  BY <2>8, <2>9, SideResting DEF SideIn
  <2>11. /\ T # None /\ T.to = {q} /\ T.body = S.body /\ T.deleted = S.deleted
    BY <2>3, <2>10 DEF Good, Rests, Matches, SameBody, SameFlag
  <2>12. Fits(T, conv[Lives[q]], Lives[q], p, q)  BY <2>2, <2>5, <2>6, <2>11 DEF OfIn
  <2>13. T.conv \in DOMAIN conv[Lives[q]]  BY <2>1, <2>2, <2>11 DEF Typed, Filed, Known
  <2>14. conv[Lives[q]][T.conv].joined = conv[Lives[q]][T.conv].who
    BY <2>1, <2>2, <2>12, <2>13 DEF Rooms, Fits
  <2> QED  BY <2>11, <2>12, <2>14 DEF Fits
<1> QED  BY <1>1, Invariant, PTL
=============================================================================
