-------------------------- MODULE CrossPostsProofs --------------------------
(***************************************************************************)
(* Cross posts, for any number of posts and of workers.                    *)
(*                                                                         *)
(* Which requests can deadlock: a worker whose own row comes in turn has   *)
(* locked only rows older than the one it waits for, so of the workers of  *)
(* a cycle the one that waits for the newest row could not wait.           *)
(*                                                                         *)
(* That lists stay short: whatever a worker has loaded is as proper as     *)
(* what the rows hold.  And that they agree with the URLs: of two posts    *)
(* that nothing went wrong with, each lists the other or neither does,     *)
(* after each commit, and the last commit of a request makes it right.     *)
(***************************************************************************)
EXTENDS CrossPosts, TLAPS, WellFoundedInduction, FiniteSetTheorems

Kinds == {"new", "make", "schedule", "edit", "update", "update_away", "delete",
          "inbox_delete", "ban", "restore", "inbox_restore"}
Txs == [does : {"link", "unlink", "write"}, state : {"same", "live", "deleted"},
        url : Url \cup {NoUrl, "same"}]

Shape(j) ==
  [kind : {j.kind}, of : {j.of}, url : {j.url}, at : {j.at}, dirty : {j.dirty},
   seen : {j.seen}, copy : {j.copy}]
Typed(w) ==
  /\ Idle(w) => held[w] = {}
  /\ ~Idle(w) =>
       /\ job[w] \in Shape(job[w])
       /\ job[w].kind \in Kinds /\ job[w].of \in Post /\ job[w].seen \subseteq Post
       /\ job[w].at \in {"start", "lock"}
       /\ left[w] \in Seq(Txs) \ {<<>>}
       /\ IsNew(w) => Does(w, "link") /\ Len(left[w]) = 1

\* A worker that did not lock its own row first has locked rows of what it
\* looked at only, each of them older than all it has yet to lock in turn.
InOrder(w) ==
  ~Idle(w) /\ job[w].kind \notin FlushEarly =>
    /\ job[w].at = "start" => held[w] = {}
    /\ held[w] \subseteq job[w].seen \cup {job[w].of}
    /\ \A h \in held[w], r \in ToLock(w) :
         r \in job[w].seen \/ ~Does(w, "link") => h < r

Inv == /\ job = [w \in Worker |-> job[w]]
       /\ left = [w \in Worker |-> left[w]]
       /\ held \in [Worker -> SUBSET Post]
       /\ \A w \in Worker : Typed(w)
       /\ \A w \in Worker : InOrder(w)
       /\ \A w \in Worker : \A v \in Worker \ {w} : held[v] \cap held[w] = {}

-----------------------------------------------------------------------------
(***************************************************************************)
(* Sets of numbers.                                                        *)
(***************************************************************************)
Before == {ss \in Nat \X Nat : ss[1] < ss[2]}
LEMMA BeforeWellFounded == IsWellFoundedOn(Before, Nat)
  BY NatLessThanWellFounded DEF OpToRel, Before

LEMMA LeastOf ==
  ASSUME NEW S \in SUBSET Nat, S # {}
  PROVE  \E n \in S : \A m \in S : n <= m
<1>1. PICK n \in S : \A m \in S : ~ (<<m, n>> \in Before)
  BY BeforeWellFounded, WFMin
<1>2. ASSUME NEW m \in S PROVE n <= m
  <2>1. m < n => <<m, n>> \in Before
    BY DEF Before
  <2>2. ~ (m < n)
    BY <1>1, <2>1
  <2> QED  BY <2>2
<1> QED  BY <1>2

LEMMA GreatestOf ==
  ASSUME NEW S \in SUBSET Post, S # {}
  PROVE  \E n \in S : \A m \in S : m <= n
<1> DEFINE T == {Posts - n : n \in S}
<1>0. \A n \in S : n \in Nat /\ Posts - n \in Nat
  BY CrossPostsAssumption DEF Post
<1>1. T \in SUBSET Nat /\ T # {}
  <2>1. T # {}
    OBVIOUS
  <2> QED  BY <1>0, <2>1
<1>2. PICK t \in T : \A u \in T : t <= u
  <2> HIDE DEF T
  <2> QED  BY <1>1, LeastOf
<1>3. PICK n \in S : t = Posts - n
  OBVIOUS
<1>4. ASSUME NEW m \in S PROVE m <= n
  <2>1. Posts - m \in T
    OBVIOUS
  <2>2. Posts - n <= Posts - m
    BY <1>2, <1>3, <2>1
  <2> QED  BY <2>2, CrossPostsAssumption DEF Post
<1> QED  BY <1>4

LEMMA FirstOf ==
  ASSUME NEW S \in SUBSET Post, S # {}
  PROVE  First(S) \in S /\ \A q \in S : First(S) <= q
<1>1. S \in SUBSET Nat
  BY CrossPostsAssumption DEF Post
<1> QED  BY <1>1, LeastOf DEF First

-----------------------------------------------------------------------------
(***************************************************************************)
(* What a worker locks, and in which order.                                *)
(***************************************************************************)
LEMMA TailOf ==
  ASSUME NEW S, NEW s \in Seq(S) \ {<<>>}
  PROVE  /\ Len(s) # 1 => Len(s) > 1
         /\ Len(s) > 1 => Tail(s) \in Seq(S) \ {<<>>} /\ Len(s) # 1
<1>1. Len(s) \in Nat \ {0}
  OBVIOUS
<1>2. Tail(s) \in Seq(S) /\ Len(Tail(s)) = Len(s) - 1
  OBVIOUS
<1>3. Len(s) > 1 => Len(Tail(s)) # 0
  BY <1>1, <1>2
<1>4. Len(<<>>) = 0
  OBVIOUS
<1>5. Len(s) > 1 => Tail(s) # <<>>
  BY <1>3, <1>4
<1> QED  BY <1>1, <1>2, <1>5

LEMMA DoesOne ==
  ASSUME NEW w \in Worker, Typed(w), ~Idle(w)
  PROVE  /\ Head(left[w]) \in Txs
         /\ \/ Does(w, "link") /\ ~Does(w, "unlink") /\ ~Does(w, "write")
            \/ ~Does(w, "link") /\ Does(w, "unlink") /\ ~Does(w, "write")
            \/ ~Does(w, "link") /\ ~Does(w, "unlink") /\ Does(w, "write")
<1>1. Head(left[w]) \in Txs
  BY DEF Typed
<1> QED  BY <1>1 DEF Does, Txs

LEMMA LocksOfPosts ==
  ASSUME NEW w \in Worker, Typed(w), ~Idle(w)
  PROVE  /\ ToLock(w) \subseteq Post /\ ToLock(w) \cap held[w] = {}
         /\ ToLock(w) \subseteq job[w].seen \cup {job[w].of}
         /\ Does(w, "link") => job[w].seen \subseteq ToLock(w) \cup held[w]
<1>1. Changed(w) \subseteq job[w].seen \cup {job[w].of}
  <2>1. CASE Does(w, "link") /\ ~Does(w, "unlink") /\ ~Does(w, "write")
    BY <2>1 DEF Changed
  <2>2. CASE ~Does(w, "link") /\ Does(w, "unlink") /\ ~Does(w, "write")
    BY <2>2 DEF Changed
  <2>3. CASE ~Does(w, "link") /\ ~Does(w, "unlink") /\ Does(w, "write")
    BY <2>3 DEF Changed
  <2> QED  BY <2>1, <2>2, <2>3, DoesOne
<1> QED  BY <1>1 DEF ToLock, Typed

\* The next row is the oldest of those that are locked in order.
LEMMA NextIsFirst ==
  ASSUME NEW w \in Worker, Typed(w), ~Idle(w), ToLock(w) # {}
  PROVE  /\ NextRow(w) \in ToLock(w)
         /\ \A r \in ToLock(w) : r \in job[w].seen \/ ~Does(w, "link") => NextRow(w) <= r
         /\ ~(NextRow(w) \in job[w].seen \/ ~Does(w, "link"))
              => ToLock(w) \cap job[w].seen = {}
<1> DEFINE others == ToLock(w) \cap job[w].seen
<1>1. ToLock(w) \in SUBSET Post /\ others \in SUBSET Post
  BY LocksOfPosts
<1>2. CASE Does(w, "link") /\ others # {}
  <2>1. NextRow(w) = First(others)
    BY <1>2 DEF NextRow
  <2>2. First(others) \in others /\ \A q \in others : First(others) <= q
    BY <1>1, <1>2, FirstOf
  <2> QED  BY <1>2, <2>1, <2>2
<1>3. CASE ~(Does(w, "link") /\ others # {})
  <2>1. NextRow(w) = First(ToLock(w))
    BY <1>3 DEF NextRow
  <2>2. First(ToLock(w)) \in ToLock(w) /\ \A q \in ToLock(w) : First(ToLock(w)) <= q
    BY <1>1, FirstOf
  <2> QED  BY <1>3, <2>1, <2>2
<1> QED  BY <1>2, <1>3

\* What a worker has locked is older than what it waits for, if it takes its
\* own row in turn, or if what it waits for is of what it looked at.
LEMMA HeldIsOlder ==
  ASSUME NEW w \in Worker, Typed(w), InOrder(w), ~Idle(w), ToLock(w) # {},
         job[w].kind \notin FlushEarly,
         ~OutOfTurn(w) \/ NextRow(w) \in job[w].seen
  PROVE  \A h \in held[w] : h < NextRow(w)
<1> SUFFICES ASSUME NEW h \in held[w]  PROVE h < NextRow(w)
  OBVIOUS
<1>1. NextRow(w) \in ToLock(w) /\ NextRow(w) \notin held[w]
  BY NextIsFirst, LocksOfPosts
<1>2. CASE NextRow(w) \in job[w].seen \/ ~Does(w, "link")
  BY <1>1, <1>2 DEF InOrder
<1>3. CASE ~(NextRow(w) \in job[w].seen \/ ~Does(w, "link"))
  <2>1. NextRow(w) = job[w].of
    BY <1>1, <1>3, LocksOfPosts
  <2>2. h \in job[w].seen /\ h # job[w].of
    BY <1>1, <2>1 DEF InOrder
  <2>3. ~ (h > job[w].of)
    BY <1>3, <2>2 DEF OutOfTurn
  <2>4. h \in Nat /\ job[w].of \in Nat
    BY <2>2, CrossPostsAssumption DEF Typed, Post
  <2> QED  BY <2>1, <2>2, <2>3, <2>4
<1> QED  BY <1>2, <1>3

-----------------------------------------------------------------------------
(***************************************************************************)
(* The invariant.                                                          *)
(***************************************************************************)
\* Nothing changes for a worker whose job, program and locks stay.
LEMMA Frame ==
  ASSUME NEW w \in Worker, Typed(w), InOrder(w),
         job'[w] = job[w], left'[w] = left[w], held'[w] = held[w]
  PROVE  Typed(w)' /\ InOrder(w)'
<1>1. /\ Idle(w)' <=> Idle(w)
      /\ IsNew(w)' <=> IsNew(w)
      /\ \A what \in {"link", "unlink", "write"} : Does(w, what)' <=> Does(w, what)
  BY DEF Idle, IsNew, Does
<1>2. Typed(w)'
  BY <1>1 DEF Typed, Shape, Kinds, Txs
<1>3. Changed(w)' = Changed(w)
  BY DEF Changed, Does
<1>4. ToLock(w)' = ToLock(w)
  BY <1>1, <1>3 DEF ToLock
<1>5. InOrder(w)'
  BY <1>1, <1>4 DEF InOrder, FlushEarly
<1> QED  BY <1>2, <1>5

\* It is enough to look at the one worker that does something.
LEMMA OneWorker ==
  ASSUME Inv, NEW w \in Worker,
         NEW j, job' = [job EXCEPT ![w] = j],
         NEW l, left' = [left EXCEPT ![w] = l],
         NEW h, held' = [held EXCEPT ![w] = h],
         h \subseteq Post, Typed(w)', InOrder(w)',
         \A v \in Worker \ {w} : h \cap held[v] = {}
  PROVE  Inv'
<1>1. /\ job' = [v \in Worker |-> job'[v]] /\ left' = [v \in Worker |-> left'[v]]
      /\ held' \in [Worker -> SUBSET Post]
      /\ job'[w] = j /\ left'[w] = l /\ held'[w] = h
      /\ \A v \in Worker \ {w} : job'[v] = job[v] /\ left'[v] = left[v] /\ held'[v] = held[v]
  BY DEF Inv
<1>2. \A v \in Worker : Typed(v)' /\ InOrder(v)'
  BY <1>1, Frame DEF Inv
<1>3. \A u \in Worker : \A v \in Worker \ {u} : held'[v] \cap held'[u] = {}
  <2> SUFFICES ASSUME NEW u \in Worker, NEW v \in Worker \ {u}
               PROVE  held'[v] \cap held'[u] = {}
    OBVIOUS
  <2>1. CASE u = w
    BY <1>1, <2>1
  <2>2. CASE v = w
    BY <1>1, <2>2
  <2>3. CASE u # w /\ v # w
    BY <1>1, <2>3 DEF Inv
  <2> QED  BY <2>1, <2>2, <2>3
<1> QED  BY <1>1, <1>2, <1>3 DEF Inv

\* An idle worker holds nothing that matters.
LEMMA EndKeepsInv ==
  ASSUME Inv, NEW w \in Worker, End(w)
  PROVE  Inv'
<1>1. Idle(w)'
  BY DEF End, Idle, Inv
<1>2. held'[w] = {}
  BY DEF End, Inv
<1>3. Typed(w)' /\ InOrder(w)'
  BY <1>1, <1>2 DEF Typed, InOrder
<1> QED  BY <1>3, OneWorker DEF End

LEMMA Programs ==
  ASSUME NEW kind \in Kinds, NEW me, NEW url,
         kind \in {"make", "schedule", "edit", "update"} => url \in Url
  PROVE  /\ Program(kind, me, url) \in Seq(Txs) \ {<<>>}
         /\ kind \in {"new", "make", "schedule"} =>
              /\ Head(Program(kind, me, url)).does = "link"
              /\ Len(Program(kind, me, url)) = 1
<1>1. \A does \in {"link", "unlink", "write"}, state \in {"same", "live", "deleted"},
         u \in Url \cup {NoUrl, "same"} : Tx(does, state, u) \in Txs
  BY DEF Tx, Txs
<1>2. \A t \in Txs : /\ <<t>> \in Seq(Txs) \ {<<>>} /\ Len(<<t>>) = 1
                     /\ Head(<<t>>) = t
  OBVIOUS
<1>3. \A t, u \in Txs : <<t, u>> \in Seq(Txs) \ {<<>>}
  OBVIOUS
<1>4. CASE kind = "new"
  <2>1. Program(kind, me, url) = <<Tx("link", "same", "same")>>
    BY <1>4 DEF Program
  <2>2. /\ Tx("link", "same", "same") \in Txs
    BY <1>1, <1>4
  <2>3. Tx("link", "same", "same").does = "link"
    BY DEF Tx
  <2> QED  BY <1>2, <1>3, <1>4, <2>1, <2>2, <2>3
<1>5. CASE kind \in {"make", "schedule"}
  <2>1. Program(kind, me, url) = <<Tx("link", "same", url)>>
    BY <1>5 DEF Program
  <2>2. /\ Tx("link", "same", url) \in Txs
    BY <1>1, <1>5
  <2>3. Tx("link", "same", url).does = "link"
    BY DEF Tx
  <2> QED  BY <1>2, <1>3, <1>5, <2>1, <2>2, <2>3
<1>6. CASE kind = "edit"
  <2>1. Program(kind, me, url) = <<Tx("unlink", "same", url), Tx("link", "same", url)>>
    BY <1>6 DEF Program
  <2>2. /\ Tx("unlink", "same", url) \in Txs
        /\ Tx("link", "same", url) \in Txs
    BY <1>1, <1>6
  <2> QED  BY <1>2, <1>3, <1>6, <2>1, <2>2
<1>7. CASE kind = "update"
  <2>1. Program(kind, me, url) = IF row[me].null THEN <<Tx("write", "same", url)>>
                                 ELSE <<Tx("unlink", "same", url), Tx("link", "same", url)>>
    BY <1>7 DEF Program
  <2>2. /\ Tx("write", "same", url) \in Txs
        /\ Tx("unlink", "same", url) \in Txs
        /\ Tx("link", "same", url) \in Txs
    BY <1>1, <1>7
  <2> QED  BY <1>2, <1>3, <1>7, <2>1, <2>2
<1>8. CASE kind = "update_away"
  <2>1. Program(kind, me, url) = <<Tx("unlink", "same", NoUrl)>>
    BY <1>8 DEF Program
  <2>2. /\ Tx("unlink", "same", NoUrl) \in Txs
    BY <1>1, <1>8
  <2> QED  BY <1>2, <1>3, <1>8, <2>1, <2>2
<1>9. CASE kind = "delete"
  <2>1. Program(kind, me, url) = IfUrl(me, <<Tx("unlink", "same", "same"), Tx("write", "deleted", "same")>>,
                                       Tx("write", "deleted", "same"))
    BY <1>9 DEF Program
  <2>2. /\ Tx("unlink", "same", "same") \in Txs
        /\ Tx("write", "deleted", "same") \in Txs
    BY <1>1, <1>9
  <2> QED  BY <1>2, <1>3, <1>9, <2>1, <2>2 DEF IfUrl
<1>10. CASE kind = "inbox_delete"
  <2>1. Program(kind, me, url) = IfUrl(me, <<Tx("write", "deleted", "same"), Tx("unlink", "same", "same")>>,
                                       Tx("write", "deleted", "same"))
    BY <1>10 DEF Program
  <2>2. /\ Tx("write", "deleted", "same") \in Txs
        /\ Tx("unlink", "same", "same") \in Txs
    BY <1>1, <1>10
  <2> QED  BY <1>2, <1>3, <1>10, <2>1, <2>2 DEF IfUrl
<1>11. CASE kind = "ban"
  <2>1. Program(kind, me, url) = IfUrl(me, <<Tx("unlink", "deleted", "same")>>, Tx("write", "deleted", "same"))
    BY <1>11 DEF Program
  <2>2. /\ Tx("unlink", "deleted", "same") \in Txs
        /\ Tx("write", "deleted", "same") \in Txs
    BY <1>1, <1>11
  <2> QED  BY <1>2, <1>3, <1>11, <2>1, <2>2 DEF IfUrl
<1>12. CASE kind = "restore"
  <2>1. Program(kind, me, url) = IfUrl(me, <<Tx("link", "same", "same"), Tx("write", "live", "same")>>,
                                       Tx("write", "live", "same"))
    BY <1>12 DEF Program
  <2>2. /\ Tx("link", "same", "same") \in Txs
        /\ Tx("write", "live", "same") \in Txs
    BY <1>1, <1>12
  <2> QED  BY <1>2, <1>3, <1>12, <2>1, <2>2 DEF IfUrl
<1>13. CASE kind = "inbox_restore"
  <2>1. Program(kind, me, url) = IfUrl(me, <<Tx("link", "live", "same")>>, Tx("write", "live", "same"))
    BY <1>13 DEF Program
  <2>2. /\ Tx("link", "live", "same") \in Txs
        /\ Tx("write", "live", "same") \in Txs
    BY <1>1, <1>13
  <2> QED  BY <1>2, <1>3, <1>13, <2>1, <2>2 DEF IfUrl
<1> QED
  BY <1>4, <1>5, <1>6, <1>7, <1>8, <1>9, <1>10, <1>11, <1>12, <1>13 DEF Kinds

LEMMA BeginKeepsInv ==
  ASSUME Inv, NEW w \in Worker, NEW kind \in Kinds, NEW me \in Post, NEW url,
         kind \in {"make", "schedule", "edit", "update"} => url \in Url,
         Begin(w, kind, me, url)
  PROVE  Inv'
<1> DEFINE j == [kind |-> kind, of |-> me, url |-> url, at |-> "start", dirty |-> TRUE,
                 seen |-> {}, copy |-> [p \in Post |->
                   IF p = me /\ kind \in FlushEarly THEN row[me].links ELSE Nobody]]
<1>1. /\ job' = [job EXCEPT ![w] = j]
      /\ left' = [left EXCEPT ![w] = Program(kind, me, url)]
      /\ held' = [held EXCEPT ![w] = held[w]]
  BY DEF Begin, Inv
<1>2. job'[w] = j /\ left'[w] = Program(kind, me, url) /\ held'[w] = {}
  BY <1>1 DEF Inv, Typed, Begin
<1>3. j.kind = kind /\ j.of = me /\ j.at = "start" /\ j.seen = {}
  OBVIOUS
<1>4. j \in Shape(j)
  BY DEF Shape
<1> HIDE DEF j
<1>5. ~Idle(w)'
  BY <1>2, <1>3 DEF Idle, NoJob, Kinds
<1>6. Typed(w)'
  <2>1. IsNew(w)' => Does(w, "link")' /\ Len(left'[w]) = 1
    BY <1>2, <1>3, Programs DEF IsNew, Does
  <2> QED  BY <1>2, <1>3, <1>4, <1>5, <2>1, Programs DEF Typed, Shape
<1>7. InOrder(w)'
  BY <1>2 DEF InOrder
<1>8. held' = [held EXCEPT ![w] = {}]
  BY <1>1, <1>2 DEF Inv
<1> QED  BY <1>1, <1>6, <1>7, <1>8, OneWorker

\* A job that goes on, at the start of its next transaction.
LEMMA Onwards ==
  ASSUME Inv, NEW w \in Worker, ~Idle(w), ~(IsNew(w) /\ Len(left[w]) = 1),
         Len(left[w]) > 1, left' = [left EXCEPT ![w] = Tail(@)],
         NEW j, job' = [job EXCEPT ![w] = j],
         j.kind = job[w].kind, j.of = job[w].of, j.at = "start", j.seen = job[w].seen,
         j \in Shape(j),
         NEW h, held' = [held EXCEPT ![w] = h], h \subseteq Post,
         h = {} \/ (h = held[w] /\ job[w].at = "start")
  PROVE  Inv'
<1>1. job'[w] = j /\ left'[w] = Tail(left[w]) /\ held'[w] = h
  BY DEF Inv
<1>2. Typed(w) /\ InOrder(w)
  BY DEF Inv
<1>3. ~Idle(w)'
  BY <1>1, <1>2 DEF Idle, NoJob, Typed, Kinds
<1>4. left'[w] \in Seq(Txs) \ {<<>>}
  <2>1. left[w] \in Seq(Txs) \ {<<>>}
    BY <1>2 DEF Typed
  <2> QED  BY <1>1, <2>1, TailOf
<1>5. ~IsNew(w)'
  BY <1>1, <1>2 DEF IsNew, Typed
<1>6. Typed(w)'
  BY <1>1, <1>2, <1>3, <1>4, <1>5 DEF Typed, Shape
<1>7. InOrder(w)'
  <2>1. job[w].kind \notin FlushEarly => h = {}
    BY <1>2 DEF InOrder
  <2> QED  BY <1>1, <2>1 DEF InOrder, FlushEarly
<1>8. \A v \in Worker \ {w} : h \cap held[v] = {}
  BY DEF Inv
<1> QED  BY <1>6, <1>7, <1>8, OneWorker

LEMMA SkipKeepsInv ==
  ASSUME Inv, NEW w \in Worker, Skip(w)
  PROVE  Inv'
<1>1. Typed(w) /\ ~Idle(w) /\ job[w].at = "start" /\ Len(left[w]) > 1
  BY DEF Inv, Skip, At, NothingToClear
<1>2. /\ left' = [left EXCEPT ![w] = Tail(@)]
      /\ job' = [job EXCEPT ![w] = job[w]] /\ held' = [held EXCEPT ![w] = held[w]]
      /\ held[w] \subseteq Post
  BY DEF Skip, Inv
<1>3. ~(IsNew(w) /\ Len(left[w]) = 1)
  BY <1>1, TailOf DEF Typed
<1> QED  BY <1>1, <1>2, <1>3, Onwards DEF Typed, Shape

LEMMA FlushKeepsInv ==
  ASSUME Inv, NEW w \in Worker, Flush(w)
  PROVE  Inv'
<1>1. Typed(w) /\ ~Idle(w) /\ job[w].kind \in FlushEarly /\ job[w].of \in Post
  BY DEF Inv, Typed, Flush, At, FlushesFirst, Early
<1>2. /\ job' = [job EXCEPT ![w] = job[w]] /\ left' = [left EXCEPT ![w] = left[w]]
      /\ held' = [held EXCEPT ![w] = {job[w].of}]
      /\ job' = job /\ left' = left
  BY DEF Flush, Inv
<1>3. /\ Idle(w)' <=> Idle(w)
      /\ IsNew(w)' <=> IsNew(w)
      /\ \A what \in {"link", "unlink", "write"} : Does(w, what)' <=> Does(w, what)
  BY <1>2 DEF Idle, IsNew, Does
<1>4. Typed(w)'
  BY <1>1, <1>2, <1>3 DEF Typed, Shape, Kinds, Txs
<1>5. InOrder(w)'
  BY <1>1, <1>2, <1>3 DEF InOrder, FlushEarly
<1>6. {job[w].of} \subseteq Post /\ \A v \in Worker \ {w} : {job[w].of} \cap held[v] = {}
  BY <1>1 DEF Flush, Free
<1> QED  BY <1>1, <1>2, <1>4, <1>5, <1>6, OneWorker

LEMMA LookKeepsInv ==
  ASSUME Inv, NEW w \in Worker, Look(w)
  PROVE  Inv'
<1> DEFINE copy == [p \in Post |-> CASE p = job[w].of    -> Own(w)
                                     [] p \in Sought(w) -> row[p].links
                                     [] OTHER           -> Nobody]
<1> DEFINE j == [job[w] EXCEPT !.at = "lock", !.seen = Sought(w), !.copy = copy]
<1>1. Typed(w) /\ InOrder(w) /\ ~Idle(w) /\ job[w].at = "start"
  BY DEF Inv, Look, At
<1>2. Sought(w) \subseteq Post
  <2>1. /\ Listed(Own(w)) \subseteq Post
        /\ Newest(Peers(job[w].of, job[w].url), Limit) \subseteq Post
        /\ job[w].seen \subseteq Post /\ Published(Listed(Own(w))) \subseteq Post
    BY <1>1 DEF Listed, Newest, Peers, Together, Published, Typed
  <2>2. \/ Sought(w) = Published(Listed(Own(w)))
        \/ Sought(w) = Newest(Peers(job[w].of, job[w].url), Limit)
        \/ Sought(w) = job[w].seen
    BY <1>1, DoesOne, Zenon DEF Sought
  <2> QED  BY <2>1, <2>2
<1>3. job' = [job EXCEPT ![w] = j]
  BY DEF Look
<1>4. /\ j.kind = job[w].kind /\ j.of = job[w].of /\ j.at = "lock" /\ j.seen = Sought(w)
      /\ j \in Shape(j)
  <2>1. job[w] \in Shape(job[w])
    BY <1>1 DEF Typed
  <2>2. j = [job[w] EXCEPT !.at = "lock", !.seen = Sought(w), !.copy = copy]
    OBVIOUS
  <2> HIDE DEF copy, j
  <2> QED  BY <2>1, <2>2 DEF Shape
<1> HIDE DEF j
<1>5. /\ left' = [left EXCEPT ![w] = left[w]] /\ held' = [held EXCEPT ![w] = held[w]]
      /\ left' = left /\ held' = held /\ job'[w] = j
  BY <1>3 DEF Look, Inv
<1>6. ~Idle(w)'
  BY <1>1, <1>4, <1>5 DEF Idle, NoJob, Typed, Kinds
<1>7. Typed(w)'
  <2>1. IsNew(w)' => Does(w, "link")' /\ Len(left'[w]) = 1
    BY <1>1, <1>4, <1>5 DEF IsNew, Does, Typed
  <2> QED  BY <1>1, <1>2, <1>4, <1>5, <1>6, <2>1 DEF Typed, Shape, Kinds, Txs
<1>8. InOrder(w)'
  <2>1. job[w].kind \notin FlushEarly => held[w] = {}
    BY <1>1 DEF InOrder
  <2> QED  BY <1>4, <1>5, <2>1 DEF InOrder, FlushEarly
<1>9. held[w] \subseteq Post /\ \A v \in Worker \ {w} : held[w] \cap held[v] = {}
  BY DEF Inv
<1> QED  BY <1>3, <1>5, <1>7, <1>8, <1>9, OneWorker

LEMMA LockKeepsInv ==
  ASSUME Inv, NEW w \in Worker, Lock(w)
  PROVE  Inv'
<1> DEFINE r == NextRow(w)
<1>1. Typed(w) /\ InOrder(w) /\ ~Idle(w) /\ job[w].at = "lock" /\ ToLock(w) # {}
  BY DEF Inv, Lock, At
<1>2. /\ ToLock(w) \subseteq Post /\ ToLock(w) \cap held[w] = {}
      /\ ToLock(w) \subseteq job[w].seen \cup {job[w].of}
  BY <1>1, LocksOfPosts
<1>3. /\ r \in ToLock(w)
      /\ \A q \in ToLock(w) : q \in job[w].seen \/ ~Does(w, "link") => r <= q
      /\ ~(r \in job[w].seen \/ ~Does(w, "link")) => ToLock(w) \cap job[w].seen = {}
  BY <1>1, NextIsFirst
<1>4. /\ held' = [held EXCEPT ![w] = held[w] \cup {r}]
      /\ job' = job /\ left' = left
      /\ \A v \in Worker \ {w} : r \notin held[v]
  BY DEF Lock, Free
<1> HIDE DEF r
<1>5. /\ held'[w] = held[w] \cup {r}
      /\ job' = [job EXCEPT ![w] = job[w]] /\ left' = [left EXCEPT ![w] = left[w]]
  BY <1>4 DEF Inv
<1>6. /\ Idle(w)' <=> Idle(w)
      /\ IsNew(w)' <=> IsNew(w)
      /\ \A what \in {"link", "unlink", "write"} : Does(w, what)' <=> Does(w, what)
  BY <1>4 DEF Idle, IsNew, Does
<1>7. Typed(w)'
  BY <1>1, <1>4, <1>6 DEF Typed, Shape, Kinds, Txs
<1>8. ToLock(w)' = ToLock(w) \ {r}
  <2>1. Changed(w)' = Changed(w)
    BY <1>4 DEF Changed, Does
  <2> QED  BY <1>4, <1>5, <1>6, <2>1 DEF ToLock
<1>9. InOrder(w)'
  <2> SUFFICES ASSUME job[w].kind \notin FlushEarly
               PROVE  /\ held'[w] \subseteq job[w].seen \cup {job[w].of}
                      /\ \A h \in held'[w], q \in ToLock(w)' :
                           q \in job[w].seen \/ ~Does(w, "link") => h < q
    BY <1>1, <1>4, <1>6 DEF InOrder, FlushEarly
  <2>1. held'[w] \subseteq job[w].seen \cup {job[w].of}
    BY <1>1, <1>2, <1>3, <1>5 DEF InOrder
  <2>2. ASSUME NEW h \in held'[w], NEW q \in ToLock(w)',
               q \in job[w].seen \/ ~Does(w, "link")
        PROVE  h < q
    <3>1. CASE h \in held[w]
      BY <1>1, <1>8, <2>2, <3>1 DEF InOrder
    <3>2. CASE h = r
      <4>1. r <= q /\ r # q
        BY <1>3, <1>8, <2>2
      <4>2. r \in Nat /\ q \in Nat
        BY <1>2, <1>3, <1>8, CrossPostsAssumption DEF Post
      <4> QED  BY <3>2, <4>1, <4>2
    <3> QED  BY <1>5, <3>1, <3>2
  <2> QED  BY <2>1, <2>2
<1>10. /\ held[w] \cup {r} \subseteq Post
       /\ \A v \in Worker \ {w} : (held[w] \cup {r}) \cap held[v] = {}
  BY <1>2, <1>3, <1>4 DEF Inv
<1> QED  BY <1>4, <1>5, <1>7, <1>9, <1>10, OneWorker

LEMMA CommitKeepsInv ==
  ASSUME Inv, NEW w \in Worker, Commit(w)
  PROVE  Inv'
<1>1. Typed(w) /\ ~Idle(w)
  BY DEF Inv, Commit, At
<1>2. CASE Len(left[w]) = 1
  BY <1>2, EndKeepsInv DEF Commit
<1>3. CASE Len(left[w]) # 1
  <2> DEFINE copy == [p \in Post |-> Nobody]
             j == [job[w] EXCEPT !.at = "start", !.dirty = FALSE, !.copy = copy]
  <2>1. /\ left' = [left EXCEPT ![w] = Tail(@)] /\ held' = [held EXCEPT ![w] = {}]
        /\ job' = [job EXCEPT ![w] = j]
    BY <1>3 DEF Commit
  <2>2. Len(left[w]) > 1
    BY <1>1, <1>3, TailOf DEF Typed
  <2>3. /\ j.kind = job[w].kind /\ j.of = job[w].of /\ j.at = "start" /\ j.seen = job[w].seen
        /\ j \in Shape(j)
    <3>1. job[w] \in Shape(job[w])
      BY <1>1 DEF Typed
    <3>2. j = [job[w] EXCEPT !.at = "start", !.dirty = FALSE, !.copy = copy]
      OBVIOUS
    <3> HIDE DEF copy, j
    <3> QED  BY <3>1, <3>2 DEF Shape
  <2> HIDE DEF j
  <2> QED  BY <1>1, <1>3, <2>1, <2>2, <2>3, Onwards
<1> QED  BY <1>2, <1>3

LEMMA BeginAnyKeepsInv ==
  ASSUME Inv, NEW w \in Worker, NEW me \in Post, BeginAny(w, me)
  PROVE  Inv'
<1>1. ASSUME NEW url \in Url, New(w, me, url)
      PROVE  Begin(w, "new", me, url)
  BY <1>1 DEF New, Create
<1>2. ASSUME NEW url \in Url, Make(w, me, url)
      PROVE  Begin(w, "make", me, url)
  BY <1>2 DEF Make, Create
<1>2a. ASSUME NEW url \in Url, Schedule(w, me, url)
       PROVE  Begin(w, "schedule", me, url)
  BY <1>2a DEF Schedule, Create
<1>3. ASSUME NEW url \in Url, NEW later, Edit(w, me, url, later)
      PROVE  Begin(w, "edit", me, url)
  BY <1>3 DEF Edit
<1>4. ASSUME NEW url \in Url, Update(w, me, url)
      PROVE  Begin(w, "update", me, url)
  BY <1>4 DEF Update, OnLive
<1>5. CASE \E url \in Url :
             \/ New(w, me, url) \/ Make(w, me, url) \/ Schedule(w, me, url)
             \/ Update(w, me, url) \/ \E later \in {{}, {me}} : Edit(w, me, url, later)
  <2>1. PICK url \in Url, kind \in {"new", "make", "schedule", "edit", "update"} :
          Begin(w, kind, me, url)
    BY <1>1, <1>2, <1>2a, <1>3, <1>4, <1>5
  <2> QED  BY <2>1, BeginKeepsInv DEF Kinds
<1>6. CASE UpdateAway(w, me) \/ InboxDelete(w, me) \/ Ban(w, me)
           \/ Delete(w, me) \/ Restore(w, me) \/ InboxRestore(w, me)
  <2>1. \/ Begin(w, "update_away", me, NoUrl)
        \/ Begin(w, "inbox_delete", me, row[me].url)
        \/ Begin(w, "ban", me, row[me].url)
        \/ Begin(w, "delete", me, row[me].url)
        \/ Begin(w, "restore", me, row[me].url)
        \/ Begin(w, "inbox_restore", me, row[me].url)
    BY <1>6 DEF UpdateAway, InboxDelete, Ban, Delete, Restore, InboxRestore, OnLive, OnAny
  <2> QED  BY <2>1, BeginKeepsInv DEF Kinds
<1> QED  BY <1>5, <1>6 DEF BeginAny

LEMMA NextKeepsInv ==
  ASSUME Inv, [Next]_vars
  PROVE  Inv'
<1>1. CASE UNCHANGED vars \/ \E me \in Post : StatusOnly(me)
  <2>0. UNCHANGED <<job, left, held>>
    BY <1>1 DEF vars, StatusOnly, Postpone, Publish, PublishCopy
  <2>1. \A w \in Worker : Typed(w)' /\ InOrder(w)'
    BY <2>0, Frame DEF Inv
  <2> QED  BY <2>0, <2>1 DEF Inv
<1>2. CASE Next /\ ~ \E me \in Post : StatusOnly(me)
  <2>1. PICK w \in Worker :
          (\E me \in Post : BeginAny(w, me)) \/ Work(w) \/ Victim(w) \/ Crash(w)
    BY <1>2 DEF Next
  <2>2. CASE \E me \in Post : BeginAny(w, me)
    BY <2>2, BeginAnyKeepsInv
  <2>3. CASE Work(w)
    BY <2>3, SkipKeepsInv, FlushKeepsInv, LookKeepsInv, LockKeepsInv, CommitKeepsInv DEF Work
  <2>4. CASE Victim(w) \/ Crash(w)
    BY <2>4, EndKeepsInv DEF Victim, Crash, Fails
  <2> QED  BY <2>1, <2>2, <2>3, <2>4
<1> QED  BY <1>1, <1>2

LEMMA InitInv ==
  ASSUME Init PROVE Inv
<1>1. /\ job = [w \in Worker |-> NoJob] /\ left = [w \in Worker |-> <<>>]
      /\ held = [w \in Worker |-> {}]
  BY DEF Init
<1>2. \A w \in Worker : job[w] = NoJob /\ held[w] = {}
  BY <1>1
<1>3. \A w \in Worker : Typed(w) /\ InOrder(w)
  BY <1>2 DEF Typed, InOrder, Idle
<1> QED  BY <1>1, <1>2, <1>3 DEF Inv

LEMMA AlwaysInv == Spec => []Inv
  BY InitInv, NextKeepsInv, PTL DEF Spec

-----------------------------------------------------------------------------
(***************************************************************************)
(* What the invariant says of a cycle.                                     *)
(***************************************************************************)
\* A worker of a cycle that did not flush first waits at its next lock.
LEMMA InACycle ==
  ASSUME Inv, NEW S \in SUBSET Worker, InCycle(S),
         NEW w \in S, job[w].kind \notin FlushEarly
  PROVE  /\ ~Idle(w) /\ Typed(w) /\ InOrder(w) /\ ToLock(w) # {}
         /\ NextRow(w) \in Post
         /\ \E v \in S \ {w} : NextRow(w) \in held[v]
<1>1. PICK v \in S \ {w} : Wants(w) \cap held[v] # {}
  BY DEF InCycle
<1>2. ~FlushesFirst(w)
  BY DEF FlushesFirst, Early
<1>3. At(w, "lock") /\ ToLock(w) # {} /\ Wants(w) = {NextRow(w)}
  BY <1>1, <1>2 DEF Wants
<1>4. ~Idle(w) /\ Typed(w) /\ InOrder(w)
  BY <1>3 DEF At, Inv
<1>5. NextRow(w) \in Post
  BY <1>3, <1>4, NextIsFirst, LocksOfPosts
<1> QED  BY <1>1, <1>3, <1>4, <1>5

\* If all that each has locked is older than what it waits for, the one that
\* waits for the newest row waits for somebody who waits for a newer one.
LEMMA NoCycle ==
  ASSUME Inv, NEW S \in SUBSET Worker, InCycle(S),
         \A w \in S : job[w].kind \notin FlushEarly,
         \A w \in S : \A h \in held[w] : h < NextRow(w)
  PROVE  FALSE
<1> DEFINE wanted == {NextRow(w) : w \in S}
<1>1. wanted # {} /\ wanted \in SUBSET Post
  <2>1. \A w \in S : NextRow(w) \in Post
    BY InACycle
  <2>2. S # {}
    BY DEF InCycle
  <2> QED  BY <2>1, <2>2
<1>2. PICK r \in wanted : \A q \in wanted : q <= r
  <2> HIDE DEF wanted
  <2> QED  BY <1>1, GreatestOf
<1>3. PICK w \in S : r = NextRow(w)
  OBVIOUS
<1>4. PICK v \in S : r \in held[v]
  BY <1>3, InACycle
<1>5. r < NextRow(v) /\ NextRow(v) \in wanted
  BY <1>4
<1>6. NextRow(v) <= r /\ NextRow(v) \in Nat /\ r \in Nat
  BY <1>1, <1>2, <1>5, CrossPostsAssumption DEF Post
<1> QED  BY <1>5, <1>6

LEMMA InvNoDeadlock ==
  ASSUME Inv PROVE NoDeadlock
<1> SUFFICES ASSUME NEW S \in SUBSET Worker, InCycle(S)
             PROVE  /\ \E w \in S : OutOfTurn(w)
                    /\ (\A w \in S : IsNew(w)) =>
                         ~ \E p \in Post : \A w \in S : p \in job[w].seen /\ p < job[w].of
  BY DEF NoDeadlock
<1>1. \E w \in S : OutOfTurn(w)
  <2> SUFFICES ASSUME \A w \in S : ~OutOfTurn(w)  PROVE FALSE
    OBVIOUS
  <2>1. \A w \in S : job[w].kind \notin FlushEarly
    BY DEF OutOfTurn
  <2>2. \A w \in S : \A h \in held[w] : h < NextRow(w)
    BY <2>1, InACycle, HeldIsOlder
  <2> QED  BY <2>1, <2>2, NoCycle
<1>2. ASSUME \A w \in S : IsNew(w), NEW p \in Post,
             \A w \in S : p \in job[w].seen /\ p < job[w].of
      PROVE  FALSE
  <2>1. \A w \in S : job[w].kind \notin FlushEarly
    BY <1>2 DEF IsNew, FlushEarly
  <2>2. \A w \in S : Does(w, "link") /\ p \in ToLock(w) \cup held[w]
    BY <1>2, <2>1, InACycle, LocksOfPosts DEF Typed
  <2>3. CASE \E w \in S : p \in held[w]
    <3>1. PICK w \in S : p \in held[w]
      BY <2>3
    <3>2. PICK v \in S \ {w} : NextRow(w) \in held[v]
      BY <2>1, InACycle
    <3>3. p < NextRow(w)
      <4>1. NextRow(w) \in ToLock(w)
        BY <2>1, InACycle, NextIsFirst
      <4>2. NextRow(w) \in job[w].seen \/ NextRow(w) = job[w].of
        BY <2>1, <4>1, InACycle, LocksOfPosts
      <4>3. NextRow(w) \in job[w].seen => p < NextRow(w)
        BY <2>1, <3>1, <4>1, InACycle DEF InOrder
      <4> QED  BY <1>2, <4>2, <4>3
    <3>4. p \in ToLock(v)
      BY <2>2, <3>1 DEF Inv
    <3>5. NextRow(w) < p
      BY <1>2, <2>1, <3>2, <3>4, InACycle DEF InOrder
    <3>6. NextRow(w) \in Nat /\ p \in Nat
      BY <2>1, InACycle, CrossPostsAssumption DEF Post
    <3> QED  BY <3>3, <3>5, <3>6
  <2>4. CASE \A w \in S : p \notin held[w]
    <3>1. \A w \in S : NextRow(w) \in job[w].seen
      <4> SUFFICES ASSUME NEW w \in S  PROVE NextRow(w) \in job[w].seen
        OBVIOUS
      <4>1. p \in ToLock(w) \cap job[w].seen
        BY <1>2, <2>2, <2>4
      <4> QED  BY <2>1, <2>2, <4>1, InACycle, NextIsFirst
    <3>2. \A w \in S : \A h \in held[w] : h < NextRow(w)
      BY <2>1, <3>1, InACycle, HeldIsOlder
    <3> QED  BY <2>1, <3>2, NoCycle
  <2> QED  BY <2>3, <2>4
<1> QED  BY <1>1, <1>2

\* Requests deadlock on each other's posts only if one of them takes its own
\* row out of turn; new posts that have all found an older one do not.
THEOREM DeadlocksAreOutOfTurn == Spec => []NoDeadlock
  BY AlwaysInv, InvNoDeadlock, PTL

-----------------------------------------------------------------------------
(***************************************************************************)
(* How long a list is.                                                     *)
(***************************************************************************)
Entries(list) == {e \in Post \X (1..Limit) : e[2] <= list[e[1]]}
Lists == [Post -> 0..Limit]

LEMMA FewPosts ==
  /\ IsFiniteSet(Post) /\ IsFiniteSet(1..Limit) /\ Cardinality(1..Limit) = Limit
  /\ IsFiniteSet(Post \X (1..Limit))
<1>1. IsFiniteSet(Post)
  BY FS_Interval, CrossPostsAssumption DEF Post
<1>2. IsFiniteSet(1..Limit) /\ Cardinality(1..Limit) = Limit
  BY FS_Interval, CrossPostsAssumption
<1> QED  BY <1>1, <1>2, FS_Product

LEMMA LengthType ==
  ASSUME NEW list
  PROVE  /\ IsFiniteSet(Entries(list)) /\ Length(list) = Cardinality(Entries(list))
         /\ Length(list) \in Nat
<1>1. IsFiniteSet(Entries(list))
  <2>1. Entries(list) \in SUBSET (Post \X (1..Limit))
    BY DEF Entries
  <2> QED  BY <2>1, FewPosts, FS_Subset
<1>2. Length(list) = Cardinality(Entries(list))
  BY DEF Length, Entries
<1> QED  BY <1>1, <1>2, FS_CardinalityType

\* A list from which something is taken is not longer.
LEMMA Shorter ==
  ASSUME NEW l, NEW m, \A p \in Post : l[p] \in Int /\ m[p] \in Int /\ l[p] <= m[p]
  PROVE  Length(l) <= Length(m)
<1>1. Entries(l) \subseteq Entries(m)
  <2> SUFFICES ASSUME NEW e \in Entries(l)  PROVE e \in Entries(m)
    OBVIOUS
  <2>1. PICK p \in Post, n \in 1..Limit : e = <<p, n>> /\ n <= l[p]
    BY DEF Entries
  <2>2. n \in Int /\ l[p] \in Int /\ m[p] \in Int /\ l[p] <= m[p]
    BY <2>1, CrossPostsAssumption
  <2>3. n <= m[p]
    BY <2>1, <2>2
  <2> QED  BY <2>1, <2>3 DEF Entries
<1>2. Entries(l) \in SUBSET Entries(m)
  BY <1>1
<1> QED  BY <1>2, LengthType, FS_Subset

LEMMA EmptyList ==
  /\ Nobody \in Lists /\ Length(Nobody) = 0 /\ \A p \in Post : Nobody[p] = 0
<1>1. Nobody \in Lists /\ \A p \in Post : Nobody[p] = 0
  BY CrossPostsAssumption DEF Nobody, Lists
<1>2. Entries(Nobody) = {}
  <2> SUFFICES ASSUME NEW e \in Entries(Nobody)  PROVE FALSE
    OBVIOUS
  <2>1. PICK p \in Post, n \in 1..Limit : n <= Nobody[p]
    BY DEF Entries
  <2>2. Nobody[p] = 0
    BY <1>1
  <2> QED  BY <2>1, <2>2, CrossPostsAssumption
<1>3. Length(Nobody) = 0
  BY <1>2, LengthType, FS_EmptySet
<1> QED  BY <1>1, <1>3

\* A list of each of S once is as long as S is large.
LEMMA OnlyList ==
  ASSUME NEW S \in SUBSET Post, Cardinality(S) <= Limit
  PROVE  /\ Only(S) \in Lists /\ Length(Only(S)) <= Limit
         /\ \A p \in Post : Only(S)[p] = IF p \in S THEN 1 ELSE 0
<1>1. /\ Only(S) \in Lists
      /\ \A p \in Post : Only(S)[p] = IF p \in S THEN 1 ELSE 0
  BY CrossPostsAssumption DEF Only, Lists
<1>2. Entries(Only(S)) \in SUBSET (S \X {1})
  <2> SUFFICES ASSUME NEW e \in Entries(Only(S))  PROVE e \in S \X {1}
    OBVIOUS
  <2>1. PICK p \in Post, n \in 1..Limit : e = <<p, n>> /\ n <= Only(S)[p]
    BY DEF Entries
  <2>2. p \in S /\ n = 1
    BY <1>1, <2>1, CrossPostsAssumption
  <2> QED  BY <2>1, <2>2
<1>3. IsFiniteSet(S) /\ IsFiniteSet({1}) /\ Cardinality({1}) = 1
  <2>1. IsFiniteSet(S)
    BY FewPosts, FS_Subset
  <2>2. IsFiniteSet({} \cup {1}) /\ Cardinality({} \cup {1}) = 1
    BY FS_EmptySet, FS_AddElement
  <2>3. {} \cup {1} = {1}
    OBVIOUS
  <2> QED  BY <2>1, <2>2, <2>3
<1>4. IsFiniteSet(S \X {1}) /\ Cardinality(S \X {1}) = Cardinality(S) * 1
  BY <1>3, FS_Product
<1>5. Cardinality(Entries(Only(S))) <= Cardinality(S \X {1})
  BY <1>2, <1>4, FS_Subset
<1>6. Cardinality(S) \in Nat
  BY <1>3, FS_CardinalityType
<1>7. Length(Only(S)) <= Limit
  BY <1>4, <1>5, <1>6, LengthType, CrossPostsAssumption
<1> QED  BY <1>1, <1>7

\* Where there is room one more fits in.
LEMMA OneMore ==
  ASSUME NEW list \in Lists, NEW me \in Post, Room(list)
  PROVE  /\ list[me] + 1 \in 0..Limit
         /\ [list EXCEPT ![me] = @ + 1] \in Lists
         /\ Length([list EXCEPT ![me] = @ + 1]) <= Limit
<1>1. Length(list) < Limit /\ Length(list) \in Nat /\ list[me] \in 0..Limit
  BY LengthType DEF Room, Lists
<1>2. list[me] # Limit
  <2> SUFFICES ASSUME list[me] = Limit  PROVE FALSE
    OBVIOUS
  <2>1. {me} \X (1..Limit) \subseteq Entries(list)
    BY CrossPostsAssumption DEF Entries
  <2>2. {me} \X (1..Limit) \in SUBSET Entries(list)
    BY <2>1
  <2>3. IsFiniteSet({me}) /\ Cardinality({me}) = 1
    <3>1. IsFiniteSet({}) /\ Cardinality({}) = 0
      BY FS_EmptySet
    <3>2. /\ IsFiniteSet({} \cup {me})
          /\ Cardinality({} \cup {me}) = IF me \in {} THEN 0 ELSE 0 + 1
      BY <3>1, FS_AddElement
    <3>3. {} \cup {me} = {me}
      OBVIOUS
    <3> QED  BY <3>2, <3>3
  <2>4. Cardinality({me} \X (1..Limit)) = 1 * Limit
    BY ZenonT(40), <2>3, FewPosts, FS_Product
  <2>5. Cardinality({me} \X (1..Limit)) <= Length(list)
    BY <2>2, LengthType, FS_Subset
  <2> QED  BY <1>1, <2>4, <2>5, CrossPostsAssumption
<1>3. list[me] + 1 \in 0..Limit
  BY <1>1, <1>2, CrossPostsAssumption
<1> DEFINE new == [list EXCEPT ![me] = @ + 1]
<1>4. new \in Lists /\ new[me] = list[me] + 1 /\ \A p \in Post \ {me} : new[p] = list[p]
  BY <1>3 DEF Lists
<1> HIDE DEF new
<1>5. Entries(new) \in SUBSET (Entries(list) \cup {<<me, list[me] + 1>>})
  <2> SUFFICES ASSUME NEW e \in Entries(new)
               PROVE  e \in Entries(list) \cup {<<me, list[me] + 1>>}
    OBVIOUS
  <2>1. PICK p \in Post, n \in 1..Limit : e = <<p, n>> /\ n <= new[p]
    BY DEF Entries
  <2>2. CASE p # me
    BY <1>4, <2>1, <2>2 DEF Entries
  <2>3. CASE p = me
    <3>1. n <= list[me] \/ n = list[me] + 1
      BY <1>1, <1>4, <2>1, <2>3, CrossPostsAssumption
    <3> QED  BY <2>1, <2>3, <3>1 DEF Entries
  <2> QED  BY <2>2, <2>3
<1>6. /\ IsFiniteSet(Entries(list) \cup {<<me, list[me] + 1>>})
      /\ Cardinality(Entries(list) \cup {<<me, list[me] + 1>>}) <= Length(list) + 1
  <2> DEFINE S == Entries(list)
             x == <<me, list[me] + 1>>
  <2>1. IsFiniteSet(S) /\ Cardinality(S) = Length(list)
    BY LengthType
  <2> HIDE DEF S, x
  <2>2. /\ IsFiniteSet(S \cup {x})
        /\ Cardinality(S \cup {x}) = IF x \in S THEN Cardinality(S) ELSE Cardinality(S) + 1
    BY <2>1, FS_AddElement
  <2>3. Cardinality(S \cup {x}) <= Length(list) + 1
    BY <1>1, <2>1, <2>2
  <2> QED  BY <2>2, <2>3 DEF S, x
<1>7. Length(new) <= Cardinality(Entries(list) \cup {<<me, list[me] + 1>>})
  BY <1>5, <1>6, LengthType, FS_Subset
<1>8. Cardinality(Entries(list) \cup {<<me, list[me] + 1>>}) \in Nat
  BY <1>6, FS_CardinalityType
<1>9. Length(new) <= Limit
  <2> Length(new) \in Nat  BY LengthType
  <2> QED  BY <1>1, <1>6, <1>7, <1>8, CrossPostsAssumption
<1> QED  BY <1>3, <1>4, <1>9 DEF new

LEMMA OneLess ==
  ASSUME NEW list \in Lists, NEW me \in Post, list[me] > 0
  PROVE  /\ Removed(list, me) \in Lists
         /\ Length(Removed(list, me)) <= Length(list)
         /\ \A p \in Post : Removed(list, me)[p] = IF p = me THEN list[p] - 1 ELSE list[p]
<1>0. \A p \in Post : list[p] \in 0..Limit /\ list[p] \in Int
  BY CrossPostsAssumption DEF Lists
<1>1. list[me] - 1 \in 0..Limit
  BY <1>0, CrossPostsAssumption
<1>2. /\ Removed(list, me) \in Lists
      /\ \A p \in Post : Removed(list, me)[p] = IF p = me THEN list[p] - 1 ELSE list[p]
  BY <1>0, <1>1 DEF Removed, Lists
<1>3. \A p \in Post : Removed(list, me)[p] \in Int /\ Removed(list, me)[p] <= list[p]
  BY <1>0, <1>1, <1>2
<1> QED  BY <1>0, <1>2, <1>3, Shorter

\* The n newest are no more than n.
LEMMA NewestFew ==
  ASSUME NEW S \in SUBSET Post, NEW n \in Nat
  PROVE  Newest(S, n) \in SUBSET S /\ Cardinality(Newest(S, n)) <= n
<1> DEFINE N == Newest(S, n)
<1>1. N \in SUBSET S /\ N \in SUBSET Post /\ N \in SUBSET Nat /\ IsFiniteSet(N)
  <2>1. N \in SUBSET S /\ N \in SUBSET Post
    BY DEF Newest
  <2>2. IsFiniteSet(N)
    BY <2>1, FewPosts, FS_Subset
  <2> QED  BY <2>1, <2>2, CrossPostsAssumption DEF Post
<1>2. CASE N = {}
  BY <1>1, <1>2, FS_EmptySet
<1>3. CASE N # {}
  <2>1. PICK m \in N : \A q \in N : m <= q
    <3> HIDE DEF N
    <3> QED  BY <1>1, <1>3, LeastOf
  <2> DEFINE above == {q \in S : q > m}
  <2>2. Cardinality(above) < n
    BY DEF Newest
  <2>3. N \ {m} \in SUBSET above
    <3> SUFFICES ASSUME NEW q \in N, q # m  PROVE q \in above
      OBVIOUS
    <3>1. m <= q /\ m \in Nat /\ q \in Nat /\ q \in S
      BY <1>1, <2>1
    <3> QED  BY <3>1
  <2>4. IsFiniteSet(above) /\ Cardinality(above) \in Nat
    <3>1. above \in SUBSET Post
      OBVIOUS
    <3> HIDE DEF above
    <3> QED  BY <3>1, FewPosts, FS_Subset, FS_CardinalityType
  <2> HIDE DEF N, above
  <2>5. Cardinality(N \ {m}) <= Cardinality(above)
    BY <2>3, <2>4, FS_Subset
  <2>6. Cardinality(N \ {m}) = Cardinality(N) - 1 /\ Cardinality(N) \in Nat
    BY <1>1, FS_RemoveElement, FS_CardinalityType
  <2>7. Cardinality(N) <= n
    BY <2>2, <2>4, <2>5, <2>6
  <2> QED  BY <1>1, <2>7 DEF N
<1> QED  BY <1>2, <1>3

-----------------------------------------------------------------------------
(***************************************************************************)
(* Types.  The lists that a worker has loaded are such as the rows have,   *)
(* and it has not found more posts than may be listed.                     *)
(***************************************************************************)
Proper(p, list) == list \in Lists /\ Length(list) <= Limit /\ list[p] = 0
Row == [state : {"absent", "live", "deleted", "gone"}, url : Url \cup {NoUrl},
        null : BOOLEAN, links : Lists]
Rows == /\ row \in [Post -> Row]
        /\ \A p \in Post : /\ Proper(p, row[p].links)
                           /\ row[p].null => row[p].links = Nobody
Loaded(w) ==
  /\ Idle(w) => left[w] = <<>>
  /\ ~Idle(w) =>
       /\ \A p \in Post : Proper(p, job[w].copy[p])
       /\ job[w].of \notin job[w].seen
       /\ job[w].at = "lock" /\ Does(w, "link") => Cardinality(job[w].seen) <= Limit
TypeInv ==
  /\ Rows /\ \A w \in Worker : Loaded(w)
  /\ requests \in 0..MaxRequests /\ crashes \in 0..MaxCrashes /\ tainted \subseteq Post
  /\ scheduled \subseteq Post

LEMMA ProperNobody == \A p \in Post : Proper(p, Nobody)
  BY EmptyList, CrossPostsAssumption DEF Proper

\* Only one worker loads anything.
LEMMA OneLoads ==
  ASSUME Inv, TypeInv, NEW w \in Worker,
         NEW j, job' = [job EXCEPT ![w] = j],
         NEW l, left' = [left EXCEPT ![w] = l], Loaded(w)'
  PROVE  \A v \in Worker : Loaded(v)'
<1> SUFFICES ASSUME NEW v \in Worker, v # w  PROVE Loaded(v)'
  OBVIOUS
<1>1. job'[v] = job[v] /\ left'[v] = left[v]
  BY DEF Inv
<1>2. Loaded(v)
  BY DEF TypeInv
<1> QED  BY <1>1, <1>2 DEF Loaded, Idle, Does

LEMMA EndLoads ==
  ASSUME Inv, TypeInv, NEW w \in Worker, End(w)
  PROVE  \A v \in Worker : Loaded(v)'
<1>1. job'[w] = NoJob /\ left'[w] = <<>>
  BY DEF End, Inv
<1>2. Loaded(w)'
  BY <1>1 DEF Loaded, Idle
<1> QED  BY <1>2, OneLoads DEF End

LEMMA BeginLoads ==
  ASSUME Inv, TypeInv, NEW w \in Worker, NEW kind \in Kinds, NEW me \in Post, NEW url,
         Begin(w, kind, me, url)
  PROVE  /\ \A v \in Worker : Loaded(v)'
         /\ requests' \in 0..MaxRequests /\ crashes' \in 0..MaxCrashes
         /\ tainted' \subseteq Post
<1> DEFINE copy == [p \in Post |-> IF p = me /\ kind \in FlushEarly THEN row[me].links
                                   ELSE Nobody]
           j == [kind |-> kind, of |-> me, url |-> url, at |-> "start", dirty |-> TRUE,
                 seen |-> {}, copy |-> copy]
<1>1. /\ job' = [job EXCEPT ![w] = j]
      /\ left' = [left EXCEPT ![w] = Program(kind, me, url)]
  BY DEF Begin
<1>2. \A p \in Post : Proper(p, copy[p])
  BY ProperNobody DEF TypeInv, Rows
<1>3. j.of \notin j.seen /\ j.at = "start" /\ j.copy = copy /\ j.kind = kind
  OBVIOUS
<1> HIDE DEF j, copy
<1>4. job'[w] = j /\ j # NoJob
  BY <1>1, <1>3 DEF Inv, NoJob, Kinds
<1>5. Loaded(w)'
  BY <1>2, <1>3, <1>4 DEF Loaded, Idle
<1>6. \A v \in Worker : Loaded(v)'
  BY <1>1, <1>5, OneLoads
<1>7. requests' \in 0..MaxRequests /\ crashes' \in 0..MaxCrashes /\ tainted' \subseteq Post
  BY CrossPostsAssumption DEF Begin, TypeInv
<1> QED  BY <1>6, <1>7

LEMMA BeginAnyTypes ==
  ASSUME Inv, TypeInv, NEW w \in Worker, NEW me \in Post, BeginAny(w, me)
  PROVE  TypeInv'
<1>1. PICK kind \in Kinds : \E url : Begin(w, kind, me, url)
  BY DEF BeginAny, New, Make, Schedule, Create, Edit, Update, UpdateAway, InboxDelete, Ban,
         Delete, Restore, InboxRestore, OnLive, OnAny, Kinds
<1>2. Rows'
  <2>1. CASE row' = row
    BY <2>1 DEF TypeInv, Rows
  <2>2. CASE \E u \in Url, k \in {"new", "make", "schedule"} : Create(w, k, me, u)
    <3>1. PICK u \in Url \cup {NoUrl} : row' = [row EXCEPT ![me].state = "live", ![me].url = u]
      BY <2>2 DEF Create
    <3>2. row \in [Post -> Row]
      BY DEF TypeInv, Rows
    <3> DEFINE new == [row[me] EXCEPT !.state = "live", !.url = u]
    <3>3. new \in Row /\ new.links = row[me].links /\ new.null = row[me].null
      BY <3>2 DEF Row
    <3>4. row' = [row EXCEPT ![me] = new]
      BY <3>1, <3>2
    <3> HIDE DEF new
    <3>5. \A p \in Post : row'[p].links = row[p].links /\ row'[p].null = row[p].null
      BY <3>2, <3>3, <3>4
    <3> QED  BY <3>2, <3>3, <3>4, <3>5 DEF TypeInv, Rows
  <2> QED
    BY <2>1, <2>2 DEF BeginAny, New, Make, Schedule, Edit, Update, UpdateAway, InboxDelete,
                      Ban, Delete, Restore, InboxRestore, OnLive, OnAny
<1>3. scheduled' \subseteq Post
  <2>1. scheduled' = scheduled \/ scheduled' = scheduled \cup {me}
    BY DEF BeginAny, New, Make, Schedule, Create, Edit, Update, UpdateAway, InboxDelete, Ban,
           Delete, Restore, InboxRestore, OnLive, OnAny
  <2> QED  BY <2>1 DEF TypeInv
<1> QED  BY <1>1, <1>2, <1>3, BeginLoads DEF TypeInv

\* Its own list is one that is proper, wherever it has it from.
LEMMA ProperOwn ==
  ASSUME Inv, TypeInv, NEW w \in Worker, ~Idle(w)
  PROVE  /\ job[w].of \in Post /\ Proper(job[w].of, Own(w))
         /\ Listed(Own(w)) \subseteq Post /\ job[w].of \notin Listed(Own(w))
<1>1. job[w].of \in Post
  BY DEF Inv, Typed
<1>2. Proper(job[w].of, Own(w))
  BY <1>1 DEF TypeInv, Rows, Loaded, Own
<1>3. Own(w)[job[w].of] = 0
  BY <1>2 DEF Proper
<1> QED  BY <1>1, <1>2, <1>3 DEF Listed

\* What a worker looks for.
LEMMA SoughtOf ==
  ASSUME Inv, TypeInv, NEW w \in Worker, ~Idle(w)
  PROVE  /\ Sought(w) \subseteq Post /\ job[w].of \notin Sought(w)
         /\ Does(w, "link") => Cardinality(Sought(w)) <= Limit
         /\ Does(w, "unlink") => Sought(w) = Published(Listed(Own(w)))
         /\ Does(w, "link") => Sought(w) = Newest(Peers(job[w].of, job[w].url), Limit)
         /\ Does(w, "write") => Sought(w) = job[w].seen
<1>1. Typed(w) /\ Loaded(w)
  BY DEF Inv, TypeInv
<1>2. Peers(job[w].of, job[w].url) \in SUBSET Post /\ job[w].of \notin Peers(job[w].of, job[w].url)
  BY DEF Peers, Together, Published
<1>3. /\ Newest(Peers(job[w].of, job[w].url), Limit) \in SUBSET Peers(job[w].of, job[w].url)
      /\ Cardinality(Newest(Peers(job[w].of, job[w].url), Limit)) <= Limit
  BY <1>2, NewestFew, CrossPostsAssumption
<1>4. CASE Does(w, "unlink") /\ ~Does(w, "link") /\ ~Does(w, "write")
  <2>1. Sought(w) = Published(Listed(Own(w)))
    BY <1>4 DEF Sought
  <2> QED  BY <1>4, <2>1, ProperOwn DEF Published
<1>5. CASE Does(w, "link") /\ ~Does(w, "unlink") /\ ~Does(w, "write")
  <2>1. Sought(w) = Newest(Peers(job[w].of, job[w].url), Limit)
    BY <1>5 DEF Sought
  <2> QED  BY <1>2, <1>3, <1>5, <2>1
<1>6. CASE Does(w, "write") /\ ~Does(w, "unlink") /\ ~Does(w, "link")
  <2>1. Sought(w) = job[w].seen
    BY <1>6 DEF Sought
  <2> QED  BY <1>1, <1>6, <2>1 DEF Typed, Loaded
<1> QED  BY <1>1, <1>4, <1>5, <1>6, DoesOne

LEMMA LookTypes ==
  ASSUME Inv, TypeInv, NEW w \in Worker, Look(w)
  PROVE  TypeInv'
<1>1. ~Idle(w) /\ Typed(w) /\ Loaded(w)
  BY DEF Inv, TypeInv, Look, At
<1> DEFINE copy == [p \in Post |-> CASE p = job[w].of   -> Own(w)
                                     [] p \in Sought(w) -> row[p].links
                                     [] OTHER           -> Nobody]
           j == [job[w] EXCEPT !.at = "lock", !.seen = Sought(w), !.copy = copy]
<1>2. job' = [job EXCEPT ![w] = j] /\ left' = left /\ left' = [left EXCEPT ![w] = left[w]]
  BY DEF Look, Inv
<1>3. \A p \in Post : Proper(p, copy[p])
  <2>1. \A p \in Post : (copy[p] = Own(w) /\ p = job[w].of) \/ copy[p] = row[p].links \/ copy[p] = Nobody
    OBVIOUS
  <2> HIDE DEF copy
  <2> QED  BY <1>1, <2>1, ProperOwn, ProperNobody DEF TypeInv, Rows
<1>4. /\ j.at = "lock" /\ j.seen = Sought(w) /\ j.copy = copy /\ j.of = job[w].of
      /\ j.kind = job[w].kind
  <2>1. job[w] \in Shape(job[w])
    BY <1>1 DEF Typed
  <2> HIDE DEF copy
  <2> QED  BY <2>1 DEF Shape
<1> HIDE DEF j, copy
<1>5. job'[w] = j /\ j # NoJob
  BY <1>1, <1>2, <1>4 DEF Inv, NoJob, Typed, Kinds
<1>6. Does(w, "link")' <=> Does(w, "link")
  BY <1>2 DEF Does
<1>7. Loaded(w)'
  BY <1>1, <1>3, <1>4, <1>5, <1>6, SoughtOf DEF Loaded, Idle
<1>8. \A v \in Worker : Loaded(v)'
  BY <1>2, <1>7, OneLoads
<1> QED  BY <1>8 DEF TypeInv, Look, Rows

LEMMA SmallTypes ==
  ASSUME Inv, TypeInv, NEW w \in Worker, Skip(w) \/ Flush(w) \/ Lock(w)
  PROVE  TypeInv'
<1>1. /\ job' = [job EXCEPT ![w] = job[w]] /\ job' = job
      /\ left' = [left EXCEPT ![w] = left'[w]]
      /\ left'[w] = left[w] \/ job[w].at = "start"
      /\ ~Idle(w) /\ UNCHANGED <<row, scheduled, requests, crashes, tainted>>
  BY DEF Inv, Skip, Flush, Lock, At
<1>2. Loaded(w)'
  BY <1>1 DEF TypeInv, Loaded, Idle, Does
<1>3. \A v \in Worker : Loaded(v)'
  BY <1>1, <1>2, OneLoads
<1> QED  BY <1>1, <1>3 DEF TypeInv, Rows

\* What a commit writes.
LEMMA Writes ==
  ASSUME Inv, TypeInv, NEW w \in Worker, ~Idle(w), job[w].at = "lock"
  PROVE  /\ Changed(w) \subseteq Post
         /\ \A p \in Changed(w) : Proper(p, ListOf(w, p))
         /\ Wrong(w) \subseteq Post
<1>1. Typed(w) /\ Loaded(w) /\ job[w].of \in Post /\ job[w].seen \subseteq Post
  BY DEF Inv, TypeInv, Typed
<1>2. Changed(w) \subseteq job[w].seen \cup {job[w].of}
  BY <1>1, DoesOne DEF Changed
<1>3. ASSUME NEW p \in Changed(w)  PROVE Proper(p, ListOf(w, p))
  <2>1. p \in Post /\ (p = job[w].of \/ p \in job[w].seen)
    BY <1>1, <1>2, <1>3
  <2>2. Proper(p, job[w].copy[p])
    BY <1>1, <2>1 DEF Loaded
  <2>3. CASE Does(w, "unlink") /\ ~Does(w, "link") /\ ~Does(w, "write")
    <3>1. CASE p = job[w].of
      <4>1. ListOf(w, p) = Nobody
        BY <2>3, <3>1 DEF ListOf
      <4> QED  BY <2>1, <4>1, ProperNobody
    <3>2. CASE p # job[w].of
      <4>1. ListOf(w, p) = Removed(job[w].copy[p], job[w].of)
        BY <2>3, <3>2 DEF ListOf
      <4>2. job[w].copy[p][job[w].of] > 0
        BY <1>3, <2>3, <3>2 DEF Changed
      <4>3. job[w].copy[p] \in Lists /\ Length(job[w].copy[p]) <= Limit /\ job[w].copy[p][p] = 0
        BY <2>2 DEF Proper
      <4>4. /\ ListOf(w, p) \in Lists /\ Length(ListOf(w, p)) <= Length(job[w].copy[p])
            /\ ListOf(w, p)[p] = 0
        BY <1>1, <2>1, <3>2, <4>1, <4>2, <4>3, OneLess
      <4> QED  BY <4>3, <4>4, LengthType, CrossPostsAssumption DEF Proper
    <3> QED  BY <3>1, <3>2
  <2>4. CASE Does(w, "link") /\ ~Does(w, "unlink") /\ ~Does(w, "write")
    <3>1. CASE p = job[w].of
      <4>1. ListOf(w, p) = Only(job[w].seen)
        BY <2>4, <3>1 DEF ListOf
      <4>2. Cardinality(job[w].seen) <= Limit /\ job[w].of \notin job[w].seen
        BY <1>1, <2>4 DEF Loaded
      <4> QED  BY <1>1, <2>1, <3>1, <4>1, <4>2, OnlyList DEF Proper
    <3>2. CASE p # job[w].of
      <4>1. ListOf(w, p) = [job[w].copy[p] EXCEPT ![job[w].of] = @ + 1]
        BY <2>4, <3>2 DEF ListOf
      <4>2. Room(job[w].copy[p])
        BY <1>3, <2>4, <3>2 DEF Changed
      <4>3. job[w].copy[p] \in Lists /\ job[w].copy[p][p] = 0
        BY <2>2 DEF Proper
      <4>4. /\ ListOf(w, p) \in Lists /\ Length(ListOf(w, p)) <= Limit
        BY <1>1, <4>1, <4>2, <4>3, OneMore
      <4>5. ListOf(w, p)[p] = 0
        BY <2>1, <3>2, <4>1, <4>3 DEF Lists
      <4> QED  BY <4>4, <4>5 DEF Proper
    <3> QED  BY <3>1, <3>2
  <2>5. CASE Does(w, "write") /\ ~Does(w, "link") /\ ~Does(w, "unlink")
    <3>1. Changed(w) = {}
      BY <2>5 DEF Changed
    <3> QED  BY <1>3, <3>1
  <2> QED  BY <1>1, <2>3, <2>4, <2>5, DoesOne
<1>4. Wrong(w) \subseteq Post
  <2>1. Stale(w) \subseteq Post
    <3>1. {p \in Changed(w) : p # job[w].of /\ job[w].copy[p] # row[p].links} \subseteq Post
      BY <1>1, <1>2
    <3>2. Listed(row[job[w].of].links) \subseteq Post
      BY DEF Listed
    <3>3. CASE Does(w, "unlink") /\ ~Does(w, "link") /\ ~Does(w, "write")
      BY <3>1, <3>2, <3>3 DEF Stale
    <3>4. CASE Does(w, "link") /\ ~Does(w, "unlink") /\ ~Does(w, "write")
      BY <3>1, <3>2, <3>4 DEF Stale
    <3>5. CASE Does(w, "write") /\ ~Does(w, "unlink") /\ ~Does(w, "link")
      BY <3>1, <3>2, <3>5 DEF Stale
    <3> QED  BY <1>1, <3>3, <3>4, <3>5, DoesOne
  <2>2. Missed(w) \subseteq Post
    BY <1>1 DEF Missed, Apart, Together
  <2>3. Again(w) \subseteq Post /\ Full(w) \subseteq Post
    BY <1>1 DEF Again, Full
  <2>4. Crossed(w) \subseteq Post
    <3>1. Listed(row[job[w].of].links) \subseteq Post
      BY DEF Listed
    <3> QED  BY <1>1, <3>1 DEF Crossed, Apart
  <2>5. Skipped(w) \subseteq Post
    BY <1>1 DEF Skipped, Listed
  <2> QED  BY <2>1, <2>2, <2>3, <2>4, <2>5 DEF Wrong
<1> QED  BY <1>1, <1>2, <1>3, <1>4

LEMMA CommitRow ==
  ASSUME Inv, TypeInv, NEW w \in Worker, Commit(w)
  PROVE  /\ row' \in [Post -> Row]
         /\ \A p \in Post :
              /\ row'[p].links = IF p \in Changed(w) THEN ListOf(w, p) ELSE row[p].links
              /\ row'[p].null = (row[p].null /\ p \notin Changed(w))
              /\ p # job[w].of => row'[p].state = row[p].state /\ row'[p].url = row[p].url
         /\ LET t == Head(left[w])  me == job[w].of IN
              /\ row'[me].state = IF t.state # "same" THEN t.state ELSE row[me].state
              /\ row'[me].url = IF t.url # "same" THEN t.url ELSE row[me].url
<1> DEFINE t == Head(left[w])
           me == job[w].of
           new(p) ==
             [state |-> IF p = me /\ t.state # "same" THEN t.state ELSE row[p].state,
              url   |-> IF p = me /\ t.url # "same" THEN t.url ELSE row[p].url,
              null  |-> row[p].null /\ p \notin Changed(w),
              links |-> IF p \in Changed(w) THEN ListOf(w, p) ELSE row[p].links]
<1>1. Typed(w) /\ ~Idle(w) /\ job[w].at = "lock" /\ me \in Post
  BY DEF Inv, Commit, At, Typed
<1>2. row' = [p \in Post |-> new(p)]
  BY DEF Commit
<1>3. \A p \in Post : row'[p] = new(p)
  BY <1>2
<1>4. t \in Txs /\ t.state \in {"same", "live", "deleted"} /\ t.url \in Url \cup {NoUrl, "same"}
  BY <1>1, DoesOne DEF Txs
<1>5. \A p \in Changed(w) : ListOf(w, p) \in Lists
  BY <1>1, Writes DEF Proper
<1>6. ASSUME NEW p \in Post  PROVE new(p) \in Row
  <2>1. row[p] \in Row
    BY DEF TypeInv, Rows
  <2>2. /\ row[p].state \in {"absent", "live", "deleted", "gone"}
        /\ row[p].url \in Url \cup {NoUrl} /\ row[p].null \in BOOLEAN
        /\ row[p].links \in Lists
    BY <2>1 DEF Row
  <2>3. new(p).state \in {"absent", "live", "deleted", "gone"}
    BY <1>4, <2>2
  <2>4. new(p).url \in Url \cup {NoUrl}
    BY <1>4, <2>2
  <2>5. new(p).links \in Lists
    BY <1>5, <2>2
  <2>6. (row[p].null /\ p \notin Changed(w)) \in BOOLEAN
    OBVIOUS
  <2> QED  BY <2>3, <2>4, <2>5, <2>6 DEF Row
<1>7. row' \in [Post -> Row]
  BY <1>2, <1>6
<1> QED  BY <1>1, <1>3, <1>7

LEMMA CommitTypes ==
  ASSUME Inv, TypeInv, NEW w \in Worker, Commit(w)
  PROVE  TypeInv'
<1>1. Typed(w) /\ ~Idle(w) /\ job[w].at = "lock" /\ Loaded(w)
  BY DEF Inv, Commit, At, TypeInv
<1>2. Rows'
  <2>1. ASSUME NEW p \in Post
        PROVE  Proper(p, row'[p].links) /\ (row'[p].null => row'[p].links = Nobody)
    <3>1. CASE p \in Changed(w)
      BY <1>1, <3>1, CommitRow, Writes
    <3>2. CASE p \notin Changed(w)
      <4>1. row'[p].links = row[p].links /\ (row'[p].null => row[p].null)
        BY <3>2, CommitRow
      <4> QED  BY <4>1 DEF TypeInv, Rows
    <3> QED  BY <3>1, <3>2
  <2> QED  BY <2>1, CommitRow DEF Rows, Proper
<1>3. \A v \in Worker : Loaded(v)'
  <2>1. CASE Len(left[w]) = 1
    BY <2>1, EndLoads DEF Commit
  <2>2. CASE Len(left[w]) # 1
    <3> DEFINE copy == [p \in Post |-> Nobody]
               j == [job[w] EXCEPT !.at = "start", !.dirty = FALSE, !.copy = copy]
    <3>1. job' = [job EXCEPT ![w] = j] /\ left' = [left EXCEPT ![w] = Tail(@)]
      BY <2>2 DEF Commit
    <3>2. /\ j.at = "start" /\ j.seen = job[w].seen /\ j.copy = copy /\ j.of = job[w].of
          /\ j.kind = job[w].kind
      <4>1. job[w] \in Shape(job[w])
        BY <1>1 DEF Typed
      <4> HIDE DEF copy
      <4> QED  BY <4>1 DEF Shape
    <3>3. \A p \in Post : Proper(p, copy[p])
      BY ProperNobody
    <3> HIDE DEF j, copy
    <3>4. job'[w] = j /\ j # NoJob
      BY <1>1, <3>1, <3>2 DEF Inv, NoJob, Typed, Kinds
    <3>5. Loaded(w)'
      BY <1>1, <3>2, <3>3, <3>4 DEF Loaded, Idle
    <3> QED  BY <3>1, <3>5, OneLoads
  <2> QED  BY <2>1, <2>2
<1>4. /\ requests' \in 0..MaxRequests /\ crashes' \in 0..MaxCrashes
      /\ tainted' \subseteq Post /\ scheduled' \subseteq Post
  <2>1. Wrong(w) \subseteq Post /\ job[w].of \in Post
    BY <1>1, Writes DEF Typed
  <2> QED  BY <2>1 DEF Commit, TypeInv
<1> QED  BY <1>2, <1>3, <1>4 DEF TypeInv

LEMMA FailTypes ==
  ASSUME Inv, TypeInv, NEW w \in Worker, Victim(w) \/ Crash(w)
  PROVE  TypeInv'
<1>1. End(w) /\ tainted' = tainted \cup {job[w].of}
  BY DEF Victim, Crash, Fails
<1>2. ~Idle(w) /\ job[w].of \in Post
  <2>1. ~Idle(w)
    <3>1. CASE Crash(w)
      BY <3>1 DEF Crash
    <3>2. CASE Victim(w)
      BY <3>2 DEF Victim, Deadlocked, InCycle, Wants, At
    <3> QED  BY <3>1, <3>2
  <2> QED  BY <2>1 DEF Inv, Typed
<1>3. Rows'
  <2>1. CASE row' = row
    BY <2>1 DEF TypeInv, Rows
  <2>2. CASE row' = [row EXCEPT ![job[w].of].state = "gone"]
    <3> DEFINE me == job[w].of
               new == [row[me] EXCEPT !.state = "gone"]
    <3>1. row \in [Post -> Row]
      BY DEF TypeInv, Rows
    <3>2. new \in Row /\ new.links = row[me].links /\ new.null = row[me].null
      BY <1>2, <3>1 DEF Row
    <3>3. row' = [row EXCEPT ![me] = new]
      BY <2>2, <3>1
    <3> HIDE DEF new
    <3>4. \A p \in Post : row'[p].links = row[p].links /\ row'[p].null = row[p].null
      BY <3>1, <3>2, <3>3
    <3> QED  BY <3>1, <3>2, <3>3, <3>4 DEF TypeInv, Rows
  <2> QED  BY <2>1, <2>2 DEF Victim, Crash
<1>4. \A v \in Worker : Loaded(v)'
  BY <1>1, EndLoads
<1>5. requests' \in 0..MaxRequests /\ crashes' \in 0..MaxCrashes /\ scheduled' \subseteq Post
  BY CrossPostsAssumption DEF Victim, Crash, TypeInv
<1> QED  BY <1>1, <1>2, <1>3, <1>4, <1>5 DEF TypeInv

LEMMA StatusTypes ==
  ASSUME Inv, TypeInv, NEW me \in Post, StatusOnly(me)
  PROVE  TypeInv'
<1>1. /\ UNCHANGED <<job, left, crashes>> /\ \A w \in Worker : Loaded(w)'
      /\ requests' \in 0..MaxRequests /\ scheduled' \subseteq Post /\ tainted' \subseteq Post
  BY CrossPostsAssumption
     DEF StatusOnly, Postpone, Publish, PublishCopy, TypeInv, Loaded, Idle, Does
<1>2. CASE row' = row
  BY <1>1, <1>2 DEF TypeInv, Rows
<1>3. CASE \E p \in Post : row' = [row EXCEPT ![p] = [row[me] EXCEPT !.links[p] = 0]]
  <2>1. PICK p \in Post : row' = [row EXCEPT ![p] = [row[me] EXCEPT !.links[p] = 0]]
    BY <1>3
  <2> DEFINE list == [row[me].links EXCEPT ![p] = 0]
             new == [row[me] EXCEPT !.links = list]
  <2>2. row \in [Post -> Row] /\ row[me] \in Row /\ row[me].links \in Lists
    BY DEF TypeInv, Rows, Row
  <2>3. list \in Lists /\ list[p] = 0 /\ \A q \in Post : list[q] <= row[me].links[q]
    BY <2>2, CrossPostsAssumption DEF Lists
  <2>4. Length(list) <= Length(row[me].links)
    <3>1. \A q \in Post : list[q] \in Int /\ row[me].links[q] \in Int
      BY <2>2, <2>3, CrossPostsAssumption DEF Lists
    <3> HIDE DEF list
    <3> QED  BY <2>3, <3>1, Shorter
  <2>5. Proper(p, list)
    BY <2>2, <2>3, <2>4, LengthType, CrossPostsAssumption DEF TypeInv, Rows, Proper
  <2>6. row[me].null => list = Nobody
    <3>1. row[me].null => row[me].links = Nobody
      BY DEF TypeInv, Rows
    <3> QED  BY <3>1 DEF Nobody
  <2>7. row' = [row EXCEPT ![p] = new]
    BY <2>1
  <2> HIDE DEF list
  <2>8. new \in Row /\ new.links = list /\ new.null = row[me].null
    BY <2>2, <2>3 DEF Row
  <2> HIDE DEF new
  <2>9. \A q \in Post : row'[q] = IF q = p THEN new ELSE row[q]
    BY <2>2, <2>7
  <2>10. Rows'
    BY <2>2, <2>5, <2>6, <2>7, <2>8, <2>9 DEF TypeInv, Rows
  <2> QED  BY <1>1, <2>10 DEF TypeInv
<1> QED  BY <1>2, <1>3 DEF StatusOnly, Postpone, Publish, PublishCopy

LEMMA NextTypes ==
  ASSUME Inv, TypeInv, [Next]_vars
  PROVE  TypeInv'
<1>1. CASE UNCHANGED vars
  <2>1. \A w \in Worker : Loaded(w)'
    BY <1>1 DEF TypeInv, Loaded, Idle, Does, vars
  <2> QED  BY <1>1, <2>1 DEF TypeInv, Rows, vars
<1>2. CASE \E me \in Post : StatusOnly(me)
  BY <1>2, StatusTypes
<1>3. CASE Next /\ ~ \E me \in Post : StatusOnly(me)
  <2>1. PICK w \in Worker :
          (\E me \in Post : BeginAny(w, me)) \/ Work(w) \/ Victim(w) \/ Crash(w)
    BY <1>3 DEF Next
  <2> QED
    BY <2>1, BeginAnyTypes, LookTypes, SmallTypes, CommitTypes, FailTypes DEF Work
<1> QED  BY <1>1, <1>2, <1>3

LEMMA InitTypes ==
  ASSUME Init PROVE TypeInv
<1>1. PICK n \in 0..Posts, url \in [Post -> Url] :
       LET live == 1..n
           others(p) == {q \in live \ {p} : url[q] = url[p]} IN
       /\ \A p \in live : Cardinality(others(p)) <= Limit
       /\ row = [p \in Post |->
            IF p \in live
            THEN [state |-> "live", url |-> url[p], null |-> others(p) = {},
                  links |-> Only(others(p))]
            ELSE [state |-> "absent", url |-> NoUrl, null |-> TRUE, links |-> Nobody]]
  BY DEF Init
<1> DEFINE live == 1..n
           others(p) == {q \in live \ {p} : url[q] = url[p]}
<1>2. live \subseteq Post /\ \A p \in live : others(p) \in SUBSET Post
  BY CrossPostsAssumption DEF Post
<1>3. ASSUME NEW p \in Post
      PROVE  /\ row[p] \in Row /\ Proper(p, row[p].links)
             /\ row[p].null => row[p].links = Nobody
  <2>1. CASE p \in live
    <3>1. row[p] = [state |-> "live", url |-> url[p], null |-> others(p) = {},
                    links |-> Only(others(p))]
      BY <1>1, <2>1
    <3>2. /\ Only(others(p)) \in Lists /\ Length(Only(others(p))) <= Limit
          /\ \A q \in Post : Only(others(p))[q] = IF q \in others(p) THEN 1 ELSE 0
      <4>1. Cardinality(others(p)) <= Limit
        BY <1>1, <2>1
      <4> QED  BY <1>2, <2>1, <4>1, OnlyList
    <3>3. Proper(p, Only(others(p)))
      BY <3>2 DEF Proper
    <3>4. others(p) = {} => Only(others(p)) = Nobody
      BY DEF Only, Nobody
    <3>5. url[p] \in Url
      OBVIOUS
    <3> DEFINE null == others(p) = {}
               links == Only(others(p))
    <3>6. null \in BOOLEAN /\ (null => links = Nobody) /\ links \in Lists /\ Proper(p, links)
      BY <3>2, <3>3, <3>4
    <3>7. row[p] = [state |-> "live", url |-> url[p], null |-> null, links |-> links]
      BY <3>1
    <3> HIDE DEF null, links
    <3> QED  BY <3>5, <3>6, <3>7 DEF Row
  <2>2. CASE p \notin live
    <3>1. row[p] = [state |-> "absent", url |-> NoUrl, null |-> TRUE, links |-> Nobody]
      BY <1>1, <2>2
    <3> QED  BY <3>1, EmptyList, ProperNobody DEF Row
  <2> QED  BY <2>1, <2>2
<1>4. Rows
  <2>1. \A p \in Post : row[p] \in Row
    BY <1>3
  <2>2. row = [p \in Post |-> row[p]]
    BY <1>1
  <2> QED  BY <1>3, <2>1, <2>2 DEF Rows
<1>5. \A w \in Worker : Loaded(w)
  BY DEF Init, Loaded, Idle
<1> QED  BY <1>4, <1>5, CrossPostsAssumption DEF Init, TypeInv

LEMMA AlwaysTypes == Spec => [](Inv /\ TypeInv)
<1>1. Init => Inv /\ TypeInv
  BY InitInv, InitTypes
<1>2. Inv /\ TypeInv /\ [Next]_vars => (Inv /\ TypeInv)'
  BY NextKeepsInv, NextTypes
<1> QED  BY <1>1, <1>2, PTL DEF Spec

\* No list is ever longer than the limit or holds its own post, a list that is
\* NULL is empty and no row is locked twice, for any posts and workers.
THEOREM TypeCorrect == Spec => []TypeOK
<1>1. Inv /\ TypeInv => TypeOK
  <2> SUFFICES ASSUME Inv, TypeInv PROVE TypeOK
    OBVIOUS
  <2>1. ASSUME NEW p \in Post
        PROVE  /\ row[p].state \in {"absent", "live", "deleted", "gone"}
               /\ row[p].url \in Url \cup {NoUrl}
               /\ row[p].null => row[p].links = Nobody
               /\ row[p].links \in [Post -> 0..Limit]
               /\ Length(row[p].links) <= Limit /\ row[p].links[p] = 0
    <3>1. row[p] \in Row
      BY DEF TypeInv, Rows
    <3> QED  BY <3>1 DEF TypeInv, Rows, Row, Proper, Lists
  <2>2. \A w \in Worker : /\ Idle(w) <=> left[w] = <<>>
                          /\ held[w] \subseteq Post
                          /\ \A v \in Worker \ {w} : held[v] \cap held[w] = {}
    BY DEF Inv, TypeInv, Typed, Loaded
  <2> QED  BY <2>1, <2>2 DEF TypeOK, TypeInv
<1> QED  BY <1>1, AlwaysTypes, PTL

-----------------------------------------------------------------------------
(***************************************************************************)
(* Lists agree with URLs.  Two posts that nothing went wrong with have     *)
(* each other in their lists or not at all, whatever is at work on them:   *)
(* this is what each commit keeps.  The last one of a request then makes   *)
(* its post list what it should.                                           *)
(***************************************************************************)
Sound == Post \ tainted
Mutual ==
  \A p, q \in Sound : /\ row[p].links[q] \in {0, 1}
                      /\ row[p].links[q] = row[q].links[p]
OneJob ==
  \A v, w \in Worker : job[v].of \in Sound /\ job[v].of = job[w].of => v = w

\* What a request has left to do, and what its own row says meanwhile.
Gone == Tx("write", "deleted", "same")
Back == Tx("write", "live", "same")
Unlink(to) == Tx("unlink", to, "same")
Link(to) == Tx("link", to, "same")
Relinks(url) ==
  {<<Tx("unlink", "same", url), Tx("link", "same", url)>>, <<Tx("link", "same", url)>>}
Course(w) ==
  LET j == job[w]  l == left[w]
      state == row[j.of].state  url == row[j.of].url IN
  /\ j.url # "same"
  /\ j.kind = "new" => l = <<Link("same")>> /\ state = "live" /\ url = j.url
  /\ j.kind \in {"make", "schedule"} => l = <<Tx("link", "same", j.url)>> /\ state = "live"
  /\ j.kind = "edit" => l \in Relinks(j.url) /\ state = "live"
  /\ j.kind = "update" =>
       /\ state = "live"
       /\ l \in Relinks(j.url) \/ (l = <<Tx("write", "same", j.url)>> /\ j.seen = {})
  /\ j.kind = "update_away" => l = <<Tx("unlink", "same", NoUrl)>>
  /\ j.kind = "delete" => l \in {<<Unlink("same"), Gone>>, <<Gone>>}
  /\ j.kind = "inbox_delete" =>
       \/ l = <<Gone, Unlink("same")>>
       \/ l = <<Unlink("same")>> /\ state = "deleted"
       \/ l = <<Gone>> /\ url = NoUrl
  /\ j.kind = "ban" => l = <<Unlink("deleted")>> \/ (l = <<Gone>> /\ url = NoUrl)
  /\ j.kind = "restore" => l \in {<<Link("same"), Back>>, <<Back>>} /\ url = j.url
  /\ j.kind = "inbox_restore" =>
       url = j.url /\ (l = <<Link("live")>> \/ (l = <<Back>> /\ url = NoUrl))
Planned == \A w \in Worker : job[w].of \in Sound => Course(w)

\* A worker that unlinks its post has found it in the lists of all it is to
\* be taken out of, or its own list, which it has locked, says so no longer.
Found(w) ==
  LET j == job[w] IN
  At(w, "lock") /\ Does(w, "unlink") /\ j.of \in Sound =>
    /\ j.seen \subseteq Listed(j.copy[j.of])
    /\ \A p \in j.seen \cap Sound :
         j.copy[p][j.of] > 0 \/ (j.of \in held[w] /\ row[j.of].links[p] = 0)

\* A post that is not there or has no URL is in no list, while nobody but
\* those who do not look after lists is at work on it.
Plain(w) ==
  job[w].kind \in {"inbox_delete", "ban", "inbox_restore"} /\ left[w] \in {<<Gone>>, <<Back>>}
Dark(p) == row[p].url = NoUrl \/ row[p].state # "live"
Unlisted ==
  \A p, q \in Sound :
    (\A w \in Worker : job[w].of = p => Plain(w)) /\ Dark(p) => row[p].links[q] = 0

LinkInv ==
  /\ Mutual /\ OneJob /\ Planned /\ (\A w \in Worker : Found(w)) /\ Unlisted /\ LinksAgree

LEMMA Sequels ==
  /\ \A a : Len(<<a>>) = 1 /\ Head(<<a>>) = a
  /\ \A a, b : Len(<<a, b>>) = 2 /\ Head(<<a, b>>) = a /\ Tail(<<a, b>>) = <<b>>
  /\ \A a, b : <<a>> = <<b>> => a = b
  OBVIOUS

LEMMA TxFields ==
  \A d, s, u : Tx(d, s, u).does = d /\ Tx(d, s, u).state = s /\ Tx(d, s, u).url = u
  BY DEF Tx

LEMMA IdleOf ==
  ASSUME Inv, NEW w \in Worker
  PROVE  /\ Idle(w) => job[w].of = 0 /\ job[w].of \notin Post
         /\ ~Idle(w) => job[w].of \in Post
  BY CrossPostsAssumption DEF Inv, Typed, Idle, NoJob, Post

LEMMA CourseFrame ==
  ASSUME NEW w \in Worker, Course(w), job'[w] = job[w], left'[w] = left[w],
         row'[job[w].of].state = row[job[w].of].state,
         row'[job[w].of].url = row[job[w].of].url
  PROVE  Course(w)'
  BY DEF Course

\* Each new request works on a post that nobody else works on.
LEMMA BeginLinks ==
  ASSUME Inv, TypeInv, LinkInv, NEW w \in Worker, NEW kind \in Kinds, NEW me \in Post,
         NEW url, Begin(w, kind, me, url),
         \A p \in Post : /\ row'[p].links = row[p].links
                         /\ p # me => row'[p].state = row[p].state /\ row'[p].url = row[p].url,
         kind \in {"new", "make", "schedule"} \/ row' = row,
         kind \in {"new", "make", "schedule", "edit", "update"} => row'[me].state = "live",
         kind = "new" => row'[me].url = url,
         kind \in {"restore", "inbox_restore"} => url = row[me].url,
         url # "same"
  PROVE  LinkInv'
<1> DEFINE copy == [p \in Post |-> IF p = me /\ kind \in FlushEarly THEN row[me].links
                                   ELSE Nobody]
           j == [kind |-> kind, of |-> me, url |-> url, at |-> "start", dirty |-> TRUE,
                 seen |-> {}, copy |-> copy]
<1>1. /\ job'[w] = j /\ left'[w] = Program(kind, me, url) /\ Idle(w)
      /\ \A v \in Worker \ {w} : job'[v] = job[v] /\ left'[v] = left[v]
      /\ held' = held
  BY DEF Begin, Inv
<1>2. j.kind = kind /\ j.of = me /\ j.url = url /\ j.seen = {} /\ j.at = "start"
  OBVIOUS
<1> HIDE DEF j, copy
<1>3. /\ Sound' \subseteq Sound
      /\ me \in Sound' => \A v \in Worker : job[v].of # me
      /\ job[w].of \notin Post
  BY <1>1, IdleOf DEF Begin, Sound
<1>4. Mutual'
  BY <1>3 DEF LinkInv, Mutual, Sound
<1>5. OneJob'
  BY <1>1, <1>2, <1>3 DEF LinkInv, OneJob
<1>6. ASSUME me \in Sound'  PROVE Course(w)'
  <2> USE <1>1, <1>2, Sequels DEF Program, Course, Gone, Back, Unlink, Link, Relinks
  <2>1. CASE kind \in {"new", "make", "schedule"}
    BY <2>1
  <2>2. CASE kind \in {"edit"}
    BY <2>2
  <2>3. CASE kind \in {"update"}
    BY <2>3
  <2>4. CASE kind \in {"update_away"}
    BY <2>4
  <2>5. CASE kind \in {"delete"}
    BY <2>5 DEF IfUrl
  <2>6. CASE kind \in {"inbox_delete"}
    BY <2>6 DEF IfUrl
  <2>7. CASE kind \in {"ban"}
    BY <2>7 DEF IfUrl
  <2>8. CASE kind \in {"restore"}
    BY <2>8 DEF IfUrl
  <2>9. CASE kind \in {"inbox_restore"}
    BY <2>9 DEF IfUrl
  <2> QED  BY <2>1, <2>2, <2>3, <2>4, <2>5, <2>6, <2>7, <2>8, <2>9 DEF Kinds
<1>7. Planned'
  <2> SUFFICES ASSUME NEW v \in Worker, job'[v].of \in Sound'  PROVE Course(v)'
    BY DEF Planned
  <2>1. CASE v = w
    BY <1>1, <1>2, <1>6, <2>1
  <2>2. CASE v # w
    <3>1. job'[v] = job[v] /\ left'[v] = left[v] /\ job[v].of \in Sound /\ job[v].of # me
      BY <1>1, <1>3, <2>2
    <3>2. Course(v) /\ job[v].of \in Post
      BY <3>1 DEF LinkInv, Planned, Sound
    <3> QED  BY <3>1, <3>2, CourseFrame
  <2> QED  BY <2>1, <2>2
<1>8. \A v \in Worker : Found(v)'
  <2> SUFFICES ASSUME NEW v \in Worker  PROVE Found(v)'
    OBVIOUS
  <2>1. CASE v = w
    BY <1>1, <1>2, <2>1 DEF Found, At
  <2>2. CASE v # w
    <3>1. Found(v) /\ job'[v] = job[v] /\ left'[v] = left[v] /\ held' = held
      BY <1>1, <2>2 DEF LinkInv
    <3> QED  BY <1>3, <3>1 DEF Found, At, Idle, Does, Sound
  <2> QED  BY <2>1, <2>2
<1>9. Unlisted'
  <2> SUFFICES ASSUME NEW p \in Sound', NEW q \in Sound',
                      \A v \in Worker : job'[v].of = p => Plain(v)', Dark(p)'
               PROVE  row'[p].links[q] = 0
    BY DEF Unlisted
  <2>0. p \in Sound /\ q \in Sound /\ p \in Post /\ row'[p].links = row[p].links
    BY <1>3 DEF Sound
  <2>1. CASE p = me
    <3>1. kind \in {"inbox_delete", "ban", "inbox_restore"}
      BY <1>1, <1>2, <2>1 DEF Plain
    <3>2. row' = row
      BY <3>1
    <3>3. Dark(p) /\ \A v \in Worker : job[v].of # p
      BY <1>3, <2>1, <3>2 DEF Dark
    <3> QED  BY <2>0, <3>3 DEF LinkInv, Unlisted
  <2>2. CASE p # me
    <3>1. Dark(p)
      BY <2>0, <2>2 DEF Dark
    <3>2. ASSUME NEW v \in Worker, job[v].of = p  PROVE Plain(v)
      <4>1. v # w /\ job'[v] = job[v] /\ left'[v] = left[v]
        BY <1>1, <1>3, <2>0, <3>2
      <4>2. Plain(v)'
        BY <3>2, <4>1
      <4> QED  BY <4>1, <4>2 DEF Plain, Gone, Back, Tx
    <3> QED  BY <2>0, <3>1, <3>2 DEF LinkInv, Unlisted
  <2> QED  BY <2>1, <2>2
<1>10. LinksAgree'
  <2> SUFFICES ASSUME NEW p \in Sound', NEW q \in Sound',
                      \A v \in Worker : job'[v].of \notin {p, q}
               PROVE  row'[p].links[q] =
                        IF row'[p].state = "live" /\ q \in Together(p, row[p].url)' THEN 1 ELSE 0
    BY DEF LinksAgree, Sound
  <2>1. p \in Sound /\ q \in Sound /\ p # me /\ q # me /\ p \in Post /\ q \in Post
    BY <1>1, <1>2, <1>3 DEF Sound
  <2>2. \A v \in Worker : job[v].of \notin {p, q}
    BY <1>1, <1>3, <2>1
  <2>3. row[p].links[q] = IF row[p].state = "live" /\ q \in Together(p, row[p].url) THEN 1 ELSE 0
    BY <2>1, <2>2 DEF LinkInv, LinksAgree, Sound
  <2>4. q \in Together(p, row[p].url)' <=> q \in Together(p, row[p].url)
    BY <2>1 DEF Together
  <2> QED  BY <2>1, <2>3, <2>4
<1> QED  BY <1>4, <1>5, <1>7, <1>8, <1>9, <1>10 DEF LinkInv

LEMMA BeginAnyLinks ==
  ASSUME Inv, TypeInv, LinkInv, NEW w \in Worker, NEW me \in Post, BeginAny(w, me)
  PROVE  LinkInv'
<1>0. /\ row \in [Post -> Row] /\ \A p \in Post : row[p].url \in Url \cup {NoUrl}
      /\ \A u \in Url \cup {NoUrl} : u # "same"
  BY CrossPostsAssumption DEF TypeInv, Rows, Row, NoUrl
<1>1. ASSUME NEW url \in Url, NEW kind \in {"new", "make", "schedule"}, Create(w, kind, me, url)
      PROVE  LinkInv'
  <2>1. PICK u : /\ row' = [row EXCEPT ![me].state = "live", ![me].url = u]
                 /\ kind = "new" => u = url
    BY <1>1 DEF Create
  <2>2. /\ row'[me].links = row[me].links /\ row'[me].state = "live" /\ row'[me].url = u
        /\ \A p \in Post : p # me => row'[p] = row[p]
    BY <1>0, <2>1 DEF Row
  <2>3. Begin(w, kind, me, url) /\ kind \in Kinds /\ url # "same"
    BY <1>0, <1>1 DEF Create, Kinds
  <2>4. \A p \in Post : /\ row'[p].links = row[p].links
                        /\ p # me => row'[p].state = row[p].state /\ row'[p].url = row[p].url
    BY <2>2
  <2>5. kind = "new" => row'[me].url = url
    BY <2>1, <2>2
  <2>6. kind \notin {"restore", "inbox_restore"}
    OBVIOUS
  <2> QED  BY <2>2, <2>3, <2>4, <2>5, <2>6, BeginLinks
<1>2. ASSUME NEW url \in Url, NEW kind \in {"edit", "update"}, row[me].state = "live",
             Begin(w, kind, me, url), row' = row
      PROVE  LinkInv'
  BY <1>0, <1>2, BeginLinks DEF Kinds
<1>3. ASSUME OnLive(w, "update_away", me, NoUrl)  PROVE LinkInv'
  BY <1>0, <1>3, BeginLinks DEF OnLive, Kinds
<1>4. ASSUME NEW kind \in {"inbox_delete", "ban", "delete", "restore", "inbox_restore"},
             Begin(w, kind, me, row[me].url), row' = row
      PROVE  LinkInv'
  BY <1>0, <1>4, BeginLinks DEF Kinds
<1>5. CASE \E url \in Url :
             \/ New(w, me, url) \/ Make(w, me, url) \/ Schedule(w, me, url)
             \/ Update(w, me, url) \/ \E later \in {{}, {me}} : Edit(w, me, url, later)
  BY <1>1, <1>2, <1>5 DEF New, Make, Schedule, Edit, Update, OnLive
<1>6. CASE UpdateAway(w, me)
  BY <1>3, <1>6 DEF UpdateAway
<1>7. CASE InboxDelete(w, me) \/ Ban(w, me) \/ Delete(w, me) \/ Restore(w, me)
           \/ InboxRestore(w, me)
  BY <1>4, <1>7 DEF InboxDelete, Ban, Delete, Restore, InboxRestore, OnLive, OnAny
<1> QED  BY <1>5, <1>6, <1>7 DEF BeginAny

\* A step that writes no row.
LEMMA QuietLinks ==
  ASSUME LinkInv, row' = row, tainted' = tainted,
         \A v \in Worker : job'[v].of = job[v].of /\ job'[v].kind = job[v].kind,
         \A v \in Worker : job[v].of \in Sound => Course(v)',
         \A v \in Worker : Found(v)',
         \A v \in Worker : job[v].of \in Sound => (left'[v] = left[v] \/ ~Plain(v)')
  PROVE  LinkInv'
<1>1. Sound' = Sound
  BY DEF Sound
<1>2. Mutual' /\ OneJob' /\ Planned' /\ (\A v \in Worker : Found(v)')
  BY <1>1 DEF LinkInv, Mutual, OneJob, Planned
<1>3. Unlisted'
  <2> SUFFICES ASSUME NEW p \in Sound, NEW q \in Sound,
                      \A v \in Worker : job'[v].of = p => Plain(v)', Dark(p)'
               PROVE  row[p].links[q] = 0
    BY <1>1 DEF Unlisted
  <2>1. Dark(p)
    BY DEF Dark
  <2>2. ASSUME NEW v \in Worker, job[v].of = p  PROVE Plain(v)
    <3>1. Plain(v)' /\ left'[v] = left[v]
      BY <2>2
    <3> QED  BY <3>1 DEF Plain, Gone, Back, Tx
  <2> QED  BY <2>1, <2>2 DEF LinkInv, Unlisted
<1>4. LinksAgree'
  <2> SUFFICES ASSUME NEW p \in Sound, NEW q \in Sound,
                      \A v \in Worker : job'[v].of \notin {p, q}
               PROVE  row[p].links[q] =
                        IF row[p].state = "live" /\ q \in Together(p, row[p].url) THEN 1 ELSE 0
    BY <1>1 DEF LinksAgree, Sound, Together
  <2> QED  BY DEF LinkInv, LinksAgree, Sound
<1> QED  BY <1>2, <1>3, <1>4 DEF LinkInv

LEMMA SkipLinks ==
  ASSUME Inv, TypeInv, LinkInv, NEW w \in Worker, Skip(w)
  PROVE  LinkInv'
<1>1. /\ ~Idle(w) /\ job[w].at = "start" /\ Does(w, "unlink") /\ Len(left[w]) > 1
      /\ row' = row /\ job' = job /\ tainted' = tainted /\ held' = held
      /\ left'[w] = Tail(left[w]) /\ \A v \in Worker \ {w} : left'[v] = left[v]
  BY DEF Skip, NothingToClear, At, Inv
<1>2. ASSUME job[w].of \in Sound  PROVE Course(w)' /\ ~Plain(w)'
  <2>1. Course(w) /\ job[w].kind \in Kinds
    BY <1>1, <1>2 DEF LinkInv, Planned, Inv, Typed
  <2> DEFINE again == <<Tx("link", "same", job[w].url)>>
  <2>2. \/ job[w].kind \in {"edit", "update"} /\ Tail(left[w]) = again
        \/ job[w].kind = "delete" /\ left[w] = <<Unlink("same"), Gone>>
    <3>1. ASSUME NEW a, left[w] = <<a>>  PROVE FALSE
      <4>1. Len(left[w]) = 1
        BY <3>1, Sequels
      <4> QED  BY <1>1, <4>1
    <3>2. ASSUME NEW a, NEW b, left[w] = <<a, b>>
          PROVE  a.does = "unlink" /\ Tail(left[w]) = <<b>>
      <4>1. Head(left[w]) = a /\ Tail(left[w]) = <<b>>
        BY <3>2, Sequels
      <4> QED  BY <1>1, <4>1 DEF Does
    <3>3. Gone.does = "write" /\ \A to : Link(to).does = "link"
      BY TxFields DEF Gone, Link
    <3> USE <3>1, <3>2, <3>3 DEF Course
    <3>4. CASE job[w].kind \in {"new", "make", "schedule", "update_away", "ban", "inbox_restore"}
      BY <2>1, <3>4
    <3>5. CASE job[w].kind \in {"edit", "update"}
      BY <2>1, <3>5 DEF Relinks
    <3>6. CASE job[w].kind \in {"delete", "inbox_delete", "restore"}
      BY <2>1, <3>6
    <3> QED  BY <2>1, <3>4, <3>5, <3>6 DEF Kinds
  <2>3. CASE job[w].kind \in {"edit", "update"} /\ Tail(left[w]) = again
    BY <1>1, <2>1, <2>3 DEF Course, Relinks, Plain
  <2>4. CASE job[w].kind = "delete" /\ left[w] = <<Unlink("same"), Gone>>
    <3>1. left'[w] = <<Gone>>
      BY <1>1, <2>4, Sequels
    <3> QED  BY <1>1, <2>1, <2>4, <3>1 DEF Course, Plain, Gone, Tx
  <2> QED  BY <2>2, <2>3, <2>4
<1>3. ASSUME NEW v \in Worker, v # w, job[v].of \in Sound  PROVE Course(v)'
  BY <1>1, <1>3, CourseFrame DEF LinkInv, Planned
<1>4. ASSUME NEW v \in Worker  PROVE Found(v)'
  <2>1. CASE v = w
    BY <1>1, <2>1 DEF Found, At
  <2>2. CASE v # w
    BY <1>1, <2>2 DEF LinkInv, Found, At, Idle, Does, Sound
  <2> QED  BY <2>1, <2>2
<1> QED  BY <1>1, <1>2, <1>3, <1>4, QuietLinks

LEMMA LockLinks ==
  ASSUME Inv, TypeInv, LinkInv, NEW w \in Worker, Flush(w) \/ Lock(w)
  PROVE  LinkInv'
<1>1. /\ row' = row /\ job' = job /\ tainted' = tainted /\ left' = left
      /\ job[w].at = "start" \/ held[w] \subseteq held'[w]
      /\ \A v \in Worker \ {w} : held'[v] = held[v]
  BY DEF Flush, Lock, At, Inv
<1>2. ASSUME NEW v \in Worker, job[v].of \in Sound  PROVE Course(v)'
  BY <1>1, <1>2, CourseFrame DEF LinkInv, Planned
<1>3. ASSUME NEW v \in Worker  PROVE Found(v)'
  <2>1. Found(v)
    BY DEF LinkInv
  <2>2. At(v, "lock") => held[v] \subseteq held'[v]
    BY <1>1 DEF At
  <2> QED  BY <1>1, <2>1, <2>2 DEF Found, At, Idle, Does, Sound
<1> QED  BY <1>1, <1>2, <1>3, QuietLinks

LEMMA LookLinks ==
  ASSUME Inv, TypeInv, LinkInv, NEW w \in Worker, Look(w)
  PROVE  LinkInv'
<1> DEFINE me == job[w].of
           copy == [p \in Post |-> CASE p = job[w].of   -> Own(w)
                                     [] p \in Sought(w) -> row[p].links
                                     [] OTHER           -> Nobody]
           j == [job[w] EXCEPT !.at = "lock", !.seen = Sought(w), !.copy = copy]
<1>0. Typed(w) /\ Loaded(w) /\ ~Idle(w) /\ me \in Post /\ ~FlushesFirst(w) /\ job[w].at = "start"
  BY DEF Inv, TypeInv, Look, At, Typed
<1>1. /\ job' = [job EXCEPT ![w] = j] /\ left' = left /\ row' = row /\ held' = held
      /\ tainted' = tainted /\ job'[w] = j
      /\ \A v \in Worker \ {w} : job'[v] = job[v]
  BY DEF Look, Inv
<1>2. /\ j.kind = job[w].kind /\ j.of = me /\ j.url = job[w].url /\ j.seen = Sought(w)
      /\ j.copy = copy /\ j.at = "lock"
  <2>1. job[w] \in Shape(job[w])
    BY <1>0 DEF Typed
  <2> HIDE DEF copy
  <2> QED  BY <2>1 DEF Shape
<1>3. copy[me] = Own(w) /\ \A p \in Sought(w) : p \in Post /\ p # me /\ copy[p] = row[p].links
  BY <1>0, SoughtOf
<1> HIDE DEF j, copy
<1>4. ASSUME NEW v \in Worker, job[v].of \in Sound  PROVE Course(v)'
  <2>1. Course(v)
    BY <1>4 DEF LinkInv, Planned
  <2>2. CASE v # w
    BY <1>1, <2>1, <2>2, CourseFrame
  <2>3. CASE v = w
    <3>1. job[w].kind = "update" => Sought(w) = {} \/ left[w] \in Relinks(job[w].url)
      <4> SUFFICES ASSUME job[w].kind = "update", left[w] \notin Relinks(job[w].url)
                   PROVE  Sought(w) = {}
        OBVIOUS
      <4>1. left[w] = <<Tx("write", "same", job[w].url)>> /\ job[w].seen = {}
        BY <2>1, <2>3 DEF Course
      <4>2. Does(w, "write")
        BY <4>1, Sequels, TxFields DEF Does
      <4> QED  BY <1>0, <4>1, <4>2, SoughtOf
    <3> QED  BY <1>1, <1>2, <2>1, <2>3, <3>1 DEF Course
  <2> QED  BY <2>2, <2>3
<1>5. ASSUME NEW v \in Worker  PROVE Found(v)'
  <2>1. CASE v # w
    BY <1>1, <2>1 DEF LinkInv, Found, At, Idle, Does, Sound
  <2>2. CASE v = w
    <3> SUFFICES ASSUME Does(w, "unlink"), me \in Sound
                 PROVE  /\ Sought(w) \subseteq Listed(copy[me])
                        /\ \A p \in Sought(w) \cap Sound :
                             copy[p][me] > 0 \/ (me \in held[w] /\ row[me].links[p] = 0)
      BY <1>1, <1>2, <2>2 DEF Found, Does, Sound
    <3>1. Sought(w) \subseteq Listed(copy[me])
      BY <1>0, <1>3, SoughtOf DEF Published
    <3>2. ASSUME NEW p \in Sought(w) \cap Sound
          PROVE  copy[p][me] > 0 \/ (me \in held[w] /\ row[me].links[p] = 0)
      <4>1. copy[p][me] = row[me].links[p] /\ row[me].links[p] \in {0, 1}
        BY <1>3, <3>2 DEF LinkInv, Mutual
      <4>2. Own(w)[p] > 0
        BY <1>3, <3>1 DEF Listed
      <4>3. CASE Early(w)
        <5>1. me \in held[w]
          BY <1>0, <4>3, DoesOne DEF FlushesFirst
        <5> QED  BY <4>1, <5>1
      <4>4. CASE ~Early(w)
        BY <4>1, <4>2, <4>4 DEF Own
      <4> QED  BY <4>3, <4>4
    <3> QED  BY <3>1, <3>2
  <2> QED  BY <2>1, <2>2
<1> QED  BY <1>1, <1>2, <1>4, <1>5, QuietLinks

LEMMA FailLinks ==
  ASSUME Inv, TypeInv, LinkInv, NEW w \in Worker, Victim(w) \/ Crash(w)
  PROVE  LinkInv'
<1> DEFINE me == job[w].of
<1>1. /\ job'[w] = NoJob /\ left'[w] = <<>> /\ tainted' = tainted \cup {me}
      /\ \A v \in Worker \ {w} : /\ job'[v] = job[v] /\ left'[v] = left[v]
                                 /\ held'[v] = held[v]
  BY DEF Victim, Crash, Fails, End, Inv
<1>2. me \in Post
  <2>1. ~Idle(w)
    BY DEF Victim, Crash, Deadlocked, InCycle, Wants, At
  <2> QED  BY <2>1 DEF Inv, Typed
<1>3. \A p \in Post : /\ row'[p].links = row[p].links /\ row'[p].url = row[p].url
                      /\ p # me => row'[p].state = row[p].state
  <2>1. CASE row' = row
    BY <2>1
  <2>2. CASE row' = [row EXCEPT ![me].state = "gone"]
    BY <1>2, <2>2 DEF TypeInv, Rows, Row
  <2> QED  BY <2>1, <2>2 DEF Victim, Crash
<1>4. Sound' = Sound \ {me} /\ NoJob.of \notin Post
  BY <1>1, CrossPostsAssumption DEF Sound, NoJob, Post
<1>5. Mutual' /\ OneJob'
  <2>1. Mutual'
    BY <1>3, <1>4 DEF LinkInv, Mutual, Sound
  <2>2. OneJob'
    BY <1>1, <1>4 DEF LinkInv, OneJob, Sound
  <2> QED  BY <2>1, <2>2
<1>6. ASSUME NEW v \in Worker, job'[v].of \in Sound'  PROVE Course(v)'
  <2>1. v # w /\ job[v].of \in Sound /\ job[v].of # me /\ job[v].of \in Post
    BY <1>1, <1>4, <1>6 DEF Sound
  <2> QED  BY <1>1, <1>3, <2>1, CourseFrame DEF LinkInv, Planned
<1>7. ASSUME NEW v \in Worker  PROVE Found(v)'
  <2>1. CASE v = w
    BY <1>1, <2>1 DEF Found, At, Idle
  <2>2. CASE v # w
    <3>1. Found(v)
      BY DEF LinkInv
    <3> QED  BY <1>1, <1>3, <1>4, <2>2, <3>1 DEF Found, At, Idle, Does, Sound
  <2> QED  BY <2>1, <2>2
<1>8. ASSUME NEW p \in Sound', \A v \in Worker : job'[v].of = p => Plain(v)', Dark(p)'
      PROVE  Dark(p) /\ \A v \in Worker : job[v].of = p => Plain(v)
  <2>1. p \in Post /\ p # me
    BY <1>4 DEF Sound
  <2>2. Dark(p)
    BY <1>3, <1>8, <2>1 DEF Dark
  <2>3. ASSUME NEW v \in Worker, job[v].of = p  PROVE Plain(v)
    <3>1. v # w /\ job'[v] = job[v] /\ left'[v] = left[v]
      BY <1>1, <2>1, <2>3
    <3>2. Plain(v)'
      BY <1>8, <2>3, <3>1
    <3> QED  BY <3>1, <3>2 DEF Plain, Gone, Back, Tx
  <2> QED  BY <2>2, <2>3
<1>9. Unlisted'
  <2> SUFFICES ASSUME NEW p \in Sound', NEW q \in Sound',
                      \A v \in Worker : job'[v].of = p => Plain(v)', Dark(p)'
               PROVE  row'[p].links[q] = 0
    BY DEF Unlisted
  <2>1. p \in Sound /\ q \in Sound /\ p \in Post
    BY <1>4 DEF Sound
  <2> QED  BY <1>3, <1>8, <2>1 DEF LinkInv, Unlisted
<1>10. LinksAgree'
  <2> SUFFICES ASSUME NEW p \in Sound', NEW q \in Sound',
                      \A v \in Worker : job'[v].of \notin {p, q}
               PROVE  row'[p].links[q] =
                        IF row'[p].state = "live" /\ q \in Together(p, row[p].url)' THEN 1 ELSE 0
    BY DEF LinksAgree, Sound
  <2>1. p \in Sound /\ q \in Sound /\ p # me /\ q # me /\ p \in Post /\ q \in Post
    BY <1>4 DEF Sound
  <2>2. \A v \in Worker : job[v].of \notin {p, q}
    BY <1>1, <2>1
  <2>3. row[p].links[q] = IF row[p].state = "live" /\ q \in Together(p, row[p].url) THEN 1 ELSE 0
    BY <2>1, <2>2 DEF LinkInv, LinksAgree, Sound
  <2>4. q \in Together(p, row[p].url)' <=> q \in Together(p, row[p].url)
    BY <1>3, <2>1 DEF Together
  <2> QED  BY <1>3, <2>1, <2>3, <2>4
<1> QED  BY <1>5, <1>6, <1>7, <1>9, <1>10 DEF LinkInv, Planned

LEMMA InitLinks ==
  ASSUME Init PROVE LinkInv
<1>1. PICK n \in 0..Posts, url \in [Post -> Url] :
       LET live == 1..n
           others(p) == {q \in live \ {p} : url[q] = url[p]} IN
         row = [p \in Post |->
            IF p \in live
            THEN [state |-> "live", url |-> url[p], null |-> others(p) = {},
                  links |-> Only(others(p))]
            ELSE [state |-> "absent", url |-> NoUrl, null |-> TRUE, links |-> Nobody]]
  BY DEF Init
<1> DEFINE live == 1..n
           others(p) == {q \in live \ {p} : url[q] = url[p]}
<1>2. /\ \A w \in Worker : job[w] = NoJob /\ job[w].of \notin Post /\ Idle(w)
      /\ Sound = Post /\ live \subseteq Post
  BY CrossPostsAssumption DEF Init, NoJob, Post, Sound, Idle
<1>3. ASSUME NEW p \in Post
      PROVE  /\ p \in live => /\ row[p].state = "live" /\ row[p].url = url[p]
                              /\ row[p].links = Only(others(p))
             /\ p \notin live => /\ row[p].state = "absent" /\ row[p].url = NoUrl
                                 /\ row[p].links = Nobody
  BY <1>1
<1>4. ASSUME NEW p \in Post, NEW q \in Post
      PROVE  row[p].links[q] = IF p \in live /\ q \in others(p) THEN 1 ELSE 0
  <2>1. CASE p \in live
    <3>1. row[p].links = Only(others(p))
      BY <1>3, <2>1
    <3> HIDE DEF live, others
    <3> QED  BY <2>1, <3>1 DEF Only
  <2>2. CASE p \notin live
    BY <1>3, <2>2 DEF Nobody
  <2> QED  BY <2>1, <2>2
<1> HIDE DEF live
<1>5. Mutual
  BY <1>2, <1>4 DEF Mutual
<1>6. Unlisted
  <2> SUFFICES ASSUME NEW p \in Post, NEW q \in Post, Dark(p)  PROVE row[p].links[q] = 0
    BY <1>2 DEF Unlisted
  <2>1. p \notin live
    <3> SUFFICES ASSUME p \in live  PROVE FALSE
      OBVIOUS
    <3>1. row[p].url = url[p] /\ url[p] \in Url /\ row[p].state = "live"
      BY <1>3
    <3> QED  BY <3>1, CrossPostsAssumption DEF Dark
  <2> QED  BY <1>4, <2>1
<1>7. LinksAgree
  <2> SUFFICES ASSUME NEW p \in Post, NEW q \in Post
               PROVE  row[p].links[q] =
                        IF row[p].state = "live" /\ q \in Together(p, row[p].url) THEN 1 ELSE 0
    BY DEF LinksAgree
  <2>1. CASE p \notin live
    BY <1>3, <1>4, <2>1
  <2>2. CASE p \in live
    <3>1. row[p].state = "live" /\ row[p].url = url[p] /\ url[p] # NoUrl
      BY <1>3, <2>2, CrossPostsAssumption
    <3>2. q \in Together(p, url[p]) <=> q # p /\ row[q].state = "live" /\ row[q].url = url[p]
      BY <3>1 DEF Together
    <3>3. row[q].state = "live" /\ row[q].url = url[p] <=> q \in live /\ url[q] = url[p]
      BY <1>3
    <3> QED  BY <1>4, <2>2, <3>1, <3>2, <3>3
  <2> QED  BY <2>1, <2>2
<1>8. OneJob /\ Planned /\ \A w \in Worker : Found(w)
  BY <1>2 DEF OneJob, Planned, Found, At
<1> QED  BY <1>5, <1>6, <1>7, <1>8 DEF LinkInv

-----------------------------------------------------------------------------
(***************************************************************************)
(* What a commit does to the lists.                                        *)
(***************************************************************************)
LEMMA CommitFacts ==
  ASSUME Inv, TypeInv, NEW w \in Worker, Commit(w)
  PROVE  /\ Typed(w) /\ Loaded(w) /\ ~Idle(w) /\ job[w].of \in Post
         /\ job[w].of \notin job[w].seen /\ job[w].seen \subseteq Post
         /\ At(w, "lock") /\ Changed(w) \subseteq held[w] /\ Changed(w) \subseteq Post
         /\ Sound' \subseteq Sound
         /\ \A p \in Sound' : p \notin Wrong(w) /\ (p = job[w].of => Wrong(w) = {})
         /\ \A v \in Worker \ {w} : job'[v] = job[v] /\ left'[v] = left[v] /\ held'[v] = held[v]
<1>1. At(w, "lock") /\ ~Idle(w) /\ Typed(w) /\ Loaded(w) /\ ToLock(w) = {}
  BY DEF Commit, At, Inv, TypeInv
<1>2. Changed(w) \subseteq held[w] /\ Changed(w) \subseteq Post
  BY <1>1 DEF ToLock, Inv
<1>3. \A v \in Worker \ {w} : job'[v] = job[v] /\ left'[v] = left[v] /\ held'[v] = held[v]
  BY DEF Commit, End, Inv
<1>4. /\ Sound' \subseteq Sound
      /\ \A p \in Sound' : p \notin Wrong(w) /\ (p = job[w].of => Wrong(w) = {})
  BY DEF Commit, Sound
<1> QED  BY <1>1, <1>2, <1>3, <1>4 DEF Typed, Loaded

\* Between other posts nothing changes.
LEMMA CommitOthers ==
  ASSUME Inv, TypeInv, NEW w \in Worker, Commit(w),
         NEW p \in Sound', NEW q \in Post, p # job[w].of, q # job[w].of
  PROVE  row'[p].links[q] = row[p].links[q]
<1>0. p \in Post
  BY DEF Sound
<1>1. CASE p \notin Changed(w)
  BY <1>0, <1>1, CommitRow
<1>2. CASE p \in Changed(w)
  <2>1. row'[p].links = ListOf(w, p)
    BY <1>0, <1>2, CommitRow
  <2>2. p \notin Stale(w)
    BY CommitFacts DEF Wrong
  <2>3. job[w].copy[p] = row[p].links
    BY <1>2, <2>2 DEF Stale
  <2>4. row[p].links \in Lists
    BY <1>0 DEF TypeInv, Rows, Proper
  <2>5. ListOf(w, p)[q] = row[p].links[q]
    <3>1. CASE Does(w, "unlink") /\ ~Does(w, "link")
      <4>1. ListOf(w, p) = Removed(row[p].links, job[w].of)
        BY <2>3, <3>1 DEF ListOf
      <4> QED  BY <2>4, <4>1 DEF Removed, Lists
    <3>2. CASE Does(w, "link") /\ ~Does(w, "unlink")
      <4>1. ListOf(w, p) = [row[p].links EXCEPT ![job[w].of] = @ + 1]
        BY <2>3, <3>2 DEF ListOf
      <4> QED  BY <2>4, <4>1 DEF Lists
    <3>3. CASE Does(w, "write") /\ ~Does(w, "link") /\ ~Does(w, "unlink")
      BY <1>2, <3>3 DEF Changed
    <3> QED  BY <3>1, <3>2, <3>3, CommitFacts, DoesOne
  <2> QED  BY <2>1, <2>5
<1> QED  BY <1>1, <1>2

\* An unlink takes its post out of all lists.
LEMMA CommitUnlinks ==
  ASSUME Inv, TypeInv, LinkInv, NEW w \in Worker, Commit(w), Does(w, "unlink"),
         job[w].of \in Sound', NEW q \in Sound'
  PROVE  row'[job[w].of].links[q] = 0 /\ row'[q].links[job[w].of] = 0
<1> DEFINE me == job[w].of
           seen == job[w].seen
           copy == job[w].copy
<1>1. /\ me \in Sound /\ q \in Sound /\ me \in Post /\ q \in Post /\ Wrong(w) = {}
      /\ me \notin seen /\ At(w, "lock")
      /\ row[me].links[q] \in {0, 1} /\ row[q].links[me] = row[me].links[q]
      /\ row[me].links[me] = 0 /\ Proper(me, copy[me])
  <2>1. Mutual
    BY DEF LinkInv
  <2>2. /\ me \in Sound /\ q \in Sound /\ me \in Post /\ q \in Post /\ Wrong(w) = {}
        /\ me \notin seen /\ At(w, "lock") /\ Proper(me, copy[me])
    BY CommitFacts DEF Sound, Loaded
  <2>3. row[me].links[me] = 0
    BY <2>2 DEF TypeInv, Rows, Proper
  <2> QED  BY <2>1, <2>2, <2>3 DEF Mutual
<1>0. ~Does(w, "link") /\ ~Does(w, "write")
  BY CommitFacts, DoesOne
<1>2. /\ seen = Listed(copy[me])
      /\ \A p \in seen \cap Sound : copy[p][me] > 0 \/ row[me].links[p] = 0
  <2>1. /\ seen \subseteq Listed(copy[me])
        /\ \A p \in seen \cap Sound : copy[p][me] > 0 \/ row[me].links[p] = 0
    BY <1>1 DEF LinkInv, Found
  <2>2. Listed(copy[me]) \ seen = {}
    BY <1>1 DEF Wrong, Skipped
  <2> QED  BY <2>1, <2>2
<1>3. /\ \A p \in Post : copy[me][p] = row[me].links[p]
      /\ \A p \in Changed(w) : p # me => copy[p] = row[p].links
  BY <1>0, <1>1 DEF Wrong, Stale
<1>4. Changed(w) = IF copy[me] = Nobody THEN {}
                   ELSE {me} \cup {p \in seen : copy[p][me] > 0}
  BY <1>0 DEF Changed
<1>5. \A p \in Changed(w) : ListOf(w, p) = IF p = me THEN Nobody ELSE Removed(copy[p], me)
  BY <1>0 DEF ListOf
<1>6. q \in seen <=> row[me].links[q] = 1
  <2>1. q \in seen <=> copy[me][q] > 0
    BY <1>1, <1>2 DEF Listed
  <2> QED  BY <1>1, <1>3, <2>1
<1>7. CASE q \in seen
  <2>0. copy[me] # Nobody
    <3>1. copy[me][q] = 1 /\ Nobody[q] = 0
      BY <1>1, <1>3, <1>6, <1>7 DEF Nobody
    <3> QED  BY <3>1
  <2>1. q \in Changed(w) /\ me \in Changed(w) /\ q # me /\ row[q].links[me] = 1
    BY SMTT(20), <1>1, <1>2, <1>4, <1>6, <1>7, <2>0
  <2>2. row'[me].links = Nobody
    BY <1>1, <1>5, <2>1, CommitRow
  <2>3. row'[q].links = Removed(row[q].links, me) /\ row[q].links \in Lists
    BY <1>1, <1>3, <1>5, <2>1, CommitRow DEF TypeInv, Rows, Proper
  <2>4. row'[q].links[me] = 0
    BY <1>1, <2>1, <2>3 DEF Removed, Lists
  <2> QED  BY <1>1, <2>2, <2>4, EmptyList
<1>8. CASE q \notin seen
  <2>1. row[me].links[q] = 0 /\ row[q].links[me] = 0
    BY <1>1, <1>6, <1>8
  <2>2. row'[me].links = row[me].links \/ row'[me].links = Nobody
    BY <1>1, <1>5, CommitRow
  <2>3. row'[me].links[q] = 0
    BY <1>1, <2>1, <2>2, EmptyList
  <2>4. row'[q].links[me] = 0
    <3>1. CASE q = me
      BY <2>3, <3>1
    <3>2. CASE q # me
      <4>1. q \notin Changed(w)
        BY <1>4, <1>8, <3>2
      <4> QED  BY <1>1, <2>1, <4>1, CommitRow
    <3> QED  BY <3>1, <3>2
  <2> QED  BY <2>3, <2>4
<1> QED  BY <1>7, <1>8

\* A link puts it into the lists of those it has found, and them into its own.
LEMMA CommitLinked ==
  ASSUME Inv, TypeInv, LinkInv, NEW w \in Worker, Commit(w), Does(w, "link"),
         job[w].of \in Sound', NEW q \in Sound'
  PROVE  LET on == IF q \in Together(job[w].of, job[w].url) THEN 1 ELSE 0 IN
         row'[job[w].of].links[q] = on /\ row'[q].links[job[w].of] = on
<1> DEFINE me == job[w].of
           seen == job[w].seen
           copy == job[w].copy
<1>1. /\ me \in Sound /\ q \in Sound /\ me \in Post /\ q \in Post /\ Wrong(w) = {}
      /\ me \notin seen /\ seen \subseteq Post
      /\ row[me].links[q] \in {0, 1} /\ row[q].links[me] = row[me].links[q]
  <2>1. Mutual
    BY DEF LinkInv
  <2>2. /\ me \in Sound /\ q \in Sound /\ me \in Post /\ q \in Post /\ Wrong(w) = {}
        /\ me \notin seen /\ seen \subseteq Post
    BY CommitFacts DEF Sound
  <2> QED  BY <2>1, <2>2 DEF Mutual
<1>2. ~Does(w, "unlink") /\ ~Does(w, "write")
  BY CommitFacts, DoesOne
<1>3. seen = Together(me, job[w].url)
  BY <1>1 DEF Wrong, Missed, Apart
<1>4. /\ \A p \in Changed(w) : p # me => copy[p] = row[p].links
      /\ Listed(row[me].links) \subseteq seen
  BY <1>1, <1>2 DEF Wrong, Stale
<1>5. \A p \in seen : Room(copy[p]) /\ copy[p][me] = 0
  <2>1. \A p \in seen : Room(copy[p]) /\ ~(copy[p][me] > 0)
    BY <1>1 DEF Wrong, Again, Full
  <2>2. \A p \in seen : copy[p] \in [Post -> 0..Limit]
    BY <1>1, CommitFacts DEF Loaded, Proper, Lists
  <2>3. \A p \in seen : copy[p][me] \in Nat
    BY <1>1, <2>2, CrossPostsAssumption
  <2> QED  BY <2>1, <2>3
<1>6. Changed(w) = IF seen = {} THEN {} ELSE {me} \cup seen
  BY <1>2, <1>5 DEF Changed
<1>7. \A p \in Changed(w) :
        ListOf(w, p) = IF p = me THEN Only(seen) ELSE [copy[p] EXCEPT ![me] = @ + 1]
  BY <1>2 DEF ListOf
<1>8. CASE q \in seen
  <2>1. q \in Changed(w) /\ me \in Changed(w) /\ q # me
    BY <1>1, <1>6, <1>8
  <2>2. row'[me].links = Only(seen)
    BY <1>1, <1>7, <2>1, CommitRow
  <2>3. row'[me].links[q] = 1
    BY <1>1, <1>8, <2>2 DEF Only
  <2>4. row'[q].links = [copy[q] EXCEPT ![me] = @ + 1] /\ copy[q] \in Lists /\ copy[q][me] = 0
    BY <1>1, <1>5, <1>7, <1>8, <2>1, CommitRow, CommitFacts DEF Loaded, Proper
  <2>5. row'[q].links[me] = 1
    BY <1>1, <2>4 DEF Lists
  <2> QED  BY <1>3, <1>8, <2>3, <2>5
<1>9. CASE q \notin seen
  <2>1. row[me].links[q] = 0 /\ row[q].links[me] = 0
    BY <1>1, <1>4, <1>9 DEF Listed
  <2>2. row'[me].links[q] = 0
    <3>1. CASE me \in Changed(w)
      <4>1. row'[me].links = Only(seen)
        BY <1>1, <1>7, <3>1, CommitRow
      <4> QED  BY <1>1, <1>9, <4>1 DEF Only
    <3>2. CASE me \notin Changed(w)
      BY <1>1, <2>1, <3>2, CommitRow
    <3> QED  BY <3>1, <3>2
  <2>3. row'[q].links[me] = 0
    <3>1. CASE q = me
      BY <2>2, <3>1
    <3>2. CASE q # me
      <4>1. q \notin Changed(w)
        BY <1>6, <1>9, <3>2
      <4> QED  BY <1>1, <2>1, <4>1, CommitRow
    <3> QED  BY <3>1, <3>2
  <2> QED  BY <1>3, <1>9, <2>2, <2>3
<1> QED  BY <1>8, <1>9

LEMMA CommitWrites ==
  ASSUME Inv, TypeInv, NEW w \in Worker, Commit(w), Does(w, "write"), NEW p \in Post
  PROVE  row'[p].links = row[p].links
<1>1. Changed(w) = {}
  BY CommitFacts, DoesOne DEF Changed
<1> QED  BY <1>1, CommitRow

LEMMA CommitMutual ==
  ASSUME Inv, TypeInv, LinkInv, NEW w \in Worker, Commit(w)
  PROVE  Mutual'
<1> DEFINE me == job[w].of
<1>0. Mutual /\ Sound' \subseteq Sound /\ Sound' \subseteq Post
  BY CommitFacts DEF LinkInv, Sound
<1>1. ASSUME NEW q \in Sound', me \in Sound'
      PROVE  row'[me].links[q] \in {0, 1} /\ row'[me].links[q] = row'[q].links[me]
  <2>1. CASE Does(w, "unlink")
    BY <1>1, <2>1, CommitUnlinks
  <2>2. CASE Does(w, "link")
    BY <1>1, <2>2, CommitLinked
  <2>3. CASE Does(w, "write")
    BY <1>0, <1>1, <2>3, CommitWrites DEF Mutual
  <2> QED  BY <2>1, <2>2, <2>3, CommitFacts, DoesOne
<1> SUFFICES ASSUME NEW p \in Sound', NEW q \in Sound'
             PROVE  row'[p].links[q] \in {0, 1} /\ row'[p].links[q] = row'[q].links[p]
  BY DEF Mutual
<1>2. CASE p = me
  BY <1>1, <1>2
<1>3. CASE q = me
  BY <1>1, <1>3
<1>4. CASE p # me /\ q # me
  BY <1>0, <1>4, CommitOthers DEF Mutual
<1> QED  BY <1>2, <1>3, <1>4

\* The last commit of a request leaves its post in the lists it belongs in.
LEMMA CommitFinal ==
  ASSUME Inv, TypeInv, LinkInv, NEW w \in Worker, Commit(w), Len(left[w]) = 1,
         NEW me \in Sound', me = job[w].of, NEW q \in Sound'
  PROVE  row'[me].links[q] =
           IF row'[me].state = "live" /\ q \in Together(me, row'[me].url) THEN 1 ELSE 0
<1> DEFINE j == job[w]
           t == Head(left[w])
           url == row'[me].url
           right == row'[me].links[q] =
                      IF row'[me].state = "live" /\ q \in Together(me, url) THEN 1 ELSE 0
<1>1. /\ me \in Sound /\ q \in Sound /\ me \in Post /\ q \in Post /\ Wrong(w) = {}
      /\ j.kind \in Kinds /\ Course(w) /\ row[me].links[q] \in {0, 1}
  <2>1. me \in Sound /\ q \in Sound /\ me \in Post /\ q \in Post /\ Wrong(w) = {}
    BY CommitFacts DEF Sound
  <2> QED  BY <2>1, CommitFacts DEF LinkInv, Planned, Typed, Mutual
<1>2. /\ row'[me].state = IF t.state # "same" THEN t.state ELSE row[me].state
      /\ url = IF t.url # "same" THEN t.url ELSE row[me].url
  BY CommitRow
<1>3. \A a, b : left[w] # <<a, b>>
  <2> SUFFICES ASSUME NEW a, NEW b, left[w] = <<a, b>>  PROVE FALSE
    OBVIOUS
  <2>1. Len(left[w]) = 2
    BY Sequels
  <2> QED  BY <2>1
<1>4. \A a : left[w] = <<a>> => t = a
  BY Sequels
<1>5. Does(w, "unlink") => row'[me].links[q] = 0
  BY CommitUnlinks
<1>6. Does(w, "link") => row'[me].links[q] = IF q \in Together(me, j.url) THEN 1 ELSE 0
  BY CommitLinked
<1>7. Does(w, "write") => row'[me].links[q] = row[me].links[q]
  BY <1>1, CommitWrites
<1>8. Together(me, NoUrl) = {} /\ j.url # "same" /\ NoUrl # "same"
  BY <1>1 DEF Together, Course, NoUrl
<1>9. Crossed(w) = {} /\ Missed(w) = {}
  BY <1>1 DEF Wrong
<1>10. Does(w, "write") <=> t.does = "write"
  BY DEF Does
<1>11. Does(w, "unlink") <=> t.does = "unlink"
  BY DEF Does
<1>12. Does(w, "link") <=> t.does = "link"
  BY DEF Does
<1> USE <1>10, <1>11, <1>12
<1>13. \A to : /\ Link(to).does = "link" /\ Link(to).state = to /\ Link(to).url = "same"
               /\ Unlink(to).does = "unlink" /\ Unlink(to).state = to /\ Unlink(to).url = "same"
  BY TxFields DEF Link, Unlink
<1>14. /\ Gone.does = "write" /\ Gone.state = "deleted" /\ Gone.url = "same"
       /\ Back.does = "write" /\ Back.state = "live" /\ Back.url = "same"
  BY TxFields DEF Gone, Back
<1>15. ASSUME Plain(w), row[me].url = NoUrl, t \in {Gone, Back}  PROVE right
  <2>1. \A v \in Worker : job[v].of = me => v = w
    BY <1>1 DEF LinkInv, OneJob
  <2>2. row[me].links[q] = 0
    BY <1>1, <1>15, <2>1 DEF LinkInv, Unlisted, Dark
  <2> QED  BY <1>2, <1>7, <1>8, <1>14, <1>15, <2>2
<1>16. CASE j.kind = "new"
  <2>1. t = Link("same") /\ row[me].state = "live" /\ row[me].url = j.url
    BY <1>1, <1>4, <1>16 DEF Course
  <2> QED  BY <1>2, <1>6, <1>13, <2>1
<1>17. CASE j.kind \in {"make", "schedule", "edit"} \/ (j.kind = "update" /\ left[w] \in Relinks(j.url))
  <2>1. t = Tx("link", "same", j.url) /\ row[me].state = "live"
    BY <1>1, <1>3, <1>4, <1>17 DEF Course, Relinks
  <2> QED  BY <1>2, <1>6, <1>8, <2>1, TxFields
<1>18. CASE j.kind = "update" /\ left[w] \notin Relinks(j.url)
  <2>1. t = Tx("write", "same", j.url) /\ row[me].state = "live" /\ j.seen = {}
    BY <1>1, <1>4, <1>18 DEF Course
  <2>2. Does(w, "write") /\ t.state = "same" /\ t.url = j.url
    BY <2>1, TxFields
  <2>3. Listed(row[me].links) = {}
    BY <1>9, <1>18, <2>2 DEF Crossed
  <2>4. row[me].links[q] = 0
    BY <1>1, <2>3 DEF Listed
  <2>5. Together(me, j.url) = {}
    BY <1>9, <2>1, <2>2 DEF Missed, Apart
  <2> QED  BY <1>2, <1>7, <1>8, <2>2, <2>4, <2>5
<1>19. CASE j.kind = "update_away"
  <2>1. t = Tx("unlink", "same", NoUrl)
    BY <1>1, <1>4, <1>19 DEF Course
  <2> QED  BY <1>2, <1>5, <1>8, <2>1, TxFields
<1>20. CASE j.kind = "delete"
  <2>1. t = Gone
    BY <1>1, <1>3, <1>4, <1>20 DEF Course
  <2>2. Listed(row[me].links) = {}
    BY <1>9, <1>14, <1>20, <2>1 DEF Crossed
  <2>3. row[me].links[q] = 0
    BY <1>1, <2>2 DEF Listed
  <2> QED  BY <1>2, <1>7, <1>14, <2>1, <2>3
<1>21. CASE j.kind = "inbox_delete"
  <2>1. \/ t = Unlink("same") /\ row[me].state = "deleted"
        \/ left[w] = <<Gone>> /\ t = Gone /\ row[me].url = NoUrl
    BY <1>1, <1>3, <1>4, <1>21 DEF Course
  <2>2. CASE t = Unlink("same") /\ row[me].state = "deleted"
    BY <1>2, <1>5, <1>13, <2>2
  <2>3. CASE left[w] = <<Gone>> /\ t = Gone /\ row[me].url = NoUrl
    BY <1>15, <1>21, <2>3 DEF Plain
  <2> QED  BY <2>1, <2>2, <2>3
<1>22. CASE j.kind = "ban"
  <2>1. \/ t = Unlink("deleted")
        \/ left[w] = <<Gone>> /\ t = Gone /\ row[me].url = NoUrl
    BY <1>1, <1>4, <1>22 DEF Course
  <2>2. CASE t = Unlink("deleted")
    BY <1>2, <1>5, <1>13, <2>2
  <2>3. CASE left[w] = <<Gone>> /\ t = Gone /\ row[me].url = NoUrl
    BY <1>15, <1>22, <2>3 DEF Plain
  <2> QED  BY <2>1, <2>2, <2>3
<1>23. CASE j.kind = "restore"
  <2>1. t = Back /\ row[me].url = j.url
    BY <1>1, <1>3, <1>4, <1>23 DEF Course
  <2>2. Apart(Listed(row[me].links), j.seen) = {}
    BY <1>9, <1>14, <1>23, <2>1 DEF Crossed
  <2>3. Apart(Together(me, j.url), j.seen) = {}
    BY <1>9, <1>14, <2>1 DEF Missed
  <2>4. Listed(row[me].links) = Together(me, j.url)
    BY <2>2, <2>3 DEF Apart
  <2>5. row[me].links[q] = IF q \in Together(me, j.url) THEN 1 ELSE 0
    BY <1>1, <2>4 DEF Listed
  <2> QED  BY <1>2, <1>7, <1>14, <2>1, <2>5
<1>24. CASE j.kind = "inbox_restore"
  <2>1. \/ t = Link("live") /\ row[me].url = j.url
        \/ left[w] = <<Back>> /\ t = Back /\ row[me].url = NoUrl
    BY <1>1, <1>4, <1>24 DEF Course
  <2>2. CASE t = Link("live") /\ row[me].url = j.url
    BY <1>2, <1>6, <1>13, <2>2
  <2>3. CASE left[w] = <<Back>> /\ t = Back /\ row[me].url = NoUrl
    BY <1>15, <1>24, <2>3 DEF Plain
  <2> QED  BY <2>1, <2>2, <2>3
<1> QED
  BY <1>1, <1>16, <1>17, <1>18, <1>19, <1>20, <1>21, <1>22, <1>23, <1>24 DEF Kinds

\* What is left after a commit that is not the last one.
LEMMA CommitCourse ==
  ASSUME Inv, TypeInv, LinkInv, NEW w \in Worker, Commit(w), Len(left[w]) # 1,
         NEW me \in Sound', me = job[w].of
  PROVE  Course(w)' /\ ~Plain(w)'
<1>1. /\ job[w].kind \in Kinds /\ Course(w) /\ me \in Post
      /\ left'[w] = Tail(left[w])
      /\ job[w] \in Shape(job[w])
  <2>1. job[w].kind \in Kinds /\ me \in Sound /\ me \in Post /\ job[w] \in Shape(job[w])
    BY CommitFacts DEF Typed
  <2>2. Course(w)
    BY <2>1 DEF LinkInv, Planned
  <2>3. left'[w] = Tail(left[w])
    BY DEF Commit, Inv
  <2> QED  BY <2>1, <2>2, <2>3
<1>2. job'[w].kind = job[w].kind /\ job'[w].of = me /\ job'[w].url = job[w].url
  <2> DEFINE copy == [p \in Post |-> Nobody]
             j == [job[w] EXCEPT !.at = "start", !.dirty = FALSE, !.copy = copy]
  <2>1. job' = [job EXCEPT ![w] = j]
    BY DEF Commit
  <2>2. job'[w] = j
    BY <2>1 DEF Inv
  <2>3. j.kind = job[w].kind /\ j.of = job[w].of /\ j.url = job[w].url
    <3> HIDE DEF copy
    <3> QED  BY <1>1 DEF Shape
  <2> QED  BY <2>2, <2>3
<1>3. /\ row'[me].state = IF Head(left[w]).state # "same" THEN Head(left[w]).state ELSE row[me].state
      /\ row'[me].url = IF Head(left[w]).url # "same" THEN Head(left[w]).url ELSE row[me].url
  BY CommitRow
<1>4. \A a : left[w] # <<a>>
  <2> SUFFICES ASSUME NEW a, left[w] = <<a>>  PROVE FALSE
    OBVIOUS
  <2>1. Len(left[w]) = 1
    BY Sequels
  <2> QED  BY <2>1
<1>5. \A a, b : left[w] = <<a, b>> => left'[w] = <<b>> /\ Head(left[w]) = a
  BY <1>1, Sequels
<1>6. CASE job[w].kind \in {"new", "make", "schedule", "update_away", "ban", "inbox_restore"}
  BY <1>1, <1>4, <1>6 DEF Course
<1>7. CASE job[w].kind \in {"edit", "update"}
  <2>1. /\ left'[w] = <<Tx("link", "same", job[w].url)>>
        /\ Head(left[w]).state = "same" /\ row[me].state = "live"
    BY <1>1, <1>4, <1>5, <1>7, TxFields DEF Course, Relinks
  <2> QED  BY <1>1, <1>2, <1>3, <1>7, <2>1 DEF Course, Relinks, Plain
<1>8. CASE job[w].kind = "delete"
  <2>1. left'[w] = <<Gone>>
    BY <1>1, <1>4, <1>5, <1>8 DEF Course
  <2> QED  BY <1>1, <1>2, <1>8, <2>1 DEF Course, Plain, Gone, Tx
<1>9. CASE job[w].kind = "inbox_delete"
  <2>1. left'[w] = <<Unlink("same")>> /\ Head(left[w]).state = "deleted"
    BY <1>1, <1>4, <1>5, <1>9, TxFields DEF Course, Gone
  <2>2. Unlink("same").does = "unlink" /\ Gone.does = "write" /\ Back.does = "write"
    BY TxFields DEF Unlink, Gone, Back
  <2>3. left'[w] \notin {<<Gone>>, <<Back>>}
    BY <2>1, <2>2, Sequels
  <2> QED  BY <1>1, <1>2, <1>3, <1>9, <2>1, <2>3 DEF Course, Plain, Unlink, Gone, Back, Tx
<1>10. CASE job[w].kind = "restore"
  <2>1. left'[w] = <<Back>> /\ Head(left[w]).url = "same" /\ row[me].url = job[w].url
    BY <1>1, <1>4, <1>5, <1>10, TxFields DEF Course, Link
  <2> QED  BY <1>1, <1>2, <1>3, <1>10, <2>1 DEF Course, Plain, Back, Tx
<1> QED  BY <1>1, <1>6, <1>7, <1>8, <1>9, <1>10 DEF Kinds

LEMMA CommitLinks ==
  ASSUME Inv, TypeInv, LinkInv, NEW w \in Worker, Commit(w)
  PROVE  LinkInv'
<1>0. PICK me \in Post : me = job[w].of
  BY CommitFacts
<1>1. /\ \/ job'[w].of = me /\ Len(left[w]) # 1
         \/ job'[w] = NoJob /\ Len(left[w]) = 1
      /\ NoJob.of \notin Post
      /\ ~At(w, "lock")'
  <2>1. NoJob.of \notin Post
    BY CrossPostsAssumption DEF NoJob, Post
  <2>2. CASE Len(left[w]) = 1
    BY <2>1, <2>2 DEF Commit, End, Inv, At, Idle
  <2>3. CASE Len(left[w]) # 1
    <3> DEFINE copy == [p \in Post |-> Nobody]
               j == [job[w] EXCEPT !.at = "start", !.dirty = FALSE, !.copy = copy]
    <3>1. job' = [job EXCEPT ![w] = j]
      BY <2>3 DEF Commit
    <3>2. job'[w] = j
      BY <3>1 DEF Inv
    <3>3. j.of = me /\ j.at = "start"
      <4>1. job[w] \in Shape(job[w])
        BY CommitFacts DEF Typed
      <4> HIDE DEF copy
      <4> QED  BY <1>0, <4>1 DEF Shape
    <3> HIDE DEF j
    <3>4. job'[w].of = me /\ job'[w].at = "start"
      BY <3>2, <3>3
    <3> QED  BY <2>1, <2>3, <3>4 DEF At
  <2> QED  BY <2>2, <2>3
<1>2. /\ Sound' \subseteq Sound /\ Sound' \subseteq Post
      /\ \A v \in Worker \ {w} : /\ job'[v] = job[v] /\ left'[v] = left[v]
                                 /\ held'[v] = held[v]
      /\ \A p \in Post \ {me} : row'[p].state = row[p].state /\ row'[p].url = row[p].url
  BY <1>0, CommitFacts, CommitRow DEF Sound
<1>3. ASSUME NEW v \in Worker, v # w, job[v].of \in Sound'  PROVE job[v].of # me
  BY <1>0, <1>2, <1>3 DEF LinkInv, OneJob
<1>4. Mutual'
  BY CommitMutual
<1>5. OneJob'
  BY <1>0, <1>1, <1>2 DEF LinkInv, OneJob
<1>6. ASSUME NEW v \in Worker, job'[v].of \in Sound'  PROVE Course(v)'
  <2>1. CASE v = w
    BY <1>0, <1>1, <1>2, <1>6, <2>1, CommitCourse
  <2>2. CASE v # w
    <3>1. Course(v) /\ job[v].of \in Post /\ job[v].of # me
      BY <1>2, <1>3, <1>6, <2>2 DEF LinkInv, Planned
    <3> QED  BY <1>2, <2>2, <3>1, CourseFrame
  <2> QED  BY <2>1, <2>2
<1>7. ASSUME NEW v \in Worker  PROVE Found(v)'
  <2>1. CASE v = w
    BY <1>1, <2>1 DEF Found
  <2>2. CASE v # w
    <3> SUFFICES ASSUME job[v].of \in Sound', At(v, "lock"), Does(v, "unlink")
                 PROVE  /\ job[v].seen \subseteq Listed(job[v].copy[job[v].of])
                        /\ \A p \in job[v].seen \cap Sound :
                             \/ job[v].copy[p][job[v].of] > 0
                             \/ job[v].of \in held[v] /\ row'[job[v].of].links[p] = 0
      BY <1>2, <2>2 DEF Found, At, Idle, Does
    <3>1. Found(v) /\ job[v].of \in Sound /\ job[v].of \in Post
      BY <1>2 DEF LinkInv
    <3>2. job[v].of \in held[v] => row'[job[v].of].links = row[job[v].of].links
      <4>1. job[v].of \in held[v] => job[v].of \notin Changed(w)
        BY <2>2, CommitFacts DEF Inv
      <4> QED  BY <3>1, <4>1, CommitRow
    <3> QED  BY <3>1, <3>2 DEF Found
  <2> QED  BY <2>1, <2>2
<1>8. ASSUME NEW p \in Sound', NEW q \in Sound', p # me,
             \A v \in Worker : job'[v].of = p => Plain(v)', Dark(p)'
      PROVE  row'[p].links[q] = 0
  <2>1. p \in Post /\ q \in Post /\ p \in Sound /\ q \in Sound
    BY <1>2
  <2>2. Dark(p)
    BY <1>2, <1>8, <2>1 DEF Dark
  <2>3. ASSUME NEW v \in Worker, job[v].of = p  PROVE Plain(v)
    <3>1. v # w /\ job'[v] = job[v] /\ left'[v] = left[v]
      BY <1>0, <1>2, <1>8, <2>3
    <3>2. Plain(v)'
      BY <1>8, <2>3, <3>1
    <3> QED  BY <3>1, <3>2 DEF Plain, Gone, Back, Tx
  <2>4. row[p].links[q] = 0
    BY <2>1, <2>2, <2>3 DEF LinkInv, Unlisted
  <2>5. CASE q # me
    BY <1>0, <1>8, <2>1, <2>4, <2>5, CommitOthers
  <2>6. CASE q = me
    <3>1. CASE Does(w, "unlink")
      BY <1>0, <2>6, <3>1, CommitUnlinks
    <3>2. CASE Does(w, "link")
      <4>1. p \notin Together(me, job[w].url)
        BY <2>2 DEF Together, Dark
      <4> QED  BY <1>0, <2>6, <3>2, <4>1, CommitLinked
    <3>3. CASE Does(w, "write")
      BY <2>1, <2>4, <3>3, CommitWrites
    <3> QED  BY <3>1, <3>2, <3>3, CommitFacts, DoesOne
  <2> QED  BY <2>5, <2>6
<1>9. ASSUME NEW q \in Sound', me \in Sound',
             \A v \in Worker : job'[v].of = me => Plain(v)', Dark(me)'
      PROVE  row'[me].links[q] = 0
  <2>1. Len(left[w]) = 1
    BY <1>0, <1>1, <1>9, CommitCourse
  <2>2. ~(row'[me].state = "live" /\ q \in Together(me, row'[me].url))
    BY <1>9 DEF Dark, Together
  <2> QED  BY <1>0, <1>9, <2>1, <2>2, CommitFinal
<1>10. Unlisted'
  <2> SUFFICES ASSUME NEW p \in Sound', NEW q \in Sound',
                      \A v \in Worker : job'[v].of = p => Plain(v)', Dark(p)'
               PROVE  row'[p].links[q] = 0
    BY DEF Unlisted
  <2>1. CASE p = me
    BY <1>9, <2>1
  <2>2. CASE p # me
    BY <1>8, <2>2
  <2> QED  BY <2>1, <2>2
<1>11. ASSUME NEW p \in Sound', NEW q \in Sound',
              \A v \in Worker : job'[v].of \notin {p, q}
       PROVE  row'[p].links[q] =
                IF row'[p].state = "live" /\ q \in Together(p, row[p].url)' THEN 1 ELSE 0
  <2>0. p \in Post /\ q \in Post /\ p \in Sound /\ q \in Sound
    BY <1>2
  <2>1. CASE p # me /\ q # me
    <3>1. \A v \in Worker : job[v].of \notin {p, q}
      BY <1>0, <1>2, <1>11, <2>1
    <3>2. row[p].links[q] = IF row[p].state = "live" /\ q \in Together(p, row[p].url) THEN 1 ELSE 0
      BY <2>0, <3>1 DEF LinkInv, LinksAgree, Sound
    <3>3. q \in Together(p, row[p].url)' <=> q \in Together(p, row[p].url)
      BY <1>2, <2>0, <2>1 DEF Together
    <3>4. row'[p].links[q] = row[p].links[q] /\ row'[p].state = row[p].state
      BY <1>0, <1>2, <2>0, <2>1, CommitOthers
    <3> QED  BY <3>2, <3>3, <3>4
  <2>2. CASE p = me
    <3>1. Len(left[w]) = 1
      BY <1>1, <1>11, <2>2
    <3>2. row'[me].links[q] =
            IF row'[me].state = "live" /\ q \in Together(me, row'[me].url) THEN 1 ELSE 0
      BY <1>0, <2>2, <3>1, CommitFinal
    <3>3. q \in Together(p, row[p].url)' <=> q \in Together(me, row'[me].url)
      BY <1>2, <2>0, <2>2 DEF Together
    <3> QED  BY <2>2, <3>2, <3>3
  <2>3. CASE q = me /\ p # me
    <3>1. Len(left[w]) = 1
      BY <1>1, <1>11, <2>3
    <3>2. row'[me].links[p] =
            IF row'[me].state = "live" /\ p \in Together(me, row'[me].url) THEN 1 ELSE 0
      BY <1>0, <2>3, <3>1, CommitFinal
    <3>3. row'[p].links[q] = row'[me].links[p]
      BY <1>4, <2>3 DEF Mutual
    <3>4. row'[p].state = "live" /\ q \in Together(p, row[p].url)' <=>
            row'[me].state = "live" /\ p \in Together(me, row'[me].url)
      BY <1>2, <2>0, <2>3 DEF Together
    <3> QED  BY <3>2, <3>3, <3>4
  <2> QED  BY <2>1, <2>2, <2>3
<1>12. LinksAgree'
  BY <1>11 DEF LinksAgree, Sound
<1> QED  BY <1>4, <1>5, <1>6, <1>7, <1>10, <1>12 DEF LinkInv, Planned

\* What changes the status alone, and the copy, which nothing is said of.
LEMMA StatusLinks ==
  ASSUME LinkInv, NEW me \in Post, StatusOnly(me)
  PROVE  LinkInv'
<1>1. /\ job' = job /\ left' = left /\ held' = held
      /\ Sound' \subseteq Sound /\ Sound' \subseteq Post
      /\ \A p \in Sound' : row'[p] = row[p]
  <2>1. CASE row' = row
    BY <2>1 DEF StatusOnly, Postpone, Publish, PublishCopy, Sound
  <2>2. CASE \E p \in Post : PublishCopy(me, p)
    BY <2>2 DEF PublishCopy, Sound
  <2> QED  BY <2>1, <2>2 DEF StatusOnly, Postpone, Publish
<1>2. Mutual' /\ OneJob'
  BY <1>1 DEF LinkInv, Mutual, OneJob
<1>3. Planned'
  BY <1>1, CourseFrame DEF LinkInv, Planned
<1>4. ASSUME NEW w \in Worker  PROVE Found(w)'
  BY <1>1 DEF LinkInv, Found, At, Idle, Does
<1>5. Unlisted'
  <2> SUFFICES ASSUME NEW p \in Sound', NEW q \in Sound',
                      \A w \in Worker : job'[w].of = p => Plain(w)', Dark(p)'
               PROVE  row'[p].links[q] = 0
    BY DEF Unlisted
  <2>1. Dark(p) /\ \A w \in Worker : job[w].of = p => Plain(w)
    BY <1>1 DEF Dark, Plain, Gone, Back, Tx
  <2> QED  BY <1>1, <2>1 DEF LinkInv, Unlisted
<1>6. LinksAgree'
  <2> SUFFICES ASSUME NEW p \in Sound', NEW q \in Sound',
                      \A w \in Worker : job'[w].of \notin {p, q}
               PROVE  row'[p].links[q] =
                        IF row'[p].state = "live" /\ q \in Together(p, row[p].url)' THEN 1 ELSE 0
    BY DEF LinksAgree, Sound
  <2>1. row[p].links[q] = IF row[p].state = "live" /\ q \in Together(p, row[p].url) THEN 1 ELSE 0
    BY <1>1 DEF LinkInv, LinksAgree, Sound
  <2>2. q \in Together(p, row[p].url)' <=> q \in Together(p, row[p].url)
    BY <1>1 DEF Together
  <2> QED  BY <1>1, <2>1, <2>2
<1> QED  BY <1>2, <1>3, <1>4, <1>5, <1>6 DEF LinkInv

LEMMA NextLinks ==
  ASSUME Inv, TypeInv, LinkInv, [Next]_vars
  PROVE  LinkInv'
<1>1. CASE UNCHANGED vars
  <2>1. ASSUME NEW v \in Worker, job[v].of \in Sound  PROVE Course(v)'
    BY <1>1, <2>1, CourseFrame DEF LinkInv, Planned, vars
  <2>2. ASSUME NEW v \in Worker  PROVE Found(v)'
    BY <1>1 DEF LinkInv, Found, At, Idle, Does, Sound, vars
  <2> QED  BY <1>1, <2>1, <2>2, QuietLinks DEF vars
<1>2. CASE \E me \in Post : StatusOnly(me)
  BY <1>2, StatusLinks
<1>3. CASE Next /\ ~ \E me \in Post : StatusOnly(me)
  <2>1. PICK w \in Worker :
          (\E me \in Post : BeginAny(w, me)) \/ Work(w) \/ Victim(w) \/ Crash(w)
    BY <1>3 DEF Next
  <2> QED
    BY <2>1, BeginAnyLinks, SkipLinks, LockLinks, LookLinks, CommitLinks, FailLinks DEF Work
<1> QED  BY <1>1, <1>2, <1>3

\* Two posts with which nothing went wrong list each other, once, just when
\* both are there with the same URL, as soon as nobody is at work on them.
THEOREM LinksRight == Spec => []LinksAgree
<1>1. Init => LinkInv
  BY InitLinks
<1>2. (Inv /\ TypeInv) /\ LinkInv /\ [Next]_vars => LinkInv'
  BY NextLinks
<1>3. LinkInv => LinksAgree
  BY DEF LinkInv
<1> QED  BY <1>1, <1>2, <1>3, AlwaysTypes, PTL DEF Spec
=============================================================================
