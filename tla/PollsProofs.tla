---------------------------- MODULE PollsProofs ----------------------------
(***************************************************************************)
(* Polls for every value of its constants: its types, the keys of its      *)
(* tables, that a choice never shows more votes than it got, and that the  *)
(* copies of a poll agree when everything has arrived.                     *)
(***************************************************************************)
EXTENDS Polls, FiniteSetTheorems, SequenceTheorems, TLAPS

IsVote(w) == job[w].op \in {"web", "PollVote", "Note"}
Inserts(w) == IsVote(w) /\ job[w].at = "insert"
Commits(w) == IsVote(w) /\ job[w].at = "commit"
Edits(w) == job[w].op = "edit"

\* Votes refer to choices that exist, and so do the rows that are being
\* written: the choices cannot be deleted meanwhile.
Referred ==
  /\ \A s \in Site : votes[s] \subseteq Voter \X choices[s]
  /\ \A w \in Worker :
       Inserts(w) \/ Commits(w) =>
         /\ job[w].gen <= gen[job[w].site]
         /\ job[w].gen = gen[job[w].site] => Row(w)[2] \in choices[job[w].site]
         /\ Commits(w) => job[w].gen = gen[job[w].site]

\* The key lets no two write the same row.
Keyed ==
  /\ \A w \in Worker : Commits(w) => Row(w) \notin votes[job[w].site]
  /\ \A u, w \in Worker :
       u # w /\ Commits(u) /\ Commits(w) /\ job[u].site = job[w].site => Row(u) # Row(w)

\* The author makes one edit at a time, and finds the poll without choices
\* when he writes the new ones.
Alone ==
  /\ \A u, w \in Worker : Edits(u) /\ Edits(w) => u = w
  /\ \A w \in Worker : Edits(w) /\ job[w].at = "refill" => choices["home"] = {}

\* A count is never ahead, nor is the number that a commit will increase.
Counted ==
  /\ \A t \in Text : IsFiniteSet(Choosers("home", t))
  /\ NeverAhead
  /\ \A w \in Worker : Commits(w) /\ job[w].site = "home" =>
                         job[w].num <= Chose("home", Row(w)[2])

KeyInv == Referred /\ Keyed /\ Alone

-----------------------------------------------------------------------------
(***************************************************************************)
(* Jobs and messages.                                                      *)
(***************************************************************************)
LEMMA VoteJobs ==
  ASSUME TypeOK, NEW w \in Worker, IsVote(w)
  PROVE  /\ job[w] \in VoteJob /\ ~Idle(w)
         /\ job[w].site \in Site /\ job[w].voter \in Voter
         /\ job[w].todo \in Seq(Text) \ {<<>>}
         /\ job[w].gen \in Nat /\ job[w].num \in Nat
         /\ Row(w) \in Voter \X Text
         /\ Row(w)[1] = job[w].voter /\ Row(w)[2] = Head(job[w].todo)
<1>1. job[w] \in {NoJob} \cup VoteJob \cup EditJob
  BY DEF TypeOK
<1>1a. job[w] \in VoteJob /\ ~Idle(w)
  BY <1>1 DEF IsVote, Idle, NoJob, EditJob
<1>2. Head(job[w].todo) \in Text
  BY <1>1a DEF VoteJob
<1> QED  BY <1>1a, <1>2 DEF VoteJob, Row

LEMMA EditJobs ==
  ASSUME TypeOK, NEW w \in Worker, job[w].op = "edit"
  PROVE  /\ job[w] \in EditJob /\ ~Idle(w) /\ ~IsVote(w)
         /\ job[w].texts \in SUBSET Text /\ job[w].mode \in Mode
         /\ job[w].site = "home" /\ job[w].at \in {"wipe", "refill"}
<1>1. job[w] \in {NoJob} \cup VoteJob \cup EditJob
  BY DEF TypeOK
<1> QED  BY <1>1 DEF IsVote, Idle, NoJob, EditJob, VoteJob

LEMMA Where ==
  ASSUME TypeOK, NEW w \in Worker
  PROVE  /\ At(w, "look") \/ At(w, "insert") \/ At(w, "commit") \/ At(w, "send")
              => IsVote(w)
         /\ At(w, "wipe") \/ At(w, "refill") => job[w].op = "edit"
         /\ Idle(w) => job[w].op = "none" /\ ~IsVote(w)
         /\ IsVote(w) => (\A at : At(w, at) <=> job[w].at = at)
<1>1. job[w] \in {NoJob} \cup VoteJob \cup EditJob
  BY DEF TypeOK
<1> QED  BY <1>1 DEF IsVote, At, Idle, NoJob, EditJob, VoteJob

LEMMA Uncommitteds ==
  ASSUME TypeOK, NEW s
  PROVE  Uncommitted(s) = {w \in Worker : Commits(w) /\ job[w].site = s}
  BY Where, VoteJobs DEF Uncommitted, Commits

LEMMA Home == "home" \in Site /\ Follower \subseteq Site /\ "home" \notin Follower
  BY PollsAssumption DEF Site

LEMMA MoreMail ==
  ASSUME NEW B, NEW S
  PROVE  BagToSet(B (+) SetToBag(S)) = BagToSet(B) \cup S
  BY DEF BagToSet, SetToBag, (+)

LEMMA LessMail ==
  ASSUME NEW B, NEW S
  PROVE  BagToSet(B (-) SetToBag(S)) \subseteq BagToSet(B)
  BY DEF BagToSet, SetToBag, (-)

\* The other workers keep their jobs, and this one has another.
Only(w, j) == job' = [job EXCEPT ![w] = j]

LEMMA Others ==
  ASSUME TypeOK, NEW w \in Worker, NEW j \in {NoJob} \cup VoteJob \cup EditJob, Only(w, j)
  PROVE  /\ job' \in [Worker -> {NoJob} \cup VoteJob \cup EditJob]
         /\ job'[w] = j
         /\ \A u \in Worker : u # w => job'[u] = job[u]
  BY DEF TypeOK, Only

-----------------------------------------------------------------------------
(***************************************************************************)
(* Types.                                                                  *)
(***************************************************************************)
LEMMA Tables ==
  ASSUME TypeOK
  PROVE  /\ choices \in [Site -> SUBSET Text]
         /\ gen \in [Site -> Nat]
         /\ mode \in [Site -> Mode]
         /\ votes \in [Site -> SUBSET (Voter \X Text)]
         /\ tally \in [Site -> [Text -> Nat]]
         /\ updates \in Nat /\ updates + 1 \in Nat
         /\ updates > 0 => updates - 1 \in Nat
<1>1. updates \in Nat
  BY DEF TypeOK
<1>2. updates + 1 \in Nat /\ (updates > 0 => updates - 1 \in Nat)
  BY <1>1
<1> QED  BY <1>1, <1>2 DEF TypeOK

LEMMA OneMore ==
  ASSUME TypeOK
  PROVE  /\ cast < MaxRequests => cast + 1 \in 0 .. MaxRequests
         /\ edits < MaxEdits => edits + 1 \in 0 .. MaxEdits
<1>1. cast \in 0 .. MaxRequests /\ edits \in 0 .. MaxEdits
  BY DEF TypeOK
<1>2. MaxRequests \in Nat /\ MaxEdits \in Nat
  BY PollsAssumption
<1> QED  BY <1>1, <1>2

LEMMA NoteType ==
  ASSUME TypeOK, NEW kind \in {"vote", "note", "edit"}, Note(kind)
  PROVE  /\ since' \subseteq {"vote", "note", "edit"}
         /\ mishaps' \subseteq {"lost count", "edited amid votes", "totals amid votes"}
  BY DEF TypeOK, Note

LEMMA BeginType ==
  ASSUME TypeOK, NEW w \in Worker, NEW op \in {"web", "PollVote", "Note"},
         NEW s \in Site, NEW v \in Voter, NEW todo \in Seq(Text) \ {<<>>},
         Begin(w, op, s, v, todo)
  PROVE  \E j \in VoteJob :
           /\ Only(w, j)
           /\ j.op = op /\ j.site = s /\ j.voter = v /\ j.todo = todo /\ j.at = "look"
<1> DEFINE j == [op |-> op, site |-> s, voter |-> v, todo |-> todo,
                 gen |-> 0, num |-> 0, at |-> "look"]
<1>1. j \in VoteJob
  BY DEF VoteJob
<1>2. Only(w, j)
  BY DEF Begin, Only
<1> QED  BY <1>1, <1>2

LEMMA VoteType ==
  ASSUME TypeOK, NEW w \in Worker, NEW v \in Voter, NEW todo \in Seq(Text) \ {<<>>},
         Vote(w, v, todo)
  PROVE  TypeOK'
<1>1. Lives[v] \in Site
  BY DEF Vote
<1>2. PICK j \in VoteJob : Only(w, j)
  BY <1>1, BeginType DEF Vote
<1>3. cast' \in 0 .. MaxRequests
  BY OneMore DEF Vote
<1> QED  BY <1>2, <1>3, Others, NoteType DEF TypeOK, Vote, poll

LEMMA NoteVoteType ==
  ASSUME TypeOK, NEW v \in Voter, NEW t \in Text, NoteVote(v, t)
  PROVE  TypeOK'
<1> DEFINE m == [kind |-> "Note", to |-> "home", voter |-> v, text |-> t]
<1>1. m \in VoteMessage
  BY Home DEF VoteMessage
<1>2. BagToSet(net') = BagToSet(net) \cup {m}
  BY MoreMail DEF NoteVote
<1>3. cast' \in 0 .. MaxRequests
  BY OneMore DEF NoteVote
<1>4. since' \subseteq {"vote", "note", "edit"}
      /\ mishaps' \subseteq {"lost count", "edited amid votes", "totals amid votes"}
  BY NoteType DEF NoteVote
<1> HIDE DEF m
<1>5. \A n \in BagToSet(net)' : n \in VoteMessage \/ IsUpdate(n)
  BY <1>1, <1>2 DEF TypeOK
<1> QED  BY <1>3, <1>4, <1>5 DEF TypeOK, NoteVote, poll

LEMMA ReceiveVoteType ==
  ASSUME TypeOK, NEW w \in Worker, NEW m \in BagToSet(net), ReceiveVote(w, m)
  PROVE  TypeOK'
<1>1. m \in VoteMessage
  BY DEF TypeOK, ReceiveVote, IsUpdate
<1>2. PICK j \in VoteJob : Only(w, j)
  <2>1. <<m.text>> \in Seq(Text) \ {<<>>} /\ m.kind \in {"PollVote", "Note"}
        /\ m.to \in Site /\ m.voter \in Voter
    BY <1>1 DEF VoteMessage
  <2>2. Begin(w, m.kind, m.to, m.voter, <<m.text>>)
    BY DEF ReceiveVote
  <2> DEFINE op == m.kind  to == m.to  v == m.voter  todo == <<m.text>>
  <2>3. op \in {"web", "PollVote", "Note"} /\ to \in Site /\ v \in Voter
        /\ todo \in Seq(Text) \ {<<>>} /\ Begin(w, op, to, v, todo)
    BY <2>1, <2>2
  <2> HIDE DEF op, to, v, todo
  <2> QED  BY <2>3, BeginType
<1>3. BagToSet(net)' \subseteq BagToSet(net)
  BY LessMail DEF ReceiveVote
<1> QED  BY <1>2, <1>3, Others DEF TypeOK, ReceiveVote, poll, bounds

\* What Look, Insert and Commit make of a job.
LEMMA StepType ==
  ASSUME TypeOK, NEW w \in Worker, IsVote(w), NEW g \in Nat, NEW n \in Nat,
         NEW at \in {"look", "insert", "commit", "send"},
         job' = [job EXCEPT ![w].gen = g, ![w].num = n, ![w].at = at]
  PROVE  \E j \in VoteJob :
           /\ Only(w, j) /\ j.gen = g /\ j.num = n /\ j.at = at
           /\ j.op = job[w].op /\ j.site = job[w].site /\ j.voter = job[w].voter
           /\ j.todo = job[w].todo
<1> DEFINE j == [job[w] EXCEPT !.gen = g, !.num = n, !.at = at]
<1>1. j \in VoteJob
  BY ZenonT(40), VoteJobs DEF VoteJob
<1>2. Only(w, j)
  BY DEF Only, TypeOK
<1>3. j.gen = g /\ j.num = n /\ j.at = at /\ j.op = job[w].op /\ j.site = job[w].site
      /\ j.voter = job[w].voter /\ j.todo = job[w].todo
  BY VoteJobs DEF VoteJob
<1> QED  BY <1>1, <1>2, <1>3

\* A job that goes on, or ends.
GoesOn(w, j) ==
  /\ Only(w, j)
  /\ j.op = job[w].op /\ j.site = job[w].site /\ j.voter = job[w].voter
  /\ j.todo = job[w].todo

LEMMA LookStep ==
  ASSUME TypeOK, NEW w \in Worker, Look(w)
  PROVE  \/ Refused(w) /\ Only(w, NoJob)
         \/ ~Refused(w) /\ \E j \in VoteJob :
              /\ GoesOn(w, j) /\ j.gen = gen[job[w].site]
              /\ \/ Row(w) \in votes[job[w].site] /\ j.at = "send"
                 \/ Row(w) \notin votes[job[w].site] /\ j.at = "insert"
<1>1. IsVote(w) /\ job[w].site \in Site
  BY Where, VoteJobs DEF Look
<1>2. CASE Refused(w)
  BY <1>2 DEF Look, End, Only
<1>3. CASE ~Refused(w)
  <2> DEFINE at == IF Row(w) \in votes[job[w].site] THEN "send" ELSE "insert"
             j == [job[w] EXCEPT !.gen = gen[job[w].site], !.at = at]
  <2>1. gen[job[w].site] \in Nat
    BY <1>1 DEF TypeOK
  <2>2. j \in VoteJob
    BY ZenonT(40), <1>1, <2>1, VoteJobs DEF VoteJob
  <2>3. Only(w, j)
    BY <1>3 DEF Look, TypeOK, Only
  <2>4. j.gen = gen[job[w].site] /\ j.at = at /\ j.op = job[w].op
        /\ j.site = job[w].site /\ j.voter = job[w].voter /\ j.todo = job[w].todo
    BY <1>1, VoteJobs DEF VoteJob
  <2> QED  BY <1>3, <2>2, <2>3, <2>4 DEF GoesOn
<1> QED  BY <1>2, <1>3

LEMMA InsertStep ==
  ASSUME TypeOK, NEW w \in Worker, Insert(w)
  PROVE  \/ Only(w, NoJob)
         \/ /\ gen[job[w].site] = job[w].gen /\ ~Clash(w)
            /\ \E j \in VoteJob :
                 /\ GoesOn(w, j) /\ j.gen = job[w].gen /\ j.at = "commit"
                 /\ j.num = tally[job[w].site][Row(w)[2]]
<1>1. IsVote(w) /\ job[w].site \in Site /\ Row(w)[2] \in Text
  BY Where, VoteJobs DEF Insert
<1>2. CASE gen[job[w].site] # job[w].gen \/ Clash(w)
  BY <1>2 DEF Insert, End, Only
<1>3. CASE ~(gen[job[w].site] # job[w].gen \/ Clash(w))
  <2> DEFINE n == tally[job[w].site][Row(w)[2]]
             j == [job[w] EXCEPT !.num = n, !.at = "commit"]
  <2>1. n \in Nat
    BY <1>1 DEF TypeOK
  <2>2. j \in VoteJob
    BY <1>1, <2>1, VoteJobs DEF VoteJob
  <2>3. Only(w, j)
    BY <1>3 DEF Insert, TypeOK, Only
  <2>4. j.gen = job[w].gen /\ j.at = "commit" /\ j.op = job[w].op /\ j.num = n
        /\ j.site = job[w].site /\ j.voter = job[w].voter /\ j.todo = job[w].todo
    BY <1>1, VoteJobs DEF VoteJob
  <2> QED  BY <1>3, <2>2, <2>3, <2>4 DEF GoesOn
<1> QED  BY <1>2, <1>3

LEMMA CommitStep ==
  ASSUME TypeOK, NEW w \in Worker, Commit(w)
  PROVE  \E j \in VoteJob : GoesOn(w, j) /\ j.gen = job[w].gen /\ j.at = "send"
<1>1. IsVote(w)
  BY Where DEF Commit
<1> DEFINE j == [job[w] EXCEPT !.num = 0, !.at = "send"]
<1>2. j \in VoteJob
  BY <1>1, VoteJobs DEF VoteJob
<1>3. Only(w, j)
  BY DEF Commit, TypeOK, Only
<1>4. j.gen = job[w].gen /\ j.at = "send" /\ j.op = job[w].op
      /\ j.site = job[w].site /\ j.voter = job[w].voter /\ j.todo = job[w].todo
  BY <1>1, VoteJobs DEF VoteJob
<1> QED  BY <1>2, <1>3, <1>4 DEF GoesOn

LEMMA SendStep ==
  ASSUME TypeOK, NEW w \in Worker, Send(w)
  PROVE  \/ Only(w, NoJob)
         \/ /\ Len(job[w].todo) # 1
            /\ \E j \in VoteJob :
                 /\ Only(w, j) /\ j.op = job[w].op /\ j.site = job[w].site
                 /\ j.voter = job[w].voter /\ j.todo = Tail(job[w].todo) /\ j.at = "look"
<1>1. IsVote(w)
  BY Where DEF Send
<1>2. CASE (job[w].op = "web" /\ gen[job[w].site] # job[w].gen) \/ Len(job[w].todo) = 1
  BY <1>2 DEF Send, End, Only
<1>3. CASE ~((job[w].op = "web" /\ gen[job[w].site] # job[w].gen) \/ Len(job[w].todo) = 1)
  <2> DEFINE j == [job[w] EXCEPT !.todo = Tail(@), !.gen = 0, !.at = "look"]
  <2>1. Tail(job[w].todo) \in Seq(Text) \ {<<>>}
    <3>1. job[w].todo \in Seq(Text) /\ job[w].todo # <<>>
      BY <1>1, VoteJobs
    <3>2. Tail(job[w].todo) \in Seq(Text) /\ Len(Tail(job[w].todo)) = Len(job[w].todo) - 1
      BY <3>1, HeadTailProperties
    <3>3. Tail(job[w].todo) # <<>>
      <4>1. Len(job[w].todo) # 1 /\ Len(job[w].todo) \in Nat /\ Len(<<>>) = 0
        BY <1>3, <3>1
      <4> DEFINE tl == Tail(job[w].todo)  n == Len(job[w].todo)
      <4>2. Len(tl) = n - 1 /\ n \in Nat /\ n # 1
        BY <3>2, <4>1
      <4> HIDE DEF tl, n
      <4>3. tl # <<>>
        BY <4>1, <4>2
      <4> QED  BY <4>3 DEF tl
    <3> QED  BY <3>2, <3>3
  <2>2. j \in VoteJob
    <3> DEFINE tl == Tail(job[w].todo)
    <3>1. j = [job[w] EXCEPT !.todo = tl, !.gen = 0, !.at = "look"]
      OBVIOUS
    <3>2. job[w] \in VoteJob /\ tl \in Seq(Text) \ {<<>>}
      BY <1>1, <2>1, VoteJobs
    <3> HIDE DEF tl, j
    <3> QED  BY <3>1, <3>2 DEF VoteJob
  <2>3. Only(w, j)
    BY <1>3 DEF Send, TypeOK, Only
  <2>4. j.todo = Tail(job[w].todo) /\ j.at = "look" /\ j.op = job[w].op
        /\ j.site = job[w].site /\ j.voter = job[w].voter
    BY <1>1, VoteJobs DEF VoteJob
  <2> QED  BY <1>3, <2>2, <2>3, <2>4
<1> QED  BY <1>2, <1>3

LEMMA HandlingType ==
  ASSUME TypeOK, NEW w \in Worker, Look(w) \/ Insert(w)
  PROVE  TypeOK'
<1>1. PICK j \in {NoJob} \cup VoteJob : Only(w, j)
  BY LookStep, InsertStep DEF GoesOn
<1>2. UNCHANGED <<poll, net, updates, bounds, since, mishaps>>
  BY DEF Look, Insert
<1> QED  BY <1>1, <1>2, Others DEF TypeOK, poll, bounds

LEMMA CommitType ==
  ASSUME TypeOK, NEW w \in Worker, Commit(w)
  PROVE  TypeOK'
<1>1. PICK j \in VoteJob : Only(w, j)
  BY CommitStep DEF GoesOn
<1>2. /\ job[w].site \in Site /\ Row(w) \in Voter \X Text /\ Row(w)[2] \in Text
      /\ job[w].num \in Nat
  BY Where, VoteJobs DEF Commit
<1>3. votes' \in [Site -> SUBSET (Voter \X Text)]
  BY <1>2, Tables DEF Commit
<1>4. tally' \in [Site -> [Text -> Nat]]
  <2> DEFINE s == job[w].site  t == Row(w)[2]  n == job[w].num + 1
  <2>1. tally' = [tally EXCEPT ![s][t] = n]
    BY DEF Commit
  <2>2. n \in Nat /\ s \in Site /\ t \in Text
    BY <1>2
  <2> HIDE DEF n, s, t
  <2> QED  BY <2>1, <2>2, Tables
<1>5. mishaps' \subseteq {"lost count", "edited amid votes", "totals amid votes"}
  BY DEF Commit, TypeOK
<1> QED  BY <1>1, <1>3, <1>4, <1>5, Others DEF TypeOK, Commit, bounds

LEMMA SentBy ==
  ASSUME TypeOK, NEW w \in Worker, Send(w)
  PROVE  \/ net' = net
         \/ \E S \in SUBSET VoteMessage : BagToSet(net)' = BagToSet(net) \cup S
<1>1. IsVote(w)
  BY Where DEF Send
<1> DEFINE S == {[kind |-> "PollVote", to |-> f, voter |-> job[w].voter,
                  text |-> Row(w)[2]]
                   : f \in Audience(job[w].site, job[w].op, job[w].voter)}
<1>2. Audience(job[w].site, job[w].op, job[w].voter) \subseteq Site
  BY Home DEF Audience
<1>3. S \in SUBSET VoteMessage
  BY <1>1, <1>2, VoteJobs DEF VoteMessage
<1>4. net' = net \/ net' = net (+) SetToBag(S)
  BY DEF Send
<1> HIDE DEF S
<1> QED  BY <1>3, <1>4, MoreMail

LEMMA SendType ==
  ASSUME TypeOK, NEW w \in Worker, Send(w)
  PROVE  TypeOK'
<1>1. PICK j \in {NoJob} \cup VoteJob : Only(w, j)
  BY SendStep
<1>2. \A m \in BagToSet(net)' : m \in VoteMessage \/ IsUpdate(m)
  BY SentBy DEF TypeOK
<1>3. updates' \in Nat
  BY Tables DEF Send
<1> QED  BY <1>1, <1>2, <1>3, Others DEF TypeOK, Send, poll, bounds

LEMMA EditType ==
  ASSUME TypeOK, NEW w \in Worker, NEW ts \in SUBSET Text \ {{}}, NEW m \in Mode,
         Edit(w, ts, m)
  PROVE  TypeOK'
<1> DEFINE j == [op |-> "edit", site |-> "home", texts |-> ts, mode |-> m, at |-> "wipe"]
<1>1. j \in EditJob /\ Only(w, j)
  BY DEF EditJob, Edit, Only
<1>2. edits' \in 0 .. MaxEdits
  BY OneMore DEF Edit
<1>3. since' \subseteq {"vote", "note", "edit"}
      /\ mishaps' \subseteq {"lost count", "edited amid votes", "totals amid votes"}
  BY NoteType DEF Edit
<1> HIDE DEF j
<1> QED  BY <1>1, <1>2, <1>3, Others DEF TypeOK, Edit, poll

LEMMA WipeStep ==
  ASSUME TypeOK, NEW w \in Worker, Wipe(w)
  PROVE  \/ ~MayWipe("home") /\ Only(w, NoJob)
         \/ MayWipe("home") /\ \E j \in EditJob : Only(w, j) /\ j.op = "edit" /\ j.at = "refill"
<1>1. job[w] \in EditJob
  BY Where, EditJobs DEF Wipe
<1> DEFINE j == [job[w] EXCEPT !.at = "refill"]
<1>2. j \in EditJob /\ j.op = "edit" /\ j.at = "refill"
  BY <1>1 DEF EditJob
<1>3. CASE MayWipe("home")
  BY <1>2, <1>3 DEF Wipe, Only, TypeOK
<1>4. CASE ~MayWipe("home")
  BY <1>4 DEF Wipe, Only, End
<1> QED  BY <1>3, <1>4

LEMMA WipeType ==
  ASSUME TypeOK, NEW w \in Worker, Wipe(w)
  PROVE  TypeOK'
<1>1. PICK j \in {NoJob} \cup EditJob : Only(w, j)
  BY WipeStep
<1>2. /\ choices' \in [Site -> SUBSET Text] /\ gen' \in [Site -> Nat]
      /\ votes' \in [Site -> SUBSET (Voter \X Text)] /\ tally' \in [Site -> [Text -> Nat]]
  <2>1. NoVotes \in [Text -> Nat] /\ gen["home"] + 1 \in Nat
    BY Home, Tables DEF NoVotes
  <2>2. CASE MayWipe("home")
    BY ZenonT(40), <2>1, <2>2, Home, Tables DEF Wipe
  <2>3. CASE ~MayWipe("home")
    BY <2>3, Tables DEF Wipe
  <2> QED  BY <2>2, <2>3
<1> QED  BY <1>1, <1>2, Others DEF TypeOK, Wipe, bounds

LEMMA RefillType ==
  ASSUME TypeOK, NEW w \in Worker, Refill(w)
  PROVE  TypeOK'
<1>1. job[w].texts \in SUBSET Text /\ job[w].mode \in Mode
  BY Where, EditJobs DEF Refill
<1>2. Only(w, NoJob)
  BY DEF Refill, End, Only
<1>3. choices' \in [Site -> SUBSET Text] /\ mode' \in [Site -> Mode]
  BY <1>1, Home DEF Refill, TypeOK
<1>4. updates' \in Nat
  BY Tables DEF Refill
<1> QED  BY <1>2, <1>3, <1>4, Others DEF TypeOK, Refill, bounds

LEMMA SendUpdateType ==
  ASSUME TypeOK, SendUpdate
  PROVE  TypeOK'
<1> DEFINE totals == [t \in choices["home"] |-> tally["home"][t]]
           S == {[kind |-> "Update", to |-> f, mode |-> mode["home"],
                  totals |-> totals] : f \in Follower}
<1>1. choices["home"] \subseteq Text /\ totals \in [choices["home"] -> Nat]
      /\ mode["home"] \in Mode
  BY ZenonT(40), Home DEF TypeOK
<1>2. \A m \in S : IsUpdate(m)
  BY <1>1 DEF IsUpdate
<1>3. net' = net (+) SetToBag(S) /\ updates' = updates - 1 /\ updates > 0
  BY DEF SendUpdate
<1> HIDE DEF S
<1>4. \A m \in BagToSet(net)' : m \in VoteMessage \/ IsUpdate(m)
  BY <1>2, <1>3, MoreMail DEF TypeOK
<1>5. updates' \in Nat
  BY <1>3, Tables
<1> QED  BY <1>4, <1>5 DEF TypeOK, SendUpdate, poll, bounds

LEMMA NewTotalsType ==
  ASSUME TypeOK, NEW m, IsUpdate(m)
  PROVE  NewTotals(m.to, m.totals) \in [Text -> Nat]
<1>1. tally[m.to] \in [Text -> Nat]
  BY Home DEF TypeOK, IsUpdate
<1> QED  BY <1>1 DEF NewTotals, IsUpdate

LEMMA ReceiveUpdateType ==
  ASSUME TypeOK, NEW m \in BagToSet(net), ReceiveUpdate(m)
  PROVE  TypeOK'
<1>1. IsUpdate(m) /\ m.to \in Follower /\ m.to \in Site
  BY Home DEF TypeOK, ReceiveUpdate, IsUpdate, VoteMessage
<1>2. BagToSet(net)' \subseteq BagToSet(net)
  BY LessMail DEF ReceiveUpdate
<1>3. UNCHANGED <<updates, job, bounds, since, mishaps>>
  BY DEF ReceiveUpdate
<1>4. NewTotals(m.to, m.totals) \in [Text -> Nat]
  BY <1>1, NewTotalsType
<1>5. /\ choices' \in [Site -> SUBSET Text] /\ gen' \in [Site -> Nat]
      /\ mode' \in [Site -> Mode]
      /\ votes' \in [Site -> SUBSET (Voter \X Text)] /\ tally' \in [Site -> [Text -> Nat]]
  <2>1. DOMAIN m.totals \in SUBSET Text /\ m.mode \in Mode /\ NoVotes \in [Text -> Nat]
    BY <1>1 DEF IsUpdate, NoVotes
  <2>2. gen[m.to] + 1 \in Nat
    BY <1>1, Tables
  <2>3. CASE IsEdit(m.totals) /\ MayWipe(m.to)
    <3> DEFINE s == m.to  ts == DOMAIN m.totals  n == gen[s] + 1  mm == m.mode
    <3>1. /\ choices' = [choices EXCEPT ![s] = ts] /\ gen' = [gen EXCEPT ![s] = n]
          /\ mode' = [mode EXCEPT ![s] = mm]
          /\ votes' = [votes EXCEPT ![s] = {}] /\ tally' = [tally EXCEPT ![s] = NoVotes]
      BY <2>3 DEF ReceiveUpdate
    <3>2. s \in Site /\ ts \in SUBSET Text /\ n \in Nat /\ mm \in Mode
      BY <1>1, <2>1, <2>2
    <3> HIDE DEF s, ts, n, mm
    <3> QED  BY <2>1, <3>1, <3>2, Tables
  <2>4. CASE IsEdit(m.totals) /\ ~MayWipe(m.to)
    BY <2>4, Tables DEF ReceiveUpdate, poll
  <2>5. CASE ~IsEdit(m.totals)
    BY <1>1, <1>4, <2>5, Tables DEF ReceiveUpdate
  <2> QED  BY <2>3, <2>4, <2>5
<1> QED  BY <1>2, <1>3, <1>5 DEF TypeOK, bounds

LEMMA InitType == Init => TypeOK
  BY PollsAssumption DEF Init, TypeOK, NoVotes, EmptyBag, SetToBag, BagToSet, Mode

LEMMA NextType == TypeOK /\ [Next]_vars => TypeOK'
<1> SUFFICES ASSUME TypeOK, [Next]_vars PROVE TypeOK'
  OBVIOUS
<1>1. CASE UNCHANGED vars
  BY <1>1 DEF TypeOK, vars
<1>2. ASSUME NEW w \in Worker, NEW v \in Voter, NEW t \in Text, NEW u \in Text,
             Vote(w, v, <<t>>) \/ Vote(w, v, <<t, u>>)
      PROVE  TypeOK'
  <2>1. <<t>> \in Seq(Text) \ {<<>>} /\ <<t, u>> \in Seq(Text) \ {<<>>}
    OBVIOUS
  <2> QED  BY <1>2, <2>1, VoteType
<1>3. ASSUME NEW w \in Worker, NEW m \in BagToSet(net), ReceiveVote(w, m) PROVE TypeOK'
  BY <1>3, ReceiveVoteType
<1>4. ASSUME NEW w \in Worker, Look(w) \/ Insert(w) \/ Commit(w) \/ Send(w) PROVE TypeOK'
  BY <1>4, HandlingType, CommitType, SendType
<1>5. ASSUME NEW w \in Worker, NEW ts \in SUBSET Text \ {{}}, NEW m \in Mode, Edit(w, ts, m)
      PROVE  TypeOK'
  BY <1>5, EditType
<1>6. ASSUME NEW w \in Worker, Wipe(w) \/ Refill(w) PROVE TypeOK'
  BY <1>6, WipeType, RefillType
<1>7. ASSUME NEW v \in Voter, NEW t \in Text, NoteVote(v, t) PROVE TypeOK'
  BY <1>7, NoteVoteType
<1>8. CASE SendUpdate
  BY <1>8, SendUpdateType
<1>9. ASSUME NEW m \in BagToSet(net), ReceiveUpdate(m) PROVE TypeOK'
  BY <1>9, ReceiveUpdateType
<1> QED  BY <1>1, <1>2, <1>3, <1>4, <1>5, <1>6, <1>7, <1>8, <1>9 DEF Next

\* Every variable of Polls keeps its type, for any people, followers, choices
\* and bounds.
THEOREM TypeCorrect == Spec => []TypeOK
  BY InitType, NextType, PTL DEF Spec

-----------------------------------------------------------------------------
(***************************************************************************)
(* The keys, and the counts at home.                                       *)
(***************************************************************************)
LEMMA Absent ==
  ASSUME TypeOK, NEW w \in Worker, job'[w] = NoJob \/ (job'[w] \in VoteJob /\ job'[w].at \notin {"insert", "commit"})
  PROVE  ~Inserts(w)' /\ ~Commits(w)' /\ ~Edits(w)'
  BY DEF Inserts, Commits, Edits, IsVote, NoJob, VoteJob

\* A worker takes up, drops or goes on with what touches no table.
LEMMA HarmlessKeys ==
  ASSUME TypeOK, KeyInv, NEW w \in Worker, NEW j \in {NoJob} \cup VoteJob,
         j = NoJob \/ j.at \notin {"insert", "commit"},
         Only(w, j), UNCHANGED <<choices, gen, votes>>
  PROVE  KeyInv'
<1>1. job'[w] = j /\ \A u \in Worker : u # w => job'[u] = job[u]
  BY Others
<1>2. ~Inserts(w)' /\ ~Commits(w)' /\ ~Edits(w)'
  BY <1>1, Absent
<1>3. \A u \in Worker : u # w => /\ Inserts(u)' = Inserts(u) /\ Commits(u)' = Commits(u)
                                 /\ Edits(u)' = Edits(u) /\ Row(u)' = Row(u)
  BY <1>1 DEF Inserts, Commits, Edits, IsVote, Row
<1>4. Referred'
  BY <1>1, <1>2, <1>3 DEF KeyInv, Referred
<1>5. Keyed'
  BY <1>1, <1>2, <1>3 DEF KeyInv, Keyed
<1>6. Alone'
  BY <1>1, <1>2, <1>3 DEF KeyInv, Alone
<1> QED  BY <1>4, <1>5, <1>6 DEF KeyInv

\* A worker goes on to write a row that is not there.
LEMMA WritingKeys ==
  ASSUME TypeOK, KeyInv, NEW w \in Worker, IsVote(w), NEW j \in VoteJob, GoesOn(w, j),
         j.at \in {"insert", "commit"}, j.gen = gen[j.site], Row(w)[2] \in choices[j.site],
         j.at = "commit" =>
           /\ Row(w) \notin votes[j.site]
           /\ \A u \in Worker : Commits(u) /\ job[u].site = j.site => Row(u) # Row(w),
         UNCHANGED <<choices, gen, votes>>
  PROVE  KeyInv'
<1>1. job'[w] = j /\ \A u \in Worker : u # w => job'[u] = job[u]
  BY Others DEF GoesOn
<1>2. \A u \in Worker : u # w => /\ Inserts(u)' = Inserts(u) /\ Commits(u)' = Commits(u)
                                 /\ Edits(u)' = Edits(u) /\ Row(u)' = Row(u)
  BY <1>1 DEF Inserts, Commits, Edits, IsVote, Row
<1>3. Row(w)' = Row(w) /\ job'[w].site = job[w].site /\ j.site = job[w].site
  BY <1>1 DEF Row, GoesOn
<1>4. ~Edits(w)' /\ gen[j.site] \in Nat
  <2>1. j.op # "edit" /\ j.site \in Site
    BY DEF VoteJob
  <2> QED  BY <1>1, <2>1, Tables DEF Edits
<1>5. Commits(w)' => j.at = "commit"
  BY <1>1 DEF Commits
<1>6. Referred'
  BY <1>1, <1>2, <1>3, <1>4 DEF KeyInv, Referred
<1>7. Keyed'
  BY <1>1, <1>2, <1>3, <1>5 DEF KeyInv, Keyed
<1>8. Alone'
  BY <1>1, <1>2, <1>4 DEF KeyInv, Alone
<1> QED  BY <1>6, <1>7, <1>8 DEF KeyInv

LEMMA LookKeys ==
  ASSUME TypeOK, KeyInv, NEW w \in Worker, Look(w)
  PROVE  KeyInv'
<1>1. UNCHANGED <<choices, gen, votes>> /\ IsVote(w)
  BY Where DEF Look, poll
<1>2. CASE Only(w, NoJob)
  BY <1>1, <1>2, HarmlessKeys
<1>3. CASE ~Refused(w) /\ \E j \in VoteJob :
             /\ GoesOn(w, j) /\ j.gen = gen[job[w].site] /\ j.at \in {"insert", "send"}
  <2>1. PICK j \in VoteJob : GoesOn(w, j) /\ j.gen = gen[job[w].site] /\ j.at \in {"insert", "send"}
    BY <1>3
  <2>2. CASE j.at = "send"
    BY <1>1, <2>1, <2>2, HarmlessKeys DEF GoesOn
  <2>3. CASE j.at = "insert"
    <3>1. Row(w)[2] \in choices[job[w].site] /\ j.site = job[w].site
      BY <1>3, <2>1 DEF Refused, GoesOn
    <3> QED  BY <1>1, <2>1, <2>3, <3>1, WritingKeys
  <2> QED  BY <2>1, <2>2, <2>3
<1> QED  BY <1>2, <1>3, LookStep

LEMMA InsertKeys ==
  ASSUME TypeOK, KeyInv, NEW w \in Worker, Insert(w)
  PROVE  KeyInv'
<1>1. UNCHANGED <<choices, gen, votes>> /\ IsVote(w) /\ Inserts(w)
  BY Where DEF Insert, poll, Inserts
<1>2. CASE Only(w, NoJob)
  BY <1>1, <1>2, HarmlessKeys
<1>3. CASE /\ gen[job[w].site] = job[w].gen /\ ~Clash(w)
           /\ \E j \in VoteJob : GoesOn(w, j) /\ j.gen = job[w].gen /\ j.at = "commit"
  <2>1. PICK j \in VoteJob : GoesOn(w, j) /\ j.gen = job[w].gen /\ j.at = "commit"
    BY <1>3
  <2>2. Row(w)[2] \in choices[job[w].site] /\ j.site = job[w].site
    BY <1>1, <1>3, <2>1 DEF KeyInv, Referred, GoesOn
  <2>3. \A u \in Worker : Commits(u) /\ job[u].site = j.site => Row(u) # Row(w)
    BY <2>2, Uncommitteds DEF Insert
  <2> QED  BY <1>1, <1>3, <2>1, <2>2, <2>3, WritingKeys DEF Clash
<1> QED  BY <1>2, <1>3, InsertStep

LEMMA CommitKeys ==
  ASSUME TypeOK, KeyInv, NEW w \in Worker, Commit(w)
  PROVE  KeyInv'
<1> DEFINE s == job[w].site
<1>1. Commits(w) /\ s \in Site /\ Row(w) \in Voter \X Text
  BY Where, VoteJobs DEF Commit, Commits
<1>2. PICK j \in VoteJob : Only(w, j) /\ j.at = "send"
  BY CommitStep DEF GoesOn
<1>3. job'[w] = j /\ \A u \in Worker : u # w => job'[u] = job[u]
  BY <1>2, Others
<1>4. ~Inserts(w)' /\ ~Commits(w)' /\ ~Edits(w)'
  BY <1>2, <1>3, Absent
<1>5. \A u \in Worker : u # w => /\ Inserts(u)' = Inserts(u) /\ Commits(u)' = Commits(u)
                                 /\ Edits(u)' = Edits(u) /\ Row(u)' = Row(u)
  BY <1>3 DEF Inserts, Commits, Edits, IsVote, Row
<1>6. /\ votes'[s] = votes[s] \cup {Row(w)}
      /\ \A o \in Site : o # s => votes'[o] = votes[o]
  BY <1>1, Tables DEF Commit
<1>7. UNCHANGED <<choices, gen>>
  BY DEF Commit
<1>8. Row(w)[2] \in choices[s] /\ Row(w) \in Voter \X choices[s]
  BY <1>1 DEF KeyInv, Referred
<1>9. \A u \in Worker : Commits(u) => job[u].site \in Site
  BY VoteJobs DEF Commits
<1> HIDE DEF s
<1>10. Referred'
  BY <1>3, <1>4, <1>5, <1>6, <1>7, <1>8 DEF KeyInv, Referred
<1>11. Keyed'
  BY <1>1, <1>3, <1>4, <1>5, <1>6, <1>9 DEF KeyInv, Keyed, s
<1>12. Alone'
  BY <1>3, <1>4, <1>5, <1>7 DEF KeyInv, Alone
<1> QED  BY <1>10, <1>11, <1>12 DEF KeyInv

\* The choices of an instance are made anew: who has looked at the old ones
\* will find them gone.
LEMMA AnewKeys ==
  ASSUME TypeOK, KeyInv, NEW s \in Site, NEW ts, MayWipe(s),
         choices' = [choices EXCEPT ![s] = ts],
         gen' = [gen EXCEPT ![s] = @ + 1],
         votes' = [votes EXCEPT ![s] = {}],
         \A u \in Worker : Inserts(u)' \/ Commits(u)' => job'[u] = job[u]
  PROVE  Referred' /\ Keyed'
<1>1. /\ choices'[s] = ts /\ gen'[s] = gen[s] + 1 /\ votes'[s] = {} /\ gen[s] \in Nat
      /\ \A o \in Site : o # s => choices'[o] = choices[o] /\ gen'[o] = gen[o]
                                  /\ votes'[o] = votes[o]
  BY Tables
<1>2. \A u \in Worker :
        /\ Inserts(u)' => Inserts(u) /\ job'[u] = job[u] /\ Row(u)' = Row(u)
        /\ Commits(u)' => Commits(u) /\ job'[u] = job[u] /\ Row(u)' = Row(u)
  BY DEF Inserts, Commits, IsVote, Row
<1>3. \A u \in Worker : Inserts(u) \/ Commits(u) => job[u].site \in Site /\ job[u].gen \in Nat
  BY VoteJobs DEF Inserts, Commits
<1>4. \A u \in Worker : Commits(u) => job[u].site # s
  BY Uncommitteds DEF MayWipe
<1>5. \A o \in Site : votes'[o] \subseteq Voter \X choices'[o]
  BY <1>1 DEF KeyInv, Referred
<1>6. ASSUME NEW u \in Worker, Inserts(u)' \/ Commits(u)'
      PROVE  /\ job'[u].gen <= gen'[job'[u].site]
             /\ job'[u].gen = gen'[job'[u].site] => Row(u)'[2] \in choices'[job'[u].site]
             /\ Commits(u)' => job'[u].gen = gen'[job'[u].site]
  <2>1. job[u].gen <= gen[job[u].site]
        /\ (job[u].gen = gen[job[u].site] => Row(u)[2] \in choices[job[u].site])
        /\ (Commits(u) => job[u].gen = gen[job[u].site])
    BY <1>2, <1>6 DEF KeyInv, Referred
  <2>2. CASE job[u].site = s
    BY <1>1, <1>2, <1>3, <1>4, <1>6, <2>1, <2>2
  <2>3. CASE job[u].site # s
    BY <1>1, <1>2, <1>3, <1>6, <2>1, <2>3
  <2> QED  BY <2>2, <2>3
<1>7. Referred'
  BY <1>5, <1>6 DEF Referred
<1>8. Keyed'
  BY <1>1, <1>2, <1>3, <1>4 DEF KeyInv, Keyed
<1> QED  BY <1>7, <1>8

LEMMA EditKeys ==
  ASSUME TypeOK, KeyInv, NEW w \in Worker, NEW ts \in SUBSET Text \ {{}}, NEW m \in Mode,
         Edit(w, ts, m)
  PROVE  KeyInv'
<1> DEFINE j == [op |-> "edit", site |-> "home", texts |-> ts, mode |-> m, at |-> "wipe"]
<1>1. j \in EditJob /\ Only(w, j) /\ j.op = "edit" /\ j.at = "wipe"
  BY DEF EditJob, Edit, Only
<1> HIDE DEF j
<1>2. job'[w] = j /\ \A u \in Worker : u # w => job'[u] = job[u]
  BY <1>1, Others
<1>3. ~Inserts(w)' /\ ~Commits(w)'
  BY <1>1, <1>2 DEF Inserts, Commits, IsVote
<1>4. \A u \in Worker : u # w => /\ Inserts(u)' = Inserts(u) /\ Commits(u)' = Commits(u)
                                 /\ Edits(u)' = Edits(u) /\ Row(u)' = Row(u)
  BY <1>2 DEF Inserts, Commits, Edits, IsVote, Row
<1>5. UNCHANGED <<choices, gen, votes>> /\ \A u \in Worker : ~Edits(u)
  BY DEF Edit, poll, Edits
<1>6. Referred'
  BY <1>2, <1>3, <1>4, <1>5 DEF KeyInv, Referred
<1>7. Keyed'
  BY <1>2, <1>3, <1>4, <1>5 DEF KeyInv, Keyed
<1>8. Alone'
  BY <1>1, <1>2, <1>4, <1>5 DEF KeyInv, Alone
<1> QED  BY <1>6, <1>7, <1>8 DEF KeyInv

LEMMA WipeKeys ==
  ASSUME TypeOK, KeyInv, NEW w \in Worker, Wipe(w)
  PROVE  KeyInv'
<1>1. Edits(w)
  BY Where DEF Wipe, Edits
<1>2. CASE ~MayWipe("home")
  <2>1. Only(w, NoJob) /\ UNCHANGED <<choices, gen, votes>>
    BY <1>2, WipeStep DEF Wipe
  <2> QED  BY <2>1, HarmlessKeys
<1>3. CASE MayWipe("home")
  <2>1. PICK j \in EditJob : Only(w, j) /\ j.op = "edit"
    BY <1>3, WipeStep
  <2>2. job'[w] = j /\ \A u \in Worker : u # w => job'[u] = job[u]
    BY <2>1, Others
  <2>3. ~Inserts(w)' /\ ~Commits(w)'
    BY <2>1, <2>2 DEF Inserts, Commits, IsVote
  <2>4. /\ choices' = [choices EXCEPT !["home"] = {}]
        /\ gen' = [gen EXCEPT !["home"] = @ + 1]
        /\ votes' = [votes EXCEPT !["home"] = {}]
    BY <1>3 DEF Wipe
  <2>5. Referred' /\ Keyed'
    BY <1>3, <2>2, <2>3, <2>4, Home, AnewKeys
  <2>6. choices'["home"] = {}
    BY <2>4, Home, Tables
  <2>7. Alone'
    BY <1>1, <2>2, <2>6 DEF KeyInv, Alone, Edits
  <2> QED  BY <2>5, <2>7 DEF KeyInv
<1> QED  BY <1>2, <1>3

LEMMA RefillKeys ==
  ASSUME TypeOK, KeyInv, NEW w \in Worker, Refill(w)
  PROVE  KeyInv'
<1>1. Edits(w) /\ choices["home"] = {}
  BY Where DEF Refill, Edits, At, KeyInv, Alone
<1>2. Only(w, NoJob)
  BY DEF Refill, End, Only
<1>3. job'[w] = NoJob /\ \A u \in Worker : u # w => job'[u] = job[u]
  BY <1>2, Others
<1>4. ~Inserts(w)' /\ ~Commits(w)' /\ ~Edits(w)'
  BY <1>3, Absent
<1>5. \A u \in Worker : u # w => /\ Inserts(u)' = Inserts(u) /\ Commits(u)' = Commits(u)
                                 /\ Edits(u)' = Edits(u) /\ Row(u)' = Row(u)
  BY <1>3 DEF Inserts, Commits, Edits, IsVote, Row
<1>6. /\ UNCHANGED <<gen, votes>>
      /\ \A o \in Site : o # "home" => choices'[o] = choices[o]
  BY Tables DEF Refill
<1>7. votes["home"] = {}
  BY <1>1, Home DEF KeyInv, Referred
<1>8. \A u \in Worker : Inserts(u) \/ Commits(u) => job[u].site \in Site
  BY VoteJobs DEF Inserts, Commits
<1>9. Referred'
  BY <1>1, <1>3, <1>4, <1>5, <1>6, <1>7, <1>8 DEF KeyInv, Referred
<1>10. Keyed'
  BY <1>3, <1>4, <1>5, <1>6 DEF KeyInv, Keyed
<1>11. Alone'
  BY <1>1, <1>3, <1>4, <1>5 DEF KeyInv, Alone
<1> QED  BY <1>9, <1>10, <1>11 DEF KeyInv

LEMMA ReceiveUpdateKeys ==
  ASSUME TypeOK, KeyInv, NEW m \in BagToSet(net), ReceiveUpdate(m)
  PROVE  KeyInv'
<1>1. m.to \in Site /\ m.to # "home" /\ job' = job
  BY Home DEF TypeOK, ReceiveUpdate, IsUpdate, VoteMessage
<1>2. CASE UNCHANGED <<choices, gen, votes>>
  BY <1>1, <1>2 DEF KeyInv, Referred, Keyed, Alone, Inserts, Commits, Edits, IsVote, Row
<1>3. CASE IsEdit(m.totals) /\ MayWipe(m.to)
  <2>1. /\ choices' = [choices EXCEPT ![m.to] = DOMAIN m.totals]
        /\ gen' = [gen EXCEPT ![m.to] = @ + 1]
        /\ votes' = [votes EXCEPT ![m.to] = {}]
    BY <1>3 DEF ReceiveUpdate
  <2> DEFINE s == m.to  ts == DOMAIN m.totals
  <2>2. Referred' /\ Keyed'
    <3>1. /\ choices' = [choices EXCEPT ![s] = ts] /\ gen' = [gen EXCEPT ![s] = @ + 1]
          /\ votes' = [votes EXCEPT ![s] = {}] /\ s \in Site /\ MayWipe(s) /\ job' = job
      BY <1>1, <1>3, <2>1
    <3> HIDE DEF s, ts
    <3> QED  BY <3>1, AnewKeys
  <2>3. choices'["home"] = choices["home"]
    BY <1>1, <2>1, Home, Tables
  <2>4. Alone'
    BY <1>1, <2>3 DEF KeyInv, Alone, Edits
  <2> QED  BY <2>2, <2>4 DEF KeyInv
<1> QED  BY <1>2, <1>3 DEF ReceiveUpdate, poll

LEMMA NextKeys == TypeOK /\ KeyInv /\ [Next]_vars => KeyInv'
<1> SUFFICES ASSUME TypeOK, KeyInv, [Next]_vars PROVE KeyInv'
  OBVIOUS
<1>1. CASE UNCHANGED <<choices, gen, votes, job>>
  BY <1>1 DEF KeyInv, Referred, Keyed, Alone, Inserts, Commits, Edits, IsVote, Row
<1>2. ASSUME NEW w \in Worker, NEW v \in Voter, NEW todo \in Seq(Text) \ {<<>>},
             Vote(w, v, todo)
      PROVE  KeyInv'
  <2>1. PICK j \in VoteJob : Only(w, j) /\ j.at = "look"
    BY <1>2, BeginType DEF Vote
  <2> QED  BY <1>2, <2>1, HarmlessKeys DEF Vote, poll
<1>3. ASSUME NEW w \in Worker, NEW m \in BagToSet(net), ReceiveVote(w, m) PROVE KeyInv'
  <2>1. m \in VoteMessage
    BY <1>3 DEF TypeOK, ReceiveVote, IsUpdate
  <2> DEFINE op == m.kind  to == m.to  v == m.voter  todo == <<m.text>>
  <2>2. op \in {"web", "PollVote", "Note"} /\ to \in Site /\ v \in Voter
        /\ todo \in Seq(Text) \ {<<>>} /\ Begin(w, op, to, v, todo)
    BY <1>3, <2>1 DEF ReceiveVote, VoteMessage
  <2> HIDE DEF op, to, v, todo
  <2>3. PICK j \in VoteJob : Only(w, j) /\ j.at = "look"
    BY <2>2, BeginType
  <2> QED  BY <1>3, <2>3, HarmlessKeys DEF ReceiveVote, poll
<1>4. ASSUME NEW w \in Worker, Send(w) PROVE KeyInv'
  <2>1. PICK j \in {NoJob} \cup VoteJob : Only(w, j) /\ (j = NoJob \/ j.at = "look")
    BY <1>4, SendStep
  <2> QED  BY <1>4, <2>1, HarmlessKeys DEF Send, poll
<1>5. ASSUME NEW w \in Worker, Look(w) \/ Insert(w) \/ Commit(w) PROVE KeyInv'
  BY <1>5, LookKeys, InsertKeys, CommitKeys
<1>6. ASSUME NEW w \in Worker, NEW ts \in SUBSET Text \ {{}}, NEW m \in Mode, Edit(w, ts, m)
      PROVE  KeyInv'
  BY <1>6, EditKeys
<1>7. ASSUME NEW w \in Worker, Wipe(w) \/ Refill(w) PROVE KeyInv'
  BY <1>7, WipeKeys, RefillKeys
<1>8. ASSUME NEW m \in BagToSet(net), ReceiveUpdate(m) PROVE KeyInv'
  BY <1>8, ReceiveUpdateKeys
<1>9. ASSUME NEW v \in Voter, NEW t \in Text, NoteVote(v, t) PROVE KeyInv'
  BY <1>1, <1>9 DEF NoteVote, poll
<1>10. \A t, u \in Text : <<t>> \in Seq(Text) \ {<<>>} /\ <<t, u>> \in Seq(Text) \ {<<>>}
  OBVIOUS
<1>11. CASE SendUpdate
  BY <1>1, <1>11 DEF SendUpdate, poll
<1> QED  BY <1>1, <1>2, <1>3, <1>4, <1>5, <1>6, <1>7, <1>8, <1>9, <1>10, <1>11 DEF Next, vars

\* Who votes elsewhere, or does not commit, changes no count at home.
LEMMA OtherCounts ==
  ASSUME TypeOK, Counted,
         votes'["home"] = votes["home"], tally'["home"] = tally["home"],
         \A u \in Worker : Commits(u)' =>
           \/ Commits(u) /\ job'[u] = job[u]
           \/ Row(u)'[2] \in Text /\ job'[u].num = tally[job'[u].site][Row(u)'[2]]
  PROVE  Counted'
<1>1. \A t : Choosers("home", t)' = Choosers("home", t) /\ Chose("home", t)' = Chose("home", t)
  BY DEF Choosers, Chose
<1>2. \A u \in Worker : job'[u] = job[u] => Row(u)' = Row(u)
  BY DEF Row
<1>3. NeverAhead'
  BY <1>1 DEF Counted, NeverAhead
<1>4. ASSUME NEW u \in Worker, Commits(u)', job'[u].site = "home"
      PROVE  job'[u].num <= Chose("home", Row(u)[2])'
  BY <1>1, <1>2, <1>4 DEF Counted, NeverAhead
<1> QED  BY <1>1, <1>3, <1>4 DEF Counted

\* A choice of a person who had not chosen this is one more.
LEMMA OneMoreChose ==
  ASSUME NEW s, NEW v \in Voter, NEW t, IsFiniteSet(Choosers(s, t)),
         <<v, t>> \notin votes[s], votes'[s] = votes[s] \cup {<<v, t>>}
  PROVE  /\ IsFiniteSet(Choosers(s, t)') /\ Chose(s, t)' = Chose(s, t) + 1
         /\ \A u : u # t => Choosers(s, u)' = Choosers(s, u)
<1>1. Choosers(s, t)' = Choosers(s, t) \cup {v} /\ v \notin Choosers(s, t)
  BY DEF Choosers
<1>2. \A u : u # t => Choosers(s, u)' = Choosers(s, u)
  BY DEF Choosers
<1> QED  BY <1>1, <1>2, FS_AddElement DEF Chose

LEMMA CommitCounts ==
  ASSUME TypeOK, KeyInv, Counted, NEW w \in Worker, Commit(w)
  PROVE  Counted'
<1>1. PICK s \in Site, v \in Voter, t \in Text, n \in Nat :
        Commits(w) /\ job[w].site = s /\ job[w].num = n /\ Row(w) = <<v, t>>
  BY Where, VoteJobs DEF Commit, Commits, Row
<1>2. PICK j \in VoteJob : Only(w, j) /\ j.at = "send"
  BY CommitStep DEF GoesOn
<1>3. ~Commits(w)' /\ \A u \in Worker : u # w => job'[u] = job[u]
  BY <1>2, Others DEF Commits
<1>4. \A u \in Worker : Commits(u)' => u # w /\ Commits(u) /\ job'[u] = job[u]
  BY <1>3 DEF Commits, IsVote
<1>5. /\ votes' = [votes EXCEPT ![s] = @ \cup {<<v, t>>}]
      /\ tally' = [tally EXCEPT ![s][t] = n + 1]
  <2>1. Row(w)[2] = t
    BY <1>1
  <2> QED  BY <1>1, <2>1 DEF Commit
<1>6. CASE s # "home"
  <2>1. votes'["home"] = votes["home"] /\ tally'["home"] = tally["home"]
    BY <1>5, <1>6, Home, Tables
  <2> QED  BY <1>4, <2>1, OtherCounts
<1>7. CASE s = "home"
  <2>1. <<v, t>> \notin votes["home"] /\ n <= Chose("home", t)
    BY <1>1, <1>7 DEF KeyInv, Keyed, Counted
  <2>2. votes'["home"] = votes["home"] \cup {<<v, t>>}
    BY <1>5, <1>7, Home, Tables
  <2>3. tally'["home"][t] = n + 1 /\ \A u \in Text : u # t => tally'["home"][u] = tally["home"][u]
    BY <1>1, <1>5, <1>7, Home, Tables
  <2>4. \A u \in Text : IsFiniteSet(Choosers("home", u))
    BY DEF Counted
  <2>5. /\ IsFiniteSet(Choosers("home", t)') /\ Chose("home", t)' = Chose("home", t) + 1
        /\ \A u : u # t => Choosers("home", u)' = Choosers("home", u)
    BY <1>1, <2>1, <2>2, <2>4, OneMoreChose
  <2>6. \A u \in Text : Chose("home", u) \in Nat
    BY <2>4, FS_CardinalityType DEF Chose
  <2>7. \A u : u # t => Chose("home", u)' = Chose("home", u)
    BY <2>5 DEF Chose
  <2>8. \A u \in Text : IsFiniteSet(Choosers("home", u)')
    BY <2>4, <2>5
  <2>9. NeverAhead'
    <3> SUFFICES ASSUME NEW u \in Text PROVE tally'["home"][u] <= Chose("home", u)'
      BY DEF NeverAhead
    <3>1. tally["home"][u] <= Chose("home", u)
      BY DEF Counted, NeverAhead
    <3> QED  BY <1>1, <2>1, <2>3, <2>5, <2>6, <2>7, <3>1
  <2>10. ASSUME NEW u \in Worker, Commits(u)', job'[u].site = "home"
         PROVE  job'[u].num <= Chose("home", Row(u)[2])'
    <3>1. Commits(u) /\ job'[u] = job[u] /\ job[u].site = "home" /\ Row(u)' = Row(u)
      BY <1>4, <2>10 DEF Row
    <3>2. PICK m \in Nat, r \in Text : job[u].num = m /\ Row(u)[2] = r
      BY <3>1, VoteJobs DEF Commits
    <3>3. m <= Chose("home", r)
      BY <3>1, <3>2 DEF Counted
    <3>4. Chose("home", Row(u)[2])' = Chose("home", r)' /\ job'[u].num = m
      BY <3>1, <3>2 DEF Chose, Choosers
    <3>5. m <= Chose("home", r)'
      <4>1. CASE r = t
        <5>1. Chose("home", r)' = Chose("home", r) + 1 /\ Chose("home", r) \in Nat
          BY <2>5, <2>6, <4>1
        <5> QED  BY <3>3, <5>1
      <4>2. CASE r # t
        BY <2>7, <3>3, <4>2
      <4> QED  BY <4>1, <4>2
    <3> QED  BY <3>4, <3>5
  <2> QED  BY <2>8, <2>9, <2>10 DEF Counted
<1> QED  BY <1>6, <1>7

\* When the choices are made anew at home nobody is about to commit a vote.
LEMMA WipeCounts ==
  ASSUME TypeOK, Counted, NEW w \in Worker, Wipe(w)
  PROVE  Counted'
<1>1. PICK j \in {NoJob} \cup EditJob : Only(w, j)
  BY WipeStep
<1>2. \A u \in Worker : Commits(u)' => Commits(u) /\ job'[u] = job[u]
  BY <1>1, Others DEF Commits, IsVote, NoJob, EditJob
<1>3. CASE ~MayWipe("home")
  BY <1>2, <1>3, OtherCounts DEF Wipe
<1>4. CASE MayWipe("home")
  <2>1. votes'["home"] = {} /\ tally'["home"] = NoVotes
    BY <1>4, Home, Tables DEF Wipe
  <2>2. \A t \in Text : Choosers("home", t)' = {}
    BY <2>1 DEF Choosers
  <2>3. \A t \in Text : Chose("home", t)' = 0
    BY <2>2, FS_EmptySet DEF Chose
  <2>4. \A u \in Worker : ~(Commits(u)' /\ job'[u].site = "home")
    BY <1>2, <1>4, Uncommitteds DEF MayWipe
  <2>5. \A t \in Text : tally'["home"][t] <= Chose("home", t)'
    BY <2>1, <2>3 DEF NoVotes
  <2>6. NeverAhead'
    BY <2>5 DEF NeverAhead
  <2> QED  BY <2>2, <2>4, <2>6, FS_EmptySet DEF Counted
<1> QED  BY <1>3, <1>4

LEMMA NextCounts == TypeOK /\ KeyInv /\ Counted /\ [Next]_vars => Counted'
<1> SUFFICES ASSUME TypeOK, KeyInv, Counted, [Next]_vars PROVE Counted'
  OBVIOUS
<1>1. CASE UNCHANGED <<votes, tally, job>>
  BY <1>1, OtherCounts DEF Commits, IsVote
<1>2. ASSUME NEW w \in Worker, NEW j \in {NoJob} \cup VoteJob \cup EditJob, Only(w, j),
             j \in VoteJob => j.at # "commit", UNCHANGED <<votes, tally>>
      PROVE  Counted'
  <2>1. job'[w] = j /\ \A u \in Worker : u # w => job'[u] = job[u]
    BY <1>2, Others
  <2>2. ~Commits(w)'
    BY <1>2, <2>1 DEF Commits, IsVote, NoJob, EditJob
  <2>3. \A u \in Worker : Commits(u)' => Commits(u) /\ job'[u] = job[u]
    BY <2>1, <2>2 DEF Commits, IsVote
  <2> QED  BY <1>2, <2>3, OtherCounts
<1>3. ASSUME NEW w \in Worker, NEW v \in Voter, NEW todo \in Seq(Text) \ {<<>>},
             Vote(w, v, todo)
      PROVE  Counted'
  <2>1. PICK j \in VoteJob : Only(w, j) /\ j.at = "look"
    BY <1>3, BeginType DEF Vote
  <2> QED  BY <1>2, <1>3, <2>1 DEF Vote, poll
<1>4. ASSUME NEW w \in Worker, NEW m \in BagToSet(net), ReceiveVote(w, m) PROVE Counted'
  <2>1. m \in VoteMessage
    BY <1>4 DEF TypeOK, ReceiveVote, IsUpdate
  <2> DEFINE op == m.kind  to == m.to  v == m.voter  todo == <<m.text>>
  <2>2. op \in {"web", "PollVote", "Note"} /\ to \in Site /\ v \in Voter
        /\ todo \in Seq(Text) \ {<<>>} /\ Begin(w, op, to, v, todo)
    BY <1>4, <2>1 DEF ReceiveVote, VoteMessage
  <2> HIDE DEF op, to, v, todo
  <2>3. PICK j \in VoteJob : Only(w, j) /\ j.at = "look"
    BY <2>2, BeginType
  <2> QED  BY <1>2, <1>4, <2>3 DEF ReceiveVote, poll
<1>5. ASSUME NEW w \in Worker, Look(w) \/ Send(w) PROVE Counted'
  <2>1. PICK j \in {NoJob} \cup VoteJob : Only(w, j) /\ (j = NoJob \/ j.at # "commit")
    BY <1>5, LookStep, SendStep DEF GoesOn
  <2>2. NoJob \notin VoteJob
    BY DEF NoJob, VoteJob
  <2> QED  BY <1>2, <1>5, <2>1, <2>2 DEF Look, Send, poll
<1>6. ASSUME NEW w \in Worker, Insert(w) PROVE Counted'
  <2>1. UNCHANGED <<votes, tally>> /\ IsVote(w)
    BY <1>6, Where DEF Insert, poll
  <2>2. CASE Only(w, NoJob)
    BY <1>2, <2>1, <2>2 DEF NoJob, VoteJob
  <2>3. CASE \E j \in VoteJob : GoesOn(w, j) /\ j.num = tally[job[w].site][Row(w)[2]]
    <3>1. PICK j \in VoteJob : GoesOn(w, j) /\ j.num = tally[job[w].site][Row(w)[2]]
      BY <2>3
    <3>2. job'[w] = j /\ \A u \in Worker : u # w => job'[u] = job[u]
      BY <3>1, Others DEF GoesOn
    <3>3. Row(w)' = Row(w) /\ Row(w)[2] \in Text /\ job'[w].site = job[w].site
      BY <2>1, <3>1, <3>2, VoteJobs DEF Row, GoesOn
    <3>4. \A u \in Worker : u # w /\ Commits(u)' => Commits(u) /\ job'[u] = job[u]
      BY <3>2 DEF Commits, IsVote
    <3>5. Row(w)'[2] \in Text /\ job'[w].num = tally[job'[w].site][Row(w)'[2]]
      BY <3>1, <3>2, <3>3
    <3> QED  BY <2>1, <3>4, <3>5, OtherCounts
  <2> QED  BY <1>6, <2>2, <2>3, InsertStep
<1>7. ASSUME NEW w \in Worker, Commit(w) \/ Wipe(w) PROVE Counted'
  BY <1>7, CommitCounts, WipeCounts
<1>8. ASSUME NEW w \in Worker, NEW ts \in SUBSET Text \ {{}}, NEW m \in Mode, Edit(w, ts, m)
      PROVE  Counted'
  <2> DEFINE j == [op |-> "edit", site |-> "home", texts |-> ts, mode |-> m, at |-> "wipe"]
  <2>1. j \in EditJob /\ Only(w, j) /\ j.at = "wipe"
    BY <1>8 DEF EditJob, Edit, Only
  <2> HIDE DEF j
  <2> QED  BY <1>2, <1>8, <2>1 DEF Edit, poll
<1>9. ASSUME NEW w \in Worker, Refill(w) PROVE Counted'
  <2>1. Only(w, NoJob) /\ NoJob \notin VoteJob
    BY <1>9 DEF Refill, End, Only, NoJob, VoteJob
  <2> QED  BY <1>2, <1>9, <2>1 DEF Refill
<1>10. ASSUME NEW m \in BagToSet(net), ReceiveUpdate(m) PROVE Counted'
  <2>1. m.to \in Site /\ m.to # "home" /\ job' = job
    BY <1>10, Home DEF TypeOK, ReceiveUpdate, IsUpdate, VoteMessage
  <2>2. votes'["home"] = votes["home"] /\ tally'["home"] = tally["home"]
    BY <1>10, <2>1, Home, Tables DEF ReceiveUpdate, poll
  <2> QED  BY <2>1, <2>2, OtherCounts DEF Commits, IsVote
<1>11. ASSUME NEW v \in Voter, NEW t \in Text, NoteVote(v, t) PROVE Counted'
  BY <1>1, <1>11 DEF NoteVote, poll
<1>12. CASE SendUpdate
  BY <1>1, <1>12 DEF SendUpdate, poll
<1>13. \A t, u \in Text : <<t>> \in Seq(Text) \ {<<>>} /\ <<t, u>> \in Seq(Text) \ {<<>>}
  OBVIOUS
<1> QED  BY <1>1, <1>3, <1>4, <1>5, <1>6, <1>7, <1>8, <1>9, <1>10, <1>11, <1>12, <1>13
         DEF Next, vars

\* At home no choice ever shows more votes than people chose it, whatever
\* requests, messages and edits meet: for any people, choices and followers.
THEOREM CountsNeverAhead == Spec => []NeverAhead
<1>1. Init => KeyInv
  BY DEF Init, KeyInv, Referred, Keyed, Alone, Inserts, Commits, Edits, IsVote, NoJob
<1>2. Init => Counted
  <2> SUFFICES ASSUME Init PROVE Counted
    OBVIOUS
  <2>1. \A t \in Text : Choosers("home", t) = {}
    BY Home DEF Init, Choosers
  <2>2. \A t \in Text : Chose("home", t) = 0 /\ IsFiniteSet(Choosers("home", t))
    BY <2>1, FS_EmptySet DEF Chose
  <2>3. \A t \in Text : tally["home"][t] = 0
    BY Home DEF Init, NoVotes
  <2>4. \A w \in Worker : ~Commits(w)
    BY DEF Init, Commits, IsVote, NoJob
  <2> QED  BY <2>2, <2>3, <2>4 DEF Counted, NeverAhead
<1>3. Counted => NeverAhead
  BY DEF Counted
<1> QED  BY <1>1, <1>2, <1>3, TypeCorrect, NextKeys, NextCounts, PTL DEF Spec

-----------------------------------------------------------------------------
(***************************************************************************)
(* The copies.  What holds between home and the followers depends on what  *)
(* has begun since all was quiet: an edit alone, which makes the poll anew *)
(* everywhere (Renewed); votes, which make their way (Voted) and are       *)
(* counted once on each instance (Alike); or one vote from a microblog,    *)
(* whose total is told (OneNote).                                          *)
(***************************************************************************)
Mail == BagToSet(net)
AllIdle == \A w \in Worker : Idle(w)
Clean == "edited amid votes" \notin mishaps
NothingLost == "lost count" \notin mishaps
SamePoll(f) == choices[f] = choices["home"] /\ mode[f] = mode["home"]
Blank(s) == votes[s] = {} /\ tally[s] = NoVotes

\* The bag of messages holds none of them zero times.
Bagged == \A m \in Mail : net[m] \in Nat \ {0}

\* What has begun while nothing went wrong.
Phases ==
  /\ Clean /\ "edit" \in since => since = {"edit"}
  /\ mishaps = {} => since \in {{}, {"vote"}, {"note"}, {"edit"}}

\* An edit alone: home is wiped, then filled, then told; a follower has the
\* new poll or a message that brings it.
Renewed ==
  /\ \A w \in Worker : Idle(w) \/ Edits(w)
  /\ \A m \in Mail : /\ m.kind = "Update" /\ m.mode = mode["home"]
                     /\ DOMAIN m.totals = choices["home"] /\ IsEdit(m.totals)
  /\ ~AllIdle => Mail = {} /\ updates = 0
  /\ (\A w \in Worker : Edits(w) => job[w].at # "wipe") => Blank("home")
  /\ AllIdle /\ updates = 0 =>
       \A f \in Follower : (SamePoll(f) /\ Blank(f)) \/ \E m \in Mail : m.to = f

\* A vote that comes to an instance: a message, or the handler that has it.
From(m) == <<m.voter, m.text>>
Coming(w, s, r) ==
  job[w].op = "PollVote" /\ job[w].site = s /\ Row(w) = r /\ job[w].at # "send"
Comes(s, r) ==
  \/ \E m \in Mail : m.kind = "PollVote" /\ m.to = s /\ From(m) = r
  \/ \E w \in Worker : Coming(w, s, r)
\* A vote that is about to be told, by home or by the follower it was cast on.
HomeTells(w, r) ==
  /\ job[w].op \in {"web", "PollVote"} /\ job[w].site = "home"
  /\ Row(w) = r /\ job[w].at = "send"
Reports(w, f, r) ==
  job[w].op = "web" /\ job[w].site = f /\ Row(w) = r /\ job[w].at = "send"

\* Where a vote that is told to an instance has been counted.
Known(s, v, r) ==
  IF s = "home" THEN Lives[v] \in Follower /\ r \in votes[Lives[v]]
  ELSE Lives[v] # "microblog" /\ r \in votes["home"]

LetterRight(m) ==
  /\ m.kind = "Update" => ~IsEdit(m.totals)
  /\ m.kind # "Update" => m.text \in choices["home"]
  /\ m.kind = "Note" => m.to = "home" /\ Lives[m.voter] = "microblog"
  /\ m.kind = "PollVote" => Known(m.to, m.voter, From(m))

JobRight(w) ==
  IsVote(w) =>
    /\ job[w].at # "look" => job[w].gen = gen[job[w].site]
    /\ job[w].at = "send" => Row(w) \in votes[job[w].site]
    /\ \A i \in 1 .. Len(job[w].todo) : job[w].todo[i] \in choices["home"]
    /\ job[w].op # "web" => Len(job[w].todo) = 1
    /\ job[w].op = "web" => job[w].site = Lives[job[w].voter]
    /\ job[w].op = "Note" => job[w].site = "home" /\ Lives[job[w].voter] = "microblog"
    /\ job[w].op = "PollVote" => Known(job[w].site, job[w].voter, Row(w))

\* What home knows a follower knows, or will; and the other way round.
Down ==
  \A f \in Follower : \A r \in Told("home") :
    r \in votes[f] \/ (f # Lives[r[1]] /\ (Comes(f, r) \/ \E w \in Worker : HomeTells(w, r)))
Up ==
  \A f \in Follower : \A r \in votes[f] :
    /\ Lives[r[1]] # "microblog"
    /\ r \in votes["home"] \/ Comes("home", r) \/ \E w \in Worker : Reports(w, f, r)

Voted ==
  /\ \A w \in Worker : Idle(w) \/ IsVote(w)
  /\ \A f \in Follower : SamePoll(f)
  /\ \A r \in votes["home"] : tally["home"][r[2]] >= 1
  /\ updates > 0 => votes["home"] # {}
  /\ \A m \in Mail : LetterRight(m)
  /\ \A w \in Worker : JobRight(w)
  /\ Down /\ Up

\* Votes of users of the instances, counted once on each.
Tellers(s, t) == {v \in Voter : Lives[v] # "microblog" /\ <<v, t>> \in votes[s]}
Tally(s, t) == tally[s][t] - Cardinality(Tellers(s, t))
Counters == \A s \in Site, t \in Text : IsFiniteSet(Tellers(s, t))
Alike ==
  /\ updates = 0 /\ \A m \in Mail : m.kind = "PollVote"
  /\ \A w \in Worker : job[w].op # "Note"
  /\ \A f \in Follower, t \in Text : Tally(f, t) = Tally("home", t)

Totals == [t \in choices["home"] |-> tally["home"][t]]
\* One vote from a microblog: on its way; counted; its total to be told; told.
Level == \A f \in Follower : tally[f] = tally["home"]
LevelOff == \A f \in Follower, t \in Text \ choices["home"] : tally[f][t] = tally["home"][t]
NoteComes ==
  AllIdle /\ updates = 0 /\ Level /\ \E m \in Mail : m.kind = "Note" /\ net = SetToBag({m})
NoteCounts ==
  /\ Mail = {} /\ updates = 0 /\ LevelOff
  /\ \E w \in Worker : /\ job[w].op = "Note" /\ \A u \in Worker \ {w} : Idle(u)
                       /\ job[w].at # "send" => Level
TotalWaits == Mail = {} /\ updates = 1 /\ AllIdle /\ LevelOff
TotalTold ==
  /\ updates = 0 /\ AllIdle /\ LevelOff
  /\ \A m \in Mail : m.kind = "Update" /\ m.totals = Totals
  /\ \A f \in Follower : tally[f] = tally["home"] \/ \E m \in Mail : m.to = f
OneNote == NoteComes \/ NoteCounts \/ TotalWaits \/ TotalTold

CopyInv ==
  /\ Bagged /\ Phases
  /\ Clean /\ "edit" \in since => Renewed
  /\ Clean /\ "edit" \notin since => Voted
CountInv ==
  /\ Counters
  /\ mishaps = {} /\ since \subseteq {"vote"} => Alike
  /\ mishaps = {} /\ since = {"note"} => OneNote

LEMMA MoreBag ==
  ASSUME Bagged, NEW S, net' = net (+) SetToBag(S)
  PROVE  Bagged' /\ Mail' = Mail \cup S
  BY DEF Bagged, Mail, BagToSet, SetToBag, (+)

LEMMA LessBag ==
  ASSUME Bagged, NEW m, net' = net (-) SetToBag({m})
  PROVE  Bagged' /\ Mail' \subseteq Mail /\ \A n \in Mail : n # m => n \in Mail'
  BY DEF Bagged, Mail, BagToSet, SetToBag, (-)

LEMMA SameBag ==
  ASSUME Bagged, net' = net
  PROVE  Bagged' /\ Mail' = Mail
  BY DEF Bagged, Mail

LEMMA NoMail == BagToSet(EmptyBag) = {}
  BY DEF EmptyBag, BagToSet, SetToBag

LEMMA OneLetter ==
  ASSUME NEW m
  PROVE  /\ EmptyBag (+) SetToBag({m}) = SetToBag({m})
         /\ BagToSet(SetToBag({m})) = {m}
         /\ BagToSet(SetToBag({m}) (-) SetToBag({m})) = {}
<1>1. EmptyBag (+) SetToBag({m}) = SetToBag({m})
  BY DEF EmptyBag, SetToBag, (+)
<1>2. BagToSet(SetToBag({m})) = {m}
  BY DEF SetToBag, BagToSet
<1>3. BagToSet(SetToBag({m}) (-) SetToBag({m})) = {}
  BY DEF SetToBag, BagToSet, (-)
<1> QED  BY <1>1, <1>2, <1>3

\* All is quiet: nothing to do for a worker, no message, no task.
LEMMA Quiets ==
  ASSUME Quiet
  PROVE  AllIdle /\ Mail = {} /\ updates = 0 /\ net = EmptyBag
  BY NoMail DEF Quiet, AllIdle, Mail

LEMMA Letter ==
  ASSUME TypeOK, NEW m \in Mail
  PROVE  /\ m.kind \in {"PollVote", "Note"} => m \in VoteMessage
         /\ m.kind = "Update" => IsUpdate(m) /\ m.to \in Follower
         /\ m.kind \in {"PollVote", "Note", "Update"}
  BY DEF TypeOK, Mail, IsUpdate, VoteMessage

LEMMA Live == \A v \in Voter : Lives[v] \in Site \/ Lives[v] = "microblog"
  BY PollsAssumption DEF Place, Site

LEMMA NotMicroblog == "microblog" \notin Site
  BY PollsAssumption DEF Site

-----------------------------------------------------------------------------
(***************************************************************************)
(* Votes on their way.                                                     *)
(***************************************************************************)
LEMMA KnownStays ==
  ASSUME TypeOK, NEW s \in Site, NEW v, NEW r, Known(s, v, r),
         \A o \in Site : votes[o] \subseteq votes'[o]
  PROVE  Known(s, v, r)'
  BY Home DEF Known

LEMMA LetterStays ==
  ASSUME TypeOK, NEW m \in Mail, LetterRight(m), choices' = choices,
         \A o \in Site : votes[o] \subseteq votes'[o]
  PROVE  LetterRight(m)'
<1>1. m.kind = "PollVote" => m.to \in Site
  BY Letter DEF VoteMessage
<1>2. m.kind = "PollVote" => Known(m.to, m.voter, From(m))'
  BY <1>1, KnownStays DEF LetterRight
<1> QED  BY <1>2 DEF LetterRight

LEMMA JobStays ==
  ASSUME TypeOK, NEW w \in Worker, JobRight(w), job'[w] = job[w],
         UNCHANGED <<choices, gen>>, \A o \in Site : votes[o] \subseteq votes'[o]
  PROVE  JobRight(w)'
<1> SUFFICES ASSUME IsVote(w) PROVE JobRight(w)'
  BY DEF JobRight, IsVote
<1>1. PICK s \in Site, v \in Voter, r \in Voter \X Text :
        job[w].site = s /\ job[w].voter = v /\ Row(w) = r
  BY VoteJobs
<1>2. Row(w)' = r
  BY <1>1 DEF Row
<1>3. Known(s, v, r) => Known(s, v, r)'
  BY KnownStays
<1>4. votes[s] \subseteq votes'[s]
  OBVIOUS
<1> QED  BY <1>1, <1>2, <1>3, <1>4 DEF JobRight, Known

\* A step of a worker that changes no table.
LEMMA VotedStep ==
  ASSUME TypeOK, Voted, NEW w \in Worker, NEW j \in {NoJob} \cup VoteJob, Only(w, j),
         UNCHANGED <<choices, gen, mode, votes, tally>>,
         JobRight(w)', \A m \in Mail' : LetterRight(m)',
         updates' > 0 => votes["home"] # {},
         \A m \in Mail : m.kind = "PollVote" => m \in Mail' \/ Coming(w, m.to, From(m))',
         \A s, r : Coming(w, s, r) => Coming(w, s, r)' \/ r \in votes[s],
         \A r : HomeTells(w, r) =>
                  HomeTells(w, r)' \/ \A f \in Follower : f # Lives[r[1]] => Comes(f, r)',
         \A f, r : Reports(w, f, r) /\ f # "home" => Reports(w, f, r)' \/ Comes("home", r)'
  PROVE  Voted'
<1>1. job'[w] = j /\ \A u \in Worker : u # w => job'[u] = job[u]
  BY Others
<1>2. \A u \in Worker : (Idle(u) \/ IsVote(u))'
  BY <1>1 DEF Voted, Idle, IsVote, VoteJob
<1>3. \A u \in Worker : JobRight(u)'
  BY <1>1, JobStays DEF Voted
<1>4. ASSUME NEW s, NEW r, Comes(s, r)
      PROVE  Comes(s, r)' \/ r \in votes[s]
  <2>1. CASE \E m \in Mail : m.kind = "PollVote" /\ m.to = s /\ From(m) = r
    <3>1. PICK m \in Mail : m.kind = "PollVote" /\ m.to = s /\ From(m) = r
      BY <2>1
    <3>2. CASE m \in Mail'
      BY <3>1, <3>2 DEF Comes
    <3>3. CASE Coming(w, m.to, From(m))'
      <4>1. Coming(w, s, r)'
        BY <3>1, <3>3 DEF From, Coming
      <4> QED  BY <4>1 DEF Comes
    <3> QED  BY <3>1, <3>2, <3>3
  <2>2. ASSUME NEW u \in Worker, Coming(u, s, r)
        PROVE  Comes(s, r)' \/ r \in votes[s]
    <3>1. CASE u = w
      BY <2>2, <3>1 DEF Comes
    <3>2. CASE u # w
      <4>1. Coming(u, s, r)'
        BY <1>1, <2>2, <3>2 DEF Coming, Row
      <4> QED  BY <4>1 DEF Comes
    <3> QED  BY <3>1, <3>2
  <2> QED  BY <1>4, <2>1, <2>2 DEF Comes
<1>5. \A u \in Worker : \A r : u # w /\ HomeTells(u, r) => HomeTells(u, r)'
  BY <1>1 DEF HomeTells, Row
<1>6. \A u \in Worker : \A f, r : u # w /\ Reports(u, f, r) => Reports(u, f, r)'
  BY <1>1 DEF Reports, Row
<1>7. Told("home")' = Told("home")
  BY DEF Told
<1>8. Down'
  <2> SUFFICES ASSUME NEW f \in Follower, NEW r \in Told("home"), r \notin votes[f]
               PROVE  /\ f # Lives[r[1]]
                      /\ Comes(f, r)' \/ \E u \in Worker : HomeTells(u, r)'
    BY <1>7 DEF Down
  <2>1. f # Lives[r[1]] /\ (Comes(f, r) \/ \E u \in Worker : HomeTells(u, r))
    BY DEF Voted, Down
  <2>2. CASE Comes(f, r)
    BY <1>4, <2>1, <2>2
  <2>3. ASSUME NEW u \in Worker, HomeTells(u, r)
        PROVE  Comes(f, r)' \/ \E x \in Worker : HomeTells(x, r)'
    BY <1>5, <2>1, <2>3
  <2> QED  BY <2>1, <2>2, <2>3
<1>9. Up'
  <2> SUFFICES ASSUME NEW f \in Follower, NEW r \in votes[f]
               PROVE  /\ Lives[r[1]] # "microblog"
                      /\ \/ r \in votes["home"] \/ Comes("home", r)'
                         \/ \E u \in Worker : Reports(u, f, r)'
    BY DEF Up
  <2>1. /\ Lives[r[1]] # "microblog"
        /\ r \in votes["home"] \/ Comes("home", r) \/ \E u \in Worker : Reports(u, f, r)
    BY DEF Voted, Up
  <2>2. CASE Comes("home", r)
    BY <1>4, <2>1, <2>2
  <2>3. ASSUME NEW u \in Worker, Reports(u, f, r)
        PROVE  Comes("home", r)' \/ \E x \in Worker : Reports(x, f, r)'
    BY <1>6, <2>3, Home
  <2> QED  BY <2>1, <2>2, <2>3
<1>10. \A f \in Follower : SamePoll(f)'
  BY DEF Voted, SamePoll
<1>11. \A r \in votes'["home"] : tally'["home"][r[2]] >= 1
  BY DEF Voted
<1> QED  BY <1>2, <1>3, <1>8, <1>9, <1>10, <1>11 DEF Voted

LEMMA IdleTells ==
  ASSUME TypeOK, NEW w \in Worker, Idle(w)
  PROVE  \A f, r : ~Coming(w, f, r) /\ ~HomeTells(w, r) /\ ~Reports(w, f, r)
  BY Where DEF Coming, HomeTells, Reports

LEMMA VoteVoted ==
  ASSUME TypeOK, Bagged, Voted, NEW w \in Worker, NEW v \in Voter,
         NEW todo \in Seq(Text) \ {<<>>}, Vote(w, v, todo)
  PROVE  Voted'
<1>1. Lives[v] \in Site /\ todo \in Asked(Lives[v]) /\ Idle(w)
      /\ Begin(w, "web", Lives[v], v, todo) /\ UNCHANGED <<poll, net, updates>>
  BY DEF Vote
<1>2. PICK s \in Site : s = Lives[v]
  BY <1>1
<1>3. PICK j \in VoteJob : /\ Only(w, j) /\ j.op = "web" /\ j.site = s /\ j.voter = v
                           /\ j.todo = todo /\ j.at = "look"
  BY <1>1, <1>2, BeginType
<1>4. job'[w] = j
  BY <1>3, Others
<1>5. choices[s] = choices["home"]
  BY <1>2 DEF Voted, SamePoll, Site
<1>6. \A i \in 1 .. Len(todo) : todo[i] \in choices[s]
  BY <1>1, <1>2 DEF Asked
<1>7. JobRight(w)'
  BY <1>1, <1>2, <1>3, <1>4, <1>5, <1>6 DEF JobRight, poll
<1>8. Mail' = Mail
  BY <1>1, SameBag
<1>9. \A m \in Mail' : LetterRight(m)'
  BY <1>1, <1>8, LetterStays DEF Voted, poll
<1>10. updates' > 0 => votes["home"] # {}
  BY <1>1 DEF Voted
<1>11. \A f, r : ~Coming(w, f, r) /\ ~HomeTells(w, r) /\ ~Reports(w, f, r)
  BY <1>1, IdleTells
<1>12. UNCHANGED <<choices, gen, mode, votes, tally>>
  BY <1>1 DEF poll
<1> HIDE DEF Voted
<1> QED
  BY <1>3, <1>7, <1>8, <1>9, <1>10, <1>11, <1>12, VotedStep

LEMMA ReceiveVoteVoted ==
  ASSUME TypeOK, Bagged, Voted, NEW w \in Worker, NEW m \in Mail, ReceiveVote(w, m)
  PROVE  Voted'
<1>1. m \in VoteMessage /\ Idle(w) /\ net' = net (-) SetToBag({m})
      /\ UNCHANGED <<poll, updates>>
  BY Letter DEF ReceiveVote
<1> DEFINE op == m.kind  s == m.to  v == m.voter  t == m.text  todo == <<t>>
<1>2. op \in {"PollVote", "Note"} /\ s \in Site /\ v \in Voter /\ t \in Text
      /\ op \in {"web", "PollVote", "Note"}
  BY <1>1 DEF VoteMessage
<1>3. todo \in Seq(Text) \ {<<>>} /\ Begin(w, op, s, v, todo)
      /\ m.kind = op /\ m.to = s /\ m.voter = v /\ m.text = t /\ todo = <<t>>
  BY <1>2 DEF ReceiveVote
<1> HIDE DEF op, s, v, t, todo
<1>4. PICK j \in VoteJob : /\ Only(w, j) /\ j.op = op /\ j.site = s /\ j.voter = v
                           /\ j.todo = todo /\ j.at = "look"
  <2>1. /\ op \in {"web", "PollVote", "Note"} /\ s \in Site /\ v \in Voter
        /\ todo \in Seq(Text) \ {<<>>} /\ Begin(w, op, s, v, todo)
    BY <1>2, <1>3
  <2> QED  BY <2>1, BeginType
<1>5. job'[w] = j /\ Row(w)' = <<v, t>> /\ Len(j.todo) = 1
      /\ \A i \in 1 .. Len(j.todo) : j.todo[i] = t
  BY <1>3, <1>4, Others DEF Row
<1>6. LetterRight(m) /\ LetterRight(m)'
  BY <1>1, LetterStays DEF Voted, poll
<1>7. JobRight(w)'
  <2>1. /\ op # "web" /\ t \in choices'["home"]
        /\ op = "Note" => s = "home" /\ Lives[v] = "microblog"
        /\ op = "PollVote" => Known(s, v, <<v, t>>)'
    BY <1>1, <1>2, <1>3, <1>6 DEF LetterRight, From, Known, VoteMessage
  <2> QED  BY <1>4, <1>5, <2>1 DEF JobRight, Known
<1>8. Mail' \subseteq Mail /\ \A n \in Mail : n # m => n \in Mail'
  BY <1>1, LessBag
<1>9. \A n \in Mail' : LetterRight(n)'
  BY <1>1, <1>8, LetterStays DEF Voted, poll
<1>10. m.kind = "PollVote" => Coming(w, m.to, From(m))'
  BY <1>2, <1>3, <1>4, <1>5 DEF Coming, From
<1>11. updates' > 0 => votes["home"] # {}
  BY <1>1 DEF Voted
<1>12. \A n \in Mail : n.kind = "PollVote" => n \in Mail' \/ Coming(w, n.to, From(n))'
  BY <1>8, <1>10
<1>13. \A f, r : ~Coming(w, f, r) /\ ~HomeTells(w, r) /\ ~Reports(w, f, r)
  BY <1>1, IdleTells
<1>14. UNCHANGED <<choices, gen, mode, votes, tally>>
  BY <1>1 DEF poll
<1> QED
  BY <1>4, <1>7, <1>9, <1>11, <1>12, <1>13, <1>14, VotedStep

\* Who goes on brings the same vote.
LEMMA SameRow ==
  ASSUME TypeOK, NEW w \in Worker, IsVote(w), NEW j \in VoteJob, GoesOn(w, j)
  PROVE  /\ job'[w] = j /\ Row(w)' = Row(w) /\ IsVote(w)'
         /\ \A u \in Worker : u # w => job'[u] = job[u]
<1>1. job'[w] = j /\ \A u \in Worker : u # w => job'[u] = job[u]
  BY Others DEF GoesOn
<1> QED  BY <1>1 DEF GoesOn, Row, IsVote

\* A worker drops what it need not write, or goes on with it.
LEMMA HandlingVoted ==
  ASSUME TypeOK, Bagged, Voted, NEW w \in Worker, IsVote(w), NEW j \in {NoJob} \cup VoteJob,
         UNCHANGED <<poll, net, updates>>, job[w].at # "send",
         \/ /\ j = NoJob /\ Only(w, j)
            /\ (job[w].op = "PollVote" => Row(w) \in votes[job[w].site])
         \/ /\ j \in VoteJob /\ GoesOn(w, j) /\ j.gen = gen[job[w].site]
            /\ j.at = "send" => Row(w) \in votes[job[w].site]
  PROVE  Voted'
<1>1. Mail' = Mail
  BY SameBag
<1>2. \A m \in Mail' : LetterRight(m)'
  BY <1>1, LetterStays DEF Voted, poll
<1>3. Only(w, j) /\ updates' = updates /\ UNCHANGED <<choices, gen, mode, votes, tally>>
  BY DEF GoesOn, poll
<1>4. \A f, r : ~HomeTells(w, r) /\ ~Reports(w, f, r)
  BY DEF HomeTells, Reports
<1>5. JobRight(w)' /\ \A s, r : Coming(w, s, r) => Coming(w, s, r)' \/ r \in votes[s]
  <2>1. CASE j = NoJob
    <3>1. job'[w] = NoJob
      BY <1>3, <2>1, Others
    <3>2. ~IsVote(w)'
      BY <3>1 DEF IsVote, NoJob
    <3>3. NoJob \notin VoteJob
      BY DEF NoJob, VoteJob
    <3> QED  BY <2>1, <3>2, <3>3 DEF JobRight, Coming
  <2>2. CASE j \in VoteJob
    <3>1. GoesOn(w, j) /\ j.gen = gen[job[w].site]
          /\ (j.at = "send" => Row(w) \in votes[job[w].site])
      BY <2>2 DEF NoJob, VoteJob
    <3>2. job'[w] = j /\ Row(w)' = Row(w) /\ j.op = job[w].op /\ j.site = job[w].site
          /\ j.voter = job[w].voter /\ j.todo = job[w].todo
      BY <2>2, <3>1, SameRow DEF GoesOn
    <3>3. JobRight(w)
      BY DEF Voted
    <3>4. JobRight(w)'
      BY <1>3, <3>1, <3>2, <3>3 DEF JobRight, Known
    <3>5. \A s, r : Coming(w, s, r) => Coming(w, s, r)' \/ r \in votes[s]
      BY <3>1, <3>2 DEF Coming
    <3> QED  BY <3>4, <3>5
  <2> QED  BY <2>1, <2>2
<1>6. updates' > 0 => votes["home"] # {}
  BY <1>3 DEF Voted
<1> QED  BY <1>1, <1>2, <1>3, <1>4, <1>5, <1>6, VotedStep

\* In this phase all instances have the choice that a job names.
LEMMA Listed ==
  ASSUME TypeOK, Voted, NEW w \in Worker, IsVote(w)
  PROVE  Row(w)[2] \in choices["home"] /\ choices[job[w].site] = choices["home"]
<1>1. job[w].todo \in Seq(Text) /\ job[w].todo # <<>> /\ job[w].site \in Site
      /\ Row(w)[2] = Head(job[w].todo)
  BY VoteJobs
<1>2. 1 \in 1 .. Len(job[w].todo) /\ Head(job[w].todo) = job[w].todo[1]
  BY <1>1, EmptySeq, HeadTailProperties
<1>3. JobRight(w)
  BY DEF Voted
<1>4. Head(job[w].todo) \in choices["home"]
  BY <1>2, <1>3 DEF JobRight
<1> QED  BY <1>1, <1>4 DEF Voted, SamePoll, Site

LEMMA LookVoted ==
  ASSUME TypeOK, Bagged, Voted, NEW w \in Worker, Look(w)
  PROVE  Voted'
<1>1. IsVote(w) /\ job[w].at = "look" /\ UNCHANGED <<poll, net, updates>>
  BY Where DEF Look, At
<1>2. CASE Refused(w) /\ Only(w, NoJob)
  <2>1. job[w].op = "web"
    BY <1>1, <1>2, Listed DEF Refused
  <2> QED  BY <1>1, <1>2, <2>1, HandlingVoted
<1>3. CASE \E j \in VoteJob : /\ GoesOn(w, j) /\ j.gen = gen[job[w].site]
                              /\ j.at = "send" => Row(w) \in votes[job[w].site]
  <2>1. PICK j \in VoteJob : /\ GoesOn(w, j) /\ j.gen = gen[job[w].site]
                             /\ j.at = "send" => Row(w) \in votes[job[w].site]
    BY <1>3
  <2> QED  BY <1>1, <2>1, HandlingVoted
<1> QED  BY <1>2, <1>3, LookStep

LEMMA InsertVoted ==
  ASSUME TypeOK, Bagged, Voted, NEW w \in Worker, Insert(w)
  PROVE  Voted'
<1>1. IsVote(w) /\ job[w].at = "insert" /\ UNCHANGED <<poll, net, updates>>
  BY Where DEF Insert, At
<1>2. gen[job[w].site] = job[w].gen
  BY <1>1 DEF Voted, JobRight
<1>3. CASE Clash(w)
  <2>1. Only(w, NoJob)
    BY <1>3, InsertStep
  <2> QED  BY <1>1, <1>3, <2>1, HandlingVoted DEF Clash
<1>4. CASE ~Clash(w)
  <2>1. PICK j \in VoteJob : GoesOn(w, j) /\ j.gen = job[w].gen /\ j.at = "commit"
    <3>1. job' = [job EXCEPT ![w].num = tally[job[w].site][Row(w)[2]], ![w].at = "commit"]
      BY <1>2, <1>4 DEF Insert
    <3>2. job'[w].op = job[w].op
      <4> DEFINE n == tally[job[w].site][Row(w)[2]]
      <4>1. job' = [job EXCEPT ![w].num = n, ![w].at = "commit"]
        BY <3>1
      <4> HIDE DEF n
      <4>2. job'[w] = [job[w] EXCEPT !.num = n, !.at = "commit"] /\ job[w] \in VoteJob
        BY <1>1, <4>1, VoteJobs DEF TypeOK
      <4> QED  BY <4>2 DEF VoteJob
    <3>3. ~Only(w, NoJob)
      BY <1>1, <3>2, Others DEF NoJob, IsVote
    <3> QED  BY <3>3, InsertStep
  <2> QED  BY <1>1, <1>2, <2>1, HandlingVoted
<1> QED  BY <1>3, <1>4

\* A vote is written where it is neither told nor counted yet.
LEMMA CommitVoted ==
  ASSUME TypeOK, Bagged, Voted, NEW w \in Worker, Commit(w)
  PROVE  Voted'
<1>1. PICK s \in Site, v \in Voter, t \in Text, n \in Nat :
        /\ IsVote(w) /\ job[w].site = s /\ job[w].voter = v /\ job[w].num = n
        /\ Row(w) = <<v, t>>
  BY Where, VoteJobs DEF Commit, Row
<1>2. PICK j \in VoteJob : GoesOn(w, j) /\ j.gen = job[w].gen /\ j.at = "send"
  BY CommitStep
<1>3. /\ job'[w] = j /\ Row(w)' = <<v, t>> /\ j.op = job[w].op /\ j.site = s
      /\ j.voter = v /\ j.todo = job[w].todo /\ IsVote(w)'
      /\ \A u \in Worker : u # w => job'[u] = job[u]
  BY <1>1, <1>2, SameRow DEF GoesOn
<1>4. /\ votes' = [votes EXCEPT ![s] = @ \cup {<<v, t>>}]
      /\ tally' = [tally EXCEPT ![s][t] = n + 1]
      /\ UNCHANGED <<choices, gen, mode, net, updates>>
  <2>1. Row(w)[2] = t
    BY <1>1
  <2> QED  BY <1>1, <2>1 DEF Commit
<1>5. /\ votes'[s] = votes[s] \cup {<<v, t>>}
      /\ \A o \in Site : o # s => votes'[o] = votes[o]
      /\ \A o \in Site : votes[o] \subseteq votes'[o]
  BY <1>4, Tables
<1>6. /\ tally'[s][t] = n + 1
      /\ \A o \in Site, u \in Text : o # s \/ u # t => tally'[o][u] = tally[o][u]
  BY <1>4, Tables
<1>7. JobRight(w) /\ job[w].at = "commit"
  BY Where DEF Voted, Commit, At
<1>8. JobRight(w)'
  <2>1. Known(s, v, <<v, t>>) => Known(s, v, <<v, t>>)'
    BY <1>5, KnownStays
  <2> QED  BY <1>1, <1>2, <1>3, <1>4, <1>5, <1>7, <2>1 DEF JobRight, Known
<1>9. \A u \in Worker : JobRight(u)'
  BY <1>3, <1>4, <1>5, <1>8, JobStays DEF Voted
<1>10. Mail' = Mail /\ \A m \in Mail' : LetterRight(m)'
  BY <1>4, <1>5, SameBag, LetterStays DEF Voted
<1>11. \A r \in votes'["home"] : tally'["home"][r[2]] >= 1
  <2>1. \A r \in votes["home"] : r \in Voter \X Text /\ r[2] \in Text
    BY Home, Tables
  <2>2. n + 1 >= 1
    OBVIOUS
  <2>3. ASSUME NEW r \in votes'["home"] PROVE tally'["home"][r[2]] >= 1
    <3>1. CASE s = "home" /\ r[2] = t
      BY <1>6, <2>2, <3>1
    <3>2. CASE ~(s = "home" /\ r[2] = t)
      <4>1. r \in votes["home"]
        BY <1>5, <2>3, <3>2, Home
      <4>2. tally'["home"][r[2]] = tally["home"][r[2]]
        BY <1>6, <2>1, <3>2, <4>1, Home
      <4> QED  BY <4>1, <4>2 DEF Voted
    <3> QED  BY <3>1, <3>2
  <2> QED  BY <2>3
<1>12. updates' > 0 => votes'["home"] # {}
  BY <1>4, <1>5, Home DEF Voted
<1>13. ASSUME NEW o, NEW r, Comes(o, r)
       PROVE  Comes(o, r)' \/ (o = s /\ r = <<v, t>>)
  <2>1. CASE \E m \in Mail : m.kind = "PollVote" /\ m.to = o /\ From(m) = r
    BY <1>10, <2>1 DEF Comes
  <2>2. ASSUME NEW u \in Worker, u # w, Coming(u, o, r)
        PROVE  Comes(o, r)'
    <3>1. Coming(u, o, r)'
      BY <1>3, <2>2 DEF Coming, Row
    <3> QED  BY <3>1 DEF Comes
  <2>3. Coming(w, o, r) => o = s /\ r = <<v, t>>
    BY <1>1 DEF Coming
  <2> QED  BY <1>13, <2>1, <2>2, <2>3 DEF Comes
<1>14. \A u \in Worker : \A f, r : /\ HomeTells(u, r) => HomeTells(u, r)'
                                   /\ Reports(u, f, r) => Reports(u, f, r)'
  BY <1>3, <1>7 DEF HomeTells, Reports, Row
<1>15. Down'
  <2> SUFFICES ASSUME NEW f \in Follower, NEW r \in Told("home")', r \notin votes'[f]
               PROVE  /\ f # Lives[r[1]]
                      /\ Comes(f, r)' \/ \E u \in Worker : HomeTells(u, r)'
    BY DEF Down
  <2>1. f \in Site /\ f # "home" /\ r \in votes'["home"] /\ Lives[r[1]] # "microblog"
        /\ r \notin votes[f]
    BY <1>5, Home DEF Told
  <2>2. CASE r \in votes["home"]
    <3>1. f # Lives[r[1]] /\ (Comes(f, r) \/ \E u \in Worker : HomeTells(u, r))
      BY <2>1, <2>2 DEF Voted, Down, Told
    <3>2. CASE Comes(f, r)
      BY <1>5, <1>13, <2>1, <3>1, <3>2
    <3>3. CASE \E u \in Worker : HomeTells(u, r)
      BY <1>14, <3>1, <3>3
    <3> QED  BY <3>1, <3>2, <3>3
  <2>3. CASE r \notin votes["home"]
    <3>1. s = "home" /\ r = <<v, t>> /\ r[1] = v
      BY <1>5, <2>1, <2>3, Home
    <3>2. job[w].op # "Note"
      BY <1>1, <1>7, <2>1, <3>1 DEF JobRight
    <3>3. job[w].op \in {"web", "PollVote"}
      BY <1>1, <3>2 DEF IsVote
    <3>4. HomeTells(w, r)'
      BY <1>2, <1>3, <3>1, <3>3 DEF HomeTells
    <3>5. f # Lives[v]
      <4>1. job[w].op = "web" => Lives[v] = "home"
        BY <1>1, <1>7, <3>1 DEF JobRight
      <4>2. job[w].op = "PollVote" => <<v, t>> \in votes[Lives[v]]
        BY <1>1, <1>7, <3>1 DEF JobRight, Known
      <4> QED  BY <2>1, <3>1, <3>3, <4>1, <4>2
    <3> QED  BY <3>1, <3>4, <3>5
  <2> QED  BY <2>2, <2>3
<1>16. Up'
  <2> SUFFICES ASSUME NEW f \in Follower, NEW r \in votes'[f]
               PROVE  /\ Lives[r[1]] # "microblog"
                      /\ \/ r \in votes'["home"] \/ Comes("home", r)'
                         \/ \E u \in Worker : Reports(u, f, r)'
    BY DEF Up
  <2>1. f \in Site /\ f # "home"
    BY Home
  <2>2. CASE r \in votes[f]
    <3>1. /\ Lives[r[1]] # "microblog"
          /\ r \in votes["home"] \/ Comes("home", r) \/ \E u \in Worker : Reports(u, f, r)
      BY <2>2 DEF Voted, Up
    <3>2. CASE r \in votes["home"]
      BY <1>5, <3>1, <3>2, Home
    <3>3. CASE Comes("home", r)
      <4>1. Comes("home", r)' \/ ("home" = s /\ r = <<v, t>>)
        BY <1>13, <3>3
      <4> QED  BY <1>5, <3>1, <4>1
    <3>4. CASE \E u \in Worker : Reports(u, f, r)
      BY <1>14, <3>1, <3>4
    <3> QED  BY <3>1, <3>2, <3>3, <3>4
  <2>3. CASE r \notin votes[f]
    <3>1. s = f /\ r = <<v, t>> /\ r[1] = v
      BY <1>5, <2>1, <2>3
    <3>2. job[w].op \in {"web", "PollVote"}
      BY <1>1, <1>7, <2>1, <3>1 DEF JobRight, IsVote
    <3>3. CASE job[w].op = "web"
      <4>1. Lives[v] = f
        BY <1>1, <1>7, <3>1, <3>3 DEF JobRight
      <4>2. Reports(w, f, r)'
        BY <1>2, <1>3, <3>1, <3>3 DEF Reports
      <4> QED  BY <2>1, <3>1, <4>1, <4>2, NotMicroblog
    <3>4. CASE job[w].op = "PollVote"
      <4>1. Lives[v] # "microblog" /\ <<v, t>> \in votes["home"]
        BY <1>1, <1>7, <2>1, <3>1, <3>4 DEF JobRight, Known
      <4> QED  BY <1>5, <3>1, <4>1, Home
    <3> QED  BY <3>2, <3>3, <3>4
  <2> QED  BY <2>2, <2>3
<1>17. \A u \in Worker : (Idle(u) \/ IsVote(u))'
  BY <1>3 DEF Voted, Idle, IsVote
<1>18. \A f \in Follower : SamePoll(f)'
  BY <1>4 DEF Voted, SamePoll
<1> QED  BY <1>9, <1>10, <1>11, <1>12, <1>15, <1>16, <1>17, <1>18 DEF Voted

\* What a worker tells, and whom.
Letters(w) ==
  {[kind |-> "PollVote", to |-> f, voter |-> job[w].voter, text |-> Row(w)[2]]
     : f \in Audience(job[w].site, job[w].op, job[w].voter)}

\* In this phase nobody finds that his choice is gone before he tells it.
LEMMA Tells ==
  ASSUME TypeOK, Bagged, Voted, NEW w \in Worker, Send(w)
  PROVE  /\ IsVote(w) /\ job[w].at = "send" /\ UNCHANGED poll
         /\ Mail' = Mail \cup Letters(w) /\ Bagged'
         /\ updates' = IF job[w].op = "Note" THEN updates + 1 ELSE updates
         /\ \/ Only(w, NoJob)
            \/ /\ Len(job[w].todo) # 1
               /\ \E j \in VoteJob :
                    /\ Only(w, j) /\ j.op = job[w].op /\ j.site = job[w].site
                    /\ j.voter = job[w].voter /\ j.todo = Tail(job[w].todo) /\ j.at = "look"
<1>1. IsVote(w) /\ job[w].at = "send" /\ UNCHANGED poll
  BY Where DEF Send, At
<1>2. gen[job[w].site] = job[w].gen
  BY <1>1 DEF Voted, JobRight
<1>3. net' = net (+) SetToBag(Letters(w))
      /\ updates' = IF job[w].op = "Note" THEN updates + 1 ELSE updates
  BY <1>2 DEF Send, Letters
<1>4. Mail' = Mail \cup Letters(w) /\ Bagged'
  BY <1>3, MoreBag
<1> QED  BY <1>1, <1>3, <1>4, SendStep

LEMMA SendVoted ==
  ASSUME TypeOK, Bagged, Voted, NEW w \in Worker, Send(w)
  PROVE  Voted'
<1>0. PICK s \in Site, v \in Voter, t \in Text, op \in {"web", "PollVote", "Note"} :
        /\ job[w].site = s /\ job[w].voter = v /\ job[w].op = op
        /\ Row(w) = <<v, t>> /\ Row(w)[2] = t
  BY Tells, VoteJobs DEF IsVote, Row
<1>1. /\ job[w].at = "send" /\ UNCHANGED poll /\ Mail' = Mail \cup Letters(w)
      /\ updates' = IF op = "Note" THEN updates + 1 ELSE updates
  BY <1>0, Tells
<1>2. /\ <<v, t>> \in votes[s] /\ t \in choices["home"]
      /\ op = "web" => s = Lives[v]
      /\ op = "Note" => s = "home" /\ Lives[v] = "microblog"
      /\ op = "PollVote" => Known(s, v, <<v, t>>)
      /\ op # "web" => Len(job[w].todo) = 1
  BY <1>0, <1>1, Tells, Listed DEF Voted, JobRight
<1>3. \A m \in Letters(w) : m.kind = "PollVote" /\ m.voter = v /\ m.text = t
                            /\ From(m) = <<v, t>> /\ m.to \in Audience(s, op, v)
  BY <1>0 DEF Letters, From
<1>4. ASSUME NEW f \in Audience(s, op, v)
      PROVE  \E m \in Letters(w) : m.kind = "PollVote" /\ m.to = f /\ From(m) = <<v, t>>
  <2> DEFINE m == [kind |-> "PollVote", to |-> f, voter |-> v, text |-> t]
  <2>1. m \in Letters(w)
    BY <1>0 DEF Letters
  <2> QED  BY <2>1 DEF From
<1>5. \A f \in Audience(s, op, v) : Comes(f, <<v, t>>)'
  BY <1>1, <1>4 DEF Comes
<1>6. \A f \in Audience(s, op, v) : Known(f, v, <<v, t>>)
  <2>1. CASE s = "home" /\ op = "web"
    BY <1>2, <2>1, Home, PollsAssumption DEF Audience, Known
  <2>2. CASE s = "home" /\ op = "PollVote"
    BY <1>2, <2>2, Home, PollsAssumption DEF Audience, Known
  <2>3. CASE s # "home" /\ op = "web"
    BY <1>0, <1>2, <2>3 DEF Audience, Known, Site
  <2>4. CASE op = "Note" \/ (s # "home" /\ op # "web")
    BY <1>2, <2>4 DEF Audience
  <2> QED  BY <1>0, <2>1, <2>2, <2>3, <2>4
<1>7. \A m \in Mail' : LetterRight(m)'
  <2>1. \A m \in Mail : LetterRight(m)'
    BY <1>1, LetterStays DEF Voted, poll
  <2>2. \A m \in Letters(w) : LetterRight(m)
    BY <1>2, <1>3, <1>6 DEF LetterRight
  <2>3. \A m \in Letters(w) : LetterRight(m)'
    BY <1>1, <2>2 DEF LetterRight, Known, poll
  <2> QED  BY <1>1, <2>1, <2>3
<1>8. PICK j \in {NoJob} \cup VoteJob :
        /\ Only(w, j)
        /\ j # NoJob =>
             /\ j \in VoteJob /\ Len(job[w].todo) # 1 /\ j.op = op /\ j.site = s /\ j.voter = v
             /\ j.todo = Tail(job[w].todo) /\ j.at = "look"
  BY <1>0, Tells
<1>9. job'[w] = j
  BY <1>8, Others
<1>10. JobRight(w)'
  <2>1. CASE j = NoJob
    BY <1>9, <2>1 DEF JobRight, IsVote, NoJob
  <2>2. CASE j # NoJob
    <3>1. op = "web" /\ j.op = "web" /\ j.site = Lives[v] /\ j.voter = v /\ j.at = "look"
      BY <1>2, <1>8, <2>2
    <3>2. job[w].todo \in Seq(Text) /\ job[w].todo # <<>> /\ IsVote(w)
      BY Tells, VoteJobs
    <3>3. \A i \in 1 .. Len(j.todo) : j.todo[i] \in choices["home"]
      <4>1. \A i \in 1 .. Len(job[w].todo) : job[w].todo[i] \in choices["home"]
        BY <3>2 DEF Voted, JobRight
      <4> DEFINE q == job[w].todo
      <4>2. q \in Seq(Text) /\ q # <<>> /\ j.todo = Tail(q)
            /\ \A i \in 1 .. Len(q) : q[i] \in choices["home"]
        BY <1>8, <2>2, <3>2, <4>1
      <4> HIDE DEF q
      <4>3. Len(Tail(q)) = Len(q) - 1 /\ \A i \in 1 .. Len(Tail(q)) : Tail(q)[i] = q[i + 1]
        BY <4>2, HeadTailProperties
      <4>4. Len(q) \in Nat
        BY <4>2
      <4>5. \A i \in 1 .. Len(q) - 1 : i + 1 \in 1 .. Len(q)
        BY <4>4
      <4> QED  BY <4>2, <4>3, <4>5
    <3> QED  BY <1>1, <1>9, <3>1, <3>3 DEF JobRight, poll
  <2> QED  BY <2>1, <2>2
<1>11. updates' > 0 => votes["home"] # {}
  BY <1>0, <1>1, <1>2 DEF Voted
<1>12. \A f, r : ~Coming(w, f, r)
  BY <1>1 DEF Coming
<1>13. ASSUME NEW r, HomeTells(w, r), NEW f \in Follower, f # Lives[r[1]]
       PROVE  Comes(f, r)'
  <2>1. r = <<v, t>> /\ s = "home" /\ op \in {"web", "PollVote"} /\ r[1] = v
    BY <1>0, <1>1, <1>13 DEF HomeTells
  <2>2. f \in Audience(s, op, v)
    BY <1>13, <2>1 DEF Audience
  <2> QED  BY <1>5, <2>1, <2>2
<1>14. ASSUME NEW f, NEW r, Reports(w, f, r), f # "home" PROVE Comes("home", r)'
  <2>1. r = <<v, t>> /\ s # "home" /\ op = "web"
    BY <1>0, <1>1, <1>14 DEF Reports
  <2>2. "home" \in Audience(s, op, v)
    BY <2>1 DEF Audience
  <2> QED  BY <1>5, <2>1, <2>2
<1>15. UNCHANGED <<choices, gen, mode, votes, tally>>
  BY <1>1 DEF poll
<1>16. \A m \in Mail : m \in Mail'
  BY <1>1
<1> QED
  BY <1>7, <1>8, <1>10, <1>11, <1>12, <1>13, <1>14, <1>15, <1>16, VotedStep

\* A step of no worker: it changes no vote, and not the counts at home.
LEMMA VotedMail ==
  ASSUME TypeOK, Voted, UNCHANGED <<choices, gen, mode, votes, job>>,
         tally'["home"] = tally["home"],
         \A m \in Mail' : LetterRight(m)',
         updates' > 0 => votes["home"] # {},
         \A m \in Mail : m.kind = "PollVote" => m \in Mail'
  PROVE  Voted'
<1>1. \A u \in Worker : (Idle(u) \/ IsVote(u))' /\ JobRight(u)'
  BY JobStays DEF Voted, Idle, IsVote
<1>2. \A s, r : Comes(s, r) => Comes(s, r)'
  BY DEF Comes, Coming, Row
<1>3. \A u, f, r : /\ HomeTells(u, r) => HomeTells(u, r)'
                   /\ Reports(u, f, r) => Reports(u, f, r)'
  BY DEF HomeTells, Reports, Row
<1>4. Told("home")' = Told("home")
  BY DEF Told
<1>5. Down' /\ Up'
  BY <1>2, <1>3, <1>4 DEF Voted, Down, Up
<1>6. \A f \in Follower : SamePoll(f)'
  BY DEF Voted, SamePoll
<1> QED  BY <1>1, <1>5, <1>6 DEF Voted

LEMMA NoteVoteVoted ==
  ASSUME TypeOK, Bagged, Voted, NEW v \in Voter, NEW t \in Text, NoteVote(v, t)
  PROVE  Voted'
<1> DEFINE n == [kind |-> "Note", to |-> "home", voter |-> v, text |-> t]
<1>1. UNCHANGED <<choices, gen, mode, votes, tally, job, updates>> /\ Lives[v] = "microblog"
      /\ t \in choices["home"] /\ net' = net (+) SetToBag({n})
  BY DEF NoteVote, poll
<1>2. LetterRight(n)
  BY <1>1 DEF LetterRight
<1> HIDE DEF n
<1>3. Mail' = Mail \cup {n}
  BY <1>1, MoreBag
<1>4. \A m \in Mail : LetterRight(m)'
  BY <1>1, LetterStays DEF Voted
<1>5. LetterRight(n)'
  BY <1>1, <1>2 DEF LetterRight, Known
<1>6. updates' > 0 => votes["home"] # {}
  BY <1>1 DEF Voted
<1> QED  BY <1>1, <1>3, <1>4, <1>5, <1>6, VotedMail

\* What home tells the followers.
Updates ==
  {[kind |-> "Update", to |-> f, mode |-> mode["home"], totals |-> Totals] : f \in Follower}

LEMMA Telling ==
  ASSUME TypeOK, Bagged, SendUpdate
  PROVE  /\ updates > 0 /\ updates' = updates - 1 /\ updates \in Nat
         /\ Mail' = Mail \cup Updates /\ Bagged' /\ UNCHANGED <<poll, job>>
         /\ \A f \in Follower : \E m \in Updates : m.to = f
         /\ \A m \in Updates : /\ m.kind = "Update" /\ m.mode = mode["home"]
                               /\ m.totals = Totals /\ m.to \in Follower
         /\ DOMAIN Totals = choices["home"]
<1>1. net' = net (+) SetToBag(Updates)
  BY DEF SendUpdate, Updates, Totals
<1>2. Mail' = Mail \cup Updates /\ Bagged'
  BY <1>1, MoreBag
<1>3. ASSUME NEW f \in Follower PROVE \E m \in Updates : m.to = f
  <2> DEFINE m == [kind |-> "Update", to |-> f, mode |-> mode["home"], totals |-> Totals]
  <2>1. m \in Updates
    BY DEF Updates
  <2> QED  BY <2>1
<1>4. \A m \in Updates : /\ m.kind = "Update" /\ m.mode = mode["home"]
                         /\ m.totals = Totals /\ m.to \in Follower
  BY DEF Updates
<1> QED  BY <1>2, <1>3, <1>4, Tables DEF SendUpdate, Totals

\* Totals that are told while votes make their way are not all zero.
LEMMA SendUpdateVoted ==
  ASSUME TypeOK, KeyInv, Bagged, Voted, SendUpdate
  PROVE  Voted'
<1>1. PICK r \in votes["home"] : tally["home"][r[2]] >= 1
  BY Telling DEF Voted
<1>2. r[2] \in choices["home"]
  BY <1>1, Home DEF KeyInv, Referred
<1>3. r[2] \in Text /\ tally["home"][r[2]] \in Nat
  BY <1>2, Home, Tables
<1>4. ~IsEdit(Totals)
  <2>1. PICK t \in choices["home"] : t = r[2]
    BY <1>2
  <2>2. t \in DOMAIN Totals /\ Totals[t] = tally["home"][t]
    BY DEF Totals
  <2>3. Totals[t] # 0
    BY <1>1, <1>3, <2>1, <2>2
  <2> QED  BY <2>2, <2>3 DEF IsEdit
<1>5. \A m \in Updates : LetterRight(m)'
  BY <1>4, Telling DEF LetterRight
<1>6. \A m \in Mail : LetterRight(m)'
  BY Telling, LetterStays DEF Voted, poll
<1>7. updates' > 0 => votes["home"] # {}
  BY <1>1
<1> QED  BY <1>5, <1>6, <1>7, Telling, VotedMail DEF poll

LEMMA ReceiveUpdateVoted ==
  ASSUME TypeOK, Bagged, Voted, NEW m \in Mail, ReceiveUpdate(m)
  PROVE  Voted'
<1>1. m.kind = "Update" /\ ~IsEdit(m.totals) /\ m.to \in Follower
  BY Letter DEF Voted, LetterRight, ReceiveUpdate
<1>2. /\ UNCHANGED <<choices, gen, mode, votes, job, updates>>
      /\ tally' = [tally EXCEPT ![m.to] = NewTotals(m.to, m.totals)]
      /\ net' = net (-) SetToBag({m})
  BY <1>1 DEF ReceiveUpdate
<1>3. tally'["home"] = tally["home"]
  BY <1>1, <1>2, Home, Tables
<1>4. Mail' \subseteq Mail /\ \A n \in Mail : n # m => n \in Mail'
  BY <1>2, LessBag
<1>5. \A n \in Mail' : LetterRight(n)'
  BY <1>2, <1>4, LetterStays DEF Voted
<1>6. updates' > 0 => votes["home"] # {}
  BY <1>2 DEF Voted
<1> QED  BY <1>1, <1>2, <1>3, <1>4, <1>5, <1>6, VotedMail

\* Votes that make their way go on to do so, until the author edits.
LEMMA VotedNext ==
  ASSUME TypeOK, KeyInv, Bagged, Voted, Next,
         \A w \in Worker, ts \in SUBSET Text \ {{}}, m \in Mode : ~Edit(w, ts, m)
  PROVE  Voted'
<1>1. \A t, u \in Text : <<t>> \in Seq(Text) \ {<<>>} /\ <<t, u>> \in Seq(Text) \ {<<>>}
  OBVIOUS
<1>2. ASSUME NEW w \in Worker, NEW v \in Voter, NEW t \in Text, NEW u \in Text,
             Vote(w, v, <<t>>) \/ Vote(w, v, <<t, u>>)
      PROVE  Voted'
  BY <1>1, <1>2, VoteVoted
<1>3. ASSUME NEW w \in Worker, Wipe(w) \/ Refill(w) PROVE FALSE
  BY <1>3, Where, EditJobs DEF Voted, Wipe, Refill
<1> QED
  BY <1>2, <1>3, ReceiveVoteVoted, LookVoted, InsertVoted, CommitVoted, SendVoted,
     NoteVoteVoted, SendUpdateVoted, ReceiveUpdateVoted DEF Next, Mail

-----------------------------------------------------------------------------
(***************************************************************************)
(* An edit alone.                                                          *)
(***************************************************************************)
LEMMA RenewedJobs ==
  ASSUME TypeOK, Renewed
  PROVE  /\ \A w \in Worker : ~IsVote(w)
         /\ \A s : MayWipe(s)
<1>1. \A w \in Worker : ~IsVote(w)
  BY Where, EditJobs DEF Renewed, Edits
<1>2. \A s : Uncommitted(s) = {}
  BY <1>1, Where DEF Uncommitted
<1> QED  BY <1>1, <1>2 DEF MayWipe

LEMMA WipeRenewed ==
  ASSUME TypeOK, KeyInv, Bagged, Renewed, NEW w \in Worker, Wipe(w)
  PROVE  Renewed'
<1>1. Edits(w) /\ MayWipe("home") /\ ~AllIdle
  BY Where, EditJobs, RenewedJobs DEF Wipe, Edits, AllIdle
<1>2. PICK j \in EditJob : Only(w, j) /\ j.op = "edit" /\ j.at = "refill"
  BY <1>1, WipeStep
<1>3. job'[w] = j /\ \A u \in Worker : u # w => job'[u] = job[u]
  BY <1>2, Others
<1>4. Edits(w)' /\ ~AllIdle' /\ \A u \in Worker : (Idle(u) \/ Edits(u))'
  BY <1>2, <1>3 DEF Renewed, Idle, Edits, AllIdle, NoJob
<1>5. Mail = {} /\ updates = 0 /\ Mail' = {} /\ updates' = 0
  BY <1>1, SameBag DEF Renewed, Wipe
<1>6. Blank("home")'
  BY <1>1, Home, Tables DEF Wipe, Blank
<1> QED  BY <1>4, <1>5, <1>6 DEF Renewed

LEMMA RefillRenewed ==
  ASSUME TypeOK, KeyInv, Bagged, Renewed, NEW w \in Worker, Refill(w)
  PROVE  Renewed'
<1>1. Edits(w) /\ job[w].at = "refill" /\ ~AllIdle
  BY Where, EditJobs DEF Refill, Edits, AllIdle, At
<1>2. Only(w, NoJob) /\ updates' = updates + 1 /\ UNCHANGED <<votes, tally, net>>
  BY DEF Refill, End, Only
<1>3. job'[w] = NoJob /\ \A u \in Worker : u # w => job'[u] = job[u]
  BY <1>2, Others
<1>4. \A u \in Worker : Edits(u) => u = w
  BY <1>1 DEF KeyInv, Alone
<1>5. AllIdle'
  BY <1>3, <1>4 DEF Renewed, AllIdle, Idle
<1>6. Mail = {} /\ updates = 0 /\ Mail' = {} /\ updates' = 1
  BY <1>1, <1>2, SameBag DEF Renewed
<1>7. Blank("home")
  BY <1>1, <1>4 DEF Renewed
<1>8. Blank("home")'
  BY <1>2, <1>7 DEF Blank
<1>9. \A u \in Worker : (Idle(u) \/ Edits(u))'
  BY <1>5 DEF AllIdle
<1> QED  BY <1>5, <1>6, <1>8, <1>9 DEF Renewed

LEMMA SendUpdateRenewed ==
  ASSUME TypeOK, Bagged, Renewed, SendUpdate
  PROVE  Renewed'
<1>1. AllIdle /\ updates > 0 /\ UNCHANGED <<poll, job>>
  BY Telling DEF Renewed
<1>2. AllIdle' /\ \A u \in Worker : (Idle(u) \/ Edits(u))'
  BY <1>1 DEF AllIdle, Idle
<1>3. \A u \in Worker : ~Edits(u)
  BY <1>1, Where DEF AllIdle, Edits
<1>4. Blank("home") /\ Blank("home")'
  BY <1>1, <1>3 DEF Renewed, Blank, poll
<1>5. IsEdit(Totals)
  <2>1. \A t \in choices["home"] : tally["home"][t] = 0
    BY <1>4, Home, Tables DEF Blank, NoVotes
  <2> QED  BY <2>1 DEF IsEdit, Totals
<1>6. \A m \in Mail' : /\ m.kind = "Update" /\ m.mode = mode'["home"]
                       /\ DOMAIN m.totals = choices'["home"] /\ IsEdit(m.totals)
  BY <1>1, <1>5, Telling DEF Renewed, poll
<1>7. \A f \in Follower : \E m \in Mail' : m.to = f
  BY Telling
<1> QED  BY <1>2, <1>4, <1>6, <1>7 DEF Renewed

LEMMA ReceiveUpdateRenewed ==
  ASSUME TypeOK, Bagged, Renewed, NEW m \in Mail, ReceiveUpdate(m)
  PROVE  Renewed'
<1>1. /\ m.to \in Follower /\ m.to \in Site /\ m.to # "home" /\ IsEdit(m.totals) /\ AllIdle
      /\ m.mode = mode["home"] /\ DOMAIN m.totals = choices["home"] /\ MayWipe(m.to)
  BY Letter, Home, RenewedJobs DEF Renewed, ReceiveUpdate
<1>2. /\ choices' = [choices EXCEPT ![m.to] = choices["home"]]
      /\ mode' = [mode EXCEPT ![m.to] = mode["home"]]
      /\ votes' = [votes EXCEPT ![m.to] = {}] /\ tally' = [tally EXCEPT ![m.to] = NoVotes]
      /\ job' = job /\ updates' = updates /\ net' = net (-) SetToBag({m})
  BY <1>1 DEF ReceiveUpdate
<1>3. Mail' \subseteq Mail /\ \A n \in Mail : n # m => n \in Mail'
  BY <1>2, LessBag
<1>4. /\ SamePoll(m.to)' /\ Blank(m.to)'
      /\ \A f \in Follower : f # m.to /\ SamePoll(f) /\ Blank(f) => SamePoll(f)' /\ Blank(f)'
      /\ choices'["home"] = choices["home"] /\ mode'["home"] = mode["home"]
      /\ Blank("home") => Blank("home")'
  BY <1>1, <1>2, Home, Tables DEF SamePoll, Blank
<1>5. AllIdle' /\ \A u \in Worker : (Idle(u) \/ Edits(u))' /\ Edits(u)' = Edits(u)
  BY <1>1, <1>2 DEF AllIdle, Idle, Edits
<1>6. Blank("home")'
  BY <1>1, <1>4, Where DEF Renewed, AllIdle, Edits
<1>7. updates' = 0 =>
        \A f \in Follower : (SamePoll(f) /\ Blank(f))' \/ \E n \in Mail' : n.to = f
  <2> SUFFICES ASSUME updates = 0, NEW f \in Follower, f # m.to
               PROVE  (SamePoll(f) /\ Blank(f))' \/ \E n \in Mail' : n.to = f
    BY <1>2, <1>4
  <2>1. (SamePoll(f) /\ Blank(f)) \/ \E n \in Mail : n.to = f
    BY <1>1 DEF Renewed
  <2> QED  BY <1>3, <1>4, <2>1
<1>8. \A n \in Mail' : /\ n.kind = "Update" /\ n.mode = mode'["home"]
                       /\ DOMAIN n.totals = choices'["home"] /\ IsEdit(n.totals)
  BY <1>3, <1>4 DEF Renewed
<1> QED  BY <1>5, <1>6, <1>7, <1>8 DEF Renewed

\* An edit that nobody disturbs is carried through.
LEMMA RenewedNext ==
  ASSUME TypeOK, KeyInv, Bagged, Renewed, Next,
         \A w \in Worker, ts \in SUBSET Text \ {{}}, m \in Mode : ~Edit(w, ts, m),
         \A w \in Worker, v \in Voter : \A todo : ~Vote(w, v, todo),
         \A v \in Voter, t \in Text : ~NoteVote(v, t)
  PROVE  Renewed'
<1>1. ASSUME NEW w \in Worker, NEW m \in Mail, ReceiveVote(w, m) PROVE FALSE
  BY <1>1 DEF Renewed, ReceiveVote
<1>2. ASSUME NEW w \in Worker, Look(w) \/ Insert(w) \/ Commit(w) \/ Send(w) PROVE FALSE
  BY <1>2, Where, RenewedJobs DEF Look, Insert, Commit, Send
<1> QED
  BY <1>1, <1>2, WipeRenewed, RefillRenewed, SendUpdateRenewed, ReceiveUpdateRenewed
     DEF Next, Mail

-----------------------------------------------------------------------------
(***************************************************************************)
(* Votes counted once on each instance.                                    *)
(***************************************************************************)
LEMMA SameTellers ==
  ASSUME NEW s, votes'[s] = votes[s], tally'[s] = tally[s]
  PROVE  \A t : Tellers(s, t)' = Tellers(s, t) /\ Tally(s, t)' = Tally(s, t)
<1>1. \A t : Tellers(s, t)' = Tellers(s, t)
  BY DEF Tellers
<1> QED  BY <1>1 DEF Tally

\* One more person has chosen this.
LEMMA OneMoreTells ==
  ASSUME NEW s, NEW v \in Voter, NEW t, IsFiniteSet(Tellers(s, t)),
         <<v, t>> \notin votes[s], votes'[s] = votes[s] \cup {<<v, t>>}
  PROVE  /\ IsFiniteSet(Tellers(s, t)')
         /\ Lives[v] # "microblog" =>
              Cardinality(Tellers(s, t)') = Cardinality(Tellers(s, t)) + 1
         /\ \A u : u # t => Tellers(s, u)' = Tellers(s, u)
<1>1. \A u : u # t => Tellers(s, u)' = Tellers(s, u)
  BY DEF Tellers
<1>2. CASE Lives[v] = "microblog"
  <2>1. Tellers(s, t)' = Tellers(s, t)
    BY <1>2 DEF Tellers
  <2> QED  BY <1>1, <1>2, <2>1
<1>3. CASE Lives[v] # "microblog"
  <2>1. Tellers(s, t)' = Tellers(s, t) \cup {v} /\ v \notin Tellers(s, t)
    BY <1>3 DEF Tellers
  <2> QED  BY <1>1, <2>1, FS_AddElement
<1> QED  BY <1>2, <1>3

\* A commit writes a row that is not there.
LEMMA Written ==
  ASSUME TypeOK, KeyInv, NEW w \in Worker, Commit(w)
  PROVE  \E s \in Site, v \in Voter, t \in Text, n \in Nat :
           /\ IsVote(w) /\ job[w].site = s /\ job[w].voter = v /\ job[w].num = n
           /\ Row(w) = <<v, t>> /\ <<v, t>> \notin votes[s]
           /\ votes'[s] = votes[s] \cup {<<v, t>>}
           /\ \A o \in Site : o # s => votes'[o] = votes[o] /\ tally'[o] = tally[o]
           /\ tally'[s][t] = n + 1 /\ \A u \in Text : u # t => tally'[s][u] = tally[s][u]
           /\ NothingLost' => tally[s][t] = n
<1>1. PICK s \in Site, v \in Voter, t \in Text, n \in Nat :
        /\ IsVote(w) /\ job[w].site = s /\ job[w].voter = v /\ job[w].num = n
        /\ Row(w) = <<v, t>> /\ Row(w)[2] = t
  BY Where, VoteJobs DEF Commit, Row
<1>2. /\ votes' = [votes EXCEPT ![s] = @ \cup {<<v, t>>}]
      /\ tally' = [tally EXCEPT ![s][t] = n + 1]
  BY <1>1 DEF Commit
<1>2a. NothingLost' => tally[s][t] = n
  BY <1>1 DEF Commit, NothingLost
<1>3. <<v, t>> \notin votes[s]
  BY <1>1, Where DEF Commit, At, Commits, KeyInv, Keyed
<1>4. /\ votes'[s] = votes[s] \cup {<<v, t>>}
      /\ \A o \in Site : o # s => votes'[o] = votes[o] /\ tally'[o] = tally[o]
      /\ tally'[s][t] = n + 1 /\ \A u \in Text : u # t => tally'[s][u] = tally[s][u]
  BY <1>2, Tables
<1> QED  BY <1>1, <1>2a, <1>3, <1>4

LEMMA NextCounters == TypeOK /\ KeyInv /\ Counters /\ [Next]_vars => Counters'
<1> SUFFICES ASSUME TypeOK, KeyInv, Counters, [Next]_vars PROVE Counters'
  OBVIOUS
<1>1. ASSUME \A s \in Site : votes'[s] = votes[s] \/ votes'[s] = {}
      PROVE  Counters'
  <2> SUFFICES ASSUME NEW s \in Site, NEW t \in Text PROVE IsFiniteSet(Tellers(s, t)')
    BY DEF Counters
  <2>1. Tellers(s, t)' = Tellers(s, t) \/ Tellers(s, t)' = {}
    BY <1>1 DEF Tellers
  <2> QED  BY <2>1, FS_EmptySet DEF Counters
<1>2. CASE UNCHANGED votes
  BY <1>1, <1>2
<1>3. ASSUME NEW w \in Worker, Commit(w) PROVE Counters'
  <2>1. PICK s \in Site, v \in Voter, t \in Text :
          /\ <<v, t>> \notin votes[s] /\ votes'[s] = votes[s] \cup {<<v, t>>}
          /\ \A o \in Site : o # s => votes'[o] = votes[o]
    BY <1>3, Written
  <2>2. IsFiniteSet(Tellers(s, t)') /\ \A u : u # t => Tellers(s, u)' = Tellers(s, u)
    BY <2>1, OneMoreTells DEF Counters
  <2>3. \A o \in Site : \A u : o # s => Tellers(o, u)' = Tellers(o, u)
    BY <2>1 DEF Tellers
  <2> QED  BY <2>2, <2>3 DEF Counters
<1>4. ASSUME NEW w \in Worker, Wipe(w) PROVE Counters'
  BY <1>1, <1>2, <1>4, Home, Tables DEF Wipe
<1>5. ASSUME NEW m \in BagToSet(net), ReceiveUpdate(m) PROVE Counters'
  BY <1>1, <1>2, <1>5, Tables DEF ReceiveUpdate, poll
<1>6. CASE Next
  <2>1. ASSUME NEW w \in Worker, Look(w) \/ Insert(w) \/ Send(w) \/ Refill(w)
        PROVE  UNCHANGED votes
    BY <2>1 DEF Look, Insert, Send, Refill, poll
  <2>2. /\ \A w, v, ts : Vote(w, v, ts) => UNCHANGED votes
        /\ \A w, m : ReceiveVote(w, m) => UNCHANGED votes
        /\ \A w, ts, o : Edit(w, ts, o) => UNCHANGED votes
    BY DEF Vote, ReceiveVote, Edit, poll
  <2>3. (\E v, t : NoteVote(v, t)) \/ SendUpdate => UNCHANGED votes
    BY DEF NoteVote, SendUpdate, poll
  <2>4. CASE UNCHANGED votes
    BY <2>4, <1>2
  <2> QED  BY <1>3, <1>4, <1>5, <1>6, <2>1, <2>2, <2>3, <2>4 DEF Next
<1> QED  BY <1>2, <1>6 DEF vars

\* All jobs and messages are about votes of users of the instances.
LEMMA AlikeStep ==
  ASSUME TypeOK, Alike, UNCHANGED <<votes, tally>>, updates' = 0,
         \A m \in Mail' : m.kind = "PollVote",
         \A w \in Worker : job'[w].op # "Note"
  PROVE  Alike'
<1>1. \A s, t : Tally(s, t)' = Tally(s, t)
  BY SameTellers
<1> QED  BY <1>1 DEF Alike

LEMMA CommitAlike ==
  ASSUME TypeOK, KeyInv, Bagged, Counters, Voted, Alike, NEW w \in Worker, Commit(w),
         NothingLost'
  PROVE  Alike'
<1>1. PICK s \in Site, v \in Voter, t \in Text, n \in Nat :
        /\ IsVote(w) /\ job[w].site = s /\ job[w].voter = v /\ job[w].num = n
        /\ Row(w) = <<v, t>> /\ <<v, t>> \notin votes[s]
        /\ votes'[s] = votes[s] \cup {<<v, t>>}
        /\ \A o \in Site : o # s => votes'[o] = votes[o] /\ tally'[o] = tally[o]
        /\ tally'[s][t] = n + 1 /\ \A u \in Text : u # t => tally'[s][u] = tally[s][u]
        /\ NothingLost' => tally[s][t] = n
  BY Written
<1>2. Lives[v] # "microblog"
  <2>1. job[w].op = "web" => Lives[v] = s
    BY <1>1 DEF Voted, JobRight
  <2>2. job[w].op = "PollVote" => Known(s, v, <<v, t>>)
    BY <1>1 DEF Voted, JobRight
  <2>3. job[w].op \in {"web", "PollVote"}
    BY <1>1 DEF Alike, IsVote
  <2> QED  BY <2>1, <2>2, <2>3, NotMicroblog, Home DEF Known
<1>3. /\ Cardinality(Tellers(s, t)') = Cardinality(Tellers(s, t)) + 1
      /\ \A u : u # t => Tellers(s, u)' = Tellers(s, u)
      /\ Cardinality(Tellers(s, t)) \in Nat
  <2>1. IsFiniteSet(Tellers(s, t))
    BY DEF Counters
  <2>2. Cardinality(Tellers(s, t)) \in Nat
    BY <2>1, FS_CardinalityType
  <2> QED  BY <1>1, <1>2, <2>1, <2>2, OneMoreTells
<1>4. Tally(s, t)' = Tally(s, t)
  BY <1>1, <1>3 DEF Tally
<1>5. \A u \in Text : u # t => Tally(s, u)' = Tally(s, u)
  BY <1>1, <1>3 DEF Tally
<1>6. \A o \in Site : \A u : o # s => Tally(o, u)' = Tally(o, u)
  BY <1>1, SameTellers
<1>7. \A o \in Site, u \in Text : Tally(o, u)' = Tally(o, u)
  BY <1>4, <1>5, <1>6
<1>8. PICK j \in VoteJob : Only(w, j) /\ j.op = job[w].op
  BY CommitStep DEF GoesOn
<1>9. \A u \in Worker : job'[u].op = job[u].op
  BY <1>8, Others
<1>10. updates' = updates /\ Mail' = Mail
  BY SameBag DEF Commit
<1> QED  BY <1>7, <1>9, <1>10, Home DEF Alike

LEMMA AlikeJob ==
  ASSUME TypeOK, Alike, NEW w \in Worker, NEW j \in {NoJob} \cup VoteJob, Only(w, j),
         j.op # "Note", UNCHANGED <<poll, updates>>, \A m \in Mail' : m.kind = "PollVote"
  PROVE  Alike'
<1>1. \A u \in Worker : job'[u].op # "Note"
  BY Others DEF Alike
<1> QED  BY <1>1, AlikeStep DEF Alike, poll

LEMMA VoteAlike ==
  ASSUME TypeOK, Bagged, Alike, NEW w \in Worker, NEW v \in Voter,
         NEW todo \in Seq(Text) \ {<<>>}, Vote(w, v, todo)
  PROVE  Alike'
<1>1. PICK j \in VoteJob : Only(w, j) /\ j.op = "web"
  BY BeginType DEF Vote
<1>2. UNCHANGED <<poll, updates>> /\ Mail' = Mail
  BY SameBag DEF Vote
<1>3. \A m \in Mail' : m.kind = "PollVote"
  BY <1>2 DEF Alike
<1> QED  BY <1>1, <1>2, <1>3, AlikeJob

\* As long as only such votes are cast, no step counts one twice or not at all.
LEMMA AlikeNext ==
  ASSUME TypeOK, KeyInv, Bagged, Counters, Voted, Alike, Next, NothingLost',
         \A w \in Worker, ts \in SUBSET Text \ {{}}, m \in Mode : ~Edit(w, ts, m),
         \A w \in Worker, v \in Voter : \A todo : ~Vote(w, v, todo),
         \A v \in Voter, t \in Text : ~NoteVote(v, t)
  PROVE  Alike'
<1>1. NoJob.op # "Note"
  BY DEF NoJob
<1>2. ASSUME NEW w \in Worker, NEW m \in Mail, ReceiveVote(w, m) PROVE Alike'
  <2>1. m \in VoteMessage /\ m.kind = "PollVote"
    BY <1>2, Letter DEF Alike
  <2> DEFINE op == m.kind  to == m.to  v == m.voter  todo == <<m.text>>
  <2>2. op \in {"web", "PollVote", "Note"} /\ to \in Site /\ v \in Voter
        /\ todo \in Seq(Text) \ {<<>>} /\ Begin(w, op, to, v, todo) /\ op = "PollVote"
    BY <1>2, <2>1 DEF ReceiveVote, VoteMessage
  <2> HIDE DEF op, to, v, todo
  <2>3. PICK j \in VoteJob : Only(w, j) /\ j.op = op
    BY <2>2, BeginType
  <2>4. UNCHANGED <<poll, updates>> /\ Mail' \subseteq Mail
    BY <1>2, LessBag DEF ReceiveVote
  <2> QED  BY <2>2, <2>3, <2>4, AlikeJob DEF Alike
<1>3. ASSUME NEW w \in Worker, Look(w) \/ Insert(w) PROVE Alike'
  <2>1. PICK j \in {NoJob} \cup VoteJob : Only(w, j) /\ (j = NoJob \/ j.op = job[w].op)
    BY <1>3, LookStep, InsertStep DEF GoesOn
  <2>2. UNCHANGED <<poll, updates>> /\ Mail' = Mail
    BY <1>3, SameBag DEF Look, Insert
  <2> QED  BY <1>1, <2>1, <2>2, AlikeJob DEF Alike
<1>4. ASSUME NEW w \in Worker, Send(w) PROVE Alike'
  <2>1. PICK j \in {NoJob} \cup VoteJob : Only(w, j) /\ (j = NoJob \/ j.op = job[w].op)
    BY <1>4, Tells
  <2>2. UNCHANGED <<poll, updates>> /\ Mail' = Mail \cup Letters(w)
    BY <1>4, Tells DEF Alike
  <2>3. \A m \in Letters(w) : m.kind = "PollVote"
    BY DEF Letters
  <2> QED  BY <1>1, <2>1, <2>2, <2>3, AlikeJob DEF Alike
<1>5. ASSUME NEW w \in Worker, Wipe(w) \/ Refill(w) PROVE FALSE
  BY <1>5, Where, EditJobs DEF Voted, Wipe, Refill
<1>6. ~SendUpdate
  BY DEF Alike, SendUpdate
<1>7. \A m \in Mail : ~ReceiveUpdate(m)
  BY DEF Alike, ReceiveUpdate
<1> QED
  BY <1>2, <1>3, <1>4, <1>5, <1>6, <1>7, CommitAlike DEF Next, Mail

-----------------------------------------------------------------------------
(***************************************************************************)
(* One vote from a microblog.                                              *)
(***************************************************************************)
LEMMA NoteComesNext ==
  ASSUME TypeOK, Bagged, Voted, NoteComes, Next,
         \A w \in Worker, ts \in SUBSET Text \ {{}}, m \in Mode : ~Edit(w, ts, m),
         \A w \in Worker, v \in Voter : \A todo : ~Vote(w, v, todo),
         \A v \in Voter, t \in Text : ~NoteVote(v, t)
  PROVE  NoteCounts'
<1>1. PICK m \in Mail : m.kind = "Note" /\ net = SetToBag({m})
  BY DEF NoteComes
<1>2. Mail = {m}
  BY <1>1, OneLetter DEF Mail
<1>3. ~SendUpdate /\ \A n \in Mail : ~ReceiveUpdate(n)
  BY <1>1, <1>2 DEF NoteComes, SendUpdate, ReceiveUpdate
<1>4. \A w \in Worker : ~(Look(w) \/ Insert(w) \/ Commit(w) \/ Send(w) \/ Wipe(w) \/ Refill(w))
  BY DEF NoteComes, AllIdle, Look, Insert, Commit, Send, Wipe, Refill, At
<1>5. PICK w \in Worker : ReceiveVote(w, m)
  BY <1>2, <1>3, <1>4 DEF Next, Mail
<1>6. m \in VoteMessage /\ UNCHANGED <<poll, updates>> /\ net' = net (-) SetToBag({m})
  BY <1>1, <1>5, Letter DEF ReceiveVote
<1>7. Mail' = {}
  BY <1>1, <1>6, OneLetter DEF Mail
<1> DEFINE op == m.kind  to == m.to  v == m.voter  todo == <<m.text>>
<1>8. op \in {"web", "PollVote", "Note"} /\ to \in Site /\ v \in Voter
      /\ todo \in Seq(Text) \ {<<>>} /\ Begin(w, op, to, v, todo) /\ op = "Note"
  BY <1>1, <1>5, <1>6 DEF ReceiveVote, VoteMessage
<1> HIDE DEF op, to, v, todo
<1>9. PICK j \in VoteJob : Only(w, j) /\ j.op = op
  BY <1>8, BeginType
<1>10. job'[w].op = "Note" /\ \A u \in Worker \ {w} : Idle(u)'
  BY <1>8, <1>9, Others DEF NoteComes, AllIdle, Idle
<1>11. Level' /\ LevelOff' /\ updates' = 0
  BY <1>6, Home DEF NoteComes, Level, LevelOff, poll
<1> QED  BY <1>7, <1>10, <1>11 DEF NoteCounts

LEMMA NoteCountsNext ==
  ASSUME TypeOK, KeyInv, Bagged, Voted, NoteCounts, Next,
         \A w \in Worker, ts \in SUBSET Text \ {{}}, m \in Mode : ~Edit(w, ts, m),
         \A w \in Worker, v \in Voter : \A todo : ~Vote(w, v, todo),
         \A v \in Voter, t \in Text : ~NoteVote(v, t)
  PROVE  OneNote'
<1>1. PICK w \in Worker : /\ job[w].op = "Note" /\ \A u \in Worker \ {w} : Idle(u)
                          /\ job[w].at # "send" => Level
  BY DEF NoteCounts
<1>2. IsVote(w) /\ JobRight(w) /\ job[w].site = "home" /\ Len(job[w].todo) = 1
  BY <1>1 DEF IsVote, Voted, JobRight
<1>3. Look(w) \/ Insert(w) \/ Commit(w) \/ Send(w)
  <2>1. \A m \in Mail : FALSE
    BY DEF NoteCounts
  <2>2. ~SendUpdate
    BY DEF NoteCounts, SendUpdate
  <2>3. \A u \in Worker : ~Wipe(u) /\ ~Refill(u)
    BY Where, EditJobs DEF Voted, Wipe, Refill
  <2>4. \A u \in Worker \ {w} : ~(Look(u) \/ Insert(u) \/ Commit(u) \/ Send(u))
    BY <1>1 DEF Look, Insert, Commit, Send, At
  <2> QED  BY <2>1, <2>2, <2>3, <2>4 DEF Next, Mail
<1>4. ASSUME NEW j \in VoteJob, GoesOn(w, j), UNCHANGED <<net, updates>>,
             LevelOff', j.at # "send" => Level'
      PROVE  NoteCounts'
  <2>1. job'[w].op = "Note" /\ job'[w].at = j.at /\ \A u \in Worker \ {w} : Idle(u)'
    BY <1>1, <1>2, <1>4, SameRow DEF GoesOn, Idle
  <2>2. Mail' = {} /\ updates' = 0
    BY <1>4, SameBag DEF NoteCounts
  <2> QED  BY <1>4, <2>1, <2>2 DEF NoteCounts
<1>5. CASE Look(w)
  <2>1. UNCHANGED <<poll, net, updates>> /\ job[w].at = "look" /\ Level
    BY <1>1, <1>5 DEF Look, At
  <2>2. ~Refused(w)
    BY <1>1, <1>2, Listed DEF Refused
  <2>3. PICK j \in VoteJob : GoesOn(w, j)
    BY <1>5, <2>2, LookStep
  <2>4. LevelOff' /\ Level'
    BY <2>1 DEF NoteCounts, LevelOff, Level, poll
  <2> QED  BY <1>4, <2>1, <2>3, <2>4 DEF OneNote
<1>6. CASE Insert(w)
  <2>1. UNCHANGED <<poll, net, updates>> /\ job[w].at = "insert" /\ Level
    BY <1>1, <1>6 DEF Insert, At
  <2>2. LevelOff' /\ Level'
    BY <2>1 DEF NoteCounts, LevelOff, Level, poll
  <2>3. CASE \E j \in VoteJob : GoesOn(w, j)
    BY <1>4, <2>1, <2>2, <2>3 DEF OneNote
  <2>4. CASE Only(w, NoJob)
    <3>1. AllIdle'
      BY <1>1, <2>4, Others DEF AllIdle, Idle
    <3>2. Mail' = {} /\ updates' = 0
      BY <2>1, SameBag DEF NoteCounts
    <3> QED  BY <2>2, <3>1, <3>2 DEF TotalTold, Level, OneNote
  <2> QED  BY <1>6, <2>3, <2>4, InsertStep
<1>7. CASE Commit(w)
  <2>1. PICK s \in Site, t \in Text :
          /\ s = "home" /\ Row(w)[2] = t
          /\ \A o \in Site : o # s => tally'[o] = tally[o]
          /\ \A u \in Text : u # t => tally'[s][u] = tally[s][u]
    <3>1. PICK s \in Site, v \in Voter, t \in Text, n \in Nat :
           /\ IsVote(w) /\ job[w].site = s /\ job[w].voter = v /\ job[w].num = n
           /\ Row(w) = <<v, t>> /\ <<v, t>> \notin votes[s]
           /\ votes'[s] = votes[s] \cup {<<v, t>>}
           /\ \A o \in Site : o # s => votes'[o] = votes[o] /\ tally'[o] = tally[o]
           /\ tally'[s][t] = n + 1 /\ \A u \in Text : u # t => tally'[s][u] = tally[s][u]
           /\ NothingLost' => tally[s][t] = n
      BY <1>7, Written
    <3>2. Row(w)[2] = t
      BY <3>1
    <3> QED  BY <1>2, <3>1, <3>2
  <2>2. choices' = choices /\ t \in choices["home"] /\ UNCHANGED <<net, updates>>
    BY <1>2, <1>7, <2>1, Listed DEF Commit
  <2>3. LevelOff'
    BY <2>1, <2>2, Home DEF NoteCounts, LevelOff
  <2>4. PICK j \in VoteJob : GoesOn(w, j) /\ j.at = "send"
    BY <1>7, CommitStep
  <2> QED  BY <1>4, <2>2, <2>3, <2>4 DEF OneNote
<1>8. CASE Send(w)
  <2>1. Letters(w) = {}
    BY <1>1, <1>2 DEF Letters, Audience
  <2>2. Mail' = {} /\ updates' = 1 /\ UNCHANGED poll /\ Only(w, NoJob)
    BY <1>1, <1>2, <1>8, <2>1, Tells DEF NoteCounts
  <2>3. AllIdle'
    BY <1>1, <2>2, Others DEF AllIdle, Idle
  <2>4. LevelOff'
    BY <2>2 DEF NoteCounts, LevelOff, poll
  <2> QED  BY <2>2, <2>3, <2>4 DEF TotalWaits, OneNote
<1> QED  BY <1>3, <1>5, <1>6, <1>7, <1>8

LEMMA NobodyWorks ==
  ASSUME TypeOK, AllIdle, Next, \A m \in Mail : m.kind = "Update",
         \A w \in Worker, ts \in SUBSET Text \ {{}}, m \in Mode : ~Edit(w, ts, m),
         \A w \in Worker, v \in Voter : \A todo : ~Vote(w, v, todo),
         \A v \in Voter, t \in Text : ~NoteVote(v, t)
  PROVE  SendUpdate \/ \E m \in Mail : ReceiveUpdate(m)
<1>1. \A w \in Worker : ~(Look(w) \/ Insert(w) \/ Commit(w) \/ Send(w) \/ Wipe(w) \/ Refill(w))
  BY DEF AllIdle, Look, Insert, Commit, Send, Wipe, Refill, At
<1>2. \A w \in Worker, m \in Mail : ~ReceiveVote(w, m)
  BY DEF ReceiveVote
<1> QED  BY <1>1, <1>2 DEF Next, Mail

LEMMA TotalWaitsNext ==
  ASSUME TypeOK, Bagged, TotalWaits, Next,
         \A w \in Worker, ts \in SUBSET Text \ {{}}, m \in Mode : ~Edit(w, ts, m),
         \A w \in Worker, v \in Voter : \A todo : ~Vote(w, v, todo),
         \A v \in Voter, t \in Text : ~NoteVote(v, t)
  PROVE  TotalTold'
<1>1. SendUpdate
  BY NobodyWorks DEF TotalWaits
<1>2. /\ updates' = 0 /\ Mail' = Updates /\ UNCHANGED <<poll, job>>
      /\ \A f \in Follower : \E m \in Updates : m.to = f
      /\ \A m \in Updates : m.kind = "Update" /\ m.totals = Totals
  BY <1>1, Telling DEF TotalWaits
<1>3. AllIdle' /\ LevelOff'
  BY <1>2 DEF TotalWaits, AllIdle, Idle, LevelOff, poll
<1>4. \A m \in Mail' : m.kind = "Update" /\ m.totals = Totals'
  BY <1>2 DEF Totals, poll
<1> QED  BY <1>2, <1>3, <1>4 DEF TotalTold

LEMMA TotalToldNext ==
  ASSUME TypeOK, Bagged, Voted, TotalTold, Next,
         \A w \in Worker, ts \in SUBSET Text \ {{}}, m \in Mode : ~Edit(w, ts, m),
         \A w \in Worker, v \in Voter : \A todo : ~Vote(w, v, todo),
         \A v \in Voter, t \in Text : ~NoteVote(v, t)
  PROVE  TotalTold'
<1>1. PICK m \in Mail : ReceiveUpdate(m)
  <2>1. AllIdle /\ \A n \in Mail : n.kind = "Update"
    BY DEF TotalTold
  <2>2. ~SendUpdate
    BY DEF TotalTold, SendUpdate
  <2> QED  BY <2>1, <2>2, NobodyWorks
<1>2. ~IsEdit(m.totals) /\ m.to \in Follower /\ m.to \in Site /\ m.to # "home"
      /\ m.totals = Totals
  BY <1>1, Letter, Home DEF Voted, LetterRight, TotalTold, ReceiveUpdate, Totals
<1>3. /\ UNCHANGED <<choices, job, updates>> /\ net' = net (-) SetToBag({m})
      /\ tally' = [tally EXCEPT ![m.to] = NewTotals(m.to, Totals)]
  BY <1>1, <1>2 DEF ReceiveUpdate
<1>4. NewTotals(m.to, Totals) = tally["home"]
  <2>1. choices[m.to] = choices["home"] /\ DOMAIN Totals = choices["home"]
    BY <1>2 DEF Voted, SamePoll, Totals
  <2>2. ASSUME NEW t \in Text
        PROVE  NewTotals(m.to, Totals)[t] = tally["home"][t]
    <3>1. CASE t \in choices["home"]
      BY <2>1, <3>1 DEF NewTotals, Totals
    <3>2. CASE t \notin choices["home"]
      BY <1>2, <2>1, <3>2 DEF NewTotals, TotalTold, LevelOff
    <3> QED  BY <3>1, <3>2
  <2>3. tally["home"] \in [Text -> Nat] /\ DOMAIN NewTotals(m.to, Totals) = Text
        /\ NewTotals(m.to, Totals) = [t \in Text |-> NewTotals(m.to, Totals)[t]]
    BY Home, Tables DEF NewTotals
  <2> QED  BY <2>2, <2>3
<1>5. /\ tally'[m.to] = tally["home"] /\ tally'["home"] = tally["home"]
      /\ \A f \in Follower : f # m.to => tally'[f] = tally[f]
  BY <1>2, <1>3, <1>4, Home, Tables
<1>6. AllIdle' /\ LevelOff' /\ updates' = 0
  BY <1>3, <1>5 DEF TotalTold, AllIdle, Idle, LevelOff
<1>7. Mail' \subseteq Mail /\ \A n \in Mail : n # m => n \in Mail'
  BY <1>3, LessBag
<1>8. \A n \in Mail' : n.kind = "Update" /\ n.totals = Totals'
  BY <1>3, <1>5, <1>7 DEF TotalTold, Totals
<1>9. \A f \in Follower : tally'[f] = tally'["home"] \/ \E n \in Mail' : n.to = f
  BY <1>5, <1>7 DEF TotalTold
<1> QED  BY <1>6, <1>8, <1>9 DEF TotalTold

LEMMA OneNoteNext ==
  ASSUME TypeOK, KeyInv, Bagged, Voted, OneNote, Next,
         \A w \in Worker, ts \in SUBSET Text \ {{}}, m \in Mode : ~Edit(w, ts, m),
         \A w \in Worker, v \in Voter : \A todo : ~Vote(w, v, todo),
         \A v \in Voter, t \in Text : ~NoteVote(v, t)
  PROVE  OneNote'
  BY NoteComesNext, NoteCountsNext, TotalWaitsNext, TotalToldNext DEF OneNote

-----------------------------------------------------------------------------
(***************************************************************************)
(* When all is quiet the copies agree, and the next thing may begin.       *)
(***************************************************************************)
LEMMA Agreed ==
  ASSUME TypeOK, CopyInv, Quiet, Clean
  PROVE  Voted /\ \A f \in Follower : SamePoll(f) /\ votes[f] = Told("home")
<1>1. AllIdle /\ Mail = {} /\ updates = 0
  BY Quiets
<1>2. \A u \in Worker : \A f, r : ~HomeTells(u, r) /\ ~Reports(u, f, r) /\ ~Coming(u, f, r)
  BY <1>1, Where DEF AllIdle, HomeTells, Reports, Coming
<1>3. \A s, r : ~Comes(s, r)
  BY <1>1, <1>2 DEF Comes
<1>4. CASE "edit" \in since
  <2>1. Renewed
    BY <1>4 DEF CopyInv
  <2>2. \A w \in Worker : ~Edits(w) /\ ~IsVote(w)
    BY <1>1, Where DEF AllIdle, Edits
  <2>3. Blank("home") /\ \A f \in Follower : SamePoll(f) /\ Blank(f)
    BY <1>1, <2>1, <2>2 DEF Renewed
  <2>4. votes["home"] = {} /\ Told("home") = {} /\ \A f \in Follower : votes[f] = {}
    BY <2>3 DEF Blank, Told
  <2>5. Down /\ Up
    BY <2>4 DEF Down, Up
  <2>6. \A w \in Worker : JobRight(w)
    BY <2>2 DEF JobRight
  <2>7. Voted
    BY <1>1, <2>3, <2>4, <2>5, <2>6 DEF Voted, AllIdle
  <2> QED  BY <2>3, <2>4, <2>7
<1>5. CASE "edit" \notin since
  <2>1. Voted
    BY <1>5 DEF CopyInv
  <2>2. ASSUME NEW f \in Follower PROVE SamePoll(f) /\ votes[f] = Told("home")
    <3>1. \A r \in Told("home") : r \in votes[f]
      BY <1>2, <1>3, <2>1 DEF Voted, Down
    <3>2. \A r \in votes[f] : r \in Told("home")
      BY <1>2, <1>3, <2>1 DEF Voted, Up, Told
    <3> QED  BY <2>1, <3>1, <3>2 DEF Voted
  <2> QED  BY <2>1, <2>2
<1> QED  BY <1>4, <1>5

LEMMA Tallied ==
  ASSUME TypeOK, CopyInv, CountInv, Quiet, mishaps = {}
  PROVE  Level
<1>1. AllIdle /\ Mail = {} /\ updates = 0 /\ net = EmptyBag
  BY Quiets
<1>2. Clean
  BY DEF Clean
<1>3. CASE since = {"edit"}
  <2>1. Renewed
    BY <1>2, <1>3 DEF CopyInv
  <2>2. \A w \in Worker : ~Edits(w)
    BY <1>1, Where DEF AllIdle, Edits
  <2> QED  BY <1>1, <2>1, <2>2 DEF Renewed, Blank, Level
<1>4. CASE since \subseteq {"vote"}
  <2>1. Alike
    BY <1>4 DEF CountInv
  <2> SUFFICES ASSUME NEW f \in Follower PROVE tally[f] = tally["home"]
    BY DEF Level
  <2>2. \A t \in Text : Tellers(f, t) = Tellers("home", t)
    BY <1>2, Agreed DEF Tellers, Told
  <2>3. ASSUME NEW t \in Text PROVE tally[f][t] = tally["home"][t]
    <3> DEFINE a == tally[f][t]  b == tally["home"][t]  c == Cardinality(Tellers("home", t))
    <3>1. a - c = b - c
      BY <2>1, <2>2 DEF Alike, Tally
    <3>2. c \in Nat
      BY Home, FS_CardinalityType DEF CountInv, Counters
    <3>3. a \in Nat /\ b \in Nat
      BY Home, Tables
    <3> HIDE DEF a, b, c
    <3>4. a = b
      BY <3>1, <3>2, <3>3
    <3> QED  BY <3>4 DEF a, b
  <2> QED  BY <2>3, Home, Tables
<1>5. CASE since = {"note"}
  <2>1. OneNote
    BY <1>5 DEF CountInv
  <2>2. ~NoteComes
    <3>1. ASSUME NEW m, net = SetToBag({m}) PROVE FALSE
      BY <1>1, <3>1, OneLetter DEF Mail
    <3> QED  BY <3>1 DEF NoteComes
  <2>3. ~NoteCounts
    BY <1>1, Where DEF AllIdle, NoteCounts
  <2>4. TotalTold
    BY <1>1, <2>1, <2>2, <2>3 DEF OneNote, TotalWaits
  <2> QED  BY <1>1, <2>4 DEF TotalTold, Level
<1> QED  BY <1>3, <1>4, <1>5 DEF CopyInv, Phases

LEMMA QuietAlike ==
  ASSUME TypeOK, CopyInv, CountInv, Quiet, mishaps = {}
  PROVE  Alike
<1>1. AllIdle /\ Mail = {} /\ updates = 0
  BY Quiets
<1>2. Level /\ \A f \in Follower : votes[f] = Told("home")
  BY Tallied, Agreed DEF Clean
<1>3. \A f \in Follower, t \in Text : Tellers(f, t) = Tellers("home", t)
  BY <1>2 DEF Tellers, Told
<1>4. \A f \in Follower, t \in Text : Tally(f, t) = Tally("home", t)
  BY <1>2, <1>3 DEF Tally, Level
<1> QED  BY <1>1, <1>4, Where DEF Alike, AllIdle

LEMMA CopiesRight == TypeOK /\ CopyInv /\ CountInv => CopiesAgree
<1> SUFFICES ASSUME TypeOK, CopyInv, CountInv, Quiet, NEW f \in Follower
             PROVE  /\ Clean => /\ choices[f] = choices["home"] /\ mode[f] = mode["home"]
                                /\ votes[f] = Told("home")
                    /\ mishaps = {} => tally[f] = tally["home"]
  BY DEF CopiesAgree, Clean
<1> QED  BY Agreed, Tallied DEF SamePoll, Level

-----------------------------------------------------------------------------
(***************************************************************************)
(* Every step keeps the invariant of the copies.                           *)
(***************************************************************************)
LEMMA NextBagged == Bagged /\ [Next]_vars => Bagged'
<1> SUFFICES ASSUME Bagged, [Next]_vars PROVE Bagged'
  OBVIOUS
<1>1. CASE UNCHANGED net
  BY <1>1, SameBag
<1>2. ASSUME NEW w \in Worker, NEW m, ReceiveVote(w, m) PROVE Bagged'
  BY <1>2, LessBag DEF ReceiveVote
<1>3. ASSUME NEW m, ReceiveUpdate(m) PROVE Bagged'
  BY <1>3, LessBag DEF ReceiveUpdate
<1>4. ASSUME NEW w \in Worker, Send(w) PROVE Bagged'
  BY <1>1, <1>4, MoreBag DEF Send
<1>5. ASSUME NEW v \in Voter, NEW t \in Text, NoteVote(v, t) PROVE Bagged'
  BY <1>5, MoreBag DEF NoteVote
<1>6. CASE SendUpdate
  BY <1>6, MoreBag DEF SendUpdate
<1>7. CASE Next
  BY ZenonT(40), <1>1, <1>2, <1>3, <1>4, <1>5, <1>6, <1>7
     DEF Next, Vote, Look, Insert, Commit, Edit, Wipe, Refill
<1> QED  BY <1>1, <1>7 DEF vars

\* What begins when all is quiet begins anew; two things at once are on record.
LEMMA Begun ==
  ASSUME TypeOK, NEW kind \in {"vote", "note", "edit"}, Note(kind)
  PROVE  /\ Quiet => since' = {kind} /\ mishaps' = mishaps /\ Clean' = Clean
         /\ ~Quiet => /\ since' = since \cup {kind}
                      /\ Clean' => Clean /\ "edit" \notin since'
                      /\ mishaps' = {} => mishaps = {} /\ Clean /\ since' = {"vote"}
<1>1. CASE Quiet
  BY <1>1 DEF Note, Clean
<1>2. CASE ~Quiet
  <2>1. since' = since \cup {kind} /\ mishaps \subseteq mishaps'
    BY <1>2 DEF Note
  <2>2. "edit" \in since' => ~Clean'
    BY <1>2, <2>1 DEF Note, Clean
  <2>3. "note" \in since' => mishaps' # {}
    BY <1>2, <2>1 DEF Note
  <2>4. Clean' => Clean
    BY <2>1 DEF Clean
  <2>5. mishaps' = {} => Clean'
    BY DEF Clean
  <2>6. since \subseteq {"vote", "note", "edit"}
    BY DEF TypeOK
  <2>7. mishaps' = {} => since' = {"vote"}
    BY <2>1, <2>2, <2>3, <2>5, <2>6
  <2> QED  BY <1>2, <2>1, <2>2, <2>4, <2>5, <2>7
<1> QED  BY <1>1, <1>2

LEMMA BegunPhases ==
  ASSUME TypeOK, Phases, NEW kind \in {"vote", "note", "edit"}, Note(kind)
  PROVE  Phases'
<1>1. CASE Quiet
  BY <1>1, Begun DEF Phases
<1>2. CASE ~Quiet
  BY <1>2, Begun DEF Phases
<1> QED  BY <1>1, <1>2

\* The invariant of the copies, one kind of step after the other.
LEMMA VoteCopies ==
  ASSUME TypeOK, KeyInv, CopyInv, CountInv, Next, Note("vote"),
         NEW w \in Worker, NEW v \in Voter, NEW todo \in Seq(Text) \ {<<>>}, Vote(w, v, todo)
  PROVE  CopyInv' /\ CountInv'
<1>1. Phases' /\ Bagged' /\ Counters'
  BY BegunPhases, NextBagged, NextCounters DEF CopyInv, CountInv
<1>2. Clean' => Voted /\ "edit" \notin since'
  BY Begun, Agreed DEF CopyInv
<1>3. Clean' => Voted'
  BY <1>2, VoteVoted DEF CopyInv
<1>4. mishaps' = {} => Alike
  <2>1. CASE Quiet
    BY <2>1, Begun, QuietAlike
  <2>2. CASE ~Quiet
    BY <2>2, Begun DEF CountInv
  <2> QED  BY <2>1, <2>2
<1>5. mishaps' = {} => Alike'
  BY <1>4, VoteAlike DEF CopyInv
<1>6. "vote" \in since'
  BY Begun
<1> QED  BY <1>1, <1>2, <1>3, <1>5, <1>6 DEF CopyInv, CountInv

LEMMA NoteVoteCopies ==
  ASSUME TypeOK, KeyInv, CopyInv, CountInv, Next, Note("note"),
         NEW v \in Voter, NEW t \in Text, NoteVote(v, t)
  PROVE  CopyInv' /\ CountInv'
<1>1. Phases' /\ Bagged' /\ Counters'
  BY BegunPhases, NextBagged, NextCounters DEF CopyInv, CountInv
<1>2. Clean' => Voted /\ "edit" \notin since'
  BY Begun, Agreed DEF CopyInv
<1>3. Clean' => Voted'
  BY <1>2, NoteVoteVoted DEF CopyInv
<1>4. ~(since' \subseteq {"vote"})
  BY Begun
<1>5. ASSUME mishaps' = {}, since' = {"note"} PROVE OneNote'
  <2>1. Quiet /\ mishaps = {}
    BY <1>5, Begun
  <2>2. AllIdle /\ updates = 0 /\ net = EmptyBag /\ Level
    BY <2>1, Quiets, Tallied
  <2> DEFINE n == [kind |-> "Note", to |-> "home", voter |-> v, text |-> t]
  <2>3. /\ UNCHANGED <<poll, updates, job>> /\ n.kind = "Note"
        /\ net' = EmptyBag (+) SetToBag({n})
    BY <2>2 DEF NoteVote
  <2> HIDE DEF n
  <2>4. net' = SetToBag({n}) /\ n \in Mail'
    BY <2>3, OneLetter DEF Mail
  <2>5. AllIdle' /\ updates' = 0 /\ Level'
    BY <2>2, <2>3 DEF AllIdle, Idle, Level, poll
  <2> QED  BY <2>3, <2>4, <2>5 DEF NoteComes, OneNote
<1> QED  BY <1>1, <1>2, <1>3, <1>4, <1>5 DEF CopyInv, CountInv

LEMMA EditCopies ==
  ASSUME TypeOK, KeyInv, CopyInv, CountInv, Next,
         NEW w \in Worker, NEW ts \in SUBSET Text \ {{}}, NEW m \in Mode, Edit(w, ts, m)
  PROVE  CopyInv' /\ CountInv'
<1>1. Bagged' /\ Counters'
  BY NextBagged, NextCounters DEF CopyInv, CountInv
<1>2. CASE Quiet
  <2>1. since' = {"edit"} /\ mishaps' = {}
    BY <1>2 DEF Edit
  <2>2. Phases'
    BY <2>1 DEF Phases
  <2> DEFINE j == [op |-> "edit", site |-> "home", texts |-> ts, mode |-> m, at |-> "wipe"]
  <2>3. j \in EditJob /\ Only(w, j) /\ j.op = "edit" /\ j.at = "wipe"
    BY DEF EditJob, Edit, Only
  <2> HIDE DEF j
  <2>4. job'[w] = j /\ \A u \in Worker : u # w => job'[u] = job[u]
    BY <2>3, Others
  <2>5. /\ Edits(w)' /\ job'[w].at = "wipe" /\ ~AllIdle'
        /\ \A u \in Worker : (Idle(u) \/ Edits(u))'
    <3>1. AllIdle
      BY <1>2, Quiets
    <3> QED  BY <2>3, <2>4, <3>1 DEF AllIdle, Idle, Edits, NoJob
  <2>6. Mail' = {} /\ updates' = 0
    <3>1. Mail = {} /\ updates = 0 /\ Mail' = Mail
      BY <1>2, Quiets DEF Edit, Mail
    <3> QED  BY <3>1 DEF Edit
  <2>7. Renewed'
    BY <2>5, <2>6 DEF Renewed
  <2> QED  BY <1>1, <2>1, <2>2, <2>7 DEF CopyInv, CountInv
<1>3. CASE ~Quiet
  <2>1. Note("edit")
    BY <1>3 DEF Edit
  <2>2. Phases'
    BY <2>1, BegunPhases DEF CopyInv
  <2>3. "edit" \in since' /\ ~Clean' /\ mishaps' # {}
    BY <1>3, <2>1, Begun
  <2> QED  BY <1>1, <2>2, <2>3 DEF CopyInv, CountInv
<1> QED  BY <1>2, <1>3

\* Steps that begin nothing.
LEMMA OtherCopies ==
  ASSUME TypeOK, KeyInv, CopyInv, CountInv, Next,
         \A w \in Worker, ts \in SUBSET Text \ {{}}, m \in Mode : ~Edit(w, ts, m),
         \A w \in Worker, v \in Voter : \A todo : ~Vote(w, v, todo),
         \A v \in Voter, t \in Text : ~NoteVote(v, t)
  PROVE  CopyInv' /\ CountInv'
<1>1. /\ since' = since /\ Clean' = Clean
      /\ mishaps' = {} => mishaps = {} /\ Clean /\ NothingLost'
  <2>1. (since' = since /\ mishaps' = mishaps) \/ \E w \in Worker : Commit(w)
    BY DEF Next, ReceiveVote, Look, Insert, Send, Wipe, Refill, SendUpdate, ReceiveUpdate
  <2>2. CASE since' = since /\ mishaps' = mishaps
    BY <2>2 DEF Clean, NothingLost
  <2>3. ASSUME NEW w \in Worker, Commit(w)
        PROVE  since' = since /\ mishaps \subseteq mishaps' /\ Clean' = Clean
    BY <2>3 DEF Commit, Clean
  <2> QED  BY <2>1, <2>2, <2>3 DEF Clean, NothingLost
<1>2. Bagged' /\ Counters'
  BY NextBagged, NextCounters DEF CopyInv, CountInv
<1>3. Phases'
  BY <1>1 DEF CopyInv, Phases
<1>4. Clean /\ "edit" \in since => Renewed'
  BY RenewedNext DEF CopyInv
<1>5. Clean /\ "edit" \notin since => Voted'
  BY VotedNext DEF CopyInv
<1>6. mishaps' = {} /\ since \subseteq {"vote"} => Alike'
  <2>1. since \subseteq {"vote"} => "edit" \notin since
    OBVIOUS
  <2> QED  BY <1>1, <2>1, AlikeNext DEF CopyInv, CountInv
<1>7. mishaps' = {} /\ since = {"note"} => OneNote'
  <2>1. since = {"note"} => "edit" \notin since
    OBVIOUS
  <2> QED  BY <1>1, <2>1, OneNoteNext DEF CopyInv, CountInv
<1> QED  BY <1>1, <1>2, <1>3, <1>4, <1>5, <1>6, <1>7 DEF CopyInv, CountInv

LEMMA NextCopies ==
  TypeOK /\ KeyInv /\ CopyInv /\ CountInv /\ [Next]_vars => CopyInv' /\ CountInv'
<1> SUFFICES ASSUME TypeOK, KeyInv, CopyInv, CountInv, [Next]_vars PROVE CopyInv' /\ CountInv'
  OBVIOUS
<1>1. CASE UNCHANGED vars
  <2>1. UNCHANGED <<choices, gen, mode, votes, tally, net, updates, job, since, mishaps>>
    BY <1>1 DEF vars, poll
  <2>2. Bagged' = Bagged /\ Phases' = Phases /\ Clean' = Clean /\ Mail' = Mail
    BY <2>1 DEF Bagged, Phases, Clean, Mail
  <2>3. Renewed => Renewed'
    BY <2>1, <2>2 DEF Renewed, Idle, Edits, AllIdle, Blank, SamePoll
  <2>4. Voted => Voted'
    <3> SUFFICES ASSUME Voted PROVE Voted'
      OBVIOUS
    <3>1. \A m \in Mail' : LetterRight(m)'
      BY <2>1, <2>2, LetterStays DEF Voted
    <3> QED  BY <2>1, <2>2, <3>1, VotedMail DEF Voted
  <2>5. Counters' /\ (Alike => Alike')
    <3>1. \A s, t : Tellers(s, t)' = Tellers(s, t)
      BY <2>1 DEF Tellers
    <3>2. Counters'
      BY <3>1 DEF CountInv, Counters
    <3> QED  BY <2>1, <2>2, <3>2, AlikeStep DEF Alike
  <2>6. OneNote => OneNote'
    BY <2>1, <2>2 DEF OneNote, NoteComes, NoteCounts, TotalWaits, TotalTold, Totals, Level,
                      LevelOff, AllIdle, Idle
  <2> QED  BY <2>1, <2>2, <2>3, <2>4, <2>5, <2>6 DEF CopyInv, CountInv
<1>2. CASE Next
  <2>1. ASSUME NEW w \in Worker, NEW v \in Voter, NEW todo \in Seq(Text) \ {<<>>},
               Vote(w, v, todo)
        PROVE  CopyInv' /\ CountInv'
    BY <1>2, <2>1, VoteCopies DEF Vote
  <2>2. ASSUME NEW v \in Voter, NEW t \in Text, NoteVote(v, t)
        PROVE  CopyInv' /\ CountInv'
    BY <1>2, <2>2, NoteVoteCopies DEF NoteVote
  <2>3. \A w \in Worker, v \in Voter : \A todo :
          Vote(w, v, todo) => todo \in Seq(Text) \ {<<>>}
    <3>1. ASSUME NEW w \in Worker, NEW v \in Voter, NEW todo, Vote(w, v, todo)
          PROVE  todo \in Seq(Text) \ {<<>>}
      <4>1. Lives[v] \in Site /\ todo \in Asked(Lives[v]) /\ choices[Lives[v]] \in SUBSET Text
        BY <3>1, Tables DEF Vote
      <4>2. CASE \E t \in Text : todo = <<t>>
        BY <4>2
      <4>3. CASE \E t, u \in Text : todo = <<t, u>>
        BY <4>3
      <4> QED  BY <4>1, <4>2, <4>3 DEF Asked
    <3> QED  BY <3>1
  <2> QED  BY <1>2, <2>1, <2>2, <2>3, EditCopies, OtherCopies
<1> QED  BY <1>1, <1>2

\* When everything has arrived all instances have the same poll and know of the
\* same votes, and show the same numbers, whatever votes were cast where and in
\* whatever order they arrived, unless an edit, a lost count or totals came
\* between them: for any people, choices, followers and workers.
THEOREM CopiesCorrect == Spec => []CopiesAgree
<1>1. Init => KeyInv
  BY DEF Init, KeyInv, Referred, Keyed, Alone, Inserts, Commits, Edits, IsVote, NoJob
<1>2. Init => CopyInv /\ CountInv
  <2> SUFFICES ASSUME Init PROVE CopyInv /\ CountInv
    OBVIOUS
  <2>1. /\ Mail = {} /\ updates = 0 /\ since = {} /\ mishaps = {}
        /\ \A w \in Worker : Idle(w) /\ job[w].op = "none" /\ ~IsVote(w)
        /\ \A s \in Site : /\ votes[s] = {} /\ tally[s] = NoVotes
                           /\ choices[s] = choices["home"] /\ mode[s] = mode["home"]
    BY NoMail, Home DEF Init, Mail, Idle, IsVote, NoJob
  <2>2. \A s \in Site : \A t : Tellers(s, t) = {}
    BY <2>1 DEF Tellers
  <2>3. Counters
    BY <2>2, FS_EmptySet DEF Counters
  <2>4. Alike
    BY <2>1, <2>2, Home DEF Alike, Tally
  <2>5. Down /\ Up
    BY <2>1, Home DEF Down, Up, Told
  <2>6. Voted
    BY <2>1, <2>5, Home DEF Voted, SamePoll, JobRight
  <2>7. Bagged /\ Phases
    BY <2>1 DEF Bagged, Phases
  <2> QED  BY <2>1, <2>3, <2>4, <2>6, <2>7 DEF CopyInv, CountInv
<1> QED  BY <1>1, <1>2, CopiesRight, TypeCorrect, NextKeys, NextCopies, PTL DEF Spec
=============================================================================
