------------------------------- MODULE Polls -------------------------------
(***************************************************************************)
(* A poll and its copies on the instances that follow the community it was *)
(* posted to, all of them running this code: votes of their users          *)
(* (vote_for_poll in app/shared/post.py, Poll.vote_for_choice in           *)
(* app/models.py), the PollVote they send each other, the votes of people  *)
(* on microblogs, which come as a Note to the author's instance, the       *)
(* Update that tells the followers the totals, and the author's edits,     *)
(* which begin the poll anew (edit_post) and are told by the same Update.  *)
(*                                                                         *)
(* The author and the community live at home.  The key of PollChoiceVote   *)
(* admits one vote of a person for a choice; num_votes is read, increased  *)
(* in Python and written by the commit.  Messages overtake each other;     *)
(* their loss is SendQueue's business.                                     *)
(***************************************************************************)
EXTENDS Integers, Sequences, FiniteSets, Bags

CONSTANTS
  Worker,       \* web workers and celery processes of all instances
  Follower,     \* the other instances
  Voter,        \* people
  Lives,        \* [Voter -> where they have their account]
  Text,         \* what choices may say
  MaxRequests,  \* bound: votes cast
  MaxEdits      \* bound: edits of the author

Site == {"home"} \cup Follower
Place == Site \cup {"microblog"}
Mode == {"single", "multiple"}

ASSUME PollsAssumption ==
  /\ "home" \notin Follower /\ "microblog" \notin Follower
  /\ Lives \in [Voter -> Place]
  /\ MaxRequests \in Nat /\ MaxEdits \in Nat

VARIABLES
  choices,  \* [Site -> the texts of the poll's choices there]
  gen,      \* [Site -> how often the rows of the choices were replaced]
  mode,     \* [Site -> whether one may choose one or several]
  votes,    \* [Site -> rows of PollChoiceVote: who chose what]
  tally,    \* [Site -> [Text -> num_votes]], 0 where there is no such choice
  net,      \* bag of messages under way
  updates,  \* tasks edit_post waiting at home
  job,      \* [Worker -> the request or handler it runs]
  cast, edits,
  since,    \* history: what has begun since all was quiet
  mishaps   \* history: what went wrong since the poll was made anew in peace

poll == <<choices, gen, mode, votes, tally>>
bounds == <<cast, edits>>
vars == <<choices, gen, mode, votes, tally, net, updates, job, cast, edits,
          since, mishaps>>

NoJob == [op |-> "none"]
Idle(w) == job[w] = NoJob
At(w, at) == ~Idle(w) /\ job[w].at = at
End(w) == job' = [job EXCEPT ![w] = NoJob]
Quiet == (\A w \in Worker : Idle(w)) /\ net = EmptyBag /\ updates = 0

NoVotes == [t \in Text |-> 0]
Init ==
  /\ \E ts \in SUBSET Text \ {{}}, m \in Mode :
       /\ choices = [s \in Site |-> ts]
       /\ mode = [s \in Site |-> m]
  /\ gen = [s \in Site |-> 0]
  /\ votes = [s \in Site |-> {}]
  /\ tally = [s \in Site |-> NoVotes]
  /\ net = EmptyBag /\ updates = 0
  /\ job = [w \in Worker |-> NoJob]
  /\ cast = 0 /\ edits = 0
  /\ since = {} /\ mishaps = {}

-----------------------------------------------------------------------------
(***************************************************************************)
(* Voting.  A request for several choices goes through them one by one     *)
(* and commits each; a handler has one.                                    *)
(***************************************************************************)
Begin(w, op, site, v, todo) ==
  job' = [job EXCEPT ![w] = [op |-> op, site |-> site, voter |-> v, todo |-> todo,
                             gen |-> 0, num |-> 0, at |-> "look"]]
Row(w) == <<job[w].voter, Head(job[w].todo)>>

\* History: an Update and a vote that are under way together.
Note(kind) ==
  /\ since' = (IF Quiet THEN {} ELSE since) \cup {kind}
  /\ mishaps' = mishaps \cup
       (IF Quiet THEN {}
        ELSE (IF "edit" \in since \cup {kind} THEN {"edited amid votes"} ELSE {}) \cup
             (IF "note" \in since \cup {kind} THEN {"totals amid votes"} ELSE {}))

\* What the form of the poll may ask for.
Asked(s) ==
  {<<t>> : t \in choices[s]} \cup
  (IF mode[s] = "multiple"
   THEN {p \in choices[s] \X choices[s] : p[1] # p[2]} ELSE {})

\* vote_for_poll: in a single poll it asks whether the user has voted, in the
\* same breath as vote_for_choice asks whether he has chosen this.
HasVoted(s, v) == \E t \in Text : <<v, t>> \in votes[s]
Vote(w, v, todo) ==
  LET s == Lives[v] IN
  /\ Idle(w) /\ cast < MaxRequests /\ s \in Site /\ todo \in Asked(s)
  /\ cast' = cast + 1
  /\ Begin(w, "web", s, v, todo)
  /\ Note("vote")
  /\ UNCHANGED <<poll, net, updates, edits>>

\* Someone on a microblog chooses: his instance sends a Note to the author's.
NoteVote(v, t) ==
  /\ Lives[v] = "microblog" /\ cast < MaxRequests /\ t \in choices["home"]
  /\ cast' = cast + 1
  /\ net' = net (+) SetToBag({[kind |-> "Note", to |-> "home", voter |-> v, text |-> t]})
  /\ Note("note")
  /\ UNCHANGED <<poll, updates, job, edits>>

ReceiveVote(w, m) ==
  /\ Idle(w) /\ m.kind \in {"PollVote", "Note"}
  /\ net' = net (-) SetToBag({m})
  /\ Begin(w, m.kind, m.to, m.voter, <<m.text>>)
  /\ UNCHANGED <<poll, updates, bounds, since, mishaps>>

Refused(w) ==
  LET s == job[w].site IN
  \/ Row(w)[2] \notin choices[s]
  \/ job[w].op = "web" /\ mode[s] = "single" /\ HasVoted(s, job[w].voter)
Look(w) ==
  LET s == job[w].site IN
  /\ At(w, "look")
  /\ IF Refused(w) THEN End(w)
     ELSE job' = [job EXCEPT ![w].gen = gen[s],
                             ![w].at = IF Row(w) \in votes[s] THEN "send" ELSE "insert"]
  /\ UNCHANGED <<poll, net, updates, bounds, since, mishaps>>

\* A row another has written and not committed makes the insert wait; it
\* fails when the key is taken or the choice is gone.
Uncommitted(s) == {w \in Worker : At(w, "commit") /\ job[w].site = s}
\* Faulty: the table has no key.
NoKey(w) == FALSE
Clash(w) == Row(w) \in votes[job[w].site]
Insert(w) ==
  LET s == job[w].site IN
  /\ At(w, "insert")
  /\ \A u \in Uncommitted(s) : Row(u) # Row(w)
  /\ IF gen[s] # job[w].gen \/ Clash(w) THEN End(w)
     ELSE job' = [job EXCEPT ![w].num = tally[s][Row(w)[2]], ![w].at = "commit"]
  /\ UNCHANGED <<poll, net, updates, bounds, since, mishaps>>

Commit(w) ==
  LET s == job[w].site
      t == Row(w)[2]
  IN
  /\ At(w, "commit")
  /\ votes' = [votes EXCEPT ![s] = @ \cup {Row(w)}]
  /\ tally' = [tally EXCEPT ![s][t] = job[w].num + 1]
  /\ mishaps' = IF tally[s][t] = job[w].num THEN mishaps
                ELSE mishaps \cup {"lost count"}
  /\ job' = [job EXCEPT ![w].num = 0, ![w].at = "send"]
  /\ UNCHANGED <<choices, gen, mode, net, updates, bounds, since>>

\* Home tells a vote to every follower but the one it came from; a follower
\* tells home, and passes nothing on.
Audience(s, op, v) ==
  CASE s = "home" /\ op # "Note"  -> Follower \ {Lives[v]}
    [] s # "home" /\ op = "web"   -> {"home"}
    [] OTHER                      -> {}
\* A request names the choice by its text, which it reads again after the
\* commit: it raises when the row is gone.
Send(w) ==
  LET j == job[w]
      s == j.site
  IN
  /\ At(w, "send")
  /\ IF j.op = "web" /\ gen[s] # j.gen
     THEN End(w) /\ UNCHANGED <<net, updates>>
     ELSE /\ net' = net (+) SetToBag(
               {[kind |-> "PollVote", to |-> f, voter |-> j.voter, text |-> Row(w)[2]]
                  : f \in Audience(s, j.op, j.voter)})
          /\ updates' = IF j.op = "Note" THEN updates + 1 ELSE updates
          /\ IF Len(j.todo) = 1 THEN End(w)
             ELSE job' = [job EXCEPT ![w].todo = Tail(@), ![w].gen = 0, ![w].at = "look"]
  /\ UNCHANGED <<poll, bounds, since, mishaps>>

-----------------------------------------------------------------------------
(***************************************************************************)
(* Editing, and the Update.                                                *)
(***************************************************************************)
\* The author waits for one edit to end before the next.  One that begins
\* when all is quiet makes the poll anew everywhere.
Edit(w, ts, m) ==
  /\ Idle(w) /\ edits < MaxEdits
  /\ \A u \in Worker : job[u].op # "edit"
  /\ edits' = edits + 1
  /\ job' = [job EXCEPT ![w] = [op |-> "edit", site |-> "home", texts |-> ts,
                                mode |-> m, at |-> "wipe"]]
  /\ IF Quiet THEN since' = {"edit"} /\ mishaps' = {} ELSE Note("edit")
  /\ UNCHANGED <<poll, net, updates, cast>>

\* Deleting the choices waits for votes that are not committed, and then
\* fails, for a vote refers to its choice.
MayWipe(s) == Uncommitted(s) = {}
Wipe(w) ==
  /\ At(w, "wipe")
  /\ IF MayWipe("home")
     THEN /\ choices' = [choices EXCEPT !["home"] = {}]
          /\ gen' = [gen EXCEPT !["home"] = @ + 1]
          /\ votes' = [votes EXCEPT !["home"] = {}]
          /\ tally' = [tally EXCEPT !["home"] = NoVotes]
          /\ job' = [job EXCEPT ![w].at = "refill"]
     ELSE End(w) /\ UNCHANGED <<choices, gen, votes, tally>>
  /\ UNCHANGED <<mode, net, updates, bounds, since, mishaps>>

Refill(w) ==
  /\ At(w, "refill")
  /\ choices' = [choices EXCEPT !["home"] = job[w].texts]
  /\ mode' = [mode EXCEPT !["home"] = job[w].mode]
  /\ updates' = updates + 1
  /\ End(w)
  /\ UNCHANGED <<gen, votes, tally, net, bounds, since, mishaps>>

\* The task edit_post tells what it finds in the tables when it runs.
SendUpdate ==
  /\ updates > 0
  /\ updates' = updates - 1
  /\ net' = net (+) SetToBag(
       {[kind |-> "Update", to |-> f, mode |-> mode["home"],
         totals |-> [t \in choices["home"] |-> tally["home"][t]]] : f \in Follower})
  /\ UNCHANGED <<poll, job, bounds, since, mishaps>>

\* update_post_from_activity: totals that are all zero make it an edit.
IsEdit(totals) == \A t \in DOMAIN totals : totals[t] = 0
\* Faulty: totals are added to what is there.
AddedTotals(s, totals) ==
  [t \in Text |-> IF t \in choices[s] \cap DOMAIN totals
                  THEN tally[s][t] + totals[t] ELSE tally[s][t]]
NewTotals(s, totals) ==
  [t \in Text |-> IF t \in choices[s] \cap DOMAIN totals THEN totals[t] ELSE tally[s][t]]
ReceiveUpdate(m) ==
  LET s == m.to IN
  /\ m.kind = "Update"
  /\ net' = net (-) SetToBag({m})
  /\ \/ /\ IsEdit(m.totals) /\ MayWipe(s)
        /\ choices' = [choices EXCEPT ![s] = DOMAIN m.totals]
        /\ gen' = [gen EXCEPT ![s] = @ + 1]
        /\ mode' = [mode EXCEPT ![s] = m.mode]
        /\ votes' = [votes EXCEPT ![s] = {}]
        /\ tally' = [tally EXCEPT ![s] = NoVotes]
     \/ /\ IsEdit(m.totals) /\ ~MayWipe(s)
        /\ UNCHANGED poll
     \/ /\ ~IsEdit(m.totals)
        /\ tally' = [tally EXCEPT ![s] = NewTotals(s, m.totals)]
        /\ UNCHANGED <<choices, gen, mode, votes>>
  /\ UNCHANGED <<updates, job, bounds, since, mishaps>>

Next ==
  \/ \E w \in Worker :
       \/ \E v \in Voter, t, u \in Text : Vote(w, v, <<t>>) \/ Vote(w, v, <<t, u>>)
       \/ \E m \in BagToSet(net) : ReceiveVote(w, m)
       \/ Look(w) \/ Insert(w) \/ Commit(w) \/ Send(w)
       \/ \E ts \in SUBSET Text \ {{}}, m \in Mode : Edit(w, ts, m)
       \/ Wipe(w) \/ Refill(w)
  \/ \E v \in Voter, t \in Text : NoteVote(v, t)
  \/ SendUpdate
  \/ \E m \in BagToSet(net) : ReceiveUpdate(m)

Spec == Init /\ [][Next]_vars

-----------------------------------------------------------------------------
VoteJob ==
  [op : {"web", "PollVote", "Note"}, site : Site, voter : Voter, todo : Seq(Text) \ {<<>>},
   gen : Nat, num : Nat, at : {"look", "insert", "commit", "send"}]
EditJob ==
  [op : {"edit"}, site : {"home"}, texts : SUBSET Text, mode : Mode,
   at : {"wipe", "refill"}]
VoteMessage ==
  [kind : {"PollVote", "Note"}, to : Site, voter : Voter, text : Text]
IsUpdate(m) ==
  /\ m.kind = "Update" /\ m.to \in Follower /\ m.mode \in Mode
  /\ DOMAIN m.totals \subseteq Text /\ m.totals \in [DOMAIN m.totals -> Nat]

(***************************************************************************)
(* Every variable has its type; an edit works on the author's instance     *)
(* (Poll, PollChoice and PollChoiceVote in app/models.py).                 *)
(***************************************************************************)
TypeOK ==
  /\ choices \in [Site -> SUBSET Text]
  /\ gen \in [Site -> Nat]
  /\ mode \in [Site -> Mode]
  /\ votes \in [Site -> SUBSET (Voter \X Text)]
  /\ tally \in [Site -> [Text -> Nat]]
  /\ \A m \in BagToSet(net) : m \in VoteMessage \/ IsUpdate(m)
  /\ updates \in Nat
  /\ job \in [Worker -> {NoJob} \cup VoteJob \cup EditJob]
  /\ cast \in 0 .. MaxRequests /\ edits \in 0 .. MaxEdits
  /\ since \subseteq {"vote", "note", "edit"}
  /\ mishaps \subseteq {"lost count", "edited amid votes", "totals amid votes"}

Choosers(s, t) == {v \in Voter : <<v, t>> \in votes[s]}
Chose(s, t) == Cardinality(Choosers(s, t))

(***************************************************************************)
(* At home a choice never shows more votes than people have chosen it:     *)
(* votes that are counted at once may lose counts, a vote that comes twice *)
(* adds none, and an edit leaves none behind (vote_for_choice, edit_post). *)
(***************************************************************************)
NeverAhead == \A t \in Text : tally["home"][t] <= Chose("home", t)

\* Votes of people on microblogs reach followers as totals only.
Told(s) == {r \in votes[s] : Lives[r[1]] # "microblog"}

(***************************************************************************)
(* When everything has arrived all instances have the same poll and know   *)
(* of the same votes, though they were cast in several places at once and  *)
(* passed on by home -- unless the poll was edited while votes or another  *)
(* Update were under way.  They then show the same numbers too, unless two *)
(* votes counted at once on one instance, or totals were told while votes  *)
(* were under way (vote_for_poll, process_poll_vote,                       *)
(* announce_activity_to_followers, update_post_from_activity).             *)
(***************************************************************************)
CopiesAgree ==
  Quiet =>
    \A f \in Follower :
      /\ "edited amid votes" \notin mishaps =>
           /\ choices[f] = choices["home"] /\ mode[f] = mode["home"]
           /\ votes[f] = Told("home")
      /\ mishaps = {} => tally[f] = tally["home"]
=============================================================================
