-------------------------------- MODULE Chat --------------------------------
(***************************************************************************)
(* Private messages between people of one or two instances, all running    *)
(* this code: sending, editing, deleting and restoring a message           *)
(* (app/chat/util.py, app/api/alpha/utils/private_message.py,              *)
(* app/shared/tasks/deletes.py), what the inbox does with it (process_chat *)
(* in app/activitypub/routes.py), reading and leaving a conversation       *)
(* (app/chat/routes.py, Conversation in app/models.py), and the number of  *)
(* unread notifications each of these counts.                              *)
(*                                                                         *)
(* Each instance has conversations of its own.  Every action is one        *)
(* commit, or what is read before it.  Messages overtake each other; their *)
(* loss is SendQueue's business.                                           *)
(***************************************************************************)
EXTENDS Integers, FiniteSets, Bags

CONSTANTS
  Worker,       \* web workers and celery processes of all instances
  Person,
  Site,         \* instances
  Lives,        \* [Person -> Site]
  MaxMessages,  \* bound: messages sent; a message is known by its number
  MaxRequests   \* bound: requests, sending included.  Conversations stay below ten, so
                \*   that the url of none begins with that of another

ASSUME ChatAssumption ==
  /\ Lives \in [Person -> Site]
  /\ MaxMessages \in Nat /\ MaxRequests \in Nat
  /\ MaxMessages + MaxRequests < 10

Message == 1 .. MaxMessages
None == [conv |-> 0]

VARIABLES
  conv,     \* [Site -> [conversation -> its two members and who has joined]]
  opened,   \* [Site -> the last number given to a conversation]
  row,      \* [Site -> [Message -> its ChatMessage, or None]]
  notes,    \* [Person -> bag of notifications: conversation, message, read]
  unread,   \* [Person -> unread_notifications]
  net,      \* bag of activities under way
  job,      \* [Worker -> the request or handler it runs]
  sent, requests,
  crossed,  \* history: messages two changes of which were under way at once
  left,     \* history: who has left or deleted a conversation with whom
  muddled   \* history: people for whom two counted at once

tables == <<conv, opened, row, notes, unread>>
vars == <<conv, opened, row, notes, unread, net, job, sent, requests, crossed,
          left, muddled>>

Room == sent + requests < MaxRequests
NoJob == [op |-> "none"]
Idle(w) == job[w] = NoJob
At(w, at) == ~Idle(w) /\ job[w].at = at
GoTo(w, at) == job' = [job EXCEPT ![w].at = at]
End(w) == job' = [job EXCEPT ![w] = NoJob]
Quiet == (\A w \in Worker : Idle(w)) /\ net = EmptyBag
Put(a) == net' = net (+) SetToBag({a})
Job(op, p, q, m, c, at) ==
  [op |-> op, p |-> p, q |-> q, m |-> m, c |-> c, at |-> at, had |-> FALSE,
   num |-> 0, seen |-> {}, rows |-> {}]

Between(s, p, q) == {c \in DOMAIN conv[s] : conv[s][c].who = {p, q}}
Local(s) == {p \in Person : Lives[p] = s}
\* Rows of one notification may be alike: how often they are there counts.
UnreadRows(bag) ==
  UNION {{n} \X (1 .. bag[n]) : n \in {b \in BagToSet(bag) : ~b.read}}
Unread(bag) == Cardinality(UnreadRows(bag))

Init ==
  /\ conv = [s \in Site |-> [c \in {} |-> {}]] /\ opened = [s \in Site |-> 0]
  /\ row = [s \in Site |-> [m \in Message |-> None]]
  /\ notes = [p \in Person |-> EmptyBag] /\ unread = [p \in Person |-> 0]
  /\ net = EmptyBag /\ job = [w \in Worker |-> NoJob]
  /\ sent = 0 /\ requests = 0
  /\ crossed = {} /\ left = {} /\ muddled = {}

-----------------------------------------------------------------------------
(***************************************************************************)
(* Sending.  find_existing_conversation takes any the two have, joined or  *)
(* not; the page for a new message always opens another.                   *)
(***************************************************************************)
Send(w, p, q, c) ==
  /\ Idle(w) /\ p # q /\ sent < MaxMessages /\ Room
  /\ sent' = sent + 1
  /\ job' = [job EXCEPT ![w] =
       Job("send", p, q, sent + 1, c, IF c = 0 THEN "open" ELSE "store")]
  /\ UNCHANGED <<tables, net, requests, crossed, left, muddled>>

WorksAt(w) == IF job[w].op = "receive" THEN Lives[job[w].q] ELSE Lives[job[w].p]
Known(s, m) == row[s][m] # None
Open(w) ==
  LET j == job[w]
      s == WorksAt(w)
      c == opened[s] + 1
  IN
  /\ At(w, "open")
  /\ opened' = [opened EXCEPT ![s] = c]
  /\ conv' = [conv EXCEPT ![s] =
       [d \in DOMAIN @ \cup {c} |->
          IF d = c THEN [who |-> {j.p, j.q}, joined |-> {j.p, j.q}] ELSE @[d]]]
  /\ job' = [job EXCEPT ![w] = [@ EXCEPT !.c = c, !.at = "store",
                               !.had = j.op = "receive" /\ Known(s, j.m)]]
  /\ UNCHANGED <<row, notes, unread, net, sent, requests, crossed, left, muddled>>

\* send_message stores the message first and says to whom it goes later.
StoreSent(w) ==
  LET j == job[w]
      s == Lives[j.p]
  IN
  /\ At(w, "store") /\ j.op = "send"
  /\ IF j.c \in DOMAIN conv[s]
     THEN /\ row' = [row EXCEPT ![s][j.m] =
               [conv |-> j.c, from |-> j.p, to |-> {}, body |-> 0, deleted |-> FALSE]]
          /\ GoTo(w, "address")
     ELSE End(w) /\ UNCHANGED row
  /\ UNCHANGED <<conv, opened, notes, unread, net, sent, requests, crossed, left,
                 muddled>>
IsLocal(p, q) == Lives[p] = Lives[q]
Onward(p, q) == IF IsLocal(p, q) THEN "count" ELSE "post"
Address(w) ==
  LET j == job[w]
      s == Lives[j.p]
  IN
  /\ At(w, "address")
  /\ IF Known(s, j.m)
     THEN /\ row' = [row EXCEPT ![s][j.m] = [@ EXCEPT !.to = {j.q}]]
          /\ GoTo(w, Onward(j.p, j.q))
     ELSE End(w) /\ UNCHANGED row
  /\ UNCHANGED <<conv, opened, notes, unread, net, sent, requests, crossed, left,
                 muddled>>

(***************************************************************************)
(* Changes of a message by its sender.                                     *)
(***************************************************************************)
Under(m) ==
  \/ \E a \in BagToSet(net) : a.m = m
  \/ \E w \in Worker : ~Idle(w) /\ job[w].m = m
Change(w, op, p, m) ==
  LET r == row[Lives[p]][m] IN
  /\ Idle(w) /\ Room
  /\ Known(Lives[p], m) /\ r.from = p /\ r.to # {}
  /\ requests' = requests + 1
  /\ crossed' = IF Under(m) THEN crossed \cup {m} ELSE crossed
  /\ \E q \in r.to : job' = [job EXCEPT ![w] =
       Job(op, p, q, m, r.conv,
           IF op = "edit" \/ ~IsLocal(p, q) THEN Onward(p, q) ELSE "end")]
  /\ UNCHANGED <<conv, opened, notes, unread, net, sent, left, muddled>>

\* put_private_message, update_message
Edit(w, p, m) ==
  LET r == row[Lives[p]][m] IN
  /\ Change(w, "edit", p, m) /\ ~r.deleted
  /\ row' = [row EXCEPT ![Lives[p]][m] = [r EXCEPT !.body = @ + 1]]
\* post_private_message_delete, delete_pm, restore_pm
Delete(w, p, m, gone) ==
  /\ Change(w, IF gone THEN "delete" ELSE "restore", p, m)
  /\ row' = [row EXCEPT ![Lives[p]][m] = [@ EXCEPT !.deleted = gone]]

\* Faulty: restoring tells the recipient to delete again.
AlwaysDelete(op) == IF op \in {"send", "edit"} THEN "Create" ELSE "Delete"
Kind(op) ==
  CASE op \in {"send", "edit"} -> "Create"
    [] op = "delete"           -> "Delete"
    [] op = "restore"          -> "Undo"
\* What is sent is read again: it raises when the message is gone.
Post(w) ==
  LET j == job[w]
      s == Lives[j.p]
  IN
  /\ At(w, "post")
  /\ IF Known(s, j.m)
     THEN Put([kind |-> Kind(j.op), p |-> j.p, q |-> j.q, m |-> j.m,
               body |-> row[s][j.m].body])
     ELSE UNCHANGED net
  /\ End(w)
  /\ UNCHANGED <<tables, sent, requests, crossed, left, muddled>>
Finish(w) ==
  /\ At(w, "end") /\ End(w)
  /\ UNCHANGED <<tables, net, sent, requests, crossed, left, muddled>>

-----------------------------------------------------------------------------
(***************************************************************************)
(* Receiving.                                                              *)
(***************************************************************************)
Receive(w, a) ==
  LET s == Lives[a.q]
      cs == Between(s, a.p, a.q)
  IN
  /\ Idle(w) /\ a.kind = "Create"
  /\ net' = net (-) SetToBag({a})
  /\ \E c \in IF cs = {} THEN {0} ELSE cs :
       job' = [job EXCEPT ![w] =
         [Job("receive", a.p, a.q, a.m, c, IF c = 0 THEN "open" ELSE "store")
            EXCEPT !.had = Known(s, a.m), !.num = a.body]]
  /\ UNCHANGED <<tables, sent, requests, crossed, left, muddled>>

\* The commit fails when the message looked for has come or gone in between,
\* or the conversation has gone.
Fails(w) ==
  LET s == WorksAt(w) IN
  \/ job[w].had # Known(s, job[w].m)
  \/ ~job[w].had /\ job[w].c \notin DOMAIN conv[s]
StoreReceived(w) ==
  LET j == job[w]
      s == WorksAt(w)
  IN
  /\ At(w, "store") /\ j.op = "receive"
  /\ IF Fails(w) THEN End(w) /\ UNCHANGED row
     ELSE /\ row' = [row EXCEPT ![s][j.m] =
               IF j.had THEN [@ EXCEPT !.body = j.num]
               ELSE [conv |-> j.c, from |-> j.p, to |-> {j.q}, body |-> j.num,
                     deleted |-> FALSE]]
          /\ job' = [job EXCEPT ![w] = [@ EXCEPT !.num = 0, !.at = "count"]]
  /\ UNCHANGED <<conv, opened, notes, unread, net, sent, requests, crossed, left,
                 muddled>>

\* A Delete or its Undo for a message that is not there is ignored.
Restores(a) == a.kind = "Undo"
ReceiveFlag(a) ==
  LET s == Lives[a.q] IN
  /\ a.kind \in {"Delete", "Undo"}
  /\ net' = net (-) SetToBag({a})
  /\ row' = IF Known(s, a.m)
            THEN [row EXCEPT ![s][a.m] = [@ EXCEPT !.deleted = ~Restores(a)]]
            ELSE row
  /\ UNCHANGED <<conv, opened, notes, unread, job, sent, requests, crossed, left,
                 muddled>>

-----------------------------------------------------------------------------
(***************************************************************************)
(* Notifications.  The number of unread ones is read, changed in Python    *)
(* and written with the notification, or counted anew.                     *)
(***************************************************************************)
Reader(w) == IF job[w].op \in {"send", "edit", "receive"} THEN job[w].q ELSE job[w].p
Counting(p) == {w \in Worker : At(w, "write") /\ Reader(w) = p}
\* A recount that nobody disturbs puts right what went wrong before.
Overlap(w) ==
  LET p == Reader(w) IN
  muddled' = IF Counting(p) # {} THEN muddled \cup {p}
             ELSE IF job[w].op \in {"view", "all"} THEN muddled \ {p} ELSE muddled

Ask(w, j) ==
  /\ Idle(w) /\ Room
  /\ requests' = requests + 1
  /\ job' = [job EXCEPT ![w] = j]
  /\ UNCHANGED <<conv, opened, row, unread, net, sent, crossed>>
MarkRead(bag, S) ==
  LET hit == {n \in S : BagIn(n, bag) /\ ~n.read} IN
  [n \in BagToSet(bag) \ hit |-> bag[n]]
    (+) [n \in {[h EXCEPT !.read = TRUE] : h \in hit} |-> bag[[n EXCEPT !.read = FALSE]]]

\* chat_home: a conversation and its notifications are read, then counted.
View(w, p, c) ==
  /\ p \in conv[Lives[p]][c].who
  /\ Ask(w, Job("view", p, p, 0, c, "count"))
  /\ notes' = [notes EXCEPT ![p] = MarkRead(@, {n \in BagToSet(@) : n.c = c})]
  /\ UNCHANGED <<left, muddled>>
\* post_private_message_mark_as_read, post_user_mark_all_as_read
Mark(w, p, m, read) ==
  /\ Known(Lives[p], m) /\ row[Lives[p]][m].to = {p}
  /\ Ask(w, Job(IF read THEN "read" ELSE "unread", p, p, m, 0, "count"))
  /\ UNCHANGED <<notes, left, muddled>>
MarkAll(w, p) ==
  /\ Ask(w, Job("all", p, p, 0, 0, "count"))
  /\ UNCHANGED <<notes, left, muddled>>

Bell(w, p) == IF job[w].op = "view" THEN Unread(notes[p]) ELSE unread[p]
Count(w) ==
  LET p == Reader(w) IN
  /\ At(w, "count")
  /\ job' = [job EXCEPT ![w] = [@ EXCEPT !.at = "write", !.num = Bell(w, p),
                               !.seen = BagToSet(notes[p])]]
  /\ Overlap(w)
  /\ UNCHANGED <<tables, net, sent, requests, crossed, left>>

\* Faulty: the notification stays as it was.
NoFlip(bag, n) == bag
Flip(bag, n) == bag (-) SetToBag({n}) (+) SetToBag({[n EXCEPT !.read = ~@]})
Write(w) ==
  LET j == job[w]
      p == Reader(w)
      about == {n \in j.seen : n.m = j.m /\ n.read = (j.op = "unread")}
  IN
  /\ At(w, "write")
  /\ \/ /\ j.op \in {"send", "edit", "receive"}
        /\ notes' = [notes EXCEPT ![p] =
             @ (+) SetToBag({[c |-> j.c, m |-> j.m, read |-> FALSE]})]
        /\ unread' = [unread EXCEPT ![p] = j.num + 1]
     \/ /\ j.op = "view"
        /\ unread' = [unread EXCEPT ![p] = j.num]
        /\ UNCHANGED notes
     \/ /\ j.op \in {"read", "unread"}
        /\ IF about = {} THEN UNCHANGED <<notes, unread>>
           ELSE \E n \in about :
             /\ notes' = [notes EXCEPT ![p] = IF BagIn(n, @) THEN Flip(@, n) ELSE @]
             /\ unread' = [unread EXCEPT ![p] =
                  IF j.op = "unread" THEN j.num + 1
                  ELSE IF j.num > 0 THEN j.num - 1 ELSE @]
     \/ /\ j.op = "all"
        /\ notes' = [notes EXCEPT ![p] = MarkRead(@, j.seen)]
        /\ unread' = [unread EXCEPT ![p] = 0]
  /\ End(w)
  /\ UNCHANGED <<conv, opened, row, net, sent, requests, crossed, left, muddled>>

-----------------------------------------------------------------------------
(***************************************************************************)
(* Leaving.  delete_if_abandoned looks who is left after the first commit; *)
(* deleting the conversation loads its messages and deletes them one by    *)
(* one, and fails when there is another by then.                           *)
(***************************************************************************)
Leave(w, p, c) ==
  LET s == Lives[p] IN
  /\ p \in conv[s][c].who
  /\ Idle(w) /\ Room
  /\ requests' = requests + 1
  /\ conv' = [conv EXCEPT ![s][c].joined = @ \ {p}]
  /\ job' = [job EXCEPT ![w] = Job("leave", p, p, 0, c, "look")]
  /\ left' = left \cup {conv[s][c].who}
  /\ UNCHANGED <<opened, row, notes, unread, net, sent, crossed, muddled>>

Within(s, c) == {m \in Message : row[s][m].conv = c}
Kept(s, c) == conv[s][c].joined \cap Local(s) # {}
LookLeft(w) ==
  LET s == Lives[job[w].p]
      c == job[w].c
  IN
  /\ At(w, "look")
  /\ IF c \notin DOMAIN conv[s] \/ Kept(s, c) THEN End(w)
     ELSE job' = [job EXCEPT ![w] = [@ EXCEPT !.at = "remove", !.rows = Within(s, c)]]
  /\ UNCHANGED <<tables, net, sent, requests, crossed, left, muddled>>

\* chat_delete asks nobody else.
DeleteChat(w, p, c) ==
  LET s == Lives[p] IN
  /\ p \in conv[s][c].who
  /\ Idle(w) /\ Room
  /\ requests' = requests + 1
  /\ job' = [job EXCEPT ![w] =
       [Job("leave", p, p, 0, c, "remove") EXCEPT !.rows = Within(s, c)]]
  /\ left' = left \cup {conv[s][c].who}
  /\ UNCHANGED <<tables, net, sent, crossed, muddled>>

Remove(w) ==
  LET s == Lives[job[w].p]
      c == job[w].c
  IN
  /\ At(w, "remove") /\ End(w)
  /\ IF c \in DOMAIN conv[s] /\ Within(s, c) = job[w].rows
     THEN /\ conv' = [conv EXCEPT ![s] = [d \in DOMAIN @ \ {c} |-> @[d]]]
          /\ row' = [row EXCEPT ![s] =
               [m \in Message |-> IF m \in Within(s, c) THEN None ELSE @[m]]]
     ELSE UNCHANGED <<conv, row>>
  /\ UNCHANGED <<opened, notes, unread, net, sent, requests, crossed, left, muddled>>

Next ==
  \/ \E w \in Worker :
       \/ \E p, q \in Person : \E c \in Between(Lives[p], p, q) \cup {0} : Send(w, p, q, c)
       \/ Open(w) \/ StoreSent(w) \/ Address(w) \/ Post(w) \/ Finish(w)
       \/ StoreReceived(w) \/ Count(w) \/ Write(w) \/ LookLeft(w) \/ Remove(w)
       \/ \E p \in Person, m \in Message :
            \/ Edit(w, p, m)
            \/ \E b \in BOOLEAN : Delete(w, p, m, b) \/ Mark(w, p, m, b)
       \/ \E p \in Person : MarkAll(w, p)
       \/ \E p \in Person : \E c \in DOMAIN conv[Lives[p]] :
            View(w, p, c) \/ Leave(w, p, c) \/ DeleteChat(w, p, c)
       \/ \E a \in BagToSet(net) : Receive(w, a)
  \/ \E a \in BagToSet(net) : ReceiveFlag(a)

Spec == Init /\ [][Next]_vars
-----------------------------------------------------------------------------
Pairs == {{p, q} : p, q \in Person}
Conversation == [who : Pairs, joined : SUBSET Person]
MessageRow ==
  [conv : Nat \ {0}, from : Person, to : SUBSET Person, body : Nat, deleted : BOOLEAN]
Notification == [c : Nat, m : Message, read : BOOLEAN]
Activity ==
  [kind : {"Create", "Delete", "Undo"}, p : Person, q : Person, m : Message, body : Nat]
Running ==
  [op : {"send", "edit", "delete", "restore", "receive", "view", "read", "unread",
         "all", "leave"},
   p : Person, q : Person, m : 0 .. MaxMessages, c : Nat, had : BOOLEAN, num : Nat,
   at : {"open", "store", "address", "post", "end", "count", "write", "look", "remove"},
   seen : SUBSET Notification, rows : SUBSET Message]
IsBagOf(B, S) ==
  BagToSet(B) \subseteq S /\ IsFiniteSet(BagToSet(B)) /\ B \in [BagToSet(B) -> Nat \ {0}]

(***************************************************************************)
(* Every variable has its type; a message is in a conversation that        *)
(* exists, of the two it is between (the foreign keys of ChatMessage in    *)
(* app/models.py); nobody has fewer than no unread notifications.          *)
(***************************************************************************)
TypeOK ==
  /\ opened \in [Site -> Nat]
  /\ \A s \in Site :
       /\ DOMAIN conv[s] \subseteq 1 .. opened[s]
       /\ conv[s] \in [DOMAIN conv[s] -> Conversation]
       /\ \A c \in DOMAIN conv[s] : conv[s][c].joined \subseteq conv[s][c].who
       /\ \A m \in Message : Known(s, m) =>
            /\ row[s][m].conv \in DOMAIN conv[s]
            /\ {row[s][m].from} \cup row[s][m].to \subseteq conv[s][row[s][m].conv].who
  /\ DOMAIN conv = Site
  /\ row \in [Site -> [Message -> MessageRow \cup {None}]]
  /\ DOMAIN notes = Person /\ \A p \in Person : IsBagOf(notes[p], Notification)
  /\ unread \in [Person -> Nat]
  /\ IsBagOf(net, Activity)
  /\ job \in [Worker -> Running \cup {NoJob}]
  /\ sent \in 0 .. MaxMessages /\ requests \in 0 .. MaxRequests
  /\ crossed \subseteq Message /\ left \subseteq Pairs /\ muddled \subseteq Person

(***************************************************************************)
(* When everything has arrived, a message somebody has sent to another     *)
(* instance is there as he sees it, edited, deleted and restored, in a     *)
(* conversation the recipient has open -- whatever conversations the two   *)
(* have opened from both sides at once; unless he changed it while an      *)
(* earlier change was under way, or one of the two has left the            *)
(* conversation or deleted it (send_message, update_message,               *)
(* delete_message, process_chat).                                          *)
(***************************************************************************)
SidesAgree ==
  Quiet =>
    \A p, q \in Person, m \in Message \ crossed :
      LET mine == row[Lives[p]][m]
          theirs == row[Lives[q]][m]
      IN
      ~IsLocal(p, q) /\ {p, q} \notin left /\ Known(Lives[p], m)
        /\ mine.from = p /\ mine.to = {q} =>
          /\ theirs # None /\ theirs.from = p /\ theirs.to = {q}
          /\ theirs.body = mine.body /\ theirs.deleted = mine.deleted
          /\ q \in conv[Lives[q]][theirs.conv].joined

(***************************************************************************)
(* Somebody for whom nothing is running has as many unread notifications   *)
(* as the number at the bell says, unless two requests have counted for    *)
(* him at once and he has not looked since (User.unread_notifications in   *)
(* send_message, process_chat, chat_home, post_private_message_mark_as_read*)
(* and post_user_mark_all_as_read).                                        *)
(***************************************************************************)
UnreadAgrees ==
  \A p \in Person \ muddled :
    (\A w \in Worker : ~Idle(w) => Reader(w) # p) => unread[p] = Unread(notes[p])
=============================================================================
