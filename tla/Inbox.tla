-------------------------------- MODULE Inbox --------------------------------
(***************************************************************************)
(* What other instances send to the inbox about posts and comments in a    *)
(* community of this one: the web workers that take a request, look in     *)
(* redis whether its activity is known, verify it and hand it to celery    *)
(* (shared_inbox in app/activitypub/routes.py), and the celery workers     *)
(* that create, edit, delete or restore the object and announce the        *)
(* activity to the followers (process_inbox_request, process_new_content). *)
(*                                                                         *)
(* The requests of the other instance come in any order, and again when it *)
(* saw no answer.  A step                                                  *)
(* of a worker ends where it waits for redis, for another host, for a lock *)
(* or at a commit.  Who may do what is not looked at: authors act on their *)
(* own objects.                                                            *)
(***************************************************************************)
EXTENDS Integers, FiniteSets

CONSTANTS
  Web,         \* processes of the web server
  Celery,      \* processes of celery
  Object,      \* posts and comments
  Parent,      \* [Object -> what it answers to: at most one object]
  Activity,    \* what the other instance may publish: records, of which
               \*   one with a greater version is the later edit
  Script,      \* the sets of activities it may publish in one behaviour
  MaxRepeats,  \* bound: requests that are sent again
  MaxFaults    \* bound: refusals, exceptions and killed workers

Kind == {"Create", "Update", "Delete", "Restore"}
ASSUME InboxAssumption ==
  /\ Parent \in [Object -> SUBSET Object]
  /\ Activity \subseteq [kind : Kind, object : Object, version : 1..3]
  /\ Script \subseteq SUBSET Activity
  /\ MaxRepeats \in Nat /\ MaxFaults \in Nat
\* An object is created, deleted and restored once; it is edited as often as
\* there are versions.
ASSUME ScriptAssumption ==
  \A s \in Script : \A a, b \in s :
    a.object = b.object /\ a.kind = b.kind /\ a.kind # "Update" => a = b

VARIABLES
  script,     \* the activities of this behaviour
  sender,     \* [Activity -> "unsent", "sent" or "answered"]
  known,      \* the keys redis remembers for 90 seconds
  web,        \* [Web -> the request it serves]
  queue,      \* [Activity -> how many tasks wait in celery]
  celery,     \* [Celery -> the task it runs]
  row,        \* [Object -> its row in the database]
  announced,  \* [Activity -> how often it went to the followers]
  repeats, faults,
  handled,    \* history: [Activity -> how often it was handed to celery]
  taken,      \* history: the activities celery has begun with
  mishaps     \* history: [Activity -> what went wrong with it]

vars == <<script, sender, known, web, queue, celery, row, announced, repeats,
          faults, handled, taken, mishaps>>

Idle == [at |-> "idle"]
NoRow == [version |-> 0, edited |-> FALSE, deleted |-> FALSE]
Exists(o) == row[o].version > 0

WebAt(w, at) == web[w].at = at
CeleryAt(c, at) == celery[c].at = at
Serves(w, a) == web[w] # Idle /\ web[w].does = a
Does(c, a) == celery[c] # Idle /\ celery[c].does = a

Mishap == {"together", "expired", "refused", "killed", "orphan", "crossed"}
Note(a, what, when) ==
  mishaps' = IF when THEN [mishaps EXCEPT ![a] = @ \cup {what}] ELSE mishaps

-----------------------------------------------------------------------------
Init ==
  /\ script \in Script
  /\ sender = [a \in Activity |-> "unsent"]
  /\ known = {}
  /\ web = [w \in Web |-> Idle]
  /\ queue = [a \in Activity |-> 0]
  /\ celery = [c \in Celery |-> Idle]
  /\ row = [o \in Object |-> NoRow]
  /\ announced = [a \in Activity |-> 0]
  /\ repeats = 0 /\ faults = 0
  /\ handled = [a \in Activity |-> 0]
  /\ taken = {}
  /\ mishaps = [a \in Activity |-> {}]

\* What comes later of two activities about an object: it is created, edited
\* in the order of the versions, deleted and restored.
Rank(a) ==
  CASE a.kind = "Create"  -> 1
    [] a.kind = "Update"  -> 1 + a.version
    [] a.kind = "Delete"  -> 10
    [] a.kind = "Restore" -> 11

(***************************************************************************)
(* shared_inbox.                                                           *)
(***************************************************************************)
\* What redis remembers of an activity is its own id, also when it comes
\* within an Announce that has another.
KeyOfObject(a) == a.object  \* Faulty: the id of what it is about.
Key(a) == a

\* A request that finds its activity in redis is answered and that is all.
\* The look and the entry are two calls.
Ask(w, a) ==
  /\ web[w] = Idle
  /\ \/ sender[a] = "unsent" /\ UNCHANGED repeats
     \/ sender[a] = "sent" /\ repeats < MaxRepeats /\ repeats' = repeats + 1
  /\ \/ /\ Key(a) \in known
        /\ sender' = [sender EXCEPT ![a] = "answered"]
        /\ UNCHANGED <<web, mishaps>>
     \/ /\ Key(a) \notin known
        /\ sender' = [sender EXCEPT ![a] = "sent"]
        /\ web' = [web EXCEPT ![w] = [at |-> "asked", does |-> a]]
        /\ Note(a, "together", \E v \in Web : Serves(v, a))
  /\ UNCHANGED <<script, known, queue, celery, row, announced, faults,
                 handled, taken>>

OuterId(a) == known  \* Faulty: the id of the Announce, another each time.
Entered(a) == known \cup {Key(a)}

\* SET NX: whether the key was there is not looked at.
Remember(w) ==
  /\ WebAt(w, "asked")
  /\ known' = Entered(web[w].does)
  /\ web' = [web EXCEPT ![w].at = "verify"]
  /\ UNCHANGED <<script, sender, queue, celery, row, announced, repeats, faults,
                 handled, taken, mishaps>>

\* Signature and actor are good: commits, hands the activity to celery and
\* answers; the answer may be lost.
HandOver(w) ==
  /\ WebAt(w, "verify")
  /\ \E a \in {web[w].does}, said \in {"sent", "answered"} :
       /\ queue' = [queue EXCEPT ![a] = @ + 1]
       /\ handled' = [handled EXCEPT ![a] = @ + 1]
       /\ sender' = [sender EXCEPT ![a] = IF @ = "answered" THEN @ ELSE said]
  /\ web' = [web EXCEPT ![w] = Idle]
  /\ UNCHANGED <<script, known, celery, row, announced, repeats, faults, taken,
                 mishaps>>

\* The signature cannot be verified, the actor cannot be fetched, or the
\* worker dies: redis keeps the key.  An actor that cannot be found is
\* answered with 200, the others are not.
Refuse(w) ==
  /\ web[w] # Idle /\ faults < MaxFaults
  /\ faults' = faults + 1
  /\ \E a \in {web[w].does}, said \in {"sent", "answered"} :
       /\ said = "answered" => WebAt(w, "verify")
       /\ sender' = [sender EXCEPT ![a] = IF @ = "answered" THEN @ ELSE said]
       /\ Note(a, "refused", TRUE)
  /\ web' = [web EXCEPT ![w] = Idle]
  /\ UNCHANGED <<script, known, queue, celery, row, announced, repeats, handled,
                 taken>>

\* The 90 seconds are over; this matters only to one that may come again.
Expire(a) ==
  /\ Key(a) \in known /\ sender[a] = "sent" /\ repeats < MaxRepeats
  /\ known' = known \ {Key(a)}
  /\ Note(a, "expired", TRUE)
  /\ UNCHANGED <<script, sender, web, queue, celery, row, announced, repeats,
                 faults, handled, taken>>

-----------------------------------------------------------------------------
(***************************************************************************)
(* process_inbox_request.                                                  *)
(***************************************************************************)
GoTo(c, at) == celery' = [celery EXCEPT ![c].at = at]
Begin(c, a, at) ==
  celery' = [celery EXCEPT ![c] =
               [at |-> at, does |-> a, saw |-> row[a.object].version]]
Done(c) == celery' = [celery EXCEPT ![c] = Idle]

\* Two edits of an object, or its deletion and restoration, are under way
\* together or the other way round; or one of the latter is before the object.
Alike(a, b) ==
  a.object = b.object /\ \E s \in {{"Update"}, {"Delete", "Restore"}} : {a.kind, b.kind} \subseteq s
Crossed(a) ==
  \/ \E b \in taken : Alike(a, b) /\ Rank(b) > Rank(a)
  \/ \E c \in Celery : celery[c] # Idle /\ Alike(a, celery[c].does)
  \/ a.kind \in {"Delete", "Restore"} /\ ~Exists(a.object)
Orphan(a) ==
  a.kind \in {"Create", "Update"} /\ ~Exists(a.object)
    /\ \E o \in Parent[a.object] : ~Exists(o)

\* What is there decides: a Create of something that exists is dropped, an
\* Update of something that does not creates it, if what it answers to exists.
\* To delete and to restore, it must exist and not be so already.
AnyTime(a) == TRUE  \* Faulty: tasks that were taken run again.
Waits(a) == queue[a] > 0
Take(c, a) ==
  /\ celery[c] = Idle /\ Waits(a)
  /\ queue' = [queue EXCEPT ![a] = @ - 1]
  /\ taken' = taken \cup {a}
  /\ mishaps' = [mishaps EXCEPT ![a] = @ \cup
       (IF Crossed(a) THEN {"crossed"} ELSE {}) \cup
       (IF Orphan(a) THEN {"orphan"} ELSE {})]
  /\ \/ /\ a.kind \in {"Create", "Update"} /\ ~Exists(a.object) /\ ~Orphan(a)
        /\ Begin(c, a, "insert")
     \/ /\ a.kind = "Update" /\ Exists(a.object)
        /\ Begin(c, a, "edit")
     \/ /\ a.kind \in {"Delete", "Restore"} /\ Exists(a.object)
        /\ row[a.object].deleted = (a.kind = "Restore")
        /\ Begin(c, a, "flag")
     \/ /\ \/ Orphan(a)
           \/ a.kind = "Create" /\ Exists(a.object)
           \/ /\ a.kind \in {"Delete", "Restore"}
              /\ \/ ~Exists(a.object)
                 \/ row[a.object].deleted # (a.kind = "Restore")
        /\ UNCHANGED celery
  /\ UNCHANGED <<script, sender, known, web, row, announced, repeats, faults,
                 handled>>

\* Whether an Update that found a row only when it inserted its own must still
\* edit it: it must if a Create made it, for then nothing has edited it.
NeverAgain(a) == FALSE  \* Faulty: the edit loses the race.
LostToCreate(a) == a.kind = "Update" /\ ~row[a.object].edited

\* Post.new, PostReply.new: ap_id is unique; when the row is there by now its
\* insertion is rolled back and the one that is there is taken for it.
Insert(c) ==
  /\ CeleryAt(c, "insert")
  /\ LET a == celery[c].does IN
     \/ /\ ~Exists(a.object)
        /\ row' = [row EXCEPT ![a.object] =
             [version |-> a.version, edited |-> a.kind = "Update",
              deleted |-> FALSE]]
        /\ GoTo(c, "announce")
     \/ /\ Exists(a.object) /\ LostToCreate(a)
        /\ celery' = [celery EXCEPT ![c].at = "edit",
                                    ![c].saw = row[a.object].version]
        /\ UNCHANGED row
     \/ /\ Exists(a.object) /\ ~LostToCreate(a)
        /\ GoTo(c, "announce") /\ UNCHANGED row
  /\ UNCHANGED <<script, sender, known, web, queue, announced, repeats, faults,
                 handled, taken, mishaps>>

\* update_post_from_activity, update_post_reply_from_activity: the lock keeps
\* out other edits, but the row was loaded before it: what the session takes
\* for unchanged is not written.
Edit(c) ==
  /\ CeleryAt(c, "edit")
  /\ LET a == celery[c].does IN
     row' = [row EXCEPT ![a.object].edited = TRUE,
               ![a.object].version = IF celery[c].saw = a.version THEN @ ELSE a.version]
  /\ GoTo(c, "announce")
  /\ UNCHANGED <<script, sender, known, web, queue, announced, repeats, faults,
                 handled, taken, mishaps>>

\* delete_post_or_comment, restore_post_or_comment; the counters they change
\* are in Content.
Flag(c) ==
  /\ CeleryAt(c, "flag")
  /\ LET a == celery[c].does IN
     row' = [row EXCEPT ![a.object].deleted = (a.kind = "Delete")]
  /\ GoTo(c, "announce")
  /\ UNCHANGED <<script, sender, known, web, queue, announced, repeats, faults,
                 handled, taken, mishaps>>

\* announce_activity_to_followers
TellNobody(c) == Done(c) /\ UNCHANGED announced  \* Faulty: nobody is told.
Tell(c) ==
  announced' = [announced EXCEPT ![celery[c].does] = @ + 1] /\ Done(c)
Announce(c) ==
  /\ CeleryAt(c, "announce") /\ Tell(c)
  /\ UNCHANGED <<script, sender, known, web, queue, row, repeats, faults,
                 handled, taken, mishaps>>

\* An exception, a lock that cannot be had in time or a killed worker: celery
\* does not run the task again.
Fail(c) ==
  /\ celery[c] # Idle /\ faults < MaxFaults
  /\ faults' = faults + 1
  /\ Note(celery[c].does, "killed", TRUE)
  /\ Done(c)
  /\ UNCHANGED <<script, sender, known, web, queue, row, announced, repeats,
                 handled, taken>>

-----------------------------------------------------------------------------
WebNext(w) ==
  \/ \E a \in script : Ask(w, a)
  \/ Remember(w) \/ HandOver(w) \/ Refuse(w)
CeleryNext(c) ==
  \/ \E a \in script : Take(c, a)
  \/ Insert(c) \/ Edit(c) \/ Flag(c) \/ Announce(c) \/ Fail(c)
Next ==
  \/ \E a \in script : Expire(a)
  \/ \E w \in Web : WebNext(w)
  \/ \E c \in Celery : CeleryNext(c)

Spec == Init /\ [][Next]_vars

-----------------------------------------------------------------------------
WebJob == {Idle} \cup [at : {"asked", "verify"}, does : Activity]
CeleryJob == {Idle} \cup
  [at : {"insert", "edit", "flag", "announce"}, does : Activity,
   saw : 0..3]

\* The values of all variables; what waits was handed over, and an object that
\* was never made is neither edited nor deleted.
TypeOK ==
  /\ script \in Script
  /\ sender \in [Activity -> {"unsent", "sent", "answered"}]
  /\ known \subseteq Activity
  /\ web \in [Web -> WebJob]
  /\ queue \in [Activity -> Nat]
  /\ celery \in [Celery -> CeleryJob]
  /\ row \in [Object -> [version : 0..3, edited : BOOLEAN, deleted : BOOLEAN]]
  /\ announced \in [Activity -> Nat]
  /\ repeats \in 0..MaxRepeats /\ faults \in 0..MaxFaults
  /\ handled \in [Activity -> Nat]
  /\ taken \subseteq Activity
  /\ mishaps \in [Activity -> SUBSET Mishap]

\* An instance that got an answer need not send again: the activity was handed
\* to celery, or a web worker has it in its hands, or an attempt was refused
\* after redis had been told (shared_inbox answers "already aware of this
\* activity" to all that come within 90 seconds of it).
AnsweredIsHandled ==
  \A a \in Activity : sender[a] = "answered" =>
    \/ handled[a] > 0 \/ "refused" \in mishaps[a]
    \/ \E w \in Web : Serves(w, a)

\* An activity goes to celery, and to the followers, once however often it is
\* sent, unless two workers asked redis together or redis forgot it.
HandledOnce ==
  \A a \in Activity : mishaps[a] \cap {"together", "expired"} = {} =>
    handled[a] <= 1 /\ announced[a] <= 1

Sent(o) == {a \in script : a.object = o /\ sender[a] # "unsent"}
\* Nothing that was sent about the object is still to be dealt with.
Quiet(o) ==
  \A a \in Sent(o) :
    /\ sender[a] = "answered" /\ queue[a] = 0
    /\ \A w \in Web : ~Serves(w, a)
    /\ \A c \in Celery : ~Does(c, a)
Undisturbed(o) ==
  \A a \in Sent(o) : mishaps[a] \cap {"refused", "killed", "orphan", "crossed"} = {}
Latest(o) == CHOOSE a \in Sent(o) : \A b \in Sent(o) : Rank(b) <= Rank(a)
Edits(o) == {a \in Sent(o) : a.kind \in {"Create", "Update"}}
Newest(o) == CHOOSE a \in Edits(o) : \A b \in Edits(o) : Rank(b) <= Rank(a)

\* When all that was sent about an object has been dealt with, it shows
\* the newest version and is deleted if that was the last word: an Update is
\* not lost to a Create that comes later or at the same time.  Only edits or
\* deletions that cross each other, an object that came before what it answers
\* to, and refused or failed attempts can spoil this.
NewestShows ==
  \A o \in Object : Sent(o) # {} /\ Quiet(o) /\ Undisturbed(o) =>
    /\ row[o].version = Newest(o).version
    /\ row[o].deleted = (Latest(o).kind = "Delete")

\* ... and the followers were told: of the version that shows and of the
\* deletion.
FollowersKnow ==
  \A o \in Object : Sent(o) # {} /\ Quiet(o) /\ Undisturbed(o) =>
    /\ \E a \in Edits(o) : announced[a] > 0 /\ a.version = row[o].version
    /\ row[o].deleted => announced[Latest(o)] > 0
=============================================================================
