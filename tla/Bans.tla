-------------------------------- MODULE Bans --------------------------------
(***************************************************************************)
(* Bans from one community, as its host and the home of one user keep      *)
(* them: moderators ban and unban on web pages of either instance or with  *)
(* the API of the host, which federates Block and Undo; every night bans   *)
(* that are over are deleted.  Whether somebody is banned is asked of      *)
(* communities_banned_from, which is memoized for a day, and is noted once *)
(* more in the flag is_banned of a member.  Bans from a whole instance are *)
(* left out.                                                               *)
(***************************************************************************)
EXTENDS Integers, FiniteSets

CONSTANTS
  Worker,     \* processes that serve requests, messages and the night's task
  Site,       \* the instances
  Host,       \* where the community is
  Home,       \* where the user is
  MaxTime,    \* bound: how far the clock goes
  MaxOrders,  \* bound: what moderators order
  MaxFaults   \* bound: lost messages and workers that die

ASSUME BansAssumption ==
  /\ Host \in Site /\ Home \in Site
  /\ MaxTime \in Nat /\ MaxOrders \in Nat /\ MaxFaults \in Nat

VARIABLES
  clock,
  ban,      \* [Site -> CommunityBan of the user: None or until when]
  member,   \* [Site -> CommunityMember: "none", "good" or "banned"]
  cache,    \* [Site -> what communities_banned_from tells, or "none"]
  request,  \* one in flight that has read something: to cache it, or to join
  job,      \* [Worker -> what it is at]
  net,      \* messages under way
  written,  \* how many orders were carried out where they were given
  last,     \* [Site -> number of the last order carried out there]
  orders, faults,
  mishaps   \* history: what went wrong

banVars == <<clock, ban, member, cache, request, job, net, written,
             last, orders, faults, mishaps>>

Forever == MaxTime + 1  \* a ban that does not end
None == -1
Until == 1..MaxTime + 1
Idle == [do |-> "idle"]
At(w, step) == job[w] # Idle /\ job[w].step = step
Place(w) == job[w].at

Bans == {"webban", "apiban", "block"}
Unbans == {"webunban", "apiunban", "undo"}
Told(i) == IF ban[i] = None THEN "free" ELSE "banned"

BanInit ==
  /\ clock = 0
  /\ ban = [i \in Site |-> None]
  /\ member = [i \in Site |-> IF i = Home THEN "none" ELSE "good"]
  /\ cache = [i \in Site |-> "none"]
  /\ request = Idle
  /\ job = [w \in Worker |-> Idle]
  /\ net = {} /\ written = 0 /\ last = [i \in Site |-> 0]
  /\ orders = 0 /\ faults = 0 /\ mishaps = {}

Tick ==
  /\ clock < MaxTime /\ clock' = clock + 1
  /\ UNCHANGED <<ban, member, cache, request, job, net, written, last, orders,
                 faults, mishaps>>

(***************************************************************************)
(* Work begins: an order, a message, the night's task.  First of all it    *)
(* looks at the row.                                                       *)
(***************************************************************************)
Begin(w, do, i, until, n) ==
  /\ job[w] = Idle
  /\ job' = [job EXCEPT ![w] = [do |-> do, at |-> i, step |-> "row",
                                until |-> until, n |-> n, seen |-> ban[i]]]

\* With the API, what is not banned cannot be unbanned.
Order(w, do, i, until) ==
  /\ orders < MaxOrders /\ orders' = orders + 1
  /\ do \in {"apiban", "apiunban"} => i = Host
  /\ do = "apiunban" => ban[i] # None
  /\ do \in Unbans => until = Forever
  /\ until >= clock
  /\ Begin(w, do, i, until, 0)
  /\ UNCHANGED <<clock, ban, member, cache, request, net, written, last, faults,
                 mishaps>>

Receive(w, m) ==
  /\ Begin(w, m.do, m.to, m.until, m.n) /\ net' = net \ {m}
  /\ UNCHANGED <<clock, ban, member, cache, request, written, last, orders,
                 faults, mishaps>>

\* The web clears the cache for everybody, and so does a ban with the API; the
\* others for the users of their own instance only.
Forgets(do, i) == do \notin {"webban", "webunban", "apiban"} => i = Home
NoForget(i) == cache  \* Faulty: the cache is left as it is.
Forget(i) == [cache EXCEPT ![i] = "none"]

\* process_expired_bans clears the cache before it deletes the row.
AnyBan(i) == ban[i] # None  \* Faulty: bans without an end, too.
Expired(i) == ban[i] # None /\ ban[i] < clock
BeginNight(w, i) ==
  /\ Expired(i) /\ Begin(w, "night", i, Forever, 0)
  /\ cache' = IF Forgets("night", i) THEN Forget(i) ELSE cache
  /\ UNCHANGED <<clock, ban, member, request, net, written, last, orders, faults,
                 mishaps>>

(***************************************************************************)
(* The steps of all of them: write the row, write the flag, tell the other *)
(* instance, clear the cache.                                              *)
(***************************************************************************)
Done(w) == job' = [job EXCEPT ![w] = Idle]

\* Orders are numbered as they are written; messages keep the number.
Number(w) == IF job[w].n = 0 THEN written + 1 ELSE job[w].n
Latest(w) == [last EXCEPT ![Place(w)] = IF @ < Number(w) THEN Number(w) ELSE @]
Numbered(w, step) ==
  /\ written' = IF job[w].n = 0 THEN written + 1 ELSE written
  /\ last' = Latest(w)
  /\ job' = [job EXCEPT ![w].step = step, ![w].n = Number(w)]
Overtaken(w) == IF Number(w) < last[Place(w)] THEN {"overtaken"} ELSE {}
\* What was cached stays although the row changes and nothing clears it.
Kept(w) ==
  IF Forgets(job[w].do, Place(w)) \/ cache[Place(w)] = "none" THEN {} ELSE {"kept"}

\* task_selector: the host tells the home of the user, another instance the
\* host, which tells nobody else.
NoMessage(w) == net  \* Faulty: the order is not federated.
Message(w) ==
  net \cup {[do |-> IF job[w].do \in Bans THEN "block" ELSE "undo", to |-> i,
             until |-> job[w].until, n |-> Number(w)] :
            i \in {IF Place(w) = Host THEN Home ELSE Host} \ {Place(w)}}

\* A message whose ban is over by now makes one that does not end.
EndOf(until) == IF until > clock THEN until ELSE Forever

NoFlag(i, to) == member  \* Faulty: only the ban is written.
SetFlag(i, to) == [member EXCEPT ![i] = IF @ = "none" THEN "none" ELSE to]

\* A new ban.  Two at once clash on the key, and the second fails.
Insert(w) ==
  LET i == Place(w)  do == job[w].do IN
  /\ At(w, "row") /\ do \in Bans /\ job[w].seen = None
  /\ \/ /\ ban[i] # None /\ Done(w) /\ UNCHANGED <<ban, member, written, last, net>>
        /\ mishaps' = mishaps \cup {"ignored"}
     \/ /\ ban[i] = None
        /\ ban' = [ban EXCEPT ![i] = IF do = "apiban" THEN job[w].until
                                     ELSE EndOf(job[w].until)]
        /\ Numbered(w, CASE do = "webban" -> "flag" [] OTHER -> "clear")
        /\ net' = IF do = "apiban" THEN Message(w) ELSE net
        /\ member' = IF do = "webban" THEN member ELSE SetFlag(i, "banned")
        /\ mishaps' = mishaps \cup Overtaken(w) \cup Kept(w)
             \cup (IF ban'[i] = job[w].until THEN {} ELSE {"late"})
  /\ UNCHANGED <<clock, cache, request, orders, faults>>

\* One who is banned already: only the API changes the end; the web goes on as
\* if it had, a message is dropped.
Again(w) ==
  LET i == Place(w)  do == job[w].do  same == job[w].seen = job[w].until IN
  /\ At(w, "row") /\ do \in Bans /\ job[w].seen # None
  /\ \/ do = "webban" /\ Numbered(w, "flag") /\ UNCHANGED <<ban, member, net>>
     \/ /\ do = "block" /\ Done(w) /\ last' = Latest(w)
        /\ UNCHANGED <<ban, member, written, net>>
     \/ /\ do = "apiban" /\ ban[i] = None /\ ~same
        /\ Done(w) /\ UNCHANGED <<ban, member, written, last, net>>
     \/ /\ do = "apiban" /\ (ban[i] # None \/ same)
        /\ ban' = IF same THEN ban ELSE [ban EXCEPT ![i] = job[w].until]
        /\ member' = SetFlag(i, "banned")
        /\ Numbered(w, "clear") /\ net' = Message(w)
  /\ mishaps' = mishaps \cup Overtaken(w)
       \cup (IF ban'[i] = job[w].until THEN {} ELSE {"ignored"})
       \cup (IF do = "apiban" /\ ban'[i] = None THEN {"crossed"} ELSE {})
  /\ UNCHANGED <<clock, cache, request, orders, faults>>

\* The ban is deleted if it was seen, by the API and by messages if it is there.
Remove(w) ==
  LET i == Place(w)  do == job[w].do IN
  /\ At(w, "row") /\ do \in Unbans
  /\ ban' = [ban EXCEPT ![i] =
       IF do = "webunban" /\ job[w].seen = None THEN @ ELSE None]
  /\ Numbered(w, IF do = "webunban" THEN "flag" ELSE "clear")
  /\ member' = IF do = "webunban" THEN member ELSE SetFlag(i, "good")
  /\ mishaps' = mishaps \cup Overtaken(w) \cup Kept(w)
       \cup (IF do = "apiunban" THEN {"unsent"} ELSE {})
  /\ UNCHANGED <<clock, cache, request, net, orders, faults>>

\* The night deletes the row, by its key, and the flag.
NightDeletes(w) ==
  LET i == Place(w) IN
  /\ At(w, "row") /\ job[w].do = "night"
  /\ ban' = [ban EXCEPT ![i] = None] /\ member' = SetFlag(i, "good") /\ Done(w)
  /\ mishaps' = mishaps \cup Kept(w)
       \cup (IF ban[i] # job[w].seen THEN {"renewed"} ELSE {})
       \cup (IF cache[i] # "none" THEN {"early"} ELSE {})
  /\ UNCHANGED <<clock, cache, request, net, written, last, orders, faults>>

\* The web writes the flag in a second commit, then federates.
WriteFlag(w) ==
  LET i == Place(w)  to == IF job[w].do = "webban" THEN "banned" ELSE "good" IN
  /\ At(w, "flag")
  /\ member' = SetFlag(i, to)
  /\ net' = Message(w) /\ job' = [job EXCEPT ![w].step = "clear"]
  /\ mishaps' = mishaps \cup (IF (to = "banned") = (ban[i] # None) THEN {}
                              ELSE {"crossed"})
  /\ UNCHANGED <<clock, ban, cache, request, written, last, orders, faults>>

Clear(w) ==
  /\ At(w, "clear")
  /\ cache' = IF Forgets(job[w].do, Place(w)) THEN Forget(Place(w)) ELSE cache
  /\ Done(w)
  /\ UNCHANGED <<clock, ban, member, request, net, written, last, orders,
                 faults, mishaps>>

Work(w) ==
  \/ Insert(w) \/ Again(w) \/ Remove(w) \/ NightDeletes(w)
  \/ WriteFlag(w) \/ Clear(w)

(***************************************************************************)
(* Those who ask.                                                          *)
(***************************************************************************)
\* communities_banned_from: a request that finds nothing in the cache reads the
\* rows and then fills it.
Read(i) ==
  /\ cache[i] = "none" /\ request = Idle
  /\ request' = [do |-> "fill", at |-> i, told |-> Told(i)]
  /\ UNCHANGED <<clock, ban, member, cache, job, net, written, last, orders,
                 faults, mishaps>>
Fill ==
  /\ request # Idle /\ request.do = "fill" /\ request' = Idle
  /\ cache' = [cache EXCEPT ![request.at] = request.told]
  /\ mishaps' = mishaps \cup
       (IF request.told = Told(request.at) THEN {} ELSE {"raced"})
  /\ UNCHANGED <<clock, ban, member, job, net, written, last, orders, faults>>
\* A day has gone by.
Lapse(i) ==
  /\ cache[i] # "none" /\ cache' = Forget(i)
  /\ UNCHANGED <<clock, ban, member, request, job, net, written, last, orders,
                 faults, mishaps>>

\* do_subscribe at home: only what is cached keeps the user out, the row itself
\* gives a message.
AskToJoin ==
  /\ member[Home] = "none" /\ cache[Home] = "free" /\ request = Idle
  /\ request' = [do |-> "join", at |-> Home, told |-> "free"]
  /\ UNCHANGED <<clock, ban, member, cache, job, net, written, last, orders,
                 faults, mishaps>>
Join ==
  /\ request # Idle /\ request.do = "join" /\ request' = Idle
  /\ member' = [member EXCEPT ![Home] = IF @ = "none" THEN "good" ELSE @]
  /\ mishaps' = mishaps \cup (IF ban[Home] = None THEN {} ELSE {"joined"})
  /\ UNCHANGED <<clock, ban, cache, job, net, written, last, orders, faults>>
Leave ==
  /\ member[Home] # "none" /\ member' = [member EXCEPT ![Home] = "none"]
  /\ UNCHANGED <<clock, ban, cache, request, job, net, written, last, orders,
                 faults, mishaps>>

Faulty(what) ==
  /\ faults < MaxFaults /\ faults' = faults + 1 /\ mishaps' = mishaps \cup {what}
  /\ UNCHANGED <<clock, ban, member, cache, request, written, last, orders>>
Lose(m) == Faulty("lost") /\ net' = net \ {m} /\ UNCHANGED job
Die(w) == job[w] # Idle /\ Faulty("died") /\ Done(w) /\ UNCHANGED net

-----------------------------------------------------------------------------
BanNext ==
  \/ Tick
  \/ \E w \in Worker :
       \/ \E do \in {"webban", "apiban", "webunban", "apiunban"},
            i \in Site, until \in {1, Forever} : Order(w, do, i, until)
       \/ \E m \in net : Receive(w, m)
       \/ \E i \in Site : BeginNight(w, i)
       \/ Work(w) \/ Die(w)
  \/ \E i \in Site : Read(i) \/ Lapse(i)
  \/ Fill \/ AskToJoin \/ Join \/ Leave
  \/ \E m \in net : Lose(m)

BanSpec == BanInit /\ [][BanNext]_banVars

-----------------------------------------------------------------------------
Job ==
  [do : Bans \cup Unbans \cup {"night"}, at : Site, until : Until,
   step : {"row", "flag", "clear"}, n : Nat, seen : Until \cup {None}]
Letter == [do : {"block", "undo"}, to : Site, until : Until, n : Nat]

BanTypeOK ==
  /\ clock \in 0..MaxTime
  /\ ban \in [Site -> Until \cup {None}]
  /\ member \in [Site -> {"none", "good", "banned"}]
  /\ cache \in [Site -> {"none", "free", "banned"}]
  /\ request \in {Idle} \cup
       [do : {"fill", "join"}, at : Site, told : {"free", "banned"}]
  /\ job \in [Worker -> {Idle} \cup Job]
  /\ \A w \in Worker : job[w].do = "night" => job[w].seen < clock
  /\ net \subseteq Letter
  /\ written \in Nat /\ last \in [Site -> Nat]
  /\ orders \in 0..MaxOrders /\ faults \in 0..MaxFaults

Unharmed(what) == mishaps \cap (what \cup {"died"}) = {}
Busy(i, steps) ==
  \E w \in Worker : job[w] # Idle /\ Place(w) = i /\ job[w].step \in steps
Clearing(i) ==
  \E w \in Worker : /\ job[w] # Idle /\ Place(w) = i
                    /\ job[w].step \in {"flag", "clear"} /\ Forgets(job[w].do, i)

\* What the cache tells of the user is what the rows say, as soon as whoever
\* changed them has cleared it, unless a request read them before and filled the
\* cache after (raced), the night cleared it before it deleted (early), or the
\* user is of another instance (kept).
CacheTells ==
  Unharmed({"raced", "early", "kept"}) =>
    \A i \in Site :
      Clearing(i) \/ cache[i] \in {"none", Told(i)}

\* The flag of a member says that he is banned if and only if he is, unless he
\* joined while he was banned or a flag was written over a ban by then undone.
FlagsAgree ==
  Unharmed({"crossed", "joined"}) =>
    \A i \in Site :
      Busy(i, {"flag"}) \/ member[i] = "none"
        \/ (member[i] = "banned") = (ban[i] # None)

\* When nothing is under way, both instances have the same ban in force.
BansAgree ==
  Unharmed({"lost", "overtaken", "unsent", "ignored", "late", "renewed",
            "crossed"}) =>
    (net # {} \/ \E w \in Worker : job[w] # Idle) \/
    \A i, j \in Site : ban[i] \in {None, ban[j]} \/ Expired(i)
=============================================================================
