----------------------------- MODULE CallContext -----------------------------
(***************************************************************************)
(* What a tool call knows of the user it is made for: whom it acts for     *)
(* (delegation.py, api/client.py), the user's time zone (api/clock.py),    *)
(* the names it is answered with if an argument is missing or a name fits  *)
(* nothing (argument_help.py, lookup_hints.py), and what is left of its    *)
(* answer (middleware.py).                                                 *)
(*                                                                         *)
(* A call is a schedule_downtime, which reads the zone twice, or one that  *)
(* lacks its hostname.  Tools run in worker threads, so zone reads of      *)
(* several calls interleave; the middleware runs in the event loop, so     *)
(* while host names are read for a hint no other call begins.              *)
(***************************************************************************)
EXTENDS FiniteSets, Naturals, Sequences

CONSTANTS
    Messages,     \* tool calls, each made at most once
    People,       \* users of openITCOCKPIT
    Finders,      \* tools that report host names
    ZoneTTL,      \* ttl_seconds of UserClock
    HintTTL,      \* CACHE_TTL_SECONDS of argument_help
    AnswerTime,   \* assumed bound on the seconds from a request to its use
    MaxClock,     \* bound of the model: the clock stops here
    MaxZones      \* bound of the model: changes of the users' zones

ASSUME FindersAssumption == IsFiniteSet(Finders)
ASSUME TimesAssumption == {ZoneTTL, HintTTL} \subseteq Nat \ {0} /\ AnswerTime \in Nat
ASSUME ContextBounds == MaxClock \in Nat /\ MaxZones \in Nat

VARIABLES
    clock,     \* time.monotonic(), in seconds
    delegated, \* whether calls act for their users, or for the API key's
    account,   \* the user of the API key
    offered,   \* the finders this instance has, after any toolset limit
    changed,   \* changed[u]: when the user's zone was changed, each time
    zones,     \* zones[u]: the zone cached for a user, or Nothing
    hosts,     \* the host names cached for hints, or Nothing
    loop,      \* the calls that hold the event loop
    place,     \* place[m]: the step the call is at
    acts,      \* acts[m]: the user it acts for
    asked,     \* asked[m]: what it asks for, or was answered, or Nothing
    read,      \* read[m]: the zones it has read, while it runs
    reply      \* reply[m]: what the caller gets

Settings == <<delegated, account, offered>>
contextVars == <<clock, Settings, changed, zones, hosts, loop, place, acts, asked, read, reply>>

Nothing == [tag |-> "nothing"]
(* An answer: for whom it was given, when it was asked for, and what it    *)
(* says: how often the zone was changed before, or 0 for no host names.    *)
(* Then the same as it is cached, and as a call used it, with the time.    *)
Reading == [tag : {"reading"}, for : People, sent : Nat, says : Nat]
Cached == [tag : {"cached"}, of : Reading, stamp : Nat]
Used == [of : Reading, seen : Nat]

Open == [kind |-> "open"]
Replies ==
    {Open} \cup [kind : {"raised", "done", "summary"}]
    \cup [kind : {"hosts"}, names : Used]
    \cup [kind : {"finders"}, tools : SUBSET Finders]

ContextTypeOK ==
    /\ clock \in Nat /\ delegated \in BOOLEAN /\ account \in People /\ offered \subseteq Finders
    /\ changed \in [People -> Seq(Nat)]
    /\ \A u \in People : zones[u] \in Cached \cup {Nothing}
    /\ hosts \in Cached \cup {Nothing} /\ loop \subseteq Messages
    /\ place \in [Messages -> {"idle", "hint", "asking names", "names", "zones",
                               "asking zone", "zone", "answer", "returned"}]
    /\ acts \in [Messages -> People]
    /\ \A m \in Messages : asked[m] \in Reading \cup {Nothing}
    /\ \A m \in Messages : Len(read[m]) <= 2 /\ read[m] \in Seq(Used)
    /\ reply \in [Messages -> Replies]

ContextInit ==
    /\ clock = 0
    /\ delegated \in BOOLEAN /\ account \in People /\ offered \in SUBSET Finders
    /\ changed = [u \in People |-> << >>]
    /\ zones = [u \in People |-> Nothing] /\ hosts = Nothing
    /\ loop = {}
    /\ place = [m \in Messages |-> "idle"]
    /\ acts = [m \in Messages |-> account]
    /\ asked = [m \in Messages |-> Nothing]
    /\ read = [m \in Messages |-> << >>]
    /\ reply = [m \in Messages |-> Open]

-----------------------------------------------------------------------------
(* A second passes; nothing is under way for longer than AnswerTime.       *)
PassTime ==
    /\ clock < MaxClock
    /\ \A m \in Messages : asked[m] # Nothing => clock - asked[m].sent < AnswerTime
    /\ clock' = clock + 1
    /\ UNCHANGED <<Settings, changed, zones, hosts, loop, place, acts, asked, read, reply>>

(* A user chooses another zone in openITCOCKPIT.                           *)
ChangeZone(u) ==
    /\ Len(changed[u]) < MaxZones
    /\ changed' = [changed EXCEPT ![u] = Append(@, clock)]
    /\ UNCHANGED <<clock, Settings, zones, hosts, loop, place, acts, asked, read, reply>>

End(m, r) ==
    /\ place' = [place EXCEPT ![m] = "returned"]
    /\ reply' = [reply EXCEPT ![m] = r]
    /\ asked' = [asked EXCEPT ![m] = Nothing]
    /\ read' = [read EXCEPT ![m] = << >>]
    /\ loop' = loop \ {m}

(* on_call_tool, in the event loop: the user of the request, or the one of *)
(* the API key; without a token a call fails before anything is sent.  A   *)
(* call that has its arguments goes on to a worker thread.                 *)
Receive(m, u) ==
    /\ place[m] = "idle" /\ loop = {}
    /\ acts' = [acts EXCEPT ![m] = IF delegated THEN u ELSE account]
    /\ \/ place' = [place EXCEPT ![m] = "hint"] /\ loop' = {m}
       \/ place' = [place EXCEPT ![m] = "zones"] /\ UNCHANGED loop
    /\ UNCHANGED <<clock, Settings, changed, zones, hosts, asked, read, reply>>

(* Mutant of Fresh: an entry is kept for good.                             *)
FreshForGood(entry, ttl) == entry # Nothing

Fresh(entry, ttl) == entry # Nothing /\ clock < entry.stamp + ttl

NoToken(m) ==
    /\ delegated
    /\ \/ place[m] = "zones" /\ read[m] = << >> /\ End(m, [kind |-> "raised"])
       \/ place[m] = "hint" /\ ~Fresh(hosts, HintTTL) /\ End(m, [kind |-> "finders", tools |-> offered])
    /\ UNCHANGED <<clock, Settings, changed, zones, hosts, acts>>

-----------------------------------------------------------------------------
AskFor(m, s) ==
    /\ place' = [place EXCEPT ![m] = s]
    /\ asked' = [asked EXCEPT ![m] = [tag |-> "reading", for |-> acts[m], sent |-> clock, says |-> 0]]

(* _hint_for: the names if there are some, else the tools that report them.*)
Hint(names) ==
    IF names.says = 0 THEN [kind |-> "finders", tools |-> offered]
    ELSE [kind |-> "hosts", names |-> [of |-> names, seen |-> clock]]

(* _host_names: the names cached, whoever asked for them, or read now.     *)
HintFromCache(m) ==
    /\ place[m] = "hint" /\ Fresh(hosts, HintTTL)
    /\ End(m, Hint(hosts.of))
    /\ UNCHANGED <<clock, Settings, changed, zones, hosts, acts>>

AskNames(m) ==
    /\ place[m] = "hint" /\ ~Fresh(hosts, HintTTL)
    /\ AskFor(m, "asking names")
    /\ UNCHANGED <<clock, Settings, changed, zones, hosts, loop, acts, read, reply>>

AnswerNames(m) ==
    /\ place[m] = "asking names"
    /\ place' = [place EXCEPT ![m] = "names"]
    /\ asked' = [asked EXCEPT ![m].says = 1] \/ UNCHANGED asked
    /\ UNCHANGED <<clock, Settings, changed, zones, hosts, loop, acts, read, reply>>

HintFromNames(m) ==
    /\ place[m] = "names"
    /\ hosts' = [tag |-> "cached", of |-> asked[m], stamp |-> clock]
    /\ End(m, Hint(asked[m]))
    /\ UNCHANGED <<clock, Settings, changed, zones, acts>>

(* The names cannot be read: nothing is cached.                            *)
HintWithoutNames(m) ==
    /\ place[m] \in {"asking names", "names"}
    /\ End(m, [kind |-> "finders", tools |-> offered])
    /\ UNCHANGED <<clock, Settings, changed, zones, hosts, acts>>

-----------------------------------------------------------------------------
(* UserClock.zone, first for the parse of the times, then for now().       *)
Take(m, z) ==
    /\ read' = [read EXCEPT ![m] = Append(@, [of |-> z, seen |-> clock])]
    /\ place' = [place EXCEPT ![m] = IF read[m] = << >> THEN "zones" ELSE "answer"]

ZoneFromCache(m) ==
    /\ place[m] = "zones" /\ Fresh(zones[acts[m]], ZoneTTL)
    /\ Take(m, zones[acts[m]].of)
    /\ UNCHANGED <<clock, Settings, changed, zones, hosts, loop, acts, asked, reply>>

(* The lock is released for the request.                                   *)
AskZone(m) ==
    /\ place[m] = "zones" /\ ~Fresh(zones[acts[m]], ZoneTTL)
    /\ AskFor(m, "asking zone")
    /\ UNCHANGED <<clock, Settings, changed, zones, hosts, loop, acts, read, reply>>

(* A zone that is empty or unknown counts as Europe/Berlin, which is a     *)
(* zone like any other here.                                               *)
AnswerZone(m) ==
    /\ place[m] = "asking zone"
    /\ place' = [place EXCEPT ![m] = "zone"]
    /\ asked' = [asked EXCEPT ![m].says = Len(changed[acts[m]])]
    /\ UNCHANGED <<clock, Settings, changed, zones, hosts, loop, acts, read, reply>>

(* Mutant of Slot: one entry for all users.                                *)
SlotOfAll(m) == account

(* cache_partition: the entry of the caller.                               *)
Slot(m) == acts[m]

StoreZone(m) ==
    /\ place[m] = "zone"
    /\ zones' = [zones EXCEPT ![Slot(m)] = [tag |-> "cached", of |-> asked[m], stamp |-> clock]]
    /\ Take(m, asked[m])
    /\ asked' = [asked EXCEPT ![m] = Nothing]
    /\ UNCHANGED <<clock, Settings, changed, hosts, loop, acts, reply>>

(* The request fails, or one the tool makes later: the call raises.  Of a  *)
(* name that fits nothing the tools that report the right ones are named.  *)
RaiseError(m) ==
    /\ place[m] \in {"asking zone", "zone", "answer"}
    /\ \/ End(m, [kind |-> "raised"])
       \/ place[m] = "answer" /\ offered # {} /\ End(m, [kind |-> "finders", tools |-> offered])
    /\ UNCHANGED <<clock, Settings, changed, zones, hosts, acts>>

(* CompactContentMiddleware: of an answer that is no error and has its     *)
(* structured half the text becomes a line, if that is switched on.        *)
Reply(m) ==
    /\ place[m] = "answer"
    /\ \E k \in {"done", "summary"} : End(m, [kind |-> k])
    /\ UNCHANGED <<clock, Settings, changed, zones, hosts, acts>>

(* Between two calls the server waits for the next one.                    *)
NoMessage == (\A m \in Messages : place[m] \in {"idle", "returned"}) /\ UNCHANGED contextVars

ContextNext ==
    \/ \E m \in Messages :
        \/ \E u \in People : Receive(m, u)
        \/ NoToken(m)
        \/ HintFromCache(m) \/ AskNames(m) \/ AnswerNames(m) \/ HintFromNames(m) \/ HintWithoutNames(m)
        \/ ZoneFromCache(m) \/ AskZone(m) \/ AnswerZone(m) \/ StoreZone(m)
        \/ RaiseError(m) \/ Reply(m)
    \/ \E u \in People : ChangeZone(u)
    \/ PassTime
    \/ NoMessage

ContextSpec == ContextInit /\ [][ContextNext]_contextVars

-----------------------------------------------------------------------------
(* Every zone a call reads is the caller's own, and one it had less than   *)
(* an entry's time and a request ago.  So where the two reads of a call    *)
(* differ, the zone was changed that shortly before; which of them is the  *)
(* older is open, as overlapping calls store in any order.                 *)
ZoneIsRecent ==
    \A m \in Messages : \A i \in 1..Len(read[m]) :
        LET z == read[m][i].of
        IN  /\ z.for = acts[m]
            /\ z.says < Len(changed[acts[m]]) =>
                  read[m][i].seen < changed[acts[m]][z.says + 1] + ZoneTTL + AnswerTime

(* The host names a caller is shown were asked for less than an entry's    *)
(* time and a request ago, however the calls overlap; the tools named      *)
(* instead are tools of this instance.                                     *)
HintsAreRecent ==
    \A m \in Messages :
        /\ reply[m].kind = "hosts" =>
              reply[m].names.seen < reply[m].names.of.sent + HintTTL + AnswerTime
        /\ reply[m].kind = "finders" => reply[m].tools \subseteq offered

(* "openITCOCKPIT answers as that user - their containers, their           *)
(* permissions" (docs/security.md, delegation.py): the host names a caller *)
(* is shown were read as the caller.                                       *)
HintsAreOwn == \A m \in Messages : reply[m].kind = "hosts" => reply[m].names.of.for = acts[m]
=============================================================================
