-------------------------- MODULE McpRegistryProofs --------------------------
(***************************************************************************)
(* A stale catalog is always about to hear of it, and registrations stay      *)
(* disjoint, for any number of servers, tools and notifications and any size  *)
(* of the broadcast buffer.                                                *)
(*                                                                         *)
(* StaleIsTold alone is not inductive.  A refresh may store a list that is    *)
(* already old, so an answer on its way must itself be current or told of     *)
(* (WatchOK); a watcher that ended must have been told to, or its server's    *)
(* changes go nowhere (Ending, which relates cancel, abort and close); and     *)
(* between discover() and the subscription only unaware knows of a change     *)
(* (Arriving).                                                             *)
(***************************************************************************)
EXTENDS McpRegistry, TLAPS

Notices == {"changed", "other"}

Shape ==
    /\ queue \in [Client -> Seq(Notices)]
    /\ watcher \in [Client -> {"none", "listening", "asking", "ended"}]
    /\ store \in [Client -> (SUBSET Tool) \cup {NoList}]
    /\ answer \in [Client -> (SUBSET Tool) \cup {NoList}]
    /\ listing \in [Client -> SUBSET Tool]
    /\ opened \in 0 .. MaxClients

Told(c) == Tells(c) \/ c \in unaware
InTime(c) == watcher[c] = "asking" /\ answer[c] \in {NoList, listing[c]}
WatchOK(c) ==
    /\ watcher[c] # "asking" => answer[c] = NoList
    /\ watcher[c] = "asking" => Told(c) \/ InTime(c)
    /\ Watched(c) /\ store[c] # listing[c] => Told(c) \/ InTime(c)

Ending ==
    /\ \A c \in Client : watcher[c] = "ended" => c \in cancelled
    /\ aborted \subseteq cancelled /\ closing \subseteq cancelled /\ closed \subseteq closing
    /\ doing.op = "join" => Entry \in cancelled

Arriving ==
    doing.op \in {"discover", "install"} =>
        /\ doing.client \in Client /\ doing.client <= opened
        /\ watcher[doing.client] = "none"
        /\ doing.op = "install" /\ store[doing.client] # listing[doing.client] =>
             doing.client \in unaware

\* A client not yet handed to register() has no watcher.
Ahead == \A c \in Client : c > opened => watcher[c] = "none"

IInv ==
    /\ Shape /\ Ending /\ Arriving /\ Ahead
    /\ \A c \in Client : WatchOK(c)

USE BoundsAssumption

-----------------------------------------------------------------------------
\* Whatever is sent stays in the buffer until something else pushes it out.
LEMMA Pushed ==
    ASSUME NEW q \in Seq(Notices), NEW x \in Notices
    PROVE  /\ Push(q, x) \in Seq(Notices)
           /\ \E i \in DOMAIN Push(q, x) : Push(q, x)[i] = x
<1>1. CASE Len(q) < Buffer
    <2>1. Push(q, x) = Append(q, x)
        BY <1>1 DEF Push
    <2>2. Len(q) + 1 \in DOMAIN Append(q, x) /\ Append(q, x)[Len(q) + 1] = x
        OBVIOUS
    <2> QED  BY <2>1, <2>2
<1>2. CASE ~(Len(q) < Buffer)
    <2>1. Push(q, x) = Append(Tail(q), x)
        BY <1>2 DEF Push
    <2>2. Len(q) \in Nat \ {0}
        BY <1>2
    <2>3. q # <<>>
        BY <2>2
    <2>4. Tail(q) \in Seq(Notices)
        BY <2>3
    <2> DEFINE r == Tail(q)
    <2>5. Len(r) + 1 \in DOMAIN Append(r, x) /\ Append(r, x)[Len(r) + 1] = x
        BY <2>4
    <2> QED  BY <2>1, <2>4, <2>5
<1> QED  BY <1>1, <1>2

\* Taking another notification off the buffer leaves the one that tells of a change.
LEMMA Popped ==
    ASSUME NEW q \in Seq(Notices), q # <<>>
    PROVE  /\ Tail(q) \in Seq(Notices)
           /\ Head(q) # "changed" /\ (\E i \in DOMAIN q : q[i] = "changed") =>
                \E i \in DOMAIN Tail(q) : Tail(q)[i] = "changed"
<1>1. Tail(q) \in Seq(Notices)
    OBVIOUS
<1>2. ASSUME Head(q) # "changed", NEW i \in DOMAIN q, q[i] = "changed"
      PROVE  \E j \in DOMAIN Tail(q) : Tail(q)[j] = "changed"
    <2>1. i # 1
        BY <1>2
    <2>2. i - 1 \in DOMAIN Tail(q) /\ Tail(q)[i - 1] = q[i]
        BY <2>1
    <2> QED  BY <1>2, <2>2
<1> QED  BY <1>1, <1>2

LEMMA Initially == Init => IInv
<1> SUFFICES ASSUME Init PROVE IInv
    OBVIOUS
<1>1. Shape
    <2>1. <<>> \in Seq(Notices)
        OBVIOUS
    <2>2. opened \in 0 .. MaxClients
        BY DEF Init
    <2>3. queue \in [Client -> Seq(Notices)]
        BY <2>1 DEF Init
    <2>4. NoList \in (SUBSET Tool) \cup {NoList}
        OBVIOUS
    <2>5. /\ store \in [Client -> (SUBSET Tool) \cup {NoList}]
          /\ answer \in [Client -> (SUBSET Tool) \cup {NoList}]
        BY <2>4 DEF Init
    <2> QED  BY <2>2, <2>3, <2>5 DEF Init, Shape
<1>2. Ending /\ Arriving /\ Ahead
    BY DEF Init, Ending, Arriving, Ahead, Idle
<1>3. \A c \in Client : WatchOK(c)
    BY DEF Init, WatchOK, Watched
<1> QED  BY <1>1, <1>2, <1>3 DEF IInv

(***************************************************************************)
(* What is said of one client survives a step that leaves it alone.          *)
(***************************************************************************)
LEMMA Untouched ==
    ASSUME NEW c \in Client, WatchOK(c),
           watcher'[c] = watcher[c], answer'[c] = answer[c], queue'[c] = queue[c],
           store'[c] = store[c], listing'[c] = listing[c],
           c \in unaware => c \in unaware', c \in cancelled => c \in cancelled'
    PROVE  WatchOK(c)'
BY DEF WatchOK, Told, InTime, Tells, Watched

(***************************************************************************)
(* Steps of the registry that leave every watcher, store and server alone:   *)
(* they can only cancel more.                                               *)
(***************************************************************************)
LEMMA QuietSteps ==
    ASSUME IInv, UNCHANGED <<store, watcher, answer, channel, servers, unaware>>,
           cancelled \subseteq cancelled', opened \in 0 .. MaxClients => opened' \in opened .. MaxClients,
           Ending', Arriving'
    PROVE  IInv'
<1>1. Shape'
    BY DEF IInv, Shape, channel, servers
<1>2. \A c \in Client : WatchOK(c)'
    BY Untouched DEF IInv, channel, servers
<1>3. Ahead'
    BY DEF IInv, Shape, Ahead, Client
<1> QED  BY <1>1, <1>2, <1>3 DEF IInv

LEMMA RegistrySteps ==
    ASSUME IInv,
           \/ \E n \in Name : Register(n) \/ RemoveServer(n)
           \/ Refused \/ DropRegistry \/ ShutdownBegins \/ ShuttingDown
    PROVE  IInv'
<1> USE DEF release, catalog
<1>1. ASSUME NEW n \in Name, Register(n) PROVE IInv'
    <2>1. opened' \in opened .. MaxClients /\ opened' \in Client /\ opened' > opened
        BY <1>1 DEF IInv, Shape, Register, Client
    <2>2. Ending'
        BY <1>1 DEF IInv, Ending, Register, Entry
    <2>3. watcher[opened'] = "none"
        BY <2>1 DEF IInv, Ahead
    <2>4. Arriving'
        BY <1>1, <2>1, <2>3 DEF IInv, Arriving, Register
    <2> QED  BY <1>1, <2>1, <2>2, <2>4, QuietSteps DEF Register
<1>2. ASSUME NEW n \in Name, RemoveServer(n) PROVE IInv'
    <2>1. Ending'
        BY <1>2 DEF IInv, Ending, RemoveServer, Released, Closes, Entry
    <2>2. Arriving'
        BY <1>2 DEF IInv, Arriving, RemoveServer
    <2>3. opened \in 0 .. MaxClients => opened' \in opened .. MaxClients
        BY <1>2 DEF RemoveServer
    <2> QED  BY <1>2, <2>1, <2>2, <2>3, QuietSteps DEF RemoveServer, Released
<1>3. CASE Refused
    <2>1. Ending' /\ Arriving'
        BY <1>3 DEF IInv, Ending, Arriving, Refused, Idle, Entry
    <2>2. opened \in 0 .. MaxClients => opened' \in opened .. MaxClients
        BY <1>3 DEF Refused
    <2> QED  BY <1>3, <2>1, <2>2, QuietSteps DEF Refused
<1>4. CASE DropRegistry
    <2>1. Ending' /\ Arriving'
        BY <1>4 DEF IInv, Ending, Arriving, DropRegistry, Idle, Released, Closes, Entry
    <2>2. opened \in 0 .. MaxClients => opened' \in opened .. MaxClients
        BY <1>4 DEF DropRegistry
    <2> QED  BY <1>4, <2>1, <2>2, QuietSteps DEF DropRegistry, Released
<1>5. CASE ShutdownBegins \/ ShuttingDown
    <2> USE DEF ShutdownBegins, ShuttingDown, CancelNext, JoinNext, JoinTimesOut, SecondPass,
                RejoinNext, ShutdownReturns, ShutdownPanics, At, Idle
    <2>1. UNCHANGED <<store, watcher, answer, channel, servers, unaware, opened, stores>>
          /\ cancelled \subseteq cancelled'
        BY <1>5
    <2>2. Ending'
        BY <1>5 DEF IInv, Ending, Entry
    <2>3. Arriving'
        BY <1>5 DEF IInv, Arriving
    <2>4. opened \in 0 .. MaxClients => opened' \in opened .. MaxClients
        BY <2>1
    <2> QED  BY <2>1, <2>2, <2>3, <2>4, QuietSteps
<1> QED  BY <1>1, <1>2, <1>3, <1>4, <1>5

(***************************************************************************)
(* discover() returns and the watcher subscribes.                           *)
(***************************************************************************)
LEMMA DiscoveredKeeps == ASSUME IInv, Discovered PROVE IInv'
<1> USE DEF release, catalog, servers, channel
<1> DEFINE c == doing.client
<1>1. c \in Client /\ watcher[c] = "none"
    BY DEF IInv, Arriving, Discovered
<1>2. Shape'
    BY <1>1 DEF IInv, Shape, Discovered
<1>3. Ending' /\ Ahead'
    BY DEF IInv, Ending, Ahead, Discovered, Entry
<1>4. Arriving'
    BY <1>1 DEF IInv, Shape, Arriving, Discovered
<1>5. ASSUME NEW d \in Client PROVE WatchOK(d)'
    <2>1. CASE d = c
        BY <2>1, <1>1 DEF IInv, WatchOK, Watched, Discovered
    <2>2. CASE d # c
        BY <2>2, Untouched DEF IInv, Shape, Discovered
    <2> QED  BY <2>1, <2>2
<1> QED  BY <1>2, <1>3, <1>4, <1>5 DEF IInv

LEMMA InstalledKeeps == ASSUME IInv, Installed PROVE IInv'
<1> USE DEF release, catalog, servers, channel
<1> DEFINE c == doing.client
<1>1. c \in Client /\ watcher[c] = "none" /\ (store[c] # listing[c] => c \in unaware)
    BY DEF IInv, Arriving, Installed
<1>2. PICK w \in {"none", "listening"} : watcher' = [watcher EXCEPT ![c] = w]
    BY DEF Installed
<1>3. watcher'[c] = w /\ \A d \in Client \ {c} : watcher'[d] = watcher[d]
    BY <1>1, <1>2 DEF IInv, Shape
<1>4. Shape'
    BY <1>2 DEF IInv, Shape, Installed
<1>5. Ending'
    BY <1>1, <1>3 DEF IInv, Ending, Installed, Released, Closes, Idle, Entry
<1>6. Arriving'
    BY DEF Arriving, Installed, Idle
<1>7. Ahead'
    <2>1. c <= opened
        BY DEF IInv, Arriving, Installed
    <2>2. ~(c > opened)
        BY <2>1, <1>1 DEF IInv, Shape, Client
    <2> QED  BY <1>1, <1>3, <2>2 DEF IInv, Ahead, Installed
<1>8. ASSUME NEW d \in Client PROVE WatchOK(d)'
    <2>1. CASE d = c
        BY <2>1, <1>1, <1>3 DEF IInv, WatchOK, Watched, Told, Installed
    <2>2. CASE d # c
        BY <2>2, <1>3, Untouched DEF IInv, Installed, Released
    <2> QED  BY <2>1, <2>2
<1> QED  BY <1>4, <1>5, <1>6, <1>7, <1>8 DEF IInv

(***************************************************************************)
(* The servers' notices.                                                    *)
(***************************************************************************)
LEMMA ChangeKeeps == ASSUME IInv, NEW c \in Client, Change(c) PROVE IInv'
<1> USE DEF release, catalog
<1>1. Shape'
    <2>1. queue' \in [Client -> Seq(Notices)]
        <3>1. CASE Subscribed(c)
            <4>1. queue[c] \in Seq(Notices) /\ "changed" \in Notices
                BY DEF IInv, Shape, Notices
            <4>2. Push(queue[c], "changed") \in Seq(Notices)
                BY <4>1, Pushed
            <4> QED  BY <3>1, <4>2 DEF IInv, Shape, Change, Send
        <3>2. CASE ~Subscribed(c)
            BY <3>2 DEF IInv, Shape, Change
        <3> QED  BY <3>1, <3>2
    <2>2. listing' \in [Client -> SUBSET Tool]
        BY DEF IInv, Shape, Change
    <2> QED  BY <2>1, <2>2 DEF IInv, Shape, Change
<1>2. Ending' /\ Ahead'
    BY DEF IInv, Ending, Ahead, Change, Entry
<1>3. \A d \in Client \ {c} : listing'[d] = listing[d] /\ queue'[d] = queue[d]
    BY DEF IInv, Shape, Change, Send
<1>4. Arriving'
    BY <1>3 DEF IInv, Arriving, Change
<1>5. ASSUME NEW d \in Client PROVE WatchOK(d)'
    <2>1. CASE d # c
        BY <2>1, <1>3, Untouched DEF IInv, Change
    <2>2. CASE d = c /\ Subscribed(c)
        <3>1. Tells(c)'
            BY <2>2, Pushed DEF IInv, Shape, Change, Send, Tells, Notices
        <3> QED  BY <2>2, <3>1 DEF IInv, WatchOK, Told, Change, Subscribed
    <2>3. CASE d = c /\ watcher[c] = "none"
        BY <2>3 DEF IInv, WatchOK, Watched, Change
    <2>4. CASE d = c /\ watcher[c] = "ended"
        BY <2>4 DEF IInv, Ending, WatchOK, Watched, Change
    <2> QED  BY <2>1, <2>2, <2>3, <2>4 DEF IInv, Shape, Subscribed
<1> QED  BY <1>1, <1>2, <1>4, <1>5 DEF IInv

LEMMA NotifyKeeps == ASSUME IInv, NEW c \in Client, Notify(c) PROVE IInv'
<1> USE DEF release, catalog
<1>1. Shape'
    <2>1. queue' \in [Client -> Seq(Notices)]
        BY Pushed DEF IInv, Shape, Notify, Send, Notices
    <2> QED  BY <2>1 DEF IInv, Shape, Notify
<1>2. Ending' /\ Ahead'
    BY DEF IInv, Ending, Ahead, Notify, Entry
<1>3. unaware \subseteq unaware' /\ \A d \in Client \ {c} : queue'[d] = queue[d]
    BY DEF IInv, Shape, Notify, Send
<1>4. Arriving'
    BY <1>3 DEF IInv, Arriving, Notify
<1>5. ASSUME NEW d \in Client PROVE WatchOK(d)'
    <2>1. CASE d # c
        BY <2>1, <1>3, Untouched DEF IInv, Notify
    <2>2. CASE d = c
        <3>1. Told(c) => Told(c)'
            BY <1>3 DEF Told, Notify
        <3> QED  BY <2>2, <3>1 DEF IInv, WatchOK, InTime, Watched, Notify
    <2> QED  BY <2>1, <2>2
<1> QED  BY <1>1, <1>2, <1>4, <1>5 DEF IInv

(***************************************************************************)
(* The watcher.                                                            *)
(***************************************************************************)
\* Steps of the watcher of c, and of the task that closes it, touch nothing else.
LEMMA OneWatcher ==
    ASSUME IInv, NEW c \in Client, Shape', WatchOK(c)',
           watcher[c] # "none", watcher'[c] = "ended" => c \in cancelled,
           \A d \in Client \ {c} :
               /\ watcher'[d] = watcher[d] /\ answer'[d] = answer[d]
               /\ queue'[d] = queue[d] /\ store'[d] = store[d],
           UNCHANGED <<doing, catalog, release, closed, listing>>, unaware \subseteq unaware'
    PROVE  IInv'
<1> USE DEF release, catalog
<1>1. Ending'
    BY DEF IInv, Ending, Entry
<1>2. Arriving'
    BY DEF IInv, Arriving
<1>3. Ahead'
    BY DEF IInv, Ahead
<1>4. ASSUME NEW d \in Client PROVE WatchOK(d)'
    BY Untouched DEF IInv
<1> QED  BY <1>1, <1>2, <1>3, <1>4 DEF IInv

LEMMA WatcherSteps == ASSUME IInv, NEW c \in Client, Watching(c) \/ Answer(c) PROVE IInv'
<1> USE DEF servers, channel, catalog
<1>1. CASE Stop(c) \/ ChannelCloses(c) \/ Aborted(c)
    <2> USE DEF Stop, ChannelCloses, Aborted, End, Subscribed
    <2>1. c \in cancelled /\ watcher[c] # "none"
        BY <1>1 DEF IInv, Ending
    <2>2. <<>> \in Seq(Notices)
        OBVIOUS
    <2>3. Shape'
        <3>0. Shape /\ End(c)
            BY <1>1 DEF IInv
        <3>1. /\ queue' = [queue EXCEPT ![c] = <<>>] /\ watcher' = [watcher EXCEPT ![c] = "ended"]
              /\ answer' = [answer EXCEPT ![c] = NoList]
              /\ UNCHANGED <<store, listing, opened>>
            BY <3>0
        <3>2. queue' \in [Client -> Seq(Notices)]
            BY <2>2, <3>0, <3>1 DEF Shape
        <3>3. /\ watcher' \in [Client -> {"none", "listening", "asking", "ended"}]
              /\ answer' \in [Client -> (SUBSET Tool) \cup {NoList}]
            BY <3>0, <3>1 DEF Shape
        <3> QED  BY <3>0, <3>1, <3>2, <3>3 DEF Shape
    <2>4. WatchOK(c)'
        BY <1>1, <2>1 DEF IInv, Shape, WatchOK, Watched, release
    <2>5. \A d \in Client \ {c} :
              /\ watcher'[d] = watcher[d] /\ answer'[d] = answer[d]
              /\ queue'[d] = queue[d] /\ store'[d] = store[d]
        BY <1>1 DEF IInv, Shape
    <2> QED  BY <1>1, <2>1, <2>3, <2>4, <2>5, OneWatcher
<1>2. CASE Lag(c)
    <2>1. watcher' = watcher
        BY <1>2 DEF IInv, Shape, Lag, AfterLag
    <2>2. Shape'
        BY <1>2, <2>1 DEF IInv, Shape, Lag
    <2>3. WatchOK(c)'
        BY <1>2, <2>1, Untouched DEF IInv, Lag, release
    <2> QED  BY <1>2, <2>1, <2>2, <2>3, OneWatcher DEF Lag
<1>3. CASE Receive(c)
    <2>1. queue[c] \in Seq(Notices) /\ queue[c] # <<>> /\ queue'[c] = Tail(queue[c])
          /\ queue' = [queue EXCEPT ![c] = Tail(queue[c])]
        BY <1>3 DEF IInv, Shape, Receive
    <2>2. Shape'
        <3>1. Tail(queue[c]) \in Seq(Notices)
            BY <2>1, Popped
        <3>2. queue' \in [Client -> Seq(Notices)]
            BY <2>1, <3>1 DEF IInv, Shape
        <3>3. watcher' \in [Client -> {"none", "listening", "asking", "ended"}]
            BY <1>3 DEF IInv, Shape, Receive
        <3> QED  BY <1>3, <3>2, <3>3 DEF IInv, Shape, Receive
    <2>3. WatchOK(c)'
        <3>1. CASE Head(queue[c]) = "changed"
            BY <1>3, <3>1 DEF IInv, Shape, WatchOK, InTime, Receive
        <3>2. CASE Head(queue[c]) # "changed"
            <4>1. Tells(c) => Tells(c)'
                BY <2>1, <3>2, Popped DEF Tells
            <4> QED
                BY <1>3, <3>2, <4>1
                   DEF IInv, WatchOK, Told, InTime, Watched, Receive, release
        <3> QED  BY <3>1, <3>2
    <2>4. \A d \in Client \ {c} :
              /\ watcher'[d] = watcher[d] /\ answer'[d] = answer[d]
              /\ queue'[d] = queue[d] /\ store'[d] = store[d]
        BY <1>3, <2>1 DEF IInv, Shape, Receive
    <2>5. watcher'[c] # "ended"
        BY <1>3 DEF IInv, Shape, Receive
    <2> QED  BY <1>3, <2>2, <2>3, <2>4, <2>5, OneWatcher DEF Receive
<1>4. CASE Answer(c)
    <2>1. Shape'
        BY <1>4 DEF IInv, Shape, Answer
    <2>2. WatchOK(c)'
        BY <1>4 DEF IInv, Shape, WatchOK, InTime, Answer
    <2>3. \A d \in Client \ {c} : answer'[d] = answer[d]
        BY <1>4 DEF IInv, Shape, Answer
    <2> QED  BY <1>4, <2>1, <2>2, <2>3, OneWatcher DEF Answer
<1>5. CASE Refreshed(c)
    <2>1. Shape'
        BY <1>5 DEF IInv, Shape, Refreshed
    <2>2. WatchOK(c)'
        BY <1>5 DEF IInv, Shape, WatchOK, Told, Tells, InTime, Refreshed
    <2>3. \A d \in Client \ {c} :
              /\ watcher'[d] = watcher[d] /\ answer'[d] = answer[d] /\ store'[d] = store[d]
        BY <1>5 DEF IInv, Shape, Refreshed
    <2>4. watcher[c] # "none" /\ watcher'[c] # "ended"
        BY <1>5 DEF IInv, Shape, Refreshed
    <2> QED  BY <1>5, <2>1, <2>2, <2>3, <2>4, OneWatcher DEF Refreshed
<1>6. CASE RefreshFails(c)
    <2>1. Shape'
        BY <1>6 DEF IInv, Shape, RefreshFails
    <2>2. WatchOK(c)'
        BY <1>6 DEF IInv, Shape, WatchOK, Told, Tells, InTime, RefreshFails
    <2>3. \A d \in Client \ {c} :
              /\ watcher'[d] = watcher[d] /\ answer'[d] = answer[d]
        BY <1>6 DEF IInv, Shape, RefreshFails
    <2>4. watcher[c] # "none" /\ watcher'[c] # "ended"
        BY <1>6 DEF IInv, Shape, RefreshFails
    <2> QED  BY <1>6, <2>1, <2>2, <2>3, <2>4, OneWatcher DEF RefreshFails
<1> QED  BY <1>1, <1>2, <1>3, <1>4, <1>5, <1>6 DEF Watching

-----------------------------------------------------------------------------
LEMMA Inductive == IInv /\ [Next]_vars => IInv'
<1> SUFFICES ASSUME IInv, [Next]_vars PROVE IInv'
    OBVIOUS
<1>1. CASE \/ \E n \in Name : Register(n) \/ RemoveServer(n)
           \/ Refused \/ DropRegistry \/ ShutdownBegins \/ ShuttingDown
    BY <1>1, RegistrySteps
<1>2. CASE Discovered \/ Installed
    BY <1>2, DiscoveredKeeps, InstalledKeeps
<1>3. CASE \E c \in Client : Change(c) \/ Notify(c) \/ Watching(c) \/ Answer(c)
    BY <1>3, ChangeKeeps, NotifyKeeps, WatcherSteps
<1>4. CASE \E c \in Client : Close(c)
    <2>1. Ending' /\ Arriving'
        BY <1>4 DEF IInv, Ending, Arriving, Close, Entry, catalog, release, servers
    <2>2. opened' = opened
        BY <1>4 DEF Close, catalog
    <2>3. opened \in 0 .. MaxClients => opened' \in opened .. MaxClients
        BY <2>2
    <2> QED  BY <1>4, <2>1, <2>3, QuietSteps DEF Close, release
<1>5. CASE UNCHANGED vars
    <2> USE DEF vars, servers, channel
    <2>1. Ending' /\ Arriving'
        BY <1>5 DEF IInv, Ending, Arriving, Entry
    <2>2. opened \in 0 .. MaxClients => opened' \in opened .. MaxClients
        BY <1>5
    <2> QED  BY <1>5, <2>1, <2>2, QuietSteps
<1> QED  BY <1>1, <1>2, <1>3, <1>4, <1>5 DEF Next, Registering

\* The strengthened invariant holds throughout.
THEOREM Invariant == Spec => []IInv
BY Initially, Inductive, PTL DEF Spec

\* A watched server's stale list always has a notification or a current refresh on its
\* way to the catalog, but for the three named excuses: for any buffer size.
THEOREM StalenessIsTold == Spec => []StaleIsTold
<1>1. IInv => StaleIsTold
    BY DEF IInv, WatchOK, Told, InTime, StaleIsTold
<1> QED  BY <1>1, Invariant, PTL

-----------------------------------------------------------------------------
(***************************************************************************)
(* The registry's own books.  That registrations are disjoint follows only   *)
(* from what the index says: under the Error policy the tools a server came   *)
(* with are filed under its name for as long as it is registered, because a  *)
(* tool that is filed is refused to every newcomer (ClaimsStand).  A call     *)
(* that waits keeps its client out of the books until it is installed, and   *)
(* shutdown stays within them (AtWork).                                     *)
(***************************************************************************)
Indexed ==
    /\ Len(stores) <= opened
    /\ \A i \in DOMAIN stores : stores[i].client <= opened
    /\ \A i, j \in DOMAIN stores : stores[i].name = stores[j].name => i = j
    /\ \A i \in DOMAIN stores : first[stores[i].client] \in SUBSET Tool

AtWork ==
    /\ doing.op \in {"discover", "install"} =>
        /\ doing.client = opened /\ doing.client \in Client /\ doing.name \in Name
        /\ Len(stores) < opened
        /\ \A i \in DOMAIN stores : stores[i].client # opened
    /\ doing.op = "install" => first[doing.client] \in SUBSET Tool
    /\ doing.op \in {"cancel", "rejoin"} => doing.client \in 1 .. Len(stores) + 1
    /\ doing.op = "join" => doing.client \in DOMAIN stores

Claimed(n, c) == \A t \in first[c] : index[t] = n
ClaimsStand ==
    policy = "Error" =>
        /\ \A i \in DOMAIN stores : Claimed(stores[i].name, stores[i].client)
        /\ doing.op = "install" => Claimed(doing.name, doing.client)

\* The rest of the types: those of the books, the buffers' sizes, the sets of clients.
BookTypes ==
    /\ policy \in {"Error", "Override"}
    /\ doing \in [op : {"idle", "discover", "install", "cancel", "join", "rejoin", "dropped",
                        "panicked"},
                  name : Name \cup {NoName}, client : 0 .. MaxClients + 1]
    /\ stores \in Seq([name : Name, client : Client])
    /\ index \in [Tool -> Name \cup {NoName}]
    /\ first \in [Client -> (SUBSET Tool) \cup {NoList}]
InBuffer == \A c \in Client : Len(queue[c]) <= Buffer
ClientSets ==
    /\ cancelled \subseteq Client /\ aborted \subseteq Client /\ joined \subseteq Client
    /\ closing \subseteq Client /\ closed \subseteq closing
    /\ lagged \subseteq Client /\ unaware \subseteq Client
    /\ said \in 0 .. MaxNotices

Books == BookTypes /\ InBuffer /\ ClientSets /\ Indexed /\ AtWork /\ ClaimsStand

StoreEntry == [name : Name, client : Client]

\* Taking an entry out leaves the others, in their order.
LEMMA ShiftedIs ==
    ASSUME stores \in Seq(StoreEntry), NEW i \in DOMAIN stores
    PROVE  /\ Shifted(i) \in Seq(StoreEntry)
           /\ Len(Shifted(i)) = Len(stores) - 1
           /\ \A j \in DOMAIN Shifted(i) :
                 \/ j < i /\ j \in DOMAIN stores /\ Shifted(i)[j] = stores[j]
                 \/ j >= i /\ j + 1 \in DOMAIN stores /\ Shifted(i)[j] = stores[j + 1]
<1> DEFINE a == SubSeq(stores, 1, i - 1)
           b == SubSeq(stores, i + 1, Len(stores))
<1>1. i \in 1 .. Len(stores) /\ Len(stores) \in Nat
    OBVIOUS
<1>2. /\ a \in Seq(StoreEntry) /\ Len(a) = i - 1
      /\ \A j \in 1 .. i - 1 : a[j] = stores[j]
    BY <1>1
<1>3. /\ b \in Seq(StoreEntry) /\ Len(b) = Len(stores) - i
      /\ \A j \in 1 .. Len(stores) - i : b[j] = stores[i + j]
    BY <1>1
<1> HIDE DEF a, b
<1>4. /\ a \o b \in Seq(StoreEntry) /\ Len(a \o b) = Len(stores) - 1
      /\ \A j \in 1 .. Len(stores) - 1 :
            (a \o b)[j] = IF j <= i - 1 THEN a[j] ELSE b[j - (i - 1)]
    BY <1>1, <1>2, <1>3
<1>5. Shifted(i) = a \o b
    BY DEF Shifted, a, b
<1>6. ASSUME NEW j \in DOMAIN Shifted(i)
      PROVE  \/ j < i /\ j \in DOMAIN stores /\ Shifted(i)[j] = stores[j]
             \/ j >= i /\ j + 1 \in DOMAIN stores /\ Shifted(i)[j] = stores[j + 1]
    <2>1. j \in 1 .. Len(stores) - 1
        BY <1>4, <1>5
    <2>2. CASE j <= i - 1
        BY <1>1, <1>2, <1>4, <1>5, <2>1, <2>2
    <2>3. CASE ~(j <= i - 1)
        <3>1. j - (i - 1) \in 1 .. Len(stores) - i /\ i + (j - (i - 1)) = j + 1 /\ j >= i
            BY <1>1, <2>1, <2>3
        <3>2. (a \o b)[j] = b[j - (i - 1)]
            BY <1>4, <2>1, <2>3
        <3>3. b[j - (i - 1)] = stores[j + 1]
            BY <1>3, <3>1
        <3> QED  BY <1>1, <1>5, <2>1, <3>1, <3>2, <3>3
    <2> QED  BY <1>1, <2>1, <2>2, <2>3
<1> QED  BY <1>4, <1>5, <1>6

\* IndexMap::insert replaces the entry under the name, or appends one.
LEMMA InsertedIs ==
    ASSUME stores \in Seq(StoreEntry), NEW n \in Name, NEW c \in Client,
           \A i, j \in DOMAIN stores : stores[i].name = stores[j].name => i = j
    PROVE  /\ Inserted(n, c) \in Seq(StoreEntry)
           /\ Len(Inserted(n, c)) \in {Len(stores), Len(stores) + 1}
           /\ \A j \in DOMAIN Inserted(n, c) :
                 \/ Inserted(n, c)[j] = [name |-> n, client |-> c]
                 \/ j \in DOMAIN stores /\ Inserted(n, c)[j] = stores[j] /\ stores[j].name # n
           /\ \A i, j \in DOMAIN Inserted(n, c) :
                 Inserted(n, c)[i].name = Inserted(n, c)[j].name => i = j
<1> DEFINE e == [name |-> n, client |-> c]
<1>1. e \in StoreEntry
    BY DEF StoreEntry
<1>2. CASE n \in Names
    <2>1. Inserted(n, c) = [i \in DOMAIN stores |-> IF stores[i].name = n THEN e ELSE stores[i]]
        BY <1>2 DEF Inserted
    <2>2. Inserted(n, c) \in [1 .. Len(stores) -> StoreEntry] /\ Len(stores) \in Nat
        BY <1>1, <2>1
    <2>3. Inserted(n, c) \in Seq(StoreEntry) /\ Len(Inserted(n, c)) = Len(stores)
        BY <2>2
    <2>4. \A j \in DOMAIN Inserted(n, c) : j \in DOMAIN stores
        BY <2>2, <2>3
    <2>5. \A j \in DOMAIN stores :
              Inserted(n, c)[j] = IF stores[j].name = n THEN e ELSE stores[j]
        BY <2>1
    <2>6. \A j \in DOMAIN stores : Inserted(n, c)[j].name = stores[j].name
        BY <2>5
    <2> QED  BY <2>3, <2>4, <2>5, <2>6
<1>3. CASE n \notin Names
    <2>1. Inserted(n, c) = Append(stores, e)
        BY <1>3 DEF Inserted
    <2>2. /\ Inserted(n, c) \in Seq(StoreEntry) /\ Len(Inserted(n, c)) = Len(stores) + 1
          /\ \A j \in DOMAIN stores : Inserted(n, c)[j] = stores[j]
          /\ Inserted(n, c)[Len(stores) + 1] = e
          /\ Len(stores) \in Nat
        BY <1>1, <2>1
    <2>3. \A j \in DOMAIN Inserted(n, c) : j \in DOMAIN stores \/ j = Len(stores) + 1
        BY <2>2
    <2>4. \A j \in DOMAIN stores : stores[j].name # n
        BY <1>3 DEF Names
    <2> QED  BY <2>2, <2>3, <2>4
<1> QED  BY <1>2, <1>3

LEMMA BooksOpen == Init => Books
<1> SUFFICES ASSUME Init PROVE Books
    OBVIOUS
<1>1. NoList \in (SUBSET Tool) \cup {NoList} /\ <<>> \in Seq([name : Name, client : Client])
    OBVIOUS
<1>2. BookTypes
    BY <1>1 DEF Init, BookTypes, Idle
<1>3. InBuffer /\ ClientSets
    BY DEF Init, InBuffer, ClientSets
<1>4. Indexed /\ AtWork /\ ClaimsStand
    BY DEF Init, Indexed, AtWork, ClaimsStand, Idle
<1> QED  BY <1>2, <1>3, <1>4 DEF Books

(***************************************************************************)
(* The servers, the watchers and the spawned closes leave the books alone.   *)
(***************************************************************************)
LEMMA BooksAlone ==
    ASSUME Books, UNCHANGED <<policy, doing, catalog>>, InBuffer', ClientSets'
    PROVE  Books'
<1> USE DEF catalog
<1>1. BookTypes'
    BY DEF Books, BookTypes
<1>2. Indexed'
    BY DEF Books, Indexed
<1>3. AtWork'
    BY DEF Books, AtWork
<1>4. ClaimsStand'
    BY DEF Books, ClaimsStand, Claimed
<1> QED  BY <1>1, <1>2, <1>3, <1>4 DEF Books

LEMMA PushFits ==
    ASSUME NEW q \in Seq(Notices), Len(q) <= Buffer, NEW x \in Notices
    PROVE  Len(Push(q, x)) <= Buffer
<1>1. CASE Len(q) < Buffer
    BY <1>1 DEF Push
<1>2. CASE ~(Len(q) < Buffer)
    <2>1. Len(q) \in Nat \ {0}
        BY <1>2
    <2>2. q # <<>>
        BY <2>1
    <2>3. Tail(q) \in Seq(Notices) /\ Len(Tail(q)) = Len(q) - 1
        BY <2>2
    <2>4. Len(Append(Tail(q), x)) = Len(q)
        BY <2>1, <2>3
    <2> QED  BY <1>2, <2>4 DEF Push
<1> QED  BY <1>1, <1>2

LEMMA NoticesKeepBooks ==
    ASSUME IInv, Books, NEW c \in Client, Change(c) \/ Notify(c)
    PROVE  Books'
<1> USE DEF release
<1>1. UNCHANGED <<policy, doing, catalog>>
    BY DEF Change, Notify
<1>2. InBuffer'
    <2>1. queue \in [Client -> Seq(Notices)] /\ \A d \in Client : Len(queue[d]) <= Buffer
        BY DEF IInv, Shape, Books, InBuffer
    <2>2. CASE UNCHANGED queue
        BY <2>1, <2>2 DEF InBuffer
    <2>3. ASSUME NEW x \in Notices, Send(c, x)
          PROVE  InBuffer'
        <3>1. Len(Push(queue[c], x)) <= Buffer
            BY <2>1, PushFits
        <3>2. queue' = [queue EXCEPT ![c] = Push(queue[c], x)]
            BY <2>3 DEF Send
        <3> QED  BY <2>1, <3>1, <3>2 DEF InBuffer
    <2>4. UNCHANGED queue \/ Send(c, "changed") \/ Send(c, "other")
        BY DEF Change, Notify
    <2> QED  BY <2>2, <2>3, <2>4 DEF Notices
<1>3. ClientSets'
    <2>1. lagged' \subseteq Client
        BY DEF Books, ClientSets, Change, Notify, Send
    <2>2. unaware' \subseteq Client
        BY DEF Books, ClientSets, Change, Notify
    <2>3. said' \in 0 .. MaxNotices
        BY DEF Books, ClientSets, Change, Notify
    <2> QED  BY <2>1, <2>2, <2>3 DEF Books, ClientSets, Change, Notify
<1> QED  BY <1>1, <1>2, <1>3, BooksAlone

LEMMA WatchersKeepBooks ==
    ASSUME IInv, Books, NEW c \in Client, Watching(c) \/ Answer(c) \/ Close(c)
    PROVE  Books'
<1> USE DEF release, channel, servers
<1> USE DEF Stop, ChannelCloses, Aborted, End, Lag, Receive, Answer, Refreshed, RefreshFails,
            Close
<1>1. UNCHANGED <<policy, doing, catalog>>
    BY DEF Watching
<1>2. InBuffer'
    <2>1. queue \in [Client -> Seq(Notices)] /\ \A d \in Client : Len(queue[d]) <= Buffer
        BY DEF IInv, Shape, Books, InBuffer
    <2>2. CASE UNCHANGED queue
        BY <2>1, <2>2 DEF InBuffer
    <2>3. CASE queue' = [queue EXCEPT ![c] = <<>>]
        BY <2>1, <2>3 DEF InBuffer
    <2>4. CASE Receive(c)
        <3>1. queue[c] \in Seq(Notices) /\ queue[c] # <<>>
            BY <2>1, <2>4
        <3>2. Len(Tail(queue[c])) <= Buffer
            BY <2>1, <3>1
        <3> QED  BY <2>1, <2>4, <3>2 DEF InBuffer
    <2> QED  BY <2>2, <2>3, <2>4 DEF Watching
<1>3. ClientSets'
    BY DEF Books, ClientSets, Watching
<1> QED  BY <1>1, <1>2, <1>3, BooksAlone

(***************************************************************************)
(* Registration: the client stays out of the books until it is installed,   *)
(* and by then its tools are filed under its name.                          *)
(***************************************************************************)
LEMMA ReleasedAreClients ==
    ASSUME ClientSets, NEW cs \in SUBSET Client, Released(cs),
           UNCHANGED <<joined, closed, lagged, unaware, said>>
    PROVE  ClientSets'
BY DEF ClientSets, Released, Closes

LEMMA EntriesAreClients ==
    ASSUME BookTypes
    PROVE  /\ Registered \subseteq Client /\ \A n \in Name : ClientOf(n) \subseteq Client
           /\ \A i \in DOMAIN stores : stores[i].client \in Client /\ stores[i].name \in Name
<1>1. stores \in Seq(StoreEntry)
    BY DEF BookTypes, StoreEntry
<1>2. \A i \in DOMAIN stores : stores[i] \in StoreEntry
    BY <1>1
<1>3. \A i \in DOMAIN stores : stores[i].client \in Client /\ stores[i].name \in Name
    BY <1>2 DEF StoreEntry
<1> QED  BY <1>3 DEF Registered, ClientOf

LEMMA RegisterKeepsBooks == ASSUME IInv, Books, NEW n \in Name, Register(n) PROVE Books'
<1> USE DEF Register, release, channel, servers
<1>1. opened' = opened + 1 /\ opened' \in Client /\ opened \in Nat
    BY DEF IInv, Shape, Client
<1>2. BookTypes'
    BY <1>1 DEF Books, BookTypes, Client
<1>3. InBuffer' /\ ClientSets'
    BY DEF Books, InBuffer, ClientSets
<1>4. Len(stores) <= opened /\ Len(stores) \in Nat
    BY DEF Books, Indexed, BookTypes
<1>5. \A i \in DOMAIN stores : stores[i].client \in Nat /\ stores[i].client <= opened
    BY EntriesAreClients DEF Books, Indexed, Client
<1>6. Indexed'
    BY <1>1, <1>4, <1>5 DEF Books, Indexed
<1>7. AtWork'
    BY <1>1, <1>4, <1>5 DEF AtWork
<1>8. ClaimsStand'
    BY DEF Books, ClaimsStand, Claimed
<1> QED  BY <1>2, <1>3, <1>6, <1>7, <1>8 DEF Books

LEMMA DiscoveredKeepsBooks == ASSUME IInv, Books, Discovered PROVE Books'
<1> USE DEF release, channel, servers
<1> DEFINE c == doing.client
<1>1. c \in Client /\ c = opened /\ doing.name \in Name /\ \A i \in DOMAIN stores : stores[i].client # c
    BY DEF Books, AtWork, Discovered
<1>2. listing[c] \in SUBSET Tool
    BY <1>1 DEF IInv, Shape
<1>3. /\ first' = [first EXCEPT ![c] = listing[c]] /\ first'[c] = listing[c]
      /\ \A d \in Client : d # c => first'[d] = first[d]
    BY <1>1 DEF Discovered, Books, BookTypes
<1>4. doing' = [doing EXCEPT !.op = "install"] /\ doing'.op = "install"
      /\ doing'.client = c /\ doing'.name = doing.name
    BY DEF Discovered, Books, BookTypes
<1>5. BookTypes'
    <2>1. doing' \in [op : {"idle", "discover", "install", "cancel", "join", "rejoin", "dropped",
                            "panicked"},
                      name : Name \cup {NoName}, client : 0 .. MaxClients + 1]
        BY <1>4 DEF Books, BookTypes
    <2>2. index' \in [Tool -> Name \cup {NoName}]
        BY <1>1 DEF Discovered, Books, BookTypes
    <2>3. first' \in [Client -> (SUBSET Tool) \cup {NoList}]
        BY <1>1, <1>2, <1>3 DEF Books, BookTypes
    <2> QED  BY <2>1, <2>2, <2>3 DEF Discovered, Books, BookTypes
<1>6. InBuffer' /\ ClientSets'
    BY DEF Books, InBuffer, ClientSets, Discovered
<1>7. \A i \in DOMAIN stores :
          stores[i].client \in Client /\ first'[stores[i].client] = first[stores[i].client]
    BY <1>1, <1>3, EntriesAreClients DEF Books
<1>8. Indexed'
    BY <1>7 DEF Books, Indexed, Discovered
<1>9. AtWork'
    BY <1>1, <1>2, <1>3, <1>4 DEF Books, AtWork, Discovered
<1>10. ClaimsStand'
    <2> SUFFICES ASSUME policy = "Error" PROVE ClaimsStand'
        BY DEF ClaimsStand, Discovered
    <2>1. \A t \in listing[c] : index[t] = NoName
        BY DEF Discovered, Conflicts
    <2>2. index' = [t \in Tool |-> IF t \in listing[c] THEN doing.name ELSE index[t]]
        BY DEF Discovered
    <2>3. ASSUME NEW i \in DOMAIN stores, NEW t \in first[stores[i].client]
          PROVE  index'[t] = stores[i].name
        <3>1. index[t] = stores[i].name /\ t \in Tool
            BY <2>3 DEF Books, ClaimsStand, Claimed, Indexed
        <3>2. stores[i].name \in Name
            BY EntriesAreClients DEF Books
        <3>3. t \notin listing[c]
            BY <2>1, <3>1, <3>2
        <3> QED  BY <2>2, <3>1, <3>3
    <2>4. \A t \in first'[c] : index'[t] = doing.name
        BY <1>2, <1>3, <2>2
    <2>5. stores' = stores /\ policy' = policy
        BY DEF Discovered
    <2>6. \A i \in DOMAIN stores : \A t \in first'[stores[i].client] : index'[t] = stores[i].name
        BY <1>7, <2>3
    <2> QED  BY <1>4, <2>4, <2>5, <2>6 DEF ClaimsStand, Claimed
<1> QED  BY <1>5, <1>6, <1>8, <1>9, <1>10 DEF Books

LEMMA InstalledKeepsBooks == ASSUME IInv, Books, Installed PROVE Books'
<1> USE DEF release, channel, servers
<1> DEFINE c == doing.client
           n == doing.name
<1>1. /\ c \in Client /\ c = opened /\ n \in Name /\ Len(stores) < opened
      /\ first[c] \in SUBSET Tool
    BY DEF Books, AtWork, Installed
<1>2. stores' = Inserted(n, c) /\ doing' = Idle /\ UNCHANGED <<policy, opened, index, first>>
    BY DEF Installed
<1>3. stores \in Seq(StoreEntry)
      /\ \A i, j \in DOMAIN stores : stores[i].name = stores[j].name => i = j
    BY DEF Books, BookTypes, Indexed, StoreEntry
<1> HIDE DEF c, n
<1>4. /\ stores' \in Seq(StoreEntry) /\ Len(stores') \in {Len(stores), Len(stores) + 1}
      /\ \A j \in DOMAIN stores' :
            \/ stores'[j] = [name |-> n, client |-> c]
            \/ j \in DOMAIN stores /\ stores'[j] = stores[j] /\ stores[j].name # n
      /\ \A i, j \in DOMAIN stores' : stores'[i].name = stores'[j].name => i = j
    BY <1>1, <1>2, <1>3, InsertedIs
<1>5. BookTypes'
    BY <1>2, <1>4 DEF Books, BookTypes, Idle, StoreEntry
<1>6. InBuffer'
    BY DEF Books, InBuffer, Installed
<1>7. ClientSets'
    <2>1. ClientSets
        BY DEF Books
    <2>2. watcher' \in [Client -> {"none", "listening", "asking", "ended"}]
        BY InstalledKeeps DEF IInv, Shape
    <2>3. ClientOf(n) \in SUBSET Client
        BY <1>1, EntriesAreClients DEF Books
    <2>4. Released(ClientOf(n)) /\ UNCHANGED <<joined, closed, lagged, unaware, said>>
        BY DEF Installed, n
    <2> QED  BY <2>1, <2>3, <2>4, ReleasedAreClients
<1>8. Indexed'
    <2>1. Len(stores') <= opened'
        BY <1>1, <1>2, <1>3, <1>4 DEF Client
    <2>2. ASSUME NEW j \in DOMAIN stores'
          PROVE  /\ stores'[j].client <= opened'
                 /\ first'[stores'[j].client] \in SUBSET Tool
        <3>1. CASE stores'[j] = [name |-> n, client |-> c]
            BY <1>1, <1>2, <3>1 DEF Client
        <3>2. CASE j \in DOMAIN stores /\ stores'[j] = stores[j]
            BY <1>2, <3>2 DEF Books, Indexed
        <3> QED  BY <1>4, <3>1, <3>2
    <2> QED  BY <1>4, <2>1, <2>2 DEF Indexed
<1>9. AtWork'
    BY <1>2 DEF AtWork, Idle
<1>10. ClaimsStand'
    <2> SUFFICES ASSUME policy = "Error" PROVE ClaimsStand'
        BY <1>2 DEF ClaimsStand
    <2>1. \A t \in first[c] : index[t] = n
        BY DEF Books, ClaimsStand, Claimed, Installed, n, c
    <2>2. ASSUME NEW j \in DOMAIN stores', NEW t \in first[stores'[j].client]
          PROVE  index[t] = stores'[j].name
        <3>1. CASE stores'[j] = [name |-> n, client |-> c]
            BY <2>1, <2>2, <3>1
        <3>2. CASE j \in DOMAIN stores /\ stores'[j] = stores[j]
            BY <2>2, <3>2 DEF Books, ClaimsStand, Claimed
        <3> QED  BY <1>4, <3>1, <3>2
    <2> QED  BY <1>2, <2>2 DEF ClaimsStand, Claimed, Idle
<1> QED  BY <1>5, <1>6, <1>7, <1>8, <1>9, <1>10 DEF Books

\* A server that is removed takes its own claims with it, and nobody else's.
LEMMA RemoveKeepsBooks == ASSUME IInv, Books, NEW n \in Name, RemoveServer(n) PROVE Books'
<1> USE DEF release, channel, servers
<1>1. PICK i \in DOMAIN stores : stores[i].name = n /\ stores' = Shifted(i)
    BY DEF RemoveServer
<1>2. doing.op = "idle" /\ UNCHANGED <<policy, doing, opened, first>>
    BY DEF RemoveServer
<1>3. stores \in Seq(StoreEntry) /\ Len(stores) \in Nat /\ i \in 1 .. Len(stores)
    BY DEF Books, BookTypes, StoreEntry
<1>4. /\ stores' \in Seq(StoreEntry) /\ Len(stores') = Len(stores) - 1
      /\ \A j \in DOMAIN stores' :
            \/ j < i /\ j \in DOMAIN stores /\ stores'[j] = stores[j]
            \/ j >= i /\ j + 1 \in DOMAIN stores /\ stores'[j] = stores[j + 1]
    BY <1>1, <1>3, ShiftedIs
<1>5. \A j \in DOMAIN stores' : j \in Nat
    BY <1>4
<1>6. ASSUME NEW j \in DOMAIN stores'
      PROVE  \E k \in DOMAIN stores : k # i /\ stores'[j] = stores[k]
    BY <1>3, <1>4, <1>5
<1>7. BookTypes'
    <2>1. index' \in [Tool -> Name \cup {NoName}]
        BY DEF RemoveServer, Books, BookTypes
    <2> QED  BY <1>2, <1>4, <2>1 DEF Books, BookTypes, StoreEntry
<1>8. InBuffer'
    BY DEF Books, InBuffer, RemoveServer
<1>9. ClientSets'
    <2>1. ClientOf(n) \in SUBSET Client /\ ClientSets
        BY EntriesAreClients DEF Books
    <2>2. Released(ClientOf(n)) /\ UNCHANGED <<joined, closed, lagged, unaware, said>>
        BY DEF RemoveServer
    <2> QED  BY <2>1, <2>2, ReleasedAreClients
<1>10. Indexed'
    <2>1. Len(stores') <= opened'
        BY <1>2, <1>3, <1>4 DEF Books, Indexed, IInv, Shape
    <2>2. \A j \in DOMAIN stores' : /\ stores'[j].client <= opened'
                                    /\ first'[stores'[j].client] \in SUBSET Tool
        BY <1>2, <1>6 DEF Books, Indexed
    <2>3. \A j, k \in DOMAIN stores' : stores'[j].name = stores'[k].name => j = k
        BY <1>3, <1>4, <1>5 DEF Books, Indexed
    <2> QED  BY <2>1, <2>2, <2>3 DEF Indexed
<1>11. AtWork'
    BY <1>2 DEF AtWork
<1>12. ClaimsStand'
    <2> SUFFICES ASSUME policy = "Error" PROVE ClaimsStand'
        BY <1>2 DEF ClaimsStand
    <2>1. index' = [t \in Tool |-> IF index[t] = n THEN NoName ELSE index[t]]
        BY DEF RemoveServer
    <2>2. ASSUME NEW j \in DOMAIN stores', NEW t \in first[stores'[j].client]
          PROVE  index'[t] = stores'[j].name
        <3>1. PICK k \in DOMAIN stores : k # i /\ stores'[j] = stores[k]
            BY <1>6
        <3>2. index[t] = stores[k].name /\ t \in Tool
            BY <2>2, <3>1 DEF Books, ClaimsStand, Claimed, Indexed
        <3>3. stores[k].name # n
            BY <1>1, <3>1 DEF Books, Indexed
        <3> QED  BY <2>1, <3>1, <3>2, <3>3
    <2> QED  BY <1>2, <2>2 DEF ClaimsStand, Claimed
<1> QED  BY <1>7, <1>8, <1>9, <1>10, <1>11, <1>12 DEF Books

(***************************************************************************)
(* Shutdown walks the entries without changing them.                        *)
(***************************************************************************)
LEMMA ShutdownKeepsBooks ==
    ASSUME IInv, Books, ShutdownBegins \/ ShuttingDown \/ Refused \/ DropRegistry
    PROVE  Books'
<1> USE DEF release, channel, servers, catalog
<1> USE DEF ShutdownBegins, CancelNext, JoinNext, JoinTimesOut, SecondPass,
            RejoinNext, ShutdownReturns, ShutdownPanics, Refused, DropRegistry
<1>1. UNCHANGED <<policy, opened, stores, index, first, queue, lagged, unaware, said>>
    BY DEF ShuttingDown
<1>2. Len(stores) \in 0 .. MaxClients /\ DOMAIN stores = 1 .. Len(stores)
    BY DEF Books, Indexed, BookTypes, IInv, Shape
<1>3. AtWork' /\ doing' \in [op : {"idle", "discover", "install", "cancel", "join", "rejoin",
                                   "dropped", "panicked"},
                             name : Name \cup {NoName}, client : 0 .. MaxClients + 1]
    <2>1. CASE Refused \/ ShutdownReturns
        BY <2>1 DEF AtWork, Idle
    <2>2. CASE DropRegistry
        BY <2>2 DEF AtWork, Idle
    <2>3. CASE ShutdownBegins
        BY <1>1, <1>2, <2>3 DEF AtWork, At
    <2>4. CASE CancelNext
        <3>1. doing.client \in 1 .. Len(stores)
            BY <1>2, <2>4 DEF HasEntry
        <3>2. doing' = At("cancel", doing.client + 1) \/ doing' = At("join", doing.client)
            BY <2>4
        <3> QED  BY <1>1, <1>2, <3>1, <3>2 DEF AtWork, At
    <2>5. CASE JoinNext \/ JoinTimesOut
        <3>1. doing.client \in 1 .. Len(stores)
            BY <1>2, <2>5 DEF Books, AtWork
        <3> QED  BY <1>1, <1>2, <2>5, <3>1 DEF AtWork, At
    <2>6. CASE SecondPass
        BY <1>1, <1>2, <2>6 DEF AtWork, At
    <2>7. CASE RejoinNext
        <3>1. doing.client \in 1 .. Len(stores)
            BY <1>2, <2>7 DEF HasEntry
        <3> QED  BY <1>1, <1>2, <2>7, <3>1 DEF AtWork, At
    <2>8. CASE ShutdownPanics
        <3>1. doing.client \in 1 .. Len(stores)
            BY <1>2, <2>8 DEF HasEntry
        <3> QED  BY <1>1, <1>2, <2>8, <3>1 DEF AtWork, At
    <2> QED  BY <2>1, <2>2, <2>3, <2>4, <2>5, <2>6, <2>7, <2>8 DEF ShuttingDown
<1>4. BookTypes'
    BY <1>1, <1>3 DEF Books, BookTypes
<1>5. InBuffer'
    BY <1>1 DEF Books, InBuffer
<1>6. ClientSets'
    <2>1. ClientSets /\ closed' = closed
        BY DEF Books, ShuttingDown
    <2>2. CASE DropRegistry
        <3>1. Registered \in SUBSET Client
            BY EntriesAreClients DEF Books
        <3> QED  BY <2>1, <2>2, <3>1, ReleasedAreClients
    <2>3. CASE HasEntry \/ doing.op = "join"
        <3>1. doing.client \in DOMAIN stores
            BY <2>3 DEF Books, AtWork, HasEntry
        <3>2. Entry \in Client
            BY <3>1, EntriesAreClients DEF Books, Entry
        <3>3. \/ DropRegistry
              \/ /\ cancelled' \subseteq cancelled \cup {Entry}
                 /\ aborted' \subseteq aborted \cup {Entry}
                 /\ joined' \subseteq joined \cup {Entry}
                 /\ closing' = closing
            BY DEF ShuttingDown
        <3> QED  BY <1>1, <2>1, <2>2, <3>2, <3>3 DEF ClientSets
    <2>4. CASE UNCHANGED <<cancelled, aborted, joined, closing>>
        BY <1>1, <2>1, <2>4 DEF ClientSets
    <2> QED  BY <2>2, <2>3, <2>4 DEF ShuttingDown
<1>7. Indexed'
    BY <1>1 DEF Books, Indexed
<1>8. ClaimsStand'
    <2>1. doing'.op # "install"
        BY DEF ShuttingDown, At, Idle
    <2> QED  BY <1>1, <2>1 DEF Books, ClaimsStand, Claimed
<1> QED  BY <1>3, <1>4, <1>5, <1>6, <1>7, <1>8 DEF Books

LEMMA BooksInductive == IInv /\ Books /\ [Next]_vars => Books'
<1> SUFFICES ASSUME IInv, Books, [Next]_vars PROVE Books'
    OBVIOUS
<1>1. CASE \E n \in Name : Register(n) \/ RemoveServer(n)
    BY <1>1, RegisterKeepsBooks, RemoveKeepsBooks
<1>2. CASE Registering \/ DropRegistry \/ ShutdownBegins \/ ShuttingDown
    BY <1>2, DiscoveredKeepsBooks, InstalledKeepsBooks, ShutdownKeepsBooks DEF Registering
<1>3. CASE \E c \in Client : Change(c) \/ Notify(c) \/ Watching(c) \/ Answer(c) \/ Close(c)
    BY <1>3, NoticesKeepBooks, WatchersKeepBooks
<1>4. CASE UNCHANGED vars
    <2>1. InBuffer' /\ ClientSets'
        BY <1>4 DEF vars, Books, InBuffer, ClientSets
    <2> QED  BY <1>4, <2>1, BooksAlone DEF vars, catalog
<1> QED  BY <1>1, <1>2, <1>3, <1>4 DEF Next

\* The books are in order throughout.
THEOREM BooksInvariant == Spec => [](IInv /\ Books)
BY Invariant, BooksOpen, BooksInductive, PTL DEF Spec

\* Every variable stays within its type, for any numbers of servers, tools and notices.
THEOREM TypeCorrect == Spec => []TypeOK
<1>1. IInv /\ Books => TypeOK
    BY DEF IInv, Shape, Books, BookTypes, InBuffer, ClientSets, Notices, TypeOK
<1> QED  BY <1>1, BooksInvariant, PTL

\* Under the Error policy two registered servers never came with a tool of one name: the
\* conflict check of register() suffices, although remove() and a replacement change the
\* index behind its back.
THEOREM RegistrationsStayDisjoint == Spec => []RegistrationsAreDisjoint
<1>1. ASSUME IInv, Books, policy = "Error", NEW c \in Registered, NEW d \in Registered, c # d
      PROVE  first[c] \cap first[d] = {}
    <2>1. PICK i \in DOMAIN stores : stores[i].client = c
        BY DEF Registered
    <2>2. PICK j \in DOMAIN stores : stores[j].client = d
        BY DEF Registered
    <2>3. stores[i].name # stores[j].name
        BY <1>1, <2>1, <2>2 DEF Books, Indexed
    <2> QED  BY <1>1, <2>1, <2>2, <2>3 DEF Books, ClaimsStand, Claimed
<1>2. IInv /\ Books => RegistrationsAreDisjoint
    BY <1>1 DEF RegistrationsAreDisjoint
<1> QED  BY <1>2, BooksInvariant, PTL

================================================================================
