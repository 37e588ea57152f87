------------------------------ MODULE McpRegistry ------------------------------
(***************************************************************************)
(* McpServerRegistry of lellm-agent: the servers an agent takes its tools    *)
(* from, the CatalogStore and watcher task of each, and the catalog that      *)
(* merges the stores.  A watcher asks the server for its list whenever the   *)
(* server says tools/list_changed, through a broadcast channel that drops    *)
(* its oldest notification when it is full.                                 *)
(*                                                                         *)
(* Every register() brings a fresh McpClient, so a client's number says when  *)
(* it was registered.  The transport under it is McpTransport; here a request *)
(* is answered or fails, and holds the client's Mutex in between.           *)
(***************************************************************************)
EXTENDS Naturals, Sequences

CONSTANTS
    Name, NoName,  \* the names servers are registered under
    Tool,          \* the tools a server may list
    MaxClients,    \* bound on register()
    MaxNotices,    \* bound on what the servers say
    Buffer         \* NOTIFICATION_BUFFER

ASSUME BoundsAssumption ==
    /\ MaxClients \in Nat /\ MaxNotices \in Nat /\ Buffer \in Nat \ {0}
    /\ NoName \notin Name \cup Tool

Client == 1 .. MaxClients
NoList == {NoName}

VARIABLES
    policy,   \* NameConflictPolicy
    doing,    \* the registry's &mut self call: its kind, name, client and place
    opened,   \* clients handed to register() so far
    stores,   \* the stores index, in IndexMap order: name and client
    index,    \* tool_index
    store,    \* CatalogStore of each client, NoList before discover
    watcher,  \* its watcher task
    answer,   \* the list the server has sent the watcher, not yet stored
    queue, lagged, \* notifications its receiver holds, and whether it has lost some
    cancelled, aborted, \* clients whose token is cancelled, whose watcher is aborted
    joined,   \* clients whose JoinHandle has given its output
    closing, closed, \* clients whose close() is spawned, done
    listing, said, \* what each server lists, and how many notices were sent
    first,    \* history: the list each client was registered with
    unaware   \* history: clients whose store is stale with nothing to tell them

vars == <<policy, doing, opened, stores, index, store, watcher, answer, queue, lagged,
          cancelled, aborted, joined, closing, closed, listing, said, first, unaware>>
servers == <<listing, said>>
channel == <<queue, lagged>>
release == <<cancelled, aborted, closing>>
catalog == <<opened, stores, index, first>>

Idle == [op |-> "idle", name |-> NoName, client |-> 0]

Init ==
    /\ policy \in {"Error", "Override"} /\ doing = Idle /\ opened = 0
    /\ stores = <<>> /\ index = [t \in Tool |-> NoName]
    /\ store = [c \in Client |-> NoList] /\ first = store /\ answer = store
    /\ watcher = [c \in Client |-> "none"] /\ queue = [c \in Client |-> <<>>]
    /\ cancelled = {} /\ aborted = {} /\ joined = {} /\ closing = {} /\ closed = {}
    /\ listing \in [Client -> SUBSET Tool] /\ said = 0
    /\ lagged = {} /\ unaware = {}

-----------------------------------------------------------------------------
(* The servers.                                                            *)

Subscribed(c) == watcher[c] \in {"listening", "asking"}
Watched(c) == watcher[c] # "none" /\ c \notin cancelled
Tells(c) == \E i \in DOMAIN queue[c] : queue[c][i] = "changed"

\* broadcast::send: a full buffer loses its oldest notification, and the receiver's next
\* recv() is Lagged.
Push(q, x) == IF Len(q) < Buffer THEN Append(q, x) ELSE Append(Tail(q), x)
Send(c, x) ==
    /\ queue' = [queue EXCEPT ![c] = Push(queue[c], x)]
    /\ lagged' = IF Len(queue[c]) < Buffer THEN lagged ELSE lagged \cup {c}

\* The server changes its list and says so; while nobody has subscribed, to nobody.  Of a
\* change whose notice finds no room, if it were the newest that is lost, nobody hears either.
Change(c) ==
    /\ c <= opened /\ said < MaxNotices /\ c \notin closed
    /\ \E l \in (SUBSET Tool) \ {listing[c]} : listing' = [listing EXCEPT ![c] = l]
    /\ said' = said + 1
    /\ \/ Subscribed(c) /\ Send(c, "changed")
       \/ ~Subscribed(c) /\ UNCHANGED <<queue, lagged>>
    /\ unaware' = IF watcher[c] = "none" \/ (Subscribed(c) /\ ~Tells(c)') THEN unaware \cup {c}
                  ELSE unaware \ {c}
    /\ UNCHANGED <<policy, doing, catalog, store, watcher, answer, release, joined, closed>>

\* Any other notification; it may push out the one that told of a change.
Notify(c) ==
    /\ said < MaxNotices /\ Subscribed(c) /\ c \notin closed
    /\ said' = said + 1
    /\ Send(c, "other")
    /\ unaware' = IF Tells(c) /\ ~Tells(c)' THEN unaware \cup {c} ELSE unaware
    /\ UNCHANGED <<policy, doing, catalog, store, watcher, answer, release, joined, closed,
                   listing>>

-----------------------------------------------------------------------------
(* Registration.                                                           *)

Names == {stores[i].name : i \in DOMAIN stores}
Registered == {stores[i].client : i \in DOMAIN stores}
ClientOf(n) == {stores[i].client : i \in {j \in DOMAIN stores : stores[j].name = n}}

\* ManagedServer::drop: cancel, abort, and close in a task of its own.
\* (mutant of Closes: the transport is left to the Arc)
NothingToClose(cs) == {}
Closes(cs) == cs
Released(cs) ==
    /\ cancelled' = cancelled \cup cs
    /\ aborted' = aborted \cup {c \in cs : watcher[c] # "none"}
    /\ closing' = closing \cup Closes(cs)

Register(n) ==
    /\ doing.op = "idle" /\ opened < MaxClients
    /\ opened' = opened + 1
    /\ doing' = [op |-> "discover", name |-> n, client |-> opened']
    /\ UNCHANGED <<policy, stores, index, first, store, watcher, answer, channel, release,
                   joined, closed, servers, unaware>>

\* (mutant of Conflicts: only the server's own names conflict)
ConflictsWithSelf(n, l) == \E t \in l : index[t] = n
Conflicts(n, l) == \E t \in l : index[t] # NoName

\* discover() returns, check_conflicts passes, and the names are claimed.
Discovered ==
    LET c == doing.client IN
    /\ doing.op = "discover"
    /\ policy = "Error" => ~Conflicts(doing.name, listing[c])
    /\ store' = [store EXCEPT ![c] = listing[c]]
    /\ first' = [first EXCEPT ![c] = listing[c]]
    /\ unaware' = unaware \ {c}
    /\ index' = [t \in Tool |-> IF t \in listing[c] THEN doing.name ELSE index[t]]
    /\ doing' = [doing EXCEPT !.op = "install"]
    /\ UNCHANGED <<policy, opened, stores, watcher, answer, channel, release, joined, closed,
                   servers>>
\* discover() fails, or a name is taken: the client is dropped, and not closed.
Refused ==
    /\ doing.op = "discover"
    /\ doing' = Idle
    /\ UNCHANGED <<policy, catalog, store, watcher, answer, channel, release, joined, closed,
                   servers, unaware>>

\* IndexMap::insert: a name that is there keeps its place.
Inserted(n, c) ==
    IF n \in Names
    THEN [i \in DOMAIN stores |-> IF stores[i].name = n
                                  THEN [name |-> n, client |-> c] ELSE stores[i]]
    ELSE Append(stores, [name |-> n, client |-> c])

\* Subscribe if the transport can, spawn the watcher, insert into servers and stores.
Installed ==
    LET c == doing.client IN
    /\ doing.op = "install"
    /\ \E w \in {"none", "listening"} : watcher' = [watcher EXCEPT ![c] = w]
    /\ stores' = Inserted(doing.name, c)
    /\ Released(ClientOf(doing.name))
    /\ doing' = Idle
    /\ UNCHANGED <<policy, opened, index, first, store, answer, channel, joined, closed,
                   servers, unaware>>

\* IndexMap::shift_remove: the entries behind it move up.
Shifted(i) == SubSeq(stores, 1, i - 1) \o SubSeq(stores, i + 1, Len(stores))

RemoveServer(n) ==
    /\ doing.op = "idle"
    /\ \E i \in DOMAIN stores : stores[i].name = n /\ stores' = Shifted(i)
    /\ index' = IF policy = "Error"
                THEN [t \in Tool |-> IF index[t] = n THEN NoName ELSE index[t]] ELSE index
    /\ Released(ClientOf(n))
    /\ UNCHANGED <<policy, doing, opened, first, store, watcher, answer, channel, joined,
                   closed, servers, unaware>>

\* Drop of the registry, a call that waits included.  Its catalogs keep the stores.
DropRegistry ==
    /\ doing.op \notin {"install", "dropped"}
    /\ doing' = [Idle EXCEPT !.op = "dropped"]
    /\ Released(Registered)
    /\ UNCHANGED <<policy, catalog, store, watcher, answer, channel, joined, closed, servers,
                   unaware>>

-----------------------------------------------------------------------------
(* shutdown(): one pass that cancels and waits, one that waits for the aborts. *)

At(op, i) == [op |-> op, name |-> NoName, client |-> i]
ShutdownBegins ==
    /\ doing.op = "idle" /\ doing' = At("cancel", 1)
    /\ UNCHANGED <<policy, catalog, store, watcher, answer, channel, release, joined, closed,
                   servers, unaware>>

Entry == stores[doing.client].client
HasEntry == doing.client \in DOMAIN stores

CancelNext ==
    /\ doing.op = "cancel" /\ HasEntry
    /\ cancelled' = cancelled \cup {Entry}
    /\ doing' = IF watcher[Entry] = "none" THEN At("cancel", doing.client + 1)
                ELSE At("join", doing.client)
    /\ UNCHANGED <<policy, catalog, store, watcher, answer, channel, aborted, joined, closing,
                   closed, servers, unaware>>

\* A JoinHandle gives its output once; polled again, it panics.
JoinNext ==
    /\ doing.op = "join" /\ watcher[Entry] = "ended" /\ Entry \notin joined
    /\ joined' = joined \cup {Entry}
    /\ doing' = At("cancel", doing.client + 1)
    /\ UNCHANGED <<policy, catalog, store, watcher, answer, channel, release, closed, servers,
                   unaware>>
JoinTimesOut ==
    /\ doing.op = "join" /\ Subscribed(Entry)
    /\ aborted' = aborted \cup {Entry}
    /\ doing' = At("cancel", doing.client + 1)
    /\ UNCHANGED <<policy, catalog, store, watcher, answer, channel, cancelled, joined,
                   closing, closed, servers, unaware>>
SecondPass ==
    /\ doing.op = "cancel" /\ ~HasEntry /\ doing' = At("rejoin", 1)
    /\ UNCHANGED <<policy, catalog, store, watcher, answer, channel, release, joined, closed,
                   servers, unaware>>
RejoinNext ==
    /\ doing.op = "rejoin" /\ HasEntry
    /\ watcher[Entry] = "ended" => Entry \notin joined
    /\ joined' = IF watcher[Entry] = "ended" THEN joined \cup {Entry} ELSE joined
    /\ doing' = At("rejoin", doing.client + 1)
    /\ UNCHANGED <<policy, catalog, store, watcher, answer, channel, release, closed, servers,
                   unaware>>
ShutdownReturns ==
    /\ doing.op = "rejoin" /\ ~HasEntry /\ doing' = Idle
    /\ UNCHANGED <<policy, catalog, store, watcher, answer, channel, release, joined, closed,
                   servers, unaware>>
\* The panic unwinds through the caller that owns the registry.
ShutdownPanics ==
    /\ doing.op \in {"join", "rejoin"} /\ HasEntry /\ Entry \in joined
    /\ doing' = At("panicked", doing.client)
    /\ UNCHANGED <<policy, catalog, store, watcher, answer, channel, release, joined, closed,
                   servers, unaware>>

-----------------------------------------------------------------------------
(* The watcher task, and the spawned close.                                 *)

End(c) ==
    /\ watcher' = [watcher EXCEPT ![c] = "ended"]
    /\ answer' = [answer EXCEPT ![c] = NoList]
    /\ queue' = [queue EXCEPT ![c] = <<>>] /\ lagged' = lagged \ {c}
    /\ UNCHANGED <<policy, doing, catalog, store, release, joined, closed, servers, unaware>>
Stop(c) == watcher[c] = "listening" /\ c \in cancelled /\ End(c)
ChannelCloses(c) == watcher[c] = "listening" /\ c \in closed /\ queue[c] = <<>> /\ End(c)
Aborted(c) == Subscribed(c) /\ c \in aborted /\ End(c)

\* One recv().  Lagged only logs.
\* (mutant of AfterLag: the watcher stops, as for Closed)
EndsAfterLag == "ended"
AfterLag == "listening"
Lag(c) ==
    /\ watcher[c] = "listening" /\ c \notin cancelled /\ c \in lagged
    /\ lagged' = lagged \ {c}
    /\ watcher' = [watcher EXCEPT ![c] = AfterLag]
    /\ UNCHANGED <<policy, doing, catalog, store, answer, queue, release, joined, closed,
                   servers, unaware>>
Receive(c) ==
    /\ watcher[c] = "listening" /\ c \notin cancelled \cup lagged /\ queue[c] # <<>>
    /\ queue' = [queue EXCEPT ![c] = Tail(queue[c])]
    /\ watcher' = IF Head(queue[c]) = "changed" THEN [watcher EXCEPT ![c] = "asking"]
                  ELSE watcher
    /\ UNCHANGED <<policy, doing, catalog, store, answer, lagged, release, joined, closed,
                   servers, unaware>>
\* The server reads its list, and the answer travels.
Answer(c) ==
    /\ watcher[c] = "asking" /\ answer[c] = NoList /\ c \notin closed
    /\ answer' = [answer EXCEPT ![c] = listing[c]]
    /\ UNCHANGED <<policy, doing, catalog, store, watcher, channel, release, joined, closed,
                   servers, unaware>>
\* (mutant of Refreshed: what came during the refresh is taken as answered by it)
RefreshedDrains(c) ==
    /\ watcher[c] = "asking" /\ answer[c] # NoList
    /\ store' = [store EXCEPT ![c] = answer[c]]
    /\ answer' = [answer EXCEPT ![c] = NoList] /\ queue' = [queue EXCEPT ![c] = <<>>]
    /\ watcher' = [watcher EXCEPT ![c] = "listening"]
    /\ UNCHANGED <<policy, doing, catalog, lagged, release, joined, closed, servers, unaware>>
Refreshed(c) ==
    /\ watcher[c] = "asking" /\ answer[c] # NoList
    /\ store' = [store EXCEPT ![c] = answer[c]]
    /\ answer' = [answer EXCEPT ![c] = NoList]
    /\ watcher' = [watcher EXCEPT ![c] = "listening"]
    /\ UNCHANGED <<policy, doing, catalog, channel, release, joined, closed, servers, unaware>>
\* A failed refresh is logged, and the watcher listens on.
RefreshFails(c) ==
    /\ watcher[c] = "asking"
    /\ answer' = [answer EXCEPT ![c] = NoList]
    /\ watcher' = [watcher EXCEPT ![c] = "listening"]
    /\ unaware' = IF Tells(c) THEN unaware ELSE unaware \cup {c}
    /\ UNCHANGED <<policy, doing, catalog, store, channel, release, joined, closed, servers>>

\* close() waits for the client's Mutex, which a refresh holds.
Close(c) ==
    /\ c \in closing /\ c \notin closed /\ watcher[c] # "asking"
    /\ closed' = closed \cup {c}
    /\ UNCHANGED <<policy, doing, catalog, store, watcher, answer, channel, release, joined,
                   servers, unaware>>

-----------------------------------------------------------------------------
Registering == Discovered \/ Refused \/ Installed
ShuttingDown ==
    \/ CancelNext \/ JoinNext \/ JoinTimesOut \/ SecondPass \/ RejoinNext \/ ShutdownReturns
    \/ ShutdownPanics
Watching(c) ==
    \/ Stop(c) \/ ChannelCloses(c) \/ Aborted(c) \/ Lag(c) \/ Receive(c)
    \/ Refreshed(c) \/ RefreshFails(c)
Next ==
    \/ \E n \in Name : Register(n) \/ RemoveServer(n)
    \/ Registering \/ DropRegistry \/ ShutdownBegins \/ ShuttingDown
    \/ \E c \in Client : Change(c) \/ Notify(c) \/ Watching(c) \/ Answer(c) \/ Close(c)

Spec == Init /\ [][Next]_vars

\* Tasks are polled; a request the server never answers fails at its timeout,
\* if it was not stuck in being written, which McpTransport does not rule out.
Fairness == \A c \in Client : WF_vars(Watching(c)) /\ WF_vars(Close(c))
FairSpec == Spec /\ Fairness

-----------------------------------------------------------------------------
(* Properties.                                                             *)

\* Every variable stays within its type.
TypeOK ==
    /\ policy \in {"Error", "Override"}
    /\ doing \in [op : {"idle", "discover", "install", "cancel", "join", "rejoin", "dropped",
                        "panicked"},
                  name : Name \cup {NoName}, client : 0 .. MaxClients + 1]
    /\ opened \in 0 .. MaxClients
    /\ stores \in Seq([name : Name, client : Client])
    /\ index \in [Tool -> Name \cup {NoName}]
    /\ store \in [Client -> (SUBSET Tool) \cup {NoList}]
    /\ answer \in [Client -> (SUBSET Tool) \cup {NoList}]
    /\ first \in [Client -> (SUBSET Tool) \cup {NoList}]
    /\ watcher \in [Client -> {"none", "listening", "asking", "ended"}]
    /\ \A c \in Client : queue[c] \in Seq({"changed", "other"}) /\ Len(queue[c]) <= Buffer
    /\ cancelled \subseteq Client /\ aborted \subseteq Client /\ joined \subseteq Client
    /\ closing \subseteq Client /\ closed \subseteq closing
    /\ listing \in [Client -> SUBSET Tool] /\ said \in 0 .. MaxNotices
    /\ lagged \subseteq Client /\ unaware \subseteq Client

\* While a server is watched, a store that differs from its list has a refresh or a
\* notification on its way, unless the change came before the subscription, its notice was
\* lost from the full buffer, or its refresh failed.  That holds whichever notice a full buffer
\* loses: the oldest, as in the code (tokio's broadcast), or the newest, as docs/mcp-design.md:261
\* has it.
StaleIsTold ==
    \A c \in Client : Watched(c) /\ store[c] # listing[c] =>
        \/ Tells(c) \/ c \in unaware
        \/ watcher[c] = "asking" /\ answer[c] \in {NoList, listing[c]}

\* Under the Error policy two registered servers never came with the same tool, whatever
\* was removed, replaced or refreshed in between.
RegistrationsAreDisjoint ==
    policy = "Error" =>
        \A c, d \in Registered : c # d => first[c] \cap first[d] = {}

\* A watched server's change reaches the catalog, or one of the excuses applies.
CatalogCatchesUp ==
    \A c \in Client : Watched(c) /\ store[c] # listing[c] ~>
        store[c] = listing[c] \/ c \in unaware \/ c \in cancelled

\* A server that is removed, replaced or dropped with the registry ends its watcher and
\* closes its transport, even if it never answers the refresh in flight.
LetGo(c) ==
    /\ first[c] # NoList /\ (c \notin Registered \/ doing.op = "dropped")
    /\ doing.op = "install" => doing.client # c
RemovedIsReleased ==
    \A c \in Client : LetGo(c) ~> c \in closed /\ ~Subscribed(c)
=============================================================================
