----------------------------- MODULE McpTransport -----------------------------
(***************************************************************************)
(* McpClient over one transport of lellm-mcp: callers that share the client, *)
(* its owner that connects and closes it, the reader task each connection   *)
(* spawns (stdio, SSE), and the server.  The client's tokio Mutex is held    *)
(* across a whole request, a connect and a close; the reader never takes it. *)
(*                                                                         *)
(* Reader and clients run on different threads: what one does between two   *)
(* awaits may interleave with the other at every update of shared state.    *)
(* As in DurableRun, an operator marked "mutant of" is used by no action.    *)
(***************************************************************************)
EXTENDS Naturals

CONSTANTS
    Caller,         \* tasks that call request() through a shared Arc<McpClient>
    Owner, Nobody,  \* who holds the Mutex when no caller does
    MaxConnections, \* bound on connect()
    MaxCalls        \* bound on requests, and so on ids

ASSUME BoundsAssumption ==
    /\ MaxConnections \in Nat \ {0} /\ MaxCalls \in Nat \ {0}
    /\ Owner \notin Caller /\ Nobody \notin Caller /\ Owner # Nobody

Connection == 1 .. MaxConnections
Call == 1 .. MaxCalls

VARIABLES
    kind,       \* which transport this is
    state,      \* the watch channel of ConnectionState
    connection, \* the transport's inner; 0 is None
    opened,     \* connections opened so far
    link,       \* the server's end of each connection: child process, SSE stream;
                \* "stalled" is alive but takes nothing in, its pipe or socket full
    told,       \* connections whose shutdown was signalled or sender dropped
    aborted,    \* connections whose reader task was aborted
    greeted,    \* SSE connections whose endpoint event has come
    reader,     \* the reader task of each connection
    pending,    \* PendingMap of each connection: id -> the call that waits, 0 none
    wire,       \* requests the server has received: connection, id, call
    lock,       \* holder of the client's Mutex
    next_id, calls,
    pc, request, \* each caller: where it stands, and its current request
    slot, lost   \* its oneshot: the call answered in it (0 none), or Disconnected

vars == <<kind, state, connection, opened, link, told, aborted, greeted, reader, pending,
          wire, lock, next_id, calls, pc, request, slot, lost>>
socket  == <<kind, connection, opened, link, told, aborted, greeted>>
caller  == <<next_id, calls, pc, request>>
oneshot == <<slot, lost>>

Init ==
    /\ kind \in {"stdio", "sse", "http"}
    /\ state = "Disconnected" /\ connection = 0 /\ opened = 0
    /\ link = [k \in Connection |-> "none"]
    /\ told = {} /\ aborted = {} /\ greeted = {}
    /\ reader = [k \in Connection |-> "none"]
    /\ pending = [k \in Connection |-> [i \in Call |-> 0]]
    /\ wire = {} /\ lock = Nobody /\ next_id = 1 /\ calls = 0
    /\ pc = [c \in Caller |-> "idle"]
    /\ request = [c \in Caller |-> [on |-> 0, id |-> 0, call |-> 0]]
    /\ slot = [c \in Caller |-> 0] /\ lost = {}

-----------------------------------------------------------------------------
(* The owner: connect and reconnect_once need the client exclusively, close   *)
(* only its Mutex.                                                          *)

Unused == lock = Nobody /\ \A c \in Caller : pc[c] = "idle"
Replaced == told \cup ({connection} \ {0})

\* connect() up to the spawn of the reader.  SSE installs its inner at once.
Open ==
    /\ Unused /\ opened < MaxConnections
    /\ lock' = Owner /\ state' = "Connecting"
    /\ opened' = opened + 1
    /\ link' = [link EXCEPT ![opened'] = "up"]
    /\ reader' = [reader EXCEPT ![opened'] =
                     CASE kind = "stdio" -> "reading" [] kind = "sse" -> "opening"
                       [] kind = "http" -> "none"]
    /\ connection' = IF kind = "sse" THEN opened' ELSE connection
    /\ told' = IF kind = "sse" THEN Replaced ELSE told
    /\ UNCHANGED <<kind, aborted, greeted, pending, wire, caller, oneshot>>
OpenFails ==
    /\ Unused /\ kind = "stdio"
    /\ state' = "Disconnected"
    /\ UNCHANGED <<socket, reader, pending, wire, lock, caller, oneshot>>

\* The rest of connect(): install the inner and say Ready, whatever the reader has
\* said in the meantime; SSE first waits ten seconds for the endpoint.
Connected ==
    /\ lock = Owner /\ opened \notin told
    /\ kind = "sse" => opened \in greeted
    /\ connection' = opened
    /\ told' = IF kind = "sse" THEN told ELSE Replaced
    /\ state' = "Ready" /\ lock' = Nobody
    /\ UNCHANGED <<kind, opened, link, aborted, greeted, reader, pending, wire, caller,
                   oneshot>>
ConnectTimesOut ==
    /\ lock = Owner /\ kind = "sse" /\ opened \notin greeted /\ opened \notin told
    /\ state' = "Disconnected" /\ lock' = Nobody
    /\ UNCHANGED <<socket, reader, pending, wire, caller, oneshot>>

\* close(): signal the reader; then kill the child, or abort the reader task.
\* (mutant of MayClose: close() without the Mutex)
MayCloseAlways == lock # Owner
MayClose == lock = Nobody
CloseBegins ==
    /\ MayClose /\ connection # 0 /\ connection \notin told
    /\ lock' = Owner
    /\ told' = told \cup {connection}
    /\ UNCHANGED <<kind, state, connection, opened, link, aborted, greeted, reader, pending,
                   wire, caller, oneshot>>
CloseEnds ==
    /\ lock = Owner /\ connection \in told
    /\ link' = [link EXCEPT ![connection] = "down"]
    /\ aborted' = IF kind = "sse" THEN aborted \cup {connection} ELSE aborted
    /\ connection' = 0 /\ state' = "Closed" /\ lock' = Nobody
    /\ UNCHANGED <<kind, opened, told, greeted, reader, pending, wire, caller, oneshot>>
CloseUnopened ==
    /\ MayClose /\ connection = 0 /\ state' = "Closed"
    /\ UNCHANGED <<socket, reader, pending, wire, lock, caller, oneshot>>

-----------------------------------------------------------------------------
(* The reader task, and the server behind it.                               *)

Waiting(c) == pc[c] \in {"send", "wait", "expired"}
WaitersOn(k) == {c \in Caller : Waiting(c) /\ \E i \in Call : pending[k][i] = request[c].call}

ServerTurns(k, from, to) ==
    /\ link[k] \in from
    /\ link' = [link EXCEPT ![k] = to]
    /\ UNCHANGED <<kind, connection, opened, told, aborted, greeted, state, reader, pending,
                   wire, lock, caller, oneshot>>
ServerLeaves(k) == ServerTurns(k, {"up", "stalled"}, "down")
ServerStalls(k) == kind # "http" /\ ServerTurns(k, {"up"}, "stalled")
ServerResumes(k) == ServerTurns(k, {"stalled"}, "up")

\* SSE: the GET is answered and the endpoint event comes, or the GET fails.
Greet(k) ==
    /\ reader[k] = "opening" /\ link[k] = "up"
    /\ reader' = [reader EXCEPT ![k] = "reading"]
    /\ greeted' = greeted \cup {k}
    /\ UNCHANGED <<kind, connection, opened, link, told, aborted, state, pending, wire, lock,
                   caller, oneshot>>
GetFails(k) ==
    /\ reader[k] = "opening" /\ link[k] = "down"
    /\ reader' = [reader EXCEPT ![k] = "gone"]
    /\ state' = "Disconnected"
    /\ UNCHANGED <<socket, pending, wire, lock, caller, oneshot>>

\* A response line goes to the call registered under its id, if there is one.  The
\* server may answer late, out of order, or twice.
Deliver(k, id, call) ==
    /\ reader[k] = "reading" /\ <<k, id, call>> \in wire
    /\ pending[k][id] # 0
    /\ slot' = [c \in Caller |-> IF Waiting(c) /\ request[c].call = pending[k][id]
                                 THEN call ELSE slot[c]]
    /\ pending' = [pending EXCEPT ![k][id] = 0]
    /\ UNCHANGED <<socket, state, reader, wire, lock, caller, lost>>

\* The reader leaves its loop, says Disconnected, then fails what is pending.
Leave(k) ==
    /\ reader[k] = "reading" /\ (link[k] = "down" \/ k \in told)
    /\ reader' = [reader EXCEPT ![k] = "leaving"]
    /\ UNCHANGED <<socket, state, pending, wire, lock, caller, oneshot>>
Announce(k) ==
    /\ reader[k] = "leaving"
    /\ reader' = [reader EXCEPT ![k] = "draining"]
    /\ state' = "Disconnected"
    /\ UNCHANGED <<socket, pending, wire, lock, caller, oneshot>>
Drain(k) ==
    /\ reader[k] = "draining"
    /\ reader' = [reader EXCEPT ![k] = "gone"]
    /\ lost' = lost \cup WaitersOn(k)
    /\ pending' = [pending EXCEPT ![k] = [i \in Call |-> 0]]
    /\ UNCHANGED <<socket, state, wire, lock, caller, slot>>
\* An aborted task stops at its next await.
Abort(k) ==
    /\ k \in aborted /\ reader[k] \in {"opening", "reading", "draining"}
    /\ reader' = [reader EXCEPT ![k] = "gone"]
    /\ UNCHANGED <<socket, state, pending, wire, lock, caller, oneshot>>

-----------------------------------------------------------------------------
(* A caller.                                                               *)

\* build_request: refused with no step unless Ready; the id is the client's own.
\* (mutant of NextId: every request carries the same id)
NextIdAgain(id) == id
NextId(id) == id + 1
Build(c) ==
    /\ pc[c] = "idle" /\ lock = Nobody /\ state = "Ready" /\ calls < MaxCalls
    /\ calls' = calls + 1 /\ next_id' = NextId(next_id)
    /\ request' = [request EXCEPT ![c] = [on |-> 0, id |-> next_id, call |-> calls']]
    /\ pc' = [pc EXCEPT ![c] = "built"]
    /\ UNCHANGED <<socket, state, reader, pending, wire, lock, oneshot>>

\* The caller's future ends: it lets go of the Mutex and of its oneshot.
Finish(c) ==
    /\ pc' = [pc EXCEPT ![c] = "idle"]
    /\ request' = [request EXCEPT ![c] = [on |-> 0, id |-> 0, call |-> 0]]
    /\ lock' = IF lock = c THEN Nobody ELSE lock
    /\ slot' = [slot EXCEPT ![c] = 0] /\ lost' = lost \ {c}
    /\ UNCHANGED <<socket, state, reader, wire, next_id, calls>>

Registered(c) == [pending EXCEPT ![request[c].on][request[c].id] = 0]

\* request() under the Mutex, on the inner it finds: the state is not read again.
Reachable == connection # 0 /\ (kind = "sse" => connection \in greeted)
Register(c) ==
    /\ pc[c] = "built" /\ lock = Nobody /\ Reachable
    /\ lock' = c
    /\ pc' = [pc EXCEPT ![c] = "send"]
    /\ request' = [request EXCEPT ![c].on = connection]
    /\ pending' = IF kind = "http" THEN pending
                  ELSE [pending EXCEPT ![connection][request[c].id] = request[c].call]
    /\ UNCHANGED <<socket, state, reader, wire, next_id, calls, oneshot>>
Unreachable(c) ==
    /\ pc[c] = "built" /\ lock = Nobody /\ ~Reachable
    /\ Finish(c) /\ UNCHANGED pending

\* No timer runs yet while stdio writes and flushes, or SSE waits for its POST to be
\* answered; HTTP's covers the whole exchange.
Stuck(c) == pc[c] = "send" /\ kind # "http" /\ link[request[c].on] = "stalled"

\* The write or POST succeeds, or fails; only a refused SSE POST forgets the entry.
Send(c) ==
    /\ pc[c] = "send" /\ ~Stuck(c)
    /\ pc' = [pc EXCEPT ![c] = "wait"]
    /\ wire' = IF link[request[c].on] = "up"
               THEN wire \cup {<<request[c].on, request[c].id, request[c].call>>} ELSE wire
    /\ UNCHANGED <<socket, state, reader, pending, lock, next_id, calls, request, oneshot>>
SendFails(c) ==
    /\ pc[c] = "send" /\ ~Stuck(c)
    /\ pending' \in {pending} \cup IF kind = "sse" THEN {Registered(c)} ELSE {}
    /\ Finish(c)

\* HTTP: the answer is the body of the POST's own response.
Exchange(c) ==
    /\ kind = "http" /\ pc[c] = "wait"
    /\ <<request[c].on, request[c].id, request[c].call>> \in wire
    /\ slot' = [slot EXCEPT ![c] = request[c].call]
    /\ UNCHANGED <<socket, state, reader, pending, wire, lock, caller, lost>>

Answered(c) ==
    /\ pc[c] = "wait" /\ (slot[c] # 0 \/ c \in lost)
    /\ Finish(c) /\ UNCHANGED pending

\* tokio::time::timeout looks at the oneshot first; the entry is removed later.
\* (mutant of Expires: no timer once the reader has gone)
ExpiresWhileReading(c) == kind # "http" => reader[request[c].on] = "reading"
Expires(c) == slot[c] = 0 /\ c \notin lost
Expire(c) ==
    /\ pc[c] = "wait" /\ Expires(c)
    /\ pc' = [pc EXCEPT ![c] = "expired"]
    /\ UNCHANGED <<socket, state, reader, pending, wire, lock, next_id, calls, request,
                   oneshot>>
Forget(c) ==
    /\ pc[c] = "expired"
    /\ pending' = IF kind = "http" THEN pending ELSE Registered(c)
    /\ Finish(c)

\* The caller is cancelled: its entry stays until answered or drained.
Abandon(c) == pc[c] # "idle" /\ Finish(c) /\ UNCHANGED pending

-----------------------------------------------------------------------------
Owned ==
    \/ Open \/ OpenFails \/ Connected \/ ConnectTimesOut
    \/ CloseBegins \/ CloseEnds \/ CloseUnopened
Ending(k) == GetFails(k) \/ Leave(k) \/ Announce(k) \/ Drain(k) \/ Abort(k)
Reading(k) ==
    \/ Greet(k) \/ Ending(k)
    \/ \E id \in Call, call \in Call : Deliver(k, id, call)
Serving(k) == ServerLeaves(k) \/ ServerStalls(k) \/ ServerResumes(k)
Calling(c) ==
    \/ Register(c) \/ Unreachable(c) \/ Send(c) \/ SendFails(c) \/ Answered(c)
    \/ Expire(c) \/ Forget(c)
Next ==
    \/ Owned
    \/ \E k \in Connection : Reading(k) \/ Serving(k)
    \/ \E c \in Caller : Build(c) \/ Calling(c) \/ Exchange(c) \/ Abandon(c)

Spec == Init /\ [][Next]_vars

\* Tasks are polled, the request timer fires, a connect or close that has begun ends, a
\* write or POST to a server that takes it ends, and the tokio Mutex serves its waiters in
\* turn.  Nothing makes a server answer, or take in again what it has stopped taking.
Fairness ==
    /\ WF_vars(Connected) /\ WF_vars(ConnectTimesOut) /\ WF_vars(CloseEnds)
    /\ \A k \in Connection : WF_vars(Ending(k))
    /\ \A c \in Caller : WF_vars(Calling(c)) /\ SF_vars(Register(c)) /\ SF_vars(Unreachable(c))
FairSpec == Spec /\ Fairness

-----------------------------------------------------------------------------
(* Properties.                                                             *)

\* Every variable stays within its type.
TypeOK ==
    /\ kind \in {"stdio", "sse", "http"}
    /\ state \in {"Disconnected", "Connecting", "Ready", "Closed"}
    /\ connection \in 0 .. opened /\ opened \in 0 .. MaxConnections
    /\ link \in [Connection -> {"none", "up", "stalled", "down"}]
    /\ told \subseteq Connection /\ aborted \subseteq told /\ greeted \subseteq Connection
    /\ reader \in [Connection ->
                     {"none", "opening", "reading", "leaving", "draining", "gone"}]
    /\ pending \in [Connection -> [Call -> 0 .. MaxCalls]]
    /\ wire \subseteq Connection \X Call \X Call
    /\ lock \in Caller \cup {Owner, Nobody}
    /\ next_id \in 1 .. MaxCalls + 1 /\ calls \in 0 .. MaxCalls
    /\ pc \in [Caller -> {"idle", "built", "send", "wait", "expired"}]
    /\ request \in [Caller -> [on : 0 .. MaxConnections, id : 0 .. MaxCalls,
                               call : 0 .. MaxCalls]]
    /\ slot \in [Caller -> 0 .. MaxCalls] /\ lost \subseteq Caller

\* A caller is handed the response to its own request, never the late answer to one
\* that timed out, was abandoned, or went over an earlier connection.
AnswerIsOwn == \A c \in Caller : slot[c] # 0 => slot[c] = request[c].call

\* Nobody waits on a connection the client has let go: close and reconnect_once stop
\* the reader without failing what is pending on SSE, so they must come after the wait.
NoStrandedWaiter == \A c \in Caller : Waiting(c) => request[c].on = connection

\* A call ends, whether the server answers, is gone, or is gone before the call
\* registers itself, and the callers queued behind it get their turn: unless a write or
\* POST is stuck for ever.  No timer ends that one (stdio.rs:241-253, sse.rs:291-298; the
\* timeout begins at stdio.rs:256, sse.rs:315), and it keeps the Mutex from all others.
CallEnds ==
    \A c \in Caller : <>[](\A d \in Caller : ~Stuck(d)) => (pc[c] # "idle" ~> pc[c] = "idle")
=============================================================================
