----------------------------- MODULE McpProofs -----------------------------
(***************************************************************************)
(* Safety of the two sides of an MCP connection, McpTransport and McpServer, *)
(* for any number of callers, connections, calls, clients and streams.       *)
(*                                                                         *)
(* McpTransport: a call's number and its request id run together             *)
(* (next_id = calls + 1), so an id names one call for ever: in a PendingMap   *)
(* the entry under id i waits for call i, and a response with id i answers    *)
(* call i.  And a caller waits exactly while it holds the Mutex, so nothing   *)
(* replaces the connection under it.  Neither fact alone is inductive:        *)
(* Deliver needs the first for both the map and the wire, close and connect   *)
(* need the second.                                                         *)
(***************************************************************************)
EXTENDS McpTransport, McpServer, TLAPS

\* What a caller's request may be in each of its places.
RequestOK(c) ==
    /\ request[c].id = request[c].call
    /\ pc[c] = "idle" <=> request[c].call = 0
    /\ Waiting(c) <=> lock = c
    /\ Waiting(c) => request[c].on = connection /\ connection # 0

IdsOK ==
    /\ next_id = calls + 1
    /\ \A x \in wire : x[2] = x[3]
    /\ \A k \in Connection, i \in Call : pending[k][i] \in {0, i}

IInv ==
    /\ TypeOK /\ IdsOK
    /\ \A c \in Caller : RequestOK(c)
    /\ AnswerIsOwn

USE BoundsAssumption

\* Writing one entry of one connection's map.
Written(f, k, i, v) == [f EXCEPT ![k][i] = v]
LEMMA EntryWritten ==
    \A f \in [Connection -> [Call -> 0 .. MaxCalls]], v \in 0 .. MaxCalls : \A k, i :
        /\ Written(f, k, i, v) \in [Connection -> [Call -> 0 .. MaxCalls]]
        /\ \A n \in Connection, j \in Call :
              Written(f, k, i, v)[n][j] = IF n = k /\ j = i THEN v ELSE f[n][j]
<1> SUFFICES ASSUME NEW f \in [Connection -> [Call -> 0 .. MaxCalls]],
                    NEW v \in 0 .. MaxCalls, NEW k, NEW i
             PROVE  /\ Written(f, k, i, v) \in [Connection -> [Call -> 0 .. MaxCalls]]
                    /\ \A n \in Connection, j \in Call : Written(f, k, i, v)[n][j] =
                          IF n = k /\ j = i THEN v ELSE f[n][j]
    OBVIOUS
<1> DEFINE g == Written(f, k, i, v)
<1>1. ASSUME NEW n \in Connection
      PROVE  /\ g[n] \in [Call -> 0 .. MaxCalls]
             /\ \A j \in Call : g[n][j] = IF n = k /\ j = i THEN v ELSE f[n][j]
    <2>1. CASE n = k
        <3>1. g[n] = [f[n] EXCEPT ![i] = v]
            BY <2>1 DEF Written
        <3> QED  BY <3>1, <2>1
    <2>2. CASE n # k
        BY <2>2 DEF Written
    <2> QED  BY <2>1, <2>2
<1>2. g = [n \in Connection |-> g[n]]
    BY DEF Written
<1> QED  BY <1>1, <1>2

LEMMA Initially == Init => IInv
<1> SUFFICES ASSUME Init PROVE IInv
    OBVIOUS
<1> USE DEF Init, Connection, Call
<1>1. TypeOK
    <2>1. request \in [Caller -> [on : 0 .. MaxConnections, id : 0 .. MaxCalls,
                                  call : 0 .. MaxCalls]]
        OBVIOUS
    <2>2. pending \in [Connection -> [Call -> 0 .. MaxCalls]]
        OBVIOUS
    <2> QED  BY <2>1, <2>2 DEF TypeOK
<1>2. IdsOK
    BY DEF IdsOK
<1>3. ASSUME NEW c \in Caller PROVE RequestOK(c)
    <2>1. request[c].id = 0 /\ request[c].call = 0 /\ pc[c] = "idle"
        OBVIOUS
    <2>2. lock # c
        OBVIOUS
    <2> HIDE DEF Init
    <2> QED  BY <2>1, <2>2 DEF RequestOK, Waiting
<1>4. AnswerIsOwn
    BY DEF AnswerIsOwn
<1> QED  BY <1>1, <1>2, <1>3, <1>4 DEF IInv

(***************************************************************************)
(* A step that leaves the callers, the ids and the oneshots alone keeps what *)
(* is said of them, as long as it touches neither the Mutex nor the          *)
(* connection while somebody waits.                                         *)
(***************************************************************************)
LEMMA CallersKept ==
    ASSUME IInv, TypeOK', UNCHANGED <<caller, oneshot, pending, wire>>,
           \A c \in Caller : lock' = c <=> lock = c,
           connection' # connection => \A c \in Caller : lock # c
    PROVE  IInv'
<1>1. IdsOK'
    BY DEF IInv, IdsOK, caller
<1>2. ASSUME NEW c \in Caller PROVE RequestOK(c)'
    BY DEF IInv, RequestOK, Waiting, caller
<1>3. AnswerIsOwn'
    BY DEF IInv, AnswerIsOwn, caller, oneshot
<1> QED  BY <1>1, <1>2, <1>3 DEF IInv

LEMMA OwnerSteps == ASSUME IInv, Owned PROVE IInv'
<1> USE DEF socket
<1>1. CASE Open
    <2>1. TypeOK'
        <3>1. opened' = opened + 1 /\ opened' \in Connection
            BY <1>1 DEF IInv, TypeOK, Open, Connection
        <3>2. reader' \in [Connection ->
                 {"none", "opening", "reading", "leaving", "draining", "gone"}]
            BY <1>1, <3>1 DEF IInv, TypeOK, Open
        <3>3. link' \in [Connection -> {"none", "up", "stalled", "down"}]
            BY <1>1, <3>1 DEF IInv, TypeOK, Open
        <3>4. Replaced \subseteq Connection /\ told \subseteq Replaced
            BY DEF IInv, TypeOK, Replaced, Connection
        <3>5. told' \subseteq Connection /\ aborted' \subseteq told'
            BY <1>1, <3>4 DEF IInv, TypeOK, Open
        <3>6. connection' \in 0 .. opened'
            BY <1>1, <3>1 DEF IInv, TypeOK, Open
        <3>7. opened' \in 0 .. MaxConnections
            BY <3>1 DEF Connection
        <3>8. lock' \in Caller \cup {Owner, Nobody} /\ state' = "Connecting"
            BY <1>1 DEF Open
        <3> QED
            BY <1>1, <3>2, <3>3, <3>5, <3>6, <3>7, <3>8
               DEF IInv, TypeOK, Open, caller, oneshot
    <2>2. /\ \A c \in Caller : lock' = c <=> lock = c
          /\ connection' # connection => \A c \in Caller : lock # c
        BY <1>1 DEF IInv, TypeOK, Open, Unused, Replaced
    <2> QED  BY <1>1, <2>1, <2>2, CallersKept DEF Open
<1>2. CASE OpenFails
    <2>1. TypeOK'
        BY <1>2 DEF IInv, TypeOK, OpenFails, Unused, Connection, caller, oneshot
    <2>2. /\ \A c \in Caller : lock' = c <=> lock = c
          /\ connection' # connection => \A c \in Caller : lock # c
        BY <1>2 DEF IInv, TypeOK, OpenFails, Unused
    <2> QED  BY <1>2, <2>1, <2>2, CallersKept DEF OpenFails
<1>3. CASE Connected
    <2>1. TypeOK'
        BY <1>3 DEF IInv, TypeOK, Connected, Replaced, Connection, caller, oneshot
    <2>2. /\ \A c \in Caller : lock' = c <=> lock = c
          /\ connection' # connection => \A c \in Caller : lock # c
        BY <1>3 DEF IInv, TypeOK, Connected, Replaced
    <2> QED  BY <1>3, <2>1, <2>2, CallersKept DEF Connected
<1>4. CASE ConnectTimesOut
    <2>1. TypeOK'
        BY <1>4 DEF IInv, TypeOK, ConnectTimesOut, Connection, caller, oneshot
    <2>2. /\ \A c \in Caller : lock' = c <=> lock = c
          /\ connection' # connection => \A c \in Caller : lock # c
        BY <1>4 DEF IInv, TypeOK, ConnectTimesOut
    <2> QED  BY <1>4, <2>1, <2>2, CallersKept DEF ConnectTimesOut
<1>5. CASE CloseBegins
    <2>1. TypeOK'
        BY <1>5 DEF IInv, TypeOK, CloseBegins, MayClose, Connection, caller, oneshot
    <2>2. /\ \A c \in Caller : lock' = c <=> lock = c
          /\ connection' # connection => \A c \in Caller : lock # c
        BY <1>5 DEF IInv, TypeOK, CloseBegins, MayClose
    <2> QED  BY <1>5, <2>1, <2>2, CallersKept DEF CloseBegins
<1>6. CASE CloseEnds
    <2>1. TypeOK'
        BY <1>6 DEF IInv, TypeOK, CloseEnds, Connection, caller, oneshot
    <2>2. /\ \A c \in Caller : lock' = c <=> lock = c
          /\ connection' # connection => \A c \in Caller : lock # c
        BY <1>6 DEF IInv, TypeOK, CloseEnds
    <2> QED  BY <1>6, <2>1, <2>2, CallersKept DEF CloseEnds
<1>7. CASE CloseUnopened
    <2>1. TypeOK'
        BY <1>7 DEF IInv, TypeOK, CloseUnopened, MayClose, Connection, caller, oneshot
    <2> QED  BY <1>7, <2>1, CallersKept DEF CloseUnopened
<1> QED  BY <1>1, <1>2, <1>3, <1>4, <1>5, <1>6, <1>7 DEF Owned

(***************************************************************************)
(* The reader's steps.  They hand out no number and take no lock; Deliver is  *)
(* the one that answers, and Drain the one that empties a map.               *)
(***************************************************************************)
LEMMA QuietReaderSteps ==
    ASSUME IInv, NEW k \in Connection,
           Greet(k) \/ GetFails(k) \/ Leave(k) \/ Announce(k) \/ Abort(k) \/ Serving(k)
    PROVE  IInv'
<1> USE DEF socket, caller, oneshot, Serving, ServerLeaves, ServerStalls, ServerResumes
<1>1. UNCHANGED <<connection, lock, pending, wire, caller, oneshot>>
    BY DEF Greet, GetFails, Leave, Announce, Abort, ServerTurns
<1>2. TypeOK'
    <2>1. reader' \in [Connection ->
             {"none", "opening", "reading", "leaving", "draining", "gone"}]
        BY DEF IInv, TypeOK, Greet, GetFails, Leave, Announce, Abort, ServerTurns
    <2>2. link' \in [Connection -> {"none", "up", "stalled", "down"}]
        BY DEF IInv, TypeOK, Greet, GetFails, Leave, Announce, Abort, ServerTurns
    <2>3. greeted' \subseteq Connection /\ state' \in {state, "Disconnected"}
        BY DEF IInv, TypeOK, Greet, GetFails, Leave, Announce, Abort, ServerTurns
    <2>4. UNCHANGED <<kind, opened, told, aborted>>
        BY DEF Greet, GetFails, Leave, Announce, Abort, ServerTurns
    <2> QED  BY <1>1, <2>1, <2>2, <2>3, <2>4 DEF IInv, TypeOK
<1> QED  BY <1>1, <1>2, CallersKept

LEMMA DeliverKeeps ==
    ASSUME IInv, NEW k \in Connection, NEW i \in Call, NEW d \in Call, Deliver(k, i, d)
    PROVE  IInv'
<1> USE DEF socket, caller, oneshot
<1>1. d = i /\ pending[k][i] = i
    BY DEF IInv, IdsOK, Deliver
<1>2. TypeOK'
    <2>1. slot' \in [Caller -> 0 .. MaxCalls]
        BY DEF IInv, TypeOK, Deliver, Call
    <2>2. pending' \in [Connection -> [Call -> 0 .. MaxCalls]]
        BY DEF IInv, TypeOK, Deliver, Call
    <2> QED  BY <2>1, <2>2 DEF IInv, TypeOK, Deliver
<1>3. IdsOK'
    <2>1. \A n \in Connection, j \in Call : pending'[n][j] \in {0, pending[n][j]}
        BY DEF IInv, TypeOK, Deliver
    <2> QED  BY <2>1 DEF IInv, IdsOK, Deliver
<1>4. ASSUME NEW c \in Caller PROVE RequestOK(c)'
    BY DEF IInv, RequestOK, Waiting, Deliver
<1>5. AnswerIsOwn'
    BY <1>1 DEF IInv, TypeOK, AnswerIsOwn, Deliver
<1> QED  BY <1>2, <1>3, <1>4, <1>5 DEF IInv

LEMMA DrainKeeps == ASSUME IInv, NEW k \in Connection, Drain(k) PROVE IInv'
<1> USE DEF socket, caller, oneshot
<1>1. TypeOK'
    <2>1. reader' \in [Connection ->
             {"none", "opening", "reading", "leaving", "draining", "gone"}]
        BY DEF IInv, TypeOK, Drain
    <2>2. pending' \in [Connection -> [Call -> 0 .. MaxCalls]]
        BY DEF IInv, TypeOK, Drain
    <2>3. lost' \subseteq Caller
        BY DEF IInv, TypeOK, Drain, WaitersOn
    <2> QED  BY <2>1, <2>2, <2>3 DEF IInv, TypeOK, Drain
<1>2. IdsOK'
    <2>1. \A n \in Connection, j \in Call : pending'[n][j] \in {0, pending[n][j]}
        BY DEF IInv, TypeOK, Drain
    <2> QED  BY <2>1 DEF IInv, IdsOK, Drain
<1>3. ASSUME NEW c \in Caller PROVE RequestOK(c)'
    BY DEF IInv, RequestOK, Waiting, Drain
<1>4. AnswerIsOwn'
    BY DEF IInv, AnswerIsOwn, Drain
<1> QED  BY <1>1, <1>2, <1>3, <1>4 DEF IInv

(***************************************************************************)
(* A caller's steps.  Every way out of a call is Finish, whatever becomes of  *)
(* the entry it registered.                                                 *)
(***************************************************************************)
LEMMA FinishKeeps ==
    ASSUME IInv, NEW c \in Caller, Finish(c), pending' \in {pending, Registered(c)}
    PROVE  IInv'
<1> USE DEF socket
<1>1. /\ pending' \in [Connection -> [Call -> 0 .. MaxCalls]]
      /\ \A n \in Connection, j \in Call : pending'[n][j] \in {0, pending[n][j]}
    <2>1. pending \in [Connection -> [Call -> 0 .. MaxCalls]] /\ 0 \in 0 .. MaxCalls
        BY DEF IInv, TypeOK
    <2>2. CASE pending' = Registered(c)
        <3>1. pending' = Written(pending, request[c].on, request[c].id, 0)
            BY <2>2 DEF Registered, Written
        <3> QED  BY <2>1, <3>1, EntryWritten
    <2>3. CASE pending' = pending
        BY <2>1, <2>3
    <2> QED  BY <2>2, <2>3
<1>2. request' \in [Caller -> [on : 0 .. MaxConnections, id : 0 .. MaxCalls,
                               call : 0 .. MaxCalls]]
    <2>1. [on |-> 0, id |-> 0, call |-> 0] \in [on : 0 .. MaxConnections,
              id : 0 .. MaxCalls, call : 0 .. MaxCalls]
        OBVIOUS
    <2> QED  BY <2>1 DEF IInv, TypeOK, Finish
<1>3. TypeOK'
    <2>1. pc' \in [Caller -> {"idle", "built", "send", "wait", "expired"}]
        BY DEF IInv, TypeOK, Finish
    <2>2. slot' \in [Caller -> 0 .. MaxCalls] /\ lost' \subseteq Caller
        BY DEF IInv, TypeOK, Finish
    <2>3. lock' \in Caller \cup {Owner, Nobody}
        BY DEF IInv, TypeOK, Finish
    <2> QED  BY <1>1, <1>2, <2>1, <2>2, <2>3 DEF IInv, TypeOK, Finish
<1>4. IdsOK'
    BY <1>1 DEF IInv, IdsOK, Finish
<1>5. ASSUME NEW d \in Caller PROVE RequestOK(d)'
    <2>1. CASE d = c
        BY <2>1 DEF IInv, TypeOK, RequestOK, Waiting, Finish
    <2>2. CASE d # c
        <3>1. pc'[d] = pc[d] /\ request'[d] = request[d]
            BY <2>2 DEF IInv, TypeOK, Finish
        <3>2. lock' = d <=> lock = d
            BY <2>2 DEF Finish
        <3> QED  BY <3>1, <3>2 DEF IInv, RequestOK, Waiting, Finish
    <2> QED  BY <2>1, <2>2
<1>6. AnswerIsOwn'
    BY DEF IInv, TypeOK, AnswerIsOwn, Finish
<1> QED  BY <1>3, <1>4, <1>5, <1>6 DEF IInv

LEMMA FinishingSteps ==
    ASSUME IInv, NEW c \in Caller,
           Unreachable(c) \/ SendFails(c) \/ Answered(c) \/ Forget(c) \/ Abandon(c)
    PROVE  IInv'
<1>1. Finish(c)
    <2>1. ASSUME SendFails(c) PROVE Finish(c)
        BY <2>1, Zenon DEF SendFails
    <2> QED  BY <2>1, Zenon DEF Unreachable, Answered, Forget, Abandon
<1>2. pending' \in {pending, Registered(c)}
    <2>1. CASE SendFails(c)
        <3>1. pending' \in {pending} \cup IF kind = "sse" THEN {Registered(c)} ELSE {}
            BY <2>1 DEF SendFails
        <3> QED  BY <3>1
    <2>2. CASE Forget(c)
        BY <2>2 DEF Forget
    <2>3. CASE Unreachable(c) \/ Answered(c) \/ Abandon(c)
        BY <2>3 DEF Unreachable, Answered, Abandon
    <2> QED  BY <2>1, <2>2, <2>3
<1> QED  BY <1>1, <1>2, FinishKeeps

\* The id handed out is the number of the call: IdsOK is what makes this step safe.
LEMMA BuildKeeps == ASSUME IInv, NEW c \in Caller, Build(c) PROVE IInv'
<1> USE DEF socket, oneshot
<1> DEFINE built == [on |-> 0, id |-> next_id, call |-> calls + 1]
<1>1. next_id = calls + 1 /\ calls + 1 \in 1 .. MaxCalls
    BY DEF IInv, TypeOK, IdsOK, Build
<1>2. request' = [request EXCEPT ![c] = built]
    BY DEF Build
<1>3. built \in [on : 0 .. MaxConnections, id : 0 .. MaxCalls, call : 0 .. MaxCalls]
    BY <1>1
<1>4. built.id = built.call /\ built.call # 0
    BY <1>1
<1> HIDE DEF built
<1>5. request'[c] = built /\ \A d \in Caller \ {c} : request'[d] = request[d] /\ pc'[d] = pc[d]
    BY <1>2 DEF IInv, TypeOK, Build
<1>6. pc[c] = "idle" /\ pc'[c] = "built" /\ lock # c /\ lock' = lock
    BY DEF IInv, TypeOK, Build
<1>7. TypeOK'
    <2>1. request' \in [Caller -> [on : 0 .. MaxConnections, id : 0 .. MaxCalls,
                                   call : 0 .. MaxCalls]]
        BY <1>2, <1>3 DEF IInv, TypeOK
    <2>2. pc' \in [Caller -> {"idle", "built", "send", "wait", "expired"}]
        BY DEF IInv, TypeOK, Build
    <2>3. next_id' \in 1 .. MaxCalls + 1 /\ calls' \in 0 .. MaxCalls
        BY <1>1 DEF Build, NextId
    <2> QED  BY <2>1, <2>2, <2>3 DEF IInv, TypeOK, Build
<1>8. IdsOK'
    BY <1>1 DEF IInv, IdsOK, Build, NextId
<1>9. ASSUME NEW d \in Caller PROVE RequestOK(d)'
    <2>1. CASE d = c
        BY <2>1, <1>4, <1>5, <1>6 DEF RequestOK, Waiting
    <2>2. CASE d # c
        BY <2>2, <1>5, <1>6 DEF IInv, RequestOK, Waiting, Build
    <2> QED  BY <2>1, <2>2
<1>10. AnswerIsOwn'
    <2>1. slot[c] = 0
        BY <1>6 DEF IInv, AnswerIsOwn, RequestOK
    <2> QED  BY <2>1, <1>5 DEF IInv, AnswerIsOwn, Build
<1> QED  BY <1>7, <1>8, <1>9, <1>10 DEF IInv

LEMMA RegisterKeeps == ASSUME IInv, NEW c \in Caller, Register(c) PROVE IInv'
<1> USE DEF socket, oneshot
<1>1. /\ pc[c] = "built" /\ lock = Nobody /\ lock' = c /\ pc'[c] = "send"
      /\ connection \in Connection /\ connection' = connection
    BY DEF IInv, TypeOK, Register, Reachable, Connection
<1>2. /\ request'[c].on = connection /\ request'[c].id = request[c].id
      /\ request'[c].call = request[c].call
      /\ \A d \in Caller \ {c} : request'[d] = request[d] /\ pc'[d] = pc[d]
    BY DEF IInv, TypeOK, Register
<1>3. request[c].id \in Call /\ request[c].call = request[c].id
    BY <1>1 DEF IInv, TypeOK, RequestOK, Call
<1>4. /\ pending' \in [Connection -> [Call -> 0 .. MaxCalls]]
      /\ \A n \in Connection, j \in Call : pending'[n][j] \in {0, j}
    <2>1. pending' \in {pending, [pending EXCEPT ![connection][request[c].id] =
                                     request[c].call]}
        BY DEF Register
    <2>2. pending \in [Connection -> [Call -> 0 .. MaxCalls]]
        BY DEF IInv, TypeOK
    <2>3. request[c].call \in 0 .. MaxCalls
        BY <1>3 DEF Call
    <2>4. CASE pending' = pending
        BY <2>4, <2>2 DEF IInv, IdsOK
    <2>5. CASE pending' = [pending EXCEPT ![connection][request[c].id] = request[c].call]
        <3>1. /\ pending' \in [Connection -> [Call -> 0 .. MaxCalls]]
              /\ \A n \in Connection, j \in Call :
                    pending'[n][j] = IF n = connection /\ j = request[c].id
                                     THEN request[c].call ELSE pending[n][j]
            <4>1. pending' = Written(pending, connection, request[c].id, request[c].call)
                BY <2>5 DEF Written
            <4> QED  BY <2>2, <2>3, <4>1, EntryWritten
        <3> QED  BY <3>1, <1>3 DEF IInv, IdsOK
    <2> QED  BY <2>1, <2>4, <2>5
<1>5. TypeOK'
    <2>1. request' \in [Caller -> [on : 0 .. MaxConnections, id : 0 .. MaxCalls,
                                   call : 0 .. MaxCalls]]
        <3>1. connection \in 0 .. MaxConnections
            BY <1>1 DEF Connection
        <3> QED  BY <3>1 DEF IInv, TypeOK, Register
    <2>2. pc' \in [Caller -> {"idle", "built", "send", "wait", "expired"}]
        BY DEF IInv, TypeOK, Register
    <2>3. pending' \in [Connection -> [Call -> 0 .. MaxCalls]]
        BY <1>4
    <2> QED  BY <1>1, <2>1, <2>2, <2>3 DEF IInv, TypeOK, Register
<1>6. IdsOK'
    BY <1>4 DEF IInv, IdsOK, Register
<1>7. ASSUME NEW d \in Caller PROVE RequestOK(d)'
    <2>1. CASE d = c
        BY <2>1, <1>1, <1>2, <1>3 DEF RequestOK, Waiting, Connection, Call
    <2>2. CASE d # c
        BY <2>2, <1>1, <1>2 DEF IInv, RequestOK, Waiting, Register
    <2> QED  BY <2>1, <2>2
<1>8. AnswerIsOwn'
    BY <1>2 DEF IInv, AnswerIsOwn, Register
<1> QED  BY <1>5, <1>6, <1>7, <1>8 DEF IInv

LEMMA OtherCallerSteps ==
    ASSUME IInv, NEW c \in Caller, Send(c) \/ Expire(c) \/ Exchange(c)
    PROVE  IInv'
<1> USE DEF socket, caller, oneshot
<1>1. TypeOK'
    <2>1. pc' \in [Caller -> {"idle", "built", "send", "wait", "expired"}]
        BY DEF IInv, TypeOK, Send, Expire, Exchange
    <2>2. slot' \in [Caller -> 0 .. MaxCalls]
        BY DEF IInv, TypeOK, Send, Expire, Exchange
    <2>3. wire' \subseteq Connection \X Call \X Call
        <3>1. CASE Send(c)
            <4>1. Waiting(c) /\ pc[c] # "idle"
                BY <3>1 DEF Send, Waiting
            <4>2. request[c].id \in Call /\ request[c].call \in Call
                BY <4>1 DEF IInv, TypeOK, RequestOK, Call
            <4>3. request[c].on \in Connection
                BY <4>1 DEF IInv, TypeOK, RequestOK, Connection
            <4> QED  BY <3>1, <4>2, <4>3 DEF IInv, TypeOK, Send
        <3>2. CASE Expire(c) \/ Exchange(c)
            BY <3>2 DEF IInv, TypeOK, Expire, Exchange
        <3> QED  BY <3>1, <3>2
    <2> QED  BY <2>1, <2>2, <2>3 DEF IInv, TypeOK, Send, Expire, Exchange
<1>2. IdsOK'
    BY DEF IInv, TypeOK, IdsOK, RequestOK, Send, Expire, Exchange
<1>3. ASSUME NEW d \in Caller PROVE RequestOK(d)'
    BY DEF IInv, TypeOK, RequestOK, Waiting, Send, Expire, Exchange
<1>4. AnswerIsOwn'
    BY DEF IInv, TypeOK, AnswerIsOwn, Send, Expire, Exchange
<1> QED  BY <1>1, <1>2, <1>3, <1>4 DEF IInv

-----------------------------------------------------------------------------
LEMMA Inductive == IInv /\ [Next]_vars => IInv'
<1> SUFFICES ASSUME IInv, [Next]_vars PROVE IInv'
    OBVIOUS
<1>1. CASE Owned
    BY <1>1, OwnerSteps
<1>2. CASE \E k \in Connection : Reading(k) \/ Serving(k)
    BY <1>2, QuietReaderSteps, DeliverKeeps, DrainKeeps DEF Reading, Ending
<1>3. CASE \E c \in Caller : Build(c) \/ Calling(c) \/ Exchange(c) \/ Abandon(c)
    BY <1>3, BuildKeeps, RegisterKeeps, FinishingSteps, OtherCallerSteps DEF Calling
<1>4. CASE UNCHANGED vars
    <2>1. TypeOK'
        BY <1>4 DEF IInv, TypeOK, vars
    <2> QED  BY <1>4, <2>1, CallersKept DEF vars, caller, oneshot
<1> QED  BY <1>1, <1>2, <1>3, <1>4 DEF Next

\* The strengthened invariant holds throughout, for any number of callers.
THEOREM Invariant == Spec => []IInv
BY Initially, Inductive, PTL DEF Spec

\* Every variable of the client, its transport and its reader keeps its type.
THEOREM TypeCorrect == Spec => []TypeOK
<1>1. IInv => TypeOK
    BY DEF IInv
<1> QED  BY <1>1, Invariant, PTL

\* No caller is ever handed another request's response, over any transport.
THEOREM OwnAnswers == Spec => []AnswerIsOwn
<1>1. IInv => AnswerIsOwn
    BY DEF IInv
<1> QED  BY <1>1, Invariant, PTL

\* close() and reconnect_once() never take a connection away from a waiting caller.
THEOREM NobodyStranded == Spec => []NoStrandedWaiter
<1>1. IInv => NoStrandedWaiter
    BY DEF IInv, RequestOK, NoStrandedWaiter
<1> QED  BY <1>1, Invariant, PTL
HIDE BoundsAssumption
-----------------------------------------------------------------------------
(***************************************************************************)
(* McpServer, for any number of clients, calls, sessions and messages.       *)
(*                                                                         *)
(* Two things are carried along.  TruthInv: what is under way to a client is  *)
(* true of the call it names, if that is still the client's: of an answer not *)
(* yet sent (WorkIsTrue), of one in the shared channel for the session the    *)
(* client holds (LogIsTrue), of what its oneshot holds and of how the call    *)
(* ended; and a request runs its tool once (RunsOnce).  KeptInv: something is *)
(* always under way to a caller that waits, and what the server has of it     *)
(* will go to the session the caller has open (Home).                        *)
(***************************************************************************)
\* a is what came of the request id of c, as far as it is the last of c.
FitsIn(asked, tools, c, id, a) ==
    /\ id <= asked[c].id
    /\ id = asked[c].id =>
          /\ a \in {"ok", "failed"} => <<c, id, a>> \in tools
          /\ a = "result" => asked[c].ask = "plain"
          /\ a \in Code => asked[c].ask \in {"nosuch", "refused"}
Fits(c, id, a) == FitsIn(call, ran, c, id, a)

ItemFits(asked, tools, r) ==
    /\ r.id <= asked[r.from].id
    /\ r.ask = "noise" => r.id = 0
    /\ r.ask # "noise" /\ r.id = asked[r.from].id => r.ask = asked[r.from].ask
    /\ r.answer # NoAnswer => FitsIn(asked, tools, r.from, r.id, r.answer)
WorkIsTrue == \A i \in DOMAIN work : ItemFits(call, ran, work[i])

\* A number names one session, and an answer goes to the session its request came from.
GoesHome(r) == /\ r.sid \in 1 .. counter - 1
               /\ \A c \in Client : stream[c].sid = r.sid => c = r.from
SessionsDiffer ==
    serving = "sse" =>
        /\ \A c \in Client : stream[c].sid < counter
        /\ \A c, d \in Client : stream[c].sid = stream[d].sid /\ stream[c].sid # 0 => c = d
        /\ \A i \in DOMAIN work : GoesHome(work[i])
        /\ \A i \in DOMAIN log : log[i].to \in 1 .. counter - 1
        /\ \A c \in Client : stream[c].state \in {"made", "open"} => stream[c].sid # 0

\* Only run_sse has sessions here.
OnlyStreams == serving # "sse" => \A c \in Client : stream[c].state = "none"

LogIsTrue ==
    serving = "sse" => \A i \in DOMAIN log : \A c \in Client :
        stream[c].sid = log[i].to => Fits(c, log[i].id, log[i].answer)

CallsAreTrue == \A c \in Client : call[c].id > 0 =>
                   Fits(c, call[c].id, call[c].end) /\ Fits(c, call[c].id, held[c])

RanForATool ==
    \A r \in ran : r[2] <= call[r[1]].id /\ (r[2] = call[r[1]].id => call[r[1]].ask = "tool")

TruthInv == /\ WorkIsTrue /\ SessionsDiffer /\ OnlyStreams
            /\ LogIsTrue /\ CallsAreTrue /\ RanForATool

\* A request is one item of work, whose tool has not run before it is answered.
Same(r, q) == r.from = q.from /\ r.id = q.id
RunsOnce ==
    /\ \A i, j \in DOMAIN work : work[i].ask # "noise" /\ work[j].ask # "noise"
                                 /\ Same(work[i], work[j]) => i = j
    /\ \A i \in DOMAIN work : work[i].ask # "noise" /\ work[i].answer = NoAnswer =>
          \A r \in ran : ~(r[1] = work[i].from /\ r[2] = work[i].id)
    /\ \A r, q \in ran : r[1] = q[1] /\ r[2] = q[2] => r = q

Safe(c) == Awaits(c) =>
              \/ InWork(c) \/ OnItsWay(c) \/ <<c, call[c].id>> \in skipped
              \/ call[c].end = "posting" /\ held[c] # NoAnswer
Asked(c, r) == r.from = c /\ r.id = call[c].id
Home(c) ==
    /\ stream[c].next <= Len(log) + 1
    /\ Awaits(c) => call[c].id > 0 /\ (serving = "stdio" => c = Parent)
    /\ call[c].end = "waiting" => held[c] = NoAnswer
    /\ call[c].end = "posting" => serving = "sse"
    /\ serving = "sse" /\ Awaits(c) /\ held[c] = NoAnswer =>
          /\ stream[c].state = "open"
          /\ \A i \in DOMAIN work : Asked(c, work[i]) => work[i].sid = stream[c].sid
KeptInv == \A c \in Client : Safe(c) /\ Home(c)

ServerInv == ServerTypes /\ TruthInv /\ RunsOnce /\ KeptInv

-----------------------------------------------------------------------------
(* Types.                                                                   *)

\* Taking an item out leaves the others, in their order.
LEMMA RemovedIs ==
    ASSUME NEW X, NEW s \in Seq(X), NEW i \in DOMAIN s
    PROVE  /\ RemoveAt(s, i) \in Seq(X) /\ DOMAIN RemoveAt(s, i) = 1 .. Len(s) - 1
           /\ \A j \in 1 .. Len(s) - 1 : RemoveAt(s, i)[j] = IF j < i THEN s[j] ELSE s[j + 1]
<1> DEFINE a == SubSeq(s, 1, i - 1)
           b == SubSeq(s, i + 1, Len(s))
<1>1. i \in 1 .. Len(s) /\ Len(s) \in Nat
  OBVIOUS
<1>2. a \in Seq(X) /\ Len(a) = i - 1 /\ \A j \in 1 .. i - 1 : a[j] = s[j]
  BY <1>1
<1>3. b \in Seq(X) /\ Len(b) = Len(s) - i /\ \A j \in 1 .. Len(s) - i : b[j] = s[i + j]
  BY <1>1
<1> HIDE DEF a, b
<1>4. /\ a \o b \in Seq(X) /\ Len(a \o b) = Len(s) - 1
      /\ \A j \in 1 .. Len(s) - 1 : (a \o b)[j] = IF j <= i - 1 THEN a[j] ELSE b[j - (i - 1)]
  BY <1>1, <1>2, <1>3
<1>5. RemoveAt(s, i) = a \o b
  BY DEF RemoveAt, a, b
<1>6. ASSUME NEW j \in 1 .. Len(s) - 1
      PROVE  RemoveAt(s, i)[j] = IF j < i THEN s[j] ELSE s[j + 1]
  <2>1. CASE j < i
    BY <1>1, <1>2, <1>4, <1>5, <2>1
  <2>2. CASE ~(j < i)
    <3>1. j - (i - 1) \in 1 .. Len(s) - i /\ i + (j - (i - 1)) = j + 1
      BY <1>1, <2>2
    <3>2. (a \o b)[j] = b[j - (i - 1)]
      BY <1>1, <1>4, <2>2
    <3>3. b[j - (i - 1)] = s[j + 1]
      BY <1>3, <3>1
    <3> QED
      BY <1>5, <2>2, <3>2, <3>3
  <2> QED
    BY <2>1, <2>2
<1>7. DOMAIN RemoveAt(s, i) = 1 .. Len(s) - 1
  BY <1>4, <1>5
<1> QED
  BY <1>4, <1>5, <1>6, <1>7

LEMMA Remains ==
    ASSUME NEW X, NEW s \in Seq(X), NEW i \in DOMAIN s
    PROVE  /\ \A j \in DOMAIN RemoveAt(s, i) : \E k \in DOMAIN s : RemoveAt(s, i)[j] = s[k]
           /\ \A k \in DOMAIN s : k # i => \E j \in DOMAIN RemoveAt(s, i) : RemoveAt(s, i)[j] = s[k]
<1>1. DOMAIN s = 1 .. Len(s) /\ Len(s) \in Nat /\ i \in 1 .. Len(s)
  OBVIOUS
<1>2. DOMAIN RemoveAt(s, i) = 1 .. Len(s) - 1
  BY RemovedIs
<1>3. \A j \in 1 .. Len(s) - 1 : RemoveAt(s, i)[j] = IF j < i THEN s[j] ELSE s[j + 1]
  BY RemovedIs
<1>4. ASSUME NEW k \in DOMAIN s, k # i
      PROVE  \E j \in DOMAIN RemoveAt(s, i) : RemoveAt(s, i)[j] = s[k]
  <2>1. CASE k < i
    BY <1>1, <1>2, <1>3, <2>1
  <2>2. CASE i < k
    <3>1. k - 1 \in 1 .. Len(s) - 1 /\ ~(k - 1 < i) /\ (k - 1) + 1 = k
      BY <1>1, <2>2
    <3>2. RemoveAt(s, i)[k - 1] = s[k]
      BY <1>3, <3>1
    <3> QED
      BY <1>2, <3>1, <3>2
  <2> QED
    BY <1>1, <1>4, <2>1, <2>2
<1>5. ASSUME NEW j \in DOMAIN RemoveAt(s, i) PROVE \E k \in DOMAIN s : RemoveAt(s, i)[j] = s[k]
  <2>1. j \in DOMAIN s /\ j + 1 \in DOMAIN s
    BY <1>1, <1>2
  <2> QED
    BY <1>2, <1>3, <2>1
<1> QED
  BY <1>4, <1>5

LEMMA ServerTypesInitially == ServerInit => ServerTypes
<1> SUFFICES ASSUME ServerInit PROVE ServerTypes
  OBVIOUS
<1>1. Idle \in CallState /\ NoStream \in StreamState
  BY DEF Idle, CallState, Ask, Outcome, Answer, NoStream, StreamState
<1> QED
  BY <1>1 DEF ServerInit, ServerTypes

\* What a call, its oneshot, the work or a session may become.
LEMMA EndedType ==
    ASSUME ServerTypes, NEW c \in Client, NEW e \in Outcome
    PROVE  [call EXCEPT ![c].end = e] \in [Client -> CallState]
<1>1. [call[c] EXCEPT !.end = e] \in CallState
  BY DEF ServerTypes, CallState
<1> QED
  BY <1>1 DEF ServerTypes

LEMMA ToldType ==
    ASSUME ServerTypes, NEW c \in Client, NEW id, NEW a \in Answer \cup {"disconnected"}, Told(c, id, a)
    PROVE  call' \in [Client -> CallState]
           /\ held' \in [Client -> Answer \cup {NoAnswer, "disconnected"}]
<1>1. a \in Outcome
  BY DEF Outcome, Failure
<1>2. [call EXCEPT ![c].end = a] \in [Client -> CallState] /\ call \in [Client -> CallState]
  BY <1>1, EndedType DEF ServerTypes
<1>3. held' \in [Client -> Answer \cup {NoAnswer, "disconnected"}]
  <2>1. held' = held \/ held' = [held EXCEPT ![c] = a]
    BY DEF Told
  <2>2. held \in [Client -> Answer \cup {NoAnswer, "disconnected"}]
        /\ a \in Answer \cup {NoAnswer, "disconnected"}
    BY DEF ServerTypes
  <2> QED
    BY <2>1, <2>2
<1> QED
  BY <1>2, <1>3 DEF Told

LEMMA StreamType ==
    ASSUME ServerTypes, NEW c \in Client, NEW s \in StreamState, stream' = [stream EXCEPT ![c] = s]
    PROVE  stream' \in [Client -> StreamState]
BY DEF ServerTypes

\* What a request becomes, on either side.
AsksFor(c, a, e) == [id |-> call[c].id + 1, ask |-> a, end |-> e]
Posted(c, a) == [from |-> c, sid |-> stream[c].sid, id |-> call[c].id + 1, ask |-> a,
                 answer |-> NoAnswer]
LEMMA AsksIs ==
    ASSUME ServerTypes, NEW c \in Client, NEW a \in Ask, NEW e \in {"posting", "waiting", "broken", "io"},
           Asks(c, a, e), work' = work \/ work' = Sent(c, a)
    PROVE  /\ ServerTypes' /\ work' \in {work, Append(work, Posted(c, a))}
           /\ call'[c].id = call[c].id + 1 /\ call'[c].ask = a /\ call'[c].end = e
           /\ \A d \in Client : d # c => call'[d] = call[d] /\ held'[d] = held[d]
           /\ held'[c] = NoAnswer
           /\ Posted(c, a).from = c /\ Posted(c, a).id = call[c].id + 1 /\ Posted(c, a).ask = a
           /\ Posted(c, a).sid = stream[c].sid /\ Posted(c, a).answer = NoAnswer
           /\ call[c].id \in Nat
<1>1. call[c].id \in Nat /\ call[c].id + 1 \in Nat /\ stream[c].sid \in Nat
  <2>1. call[c] \in CallState /\ stream[c] \in StreamState
    BY DEF ServerTypes
  <2> QED
    BY <2>1 DEF CallState, StreamState
<1>2. AsksFor(c, a, e) \in CallState
  BY <1>1 DEF AsksFor, CallState, Outcome, Failure
<1>3. Posted(c, a) \in WorkItem
  BY <1>1 DEF Posted, WorkItem
<1>4. call' = [call EXCEPT ![c] = AsksFor(c, a, e)]
  BY DEF Asks, AsksFor
<1>5. work' \in {work, Append(work, Posted(c, a))}
  BY DEF Sent, Posted
<1>6. /\ call' \in [Client -> CallState] /\ call'[c] = AsksFor(c, a, e)
      /\ \A d \in Client : d # c => call'[d] = call[d]
  BY <1>2, <1>4 DEF ServerTypes
<1>7. /\ held' \in [Client -> Answer \cup {NoAnswer, "disconnected"}] /\ held'[c] = NoAnswer
      /\ \A d \in Client : d # c => held'[d] = held[d]
  <2>1. held' = [held EXCEPT ![c] = NoAnswer]
    BY DEF Asks
  <2> QED
    BY <2>1 DEF ServerTypes
<1>8. work' \in Seq(WorkItem)
  BY <1>3, <1>5 DEF ServerTypes
<1>9. ServerTypes'
  BY <1>6, <1>7, <1>8 DEF ServerTypes, Asks, streams
<1>10. call'[c].id = call[c].id + 1 /\ call'[c].ask = a /\ call'[c].end = e
  BY <1>6 DEF AsksFor
<1>11. /\ Posted(c, a).from = c /\ Posted(c, a).id = call[c].id + 1 /\ Posted(c, a).ask = a
       /\ Posted(c, a).sid = stream[c].sid /\ Posted(c, a).answer = NoAnswer
  BY DEF Posted
<1> QED
  BY <1>1, <1>5, <1>6, <1>7, <1>9, <1>10, <1>11

\* Request and WriteFails both ask.
LEMMA AskedAs ==
    ASSUME NEW c \in Client, NEW a \in Ask,
           Request(c, a) \/ (WriteFails(a) /\ c = Parent)
    PROVE  \E e \in {"posting", "waiting", "broken", "io"} :
              /\ Asks(c, a, e) /\ (work' = work \/ work' = Sent(c, a))
              /\ e = "posting" => serving = "sse"
              /\ e \in {"posting", "waiting"} => work' = Sent(c, a)
              /\ e = "waiting" => serving # "sse"
<1>1. CASE Request(c, a)
  BY <1>1 DEF Request
<1>2. CASE WriteFails(a) /\ c = Parent
  <2>1. PICK e \in {"broken", "io"} : Asks(c, a, e)
    BY <1>2 DEF WriteFails
  <2>2. work' = work \/ work' = Sent(c, a)
    BY <1>2 DEF WriteFails
  <2> QED
    BY <2>1, <2>2
<1> QED
  BY <1>1, <1>2

LEMMA AskingKeepsTypes ==
    ASSUME ServerTypes, NEW c \in Client, NEW a \in Ask,
           Request(c, a) \/ (WriteFails(a) /\ c = Parent)
    PROVE  ServerTypes'
BY AskedAs, AsksIs

LEMMA RequestsKeepTypes ==
    ASSUME ServerTypes,
           \/ \E c \in Client : GiveUp(c) \/ Accepted(c)
           \/ Noise \/ Ends
           \/ \E i \in DOMAIN work : Serve(i) \/ Cancelled(i)
    PROVE  ServerTypes'
<1>1. CASE Noise
  <2> DEFINE r == [from |-> Parent, sid |-> 0, id |-> 0, ask |-> "noise", answer |-> NoAnswer]
  <2>1. r \in WorkItem
    BY ServerAssumption DEF WorkItem
  <2> HIDE DEF r
  <2>2. work' = Append(work, r)
        /\ UNCHANGED <<serving, alive, ran, call, held, log, counter, stream, skipped>>
    BY <1>1 DEF Noise, outcome, streams, r
  <2> QED
    BY <2>1, <2>2 DEF ServerTypes
<1>2. ASSUME NEW c \in Client, GiveUp(c) PROVE ServerTypes'
  <2>1. call' \in [Client -> CallState]
    <3>1. {"http", "timeout"} \subseteq Outcome
      BY DEF Outcome, Failure
    <3>2. PICK e \in {"http", "timeout"} : call' = [call EXCEPT ![c].end = e]
      BY <1>2 DEF GiveUp, ServerTypes
    <3> QED
      BY <3>1, <3>2, EndedType
  <2> QED
    BY <1>2, <2>1 DEF GiveUp, streams, ServerTypes
<1>3. ASSUME NEW c \in Client, Accepted(c) PROVE ServerTypes'
  <2>1. call' \in [Client -> CallState]
    <3> DEFINE e == IF held[c] = NoAnswer THEN "waiting" ELSE held[c]
    <3>1. e \in Outcome
      BY DEF Outcome, Failure, ServerTypes
    <3>2. call' = [call EXCEPT ![c].end = e]
      BY <1>3 DEF Accepted
    <3> QED
      BY <3>1, <3>2, EndedType
  <2> QED
    BY <1>3, <2>1 DEF Accepted, streams, ServerTypes
<1>4. CASE Ends
  <2>1. Told(Parent, call[Parent].id, "disconnected") /\ Parent \in Client
    BY <1>4, ServerAssumption DEF Ends
  <2>2. /\ call' \in [Client -> CallState]
        /\ held' \in [Client -> Answer \cup {NoAnswer, "disconnected"}]
    BY <2>1, ToldType
  <2>3. work' \in Seq(WorkItem)
    BY <1>4 DEF Ends
  <2> QED
    BY <1>4, <2>2, <2>3 DEF Ends, streams, ServerTypes
<1>5. ASSUME NEW i \in DOMAIN work, Handle(i) PROVE ServerTypes'
  <2>1. PICK a \in Handled(work[i].ask) :
            /\ work' = [work EXCEPT ![i].answer = a]
            /\ ran' = IF work[i].ask = "tool"
                      THEN ran \cup {<<work[i].from, work[i].id, a>>} ELSE ran
    BY <1>5 DEF Handle
  <2>2. work[i] \in WorkItem
    BY DEF ServerTypes
  <2>3. work[i].ask \in Ask
    BY <1>5, <2>2 DEF Handle, WorkItem
  <2>4. a \in Answer
    BY <2>3 DEF Handled, Ask, Answer, Code
  <2>5. [work[i] EXCEPT !.answer = a] \in WorkItem
    BY <2>2, <2>4 DEF WorkItem
  <2>6. work' \in Seq(WorkItem)
    BY <2>1, <2>5 DEF ServerTypes
  <2>7. <<work[i].from, work[i].id, a>> \in Client \X Nat \X Answer
    BY <2>2, <2>4 DEF WorkItem
  <2>8. ran' \subseteq Client \X Nat \X Answer
    BY <2>1, <2>7 DEF ServerTypes
  <2> QED
    BY <1>5, <2>6, <2>8 DEF Handle, outcome, streams, ServerTypes
<1>6. ASSUME NEW i \in DOMAIN work, Ignore(i) \/ Cancelled(i) PROVE ServerTypes'
  <2>1. work' \in Seq(WorkItem)
    BY <1>6, RemovedIs DEF Ignore, Cancelled, ServerTypes
  <2> QED
    BY <1>6, <2>1 DEF Ignore, Cancelled, outcome, streams, ServerTypes
<1>7. ASSUME NEW i \in DOMAIN work, Reply(i) PROVE ServerTypes'
  <2> DEFINE r == work[i]
             m == [to |-> r.sid, id |-> r.id, answer |-> r.answer]
  <2>0. r \in WorkItem
    BY DEF ServerTypes
  <2>1. r.from \in Client /\ r.answer \in Answer
    BY <1>7, <2>0 DEF Reply, WorkItem
  <2>2. m \in Broadcast
    BY <2>0, <2>1 DEF WorkItem, Broadcast
  <2>3. work' \in Seq(WorkItem)
    BY <1>7, RemovedIs DEF Reply, ServerTypes
  <2>4. Append(log, m) \in Seq(Broadcast)
    BY <2>2 DEF ServerTypes
  <2>5. CASE serving = "sse"
    <3>1. log' = Append(log, m) /\ UNCHANGED outcome
      BY <1>7, <2>5 DEF Reply
    <3> HIDE DEF m, r
    <3> QED
      BY <1>7, <2>3, <2>4, <3>1 DEF Reply, outcome, ServerTypes
  <2>6. CASE serving # "sse"
    <3>1. Told(r.from, r.id, r.answer) /\ log' = log
      BY <1>7, <2>6 DEF Reply
    <3>2. /\ call' \in [Client -> CallState]
          /\ held' \in [Client -> Answer \cup {NoAnswer, "disconnected"}]
      BY <2>1, <3>1, ToldType
    <3> QED
      BY <1>7, <2>3, <3>1, <3>2 DEF Reply, ServerTypes
  <2> QED
    BY <2>5, <2>6
<1> QED
  BY <1>1, <1>2, <1>3, <1>4, <1>5, <1>6, <1>7 DEF Serve

LEMMA OldestIs ==
    ASSUME ServerTypes
    PROVE  Len(log) \in Nat /\ Oldest \in Nat \ {0} /\ Oldest <= Len(log) + 1 /\ DOMAIN log = 1 .. Len(log)
<1>1. Len(log) \in Nat /\ DOMAIN log = 1 .. Len(log)
  BY DEF ServerTypes
<1> QED
  BY <1>1, ServerAssumption DEF Oldest

LEMMA StreamsKeepTypes ==
    ASSUME ServerTypes, NEW c \in Client, OpenStream(c) \/ CloseStream(c) \/ Flow(c)
    PROVE  ServerTypes'
<1>0. stream[c] \in StreamState /\ stream[c].next \in Nat \ {0}
  <2>1. stream[c] \in StreamState
    BY DEF ServerTypes
  <2> QED
    BY <2>1 DEF StreamState
<1>3. CASE OpenStream(c)
  <2>1. [state |-> "made", sid |-> counter, next |-> Len(log) + 1] \in StreamState
    BY OldestIs DEF StreamState, ServerTypes
  <2>2. stream' \in [Client -> StreamState]
    BY <1>3, <2>1, StreamType DEF OpenStream
  <2> QED
    BY <1>3, <2>2 DEF OpenStream, requests, outcome, ServerTypes
<1>4. CASE CloseStream(c)
  <2>1. [stream[c] EXCEPT !.state = "left"] \in StreamState
    BY <1>0 DEF StreamState
  <2>2. stream' \in [Client -> StreamState]
    BY <1>4, <2>1, StreamType DEF CloseStream
  <2>3. /\ call' \in [Client -> CallState]
        /\ held' \in [Client -> Answer \cup {NoAnswer, "disconnected"}]
    BY <1>4, ToldType DEF CloseStream
  <2> QED
    BY <1>4, <2>2, <2>3 DEF CloseStream, ServerTypes
<1>5. CASE Acknowledge(c)
  <2>1. [stream[c] EXCEPT !.state = "open"] \in StreamState
    BY <1>0 DEF StreamState
  <2>2. stream' \in [Client -> StreamState]
    BY <1>5, <2>1, StreamType DEF Acknowledge
  <2> QED
    BY <1>5, <2>2 DEF Acknowledge, requests, outcome, ServerTypes
<1>6. CASE Skip(c)
  <2>2. [stream[c] EXCEPT !.next = Oldest] \in StreamState
    BY <1>0, OldestIs DEF StreamState
  <2>3. stream' \in [Client -> StreamState]
    BY <1>6, <2>2, StreamType DEF Skip
  <2>5. \A i \in stream[c].next .. Oldest - 1 : i \in DOMAIN log
    BY <1>0, OldestIs
  <2>6. \A i \in DOMAIN log : log[i].id \in Nat
    <3>1. \A i \in DOMAIN log : log[i] \in Broadcast
      BY DEF ServerTypes
    <3> QED
      BY <3>1 DEF Broadcast
  <2>7. skipped' \subseteq Client \X Nat
    BY <1>6, <2>5, <2>6 DEF Skip, ServerTypes
  <2> QED
    BY <1>6, <2>3, <2>7 DEF Skip, requests, outcome, ServerTypes
<1>7. CASE Receive(c)
  <2> DEFINE m == log[stream[c].next]
  <2>1. stream[c].next \in DOMAIN log
    BY <1>0, <1>7, OldestIs DEF Receive
  <2>2. m.answer \in Answer
    <3>1. m \in Broadcast
      BY <2>1 DEF ServerTypes
    <3> QED
      BY <3>1 DEF Broadcast
  <2>3. [stream[c] EXCEPT !.next = @ + 1] \in StreamState
    BY <1>0 DEF StreamState
  <2>4. stream' \in [Client -> StreamState]
    BY <1>7, <2>3, StreamType DEF Receive
  <2>5. Told(c, m.id, m.answer) \/ UNCHANGED outcome
    BY <1>7 DEF Receive
  <2>6. /\ call' \in [Client -> CallState]
        /\ held' \in [Client -> Answer \cup {NoAnswer, "disconnected"}]
    BY <2>2, <2>5, ToldType DEF outcome, ServerTypes
  <2> QED
    BY <1>7, <2>4, <2>6 DEF Receive, ServerTypes
<1> QED
  BY <1>3, <1>4, <1>5, <1>6, <1>7 DEF Flow

-----------------------------------------------------------------------------
(* The truth of what is under way.                                          *)

\* A call gives way to a later one only, and what is asked in it stays.
Later(c) == \/ call'[c].id > call[c].id
            \/ call'[c].id = call[c].id /\ call'[c].ask = call[c].ask

LEMMA TypedState ==
    ASSUME ServerTypes
    PROVE  /\ \A c \in Client : call[c] \in CallState /\ call[c].id \in Nat /\ stream[c] \in StreamState
           /\ \A i \in DOMAIN work : work[i] \in WorkItem /\ work[i].id \in Nat
                                     /\ work[i].from \in Client /\ work[i].sid \in Nat
           /\ \A i \in DOMAIN log : log[i] \in Broadcast /\ log[i].id \in Nat /\ log[i].to \in Nat
                                    /\ log[i].answer \in Answer
           /\ \A r \in ran : r[1] \in Client /\ r[2] \in Nat /\ r[3] \in Answer
                             /\ r = <<r[1], r[2], r[3]>>
           /\ \A c \in Client : stream[c].sid \in Nat /\ stream[c].next \in Nat \ {0}
           /\ \A c \in Client : held[c] \in Answer \cup {NoAnswer, "disconnected"}
<1>1. \A c \in Client : call[c] \in CallState /\ stream[c] \in StreamState
  BY DEF ServerTypes
<1>2. \A i \in DOMAIN work : work[i] \in WorkItem
  BY DEF ServerTypes
<1>3. \A i \in DOMAIN log : log[i] \in Broadcast
  BY DEF ServerTypes
<1>4. \A r \in ran : r[1] \in Client /\ r[2] \in Nat /\ r[3] \in Answer /\ r = <<r[1], r[2], r[3]>>
  BY DEF ServerTypes
<1>5. \A c \in Client : held[c] \in Answer \cup {NoAnswer, "disconnected"}
  BY DEF ServerTypes
<1> QED
  BY <1>1, <1>2, <1>3, <1>4, <1>5 DEF CallState, StreamState, WorkItem, Broadcast

LEMMA FitsStays ==
    ASSUME ServerTypes, ServerTypes', ran \subseteq ran', NEW c \in Client, Later(c),
           NEW id \in Nat, NEW a, Fits(c, id, a)
    PROVE  FitsIn(call', ran', c, id, a)
<1>1. call[c].id \in Nat /\ call'[c].id \in Nat
  <2>1. call'[c] \in CallState
    BY DEF ServerTypes
  <2> QED
    BY <2>1, TypedState DEF CallState
<1> QED
  BY <1>1 DEF Fits, FitsIn, Later

LEMMA RanStands ==
    ASSUME ServerTypes, ServerTypes', RanForATool, \A c \in Client : Later(c), ran' = ran
    PROVE  RanForATool'
<1> SUFFICES ASSUME NEW r \in ran
             PROVE  /\ r[2] <= call'[r[1]].id
                    /\ r[2] = call'[r[1]].id => call'[r[1]].ask = "tool"
  BY DEF RanForATool
<1>1. r[1] \in Client /\ r[2] \in Nat
  BY TypedState
<1>2. call[r[1]].id \in Nat /\ call'[r[1]].id \in Nat
  <2>1. call'[r[1]] \in CallState
    BY <1>1 DEF ServerTypes
  <2> QED
    BY <1>1, <2>1, TypedState DEF CallState
<1>3. r[2] <= call[r[1]].id /\ (r[2] = call[r[1]].id => call[r[1]].ask = "tool")
  BY DEF RanForATool
<1> QED
  BY <1>1, <1>2, <1>3 DEF Later

\* Steps that open no session: what they add to the work fits, and what they add to the
\* channel was work.
AddsWork(r) == ItemFits(call', ran', r) /\ (serving = "sse" => GoesHome(r))
WasWork(m) == \E k \in DOMAIN work :
    /\ work[k].answer # NoAnswer
    /\ m = [to |-> work[k].sid, id |-> work[k].id, answer |-> work[k].answer]

LEMMA TruthKept ==
    ASSUME ServerTypes, ServerTypes', TruthInv, \A c \in Client : Later(c),
           ran \subseteq ran', serving' = serving, CallsAreTrue', RanForATool',
           \A j \in DOMAIN work' : (\E k \in DOMAIN work : work'[j] = work[k]) \/ AddsWork(work'[j]),
           serving = "sse" => \A i \in DOMAIN log' :
               (i \in DOMAIN log /\ log'[i] = log[i]) \/ WasWork(log'[i]),
           serving # "sse" => stream' = stream,
           serving = "sse" =>
               /\ counter' = counter /\ \A c \in Client : stream'[c].sid = stream[c].sid
               /\ \A c \in Client : stream'[c].state \in {"made", "open"} =>
                     stream[c].state \in {"made", "open"}
    PROVE  TruthInv'
<1>1. \A c \in Client : call[c].id \in Nat /\ call'[c].id \in Nat
  <2>1. \A c \in Client : call'[c] \in CallState
    BY DEF ServerTypes
  <2> QED
    BY <2>1, TypedState DEF CallState
<1>2. ASSUME NEW k \in DOMAIN work PROVE ItemFits(call', ran', work[k])
  <2> DEFINE r == work[k]
  <2>2. r.id \in Nat /\ r.from \in Client
    BY TypedState
  <2>3. /\ r.id <= call[r.from].id
        /\ r.ask = "noise" => r.id = 0
        /\ r.ask # "noise" /\ r.id = call[r.from].id => r.ask = call[r.from].ask
        /\ r.answer # NoAnswer => Fits(r.from, r.id, r.answer)
    BY DEF TruthInv, WorkIsTrue, ItemFits, Fits
  <2>4. r.answer # NoAnswer => FitsIn(call', ran', r.from, r.id, r.answer)
    BY <2>2, <2>3, FitsStays
  <2> HIDE DEF r
  <2>5. r.id <= call'[r.from].id
    BY <1>1, <2>2, <2>3 DEF Later
  <2>6. r.ask # "noise" /\ r.id = call'[r.from].id => r.ask = call'[r.from].ask
    BY <1>1, <2>2, <2>3 DEF Later
  <2> QED
    BY <2>3, <2>4, <2>5, <2>6 DEF r, ItemFits
<1>3. WorkIsTrue'
  BY <1>2 DEF WorkIsTrue, AddsWork
<1>4. SessionsDiffer'
  <2> SUFFICES ASSUME serving = "sse" PROVE SessionsDiffer'
    BY DEF SessionsDiffer
  <2>1. ASSUME NEW j \in DOMAIN work'
        PROVE  work'[j].sid \in 1 .. counter - 1
               /\ \A c \in Client : stream[c].sid = work'[j].sid => c = work'[j].from
    BY DEF TruthInv, SessionsDiffer, AddsWork, GoesHome
  <2>2. ASSUME NEW i \in DOMAIN log' PROVE log'[i].to \in 1 .. counter - 1
    <3>1. CASE i \in DOMAIN log /\ log'[i] = log[i]
      BY <3>1 DEF TruthInv, SessionsDiffer
    <3>2. CASE WasWork(log'[i])
      BY <3>2 DEF TruthInv, SessionsDiffer, WasWork, GoesHome
    <3> QED
      BY <3>1, <3>2
  <2> QED
    BY <2>1, <2>2 DEF TruthInv, SessionsDiffer, GoesHome
<1>6. LogIsTrue'
  <2> SUFFICES ASSUME serving = "sse", NEW i \in DOMAIN log', NEW c \in Client,
                      stream[c].sid = log'[i].to
               PROVE  FitsIn(call', ran', c, log'[i].id, log'[i].answer)
    BY DEF LogIsTrue, Fits
  <2>1. CASE i \in DOMAIN log /\ log'[i] = log[i]
    <3>1. log[i].id \in Nat /\ Fits(c, log[i].id, log[i].answer)
      BY <2>1, TypedState DEF TruthInv, LogIsTrue
    <3> QED
      BY <2>1, <3>1, FitsStays
  <2>2. CASE WasWork(log'[i])
    <3>1. PICK k \in DOMAIN work : /\ work[k].answer # NoAnswer
             /\ log'[i] = [to |-> work[k].sid, id |-> work[k].id, answer |-> work[k].answer]
      BY <2>2 DEF WasWork
    <3>2. log'[i].to = work[k].sid /\ log'[i].id = work[k].id /\ log'[i].answer = work[k].answer
      BY <3>1
    <3>3. c = work[k].from
      BY <3>2 DEF TruthInv, SessionsDiffer, GoesHome
    <3> QED
      BY <1>2, <3>1, <3>2, <3>3 DEF ItemFits
  <2> QED
    BY <2>1, <2>2
<1>7. OnlyStreams'
  BY DEF TruthInv, OnlyStreams
<1> QED
  BY <1>3, <1>4, <1>6, <1>7 DEF TruthInv

\* What a call ends with, and what its oneshot holds, may be whatever fits it.
LEMMA CallsFit ==
    ASSUME ServerTypes, CallsAreTrue, ran' = ran,
           \A d \in Client :
              /\ call'[d].id = call[d].id /\ call'[d].ask = call[d].ask
              /\ call'[d].end = call[d].end \/ Fits(d, call[d].id, call'[d].end)
              /\ held'[d] = held[d] \/ Fits(d, call[d].id, held'[d])
    PROVE  CallsAreTrue' /\ \A d \in Client : Later(d)
<1>1. \A d \in Client : Later(d)
  BY DEF Later
<1>2. ASSUME NEW d \in Client, call[d].id > 0
      PROVE  Fits(d, call[d].id, call'[d].end) /\ Fits(d, call[d].id, held'[d])
  <2>1. Fits(d, call[d].id, call[d].end) /\ Fits(d, call[d].id, held[d])
    BY <1>2 DEF CallsAreTrue
  <2> QED
    BY <2>1
<1>3. CallsAreTrue'
  BY <1>2 DEF CallsAreTrue, Fits, FitsIn
<1> QED
  BY <1>1, <1>3

LEMMA EmptyFits ==
    ASSUME ServerTypes, NEW c \in Client, NEW e \in Failure \cup {"waiting", "posting", NoAnswer}
    PROVE  Fits(c, call[c].id, e)
<1>1. call[c].id \in Nat
  BY TypedState
<1>2. e \notin {"ok", "failed", "result"} /\ e \notin Code
  BY DEF Failure, Code, NoAnswer
<1> QED
  BY <1>1, <1>2 DEF Fits, FitsIn

\* The end of one call.
LEMMA EndIs ==
    ASSUME ServerTypes, NEW c \in Client, NEW e, call' = [call EXCEPT ![c].end = e]
    PROVE  /\ \A d \in Client : call'[d].id = call[d].id /\ call'[d].ask = call[d].ask
           /\ \A d \in Client : d # c => call'[d] = call[d]
           /\ call'[c].end = e
<1>1. call[c] \in CallState /\ call \in [Client -> CallState]
  BY DEF ServerTypes
<1>2. /\ [call[c] EXCEPT !.end = e].id = call[c].id /\ [call[c] EXCEPT !.end = e].ask = call[c].ask
      /\ [call[c] EXCEPT !.end = e].end = e
  BY <1>1 DEF CallState
<1>3. call'[c] = [call[c] EXCEPT !.end = e] /\ \A d \in Client : d # c => call'[d] = call[d]
  BY <1>1
<1> QED
  BY <1>2, <1>3

LEMMA ToldIs ==
    ASSUME ServerTypes, NEW c \in Client, NEW id, NEW a, Told(c, id, a)
    PROVE  /\ \A d \in Client : call'[d].id = call[d].id /\ call'[d].ask = call[d].ask
           /\ \A d \in Client : d # c => call'[d] = call[d] /\ held'[d] = held[d]
           /\ call'[c].end = IF call[c].id = id /\ call[c].end = "waiting" THEN a ELSE call[c].end
           /\ held'[c] = IF call[c].id = id /\ Keeps(c) THEN a ELSE held[c]
<1>1. CASE call[c].id = id /\ call[c].end = "waiting"
  <2>1. call' = [call EXCEPT ![c].end = a] /\ held' = held
    BY <1>1 DEF Told, Keeps
  <2>2. /\ \A d \in Client : call'[d].id = call[d].id /\ call'[d].ask = call[d].ask
        /\ \A d \in Client : d # c => call'[d] = call[d]
        /\ call'[c].end = a
    BY <2>1, EndIs
  <2>3. ~Keeps(c)
    BY <1>1 DEF Keeps
  <2> QED
    BY <1>1, <2>1, <2>2, <2>3
<1>2. CASE ~(call[c].id = id /\ call[c].end = "waiting")
  <2>1. call' = call
    BY <1>2 DEF Told
  <2>2. held' = IF call[c].id = id /\ Keeps(c) THEN [held EXCEPT ![c] = a] ELSE held
    BY DEF Told
  <2> QED
    BY <1>2, <2>1, <2>2 DEF ServerTypes
<1> QED
  BY <1>1, <1>2

\* An answer that fits the call it names.
LEMMA ToldFits ==
    ASSUME ServerTypes, CallsAreTrue, ran' = ran, NEW c \in Client, NEW id, NEW a,
           Fits(c, id, a), Told(c, id, a)
    PROVE  CallsAreTrue' /\ \A d \in Client : Later(d)
<1>1. ASSUME NEW d \in Client
      PROVE  /\ call'[d].id = call[d].id /\ call'[d].ask = call[d].ask
             /\ call'[d].end = call[d].end \/ Fits(d, call[d].id, call'[d].end)
             /\ held'[d] = held[d] \/ Fits(d, call[d].id, held'[d])
  BY ToldIs
<1> QED
  BY <1>1, CallsFit

LEMMA CallsStand ==
    ASSUME ServerTypes, CallsAreTrue, call' = call, held' = held, ran' = ran
    PROVE  CallsAreTrue' /\ \A c \in Client : Later(c)
BY CallsFit

LEMMA TruthInitially == ServerInit => TruthInv
<1> SUFFICES ASSUME ServerInit PROVE TruthInv
  OBVIOUS
<1>1. DOMAIN work = {} /\ DOMAIN log = {} /\ ran = {}
  BY DEF ServerInit
<1>2. \A c \in Client : call[c].id = 0 /\ stream[c].sid = 0 /\ stream[c].state = "none"
  BY DEF ServerInit, Idle, NoStream
<1>3. counter = 1
  BY DEF ServerInit
<1> QED
  BY <1>1, <1>2, <1>3 DEF TruthInv, WorkIsTrue, SessionsDiffer, OnlyStreams, LogIsTrue, CallsAreTrue,
     RanForATool

\* An item at the end of the work, the others where they were.
LEMMA AppendedIs ==
    ASSUME NEW X, NEW s \in Seq(X), NEW x
    PROVE  /\ DOMAIN Append(s, x) = DOMAIN s \cup {Len(s) + 1} /\ Len(s) + 1 \notin DOMAIN s
           /\ \A i \in DOMAIN s : Append(s, x)[i] = s[i]
           /\ Append(s, x)[Len(s) + 1] = x
OBVIOUS

LEMMA AskingIsTrue ==
    ASSUME ServerTypes, ServerTypes', TruthInv, NEW c \in Client, NEW a \in Ask,
           Request(c, a) \/ (WriteFails(a) /\ c = Parent)
    PROVE  TruthInv'
<1>1. PICK e \in {"posting", "waiting", "broken", "io"} :
          /\ Asks(c, a, e) /\ (work' = work \/ work' = Sent(c, a))
          /\ e = "posting" => serving = "sse"
          /\ e \in {"posting", "waiting"} => work' = Sent(c, a)
          /\ e = "waiting" => serving # "sse"
  BY AskedAs
<1> DEFINE r == Posted(c, a)
<1>2. /\ work' \in {work, Append(work, r)}
      /\ call'[c].id = call[c].id + 1 /\ call'[c].ask = a /\ call'[c].end = e
      /\ \A d \in Client : d # c => call'[d] = call[d] /\ held'[d] = held[d]
      /\ held'[c] = NoAnswer
      /\ r.from = c /\ r.id = call[c].id + 1 /\ r.ask = a /\ r.sid = stream[c].sid
      /\ r.answer = NoAnswer /\ call[c].id \in Nat
  BY <1>1, AsksIs
<1> HIDE DEF r
<1>3. MayCall(c) /\ UNCHANGED <<serving, ran, log, counter, stream>>
  BY <1>1 DEF Asks, streams
<1>4. \A d \in Client : Later(d)
  BY <1>2 DEF Later
<1>5. CallsAreTrue'
  <2>1. ASSUME NEW d \in Client, call'[d].id > 0
        PROVE  FitsIn(call', ran', d, call'[d].id, call'[d].end)
               /\ FitsIn(call', ran', d, call'[d].id, held'[d])
    <3>1. CASE d # c
      BY <1>2, <1>3, <2>1, <3>1 DEF TruthInv, CallsAreTrue, Fits, FitsIn
    <3>2. CASE d = c
      <4>1. /\ e \notin {"ok", "failed", "result"} /\ e \notin Code
            /\ NoAnswer \notin {"ok", "failed", "result"} /\ NoAnswer \notin Code
        BY DEF Code, NoAnswer
      <4> QED
        BY <1>2, <3>2, <4>1 DEF FitsIn
    <3> QED
      BY <3>1, <3>2
  <2> QED
    BY <2>1 DEF CallsAreTrue, Fits
<1>6. RanForATool'
  BY <1>3, <1>4, RanStands DEF TruthInv
<1>7. AddsWork(r)
  <2>1. ItemFits(call', ran', r)
    <3>1. a # "noise"
      BY DEF Ask
    <3> QED
      BY <1>2, <3>1 DEF ItemFits
  <2>2. serving = "sse" => GoesHome(r)
    <3> SUFFICES ASSUME serving = "sse" PROVE GoesHome(r)
      OBVIOUS
    <3>1. stream[c].state = "open" /\ stream[c].sid \in Nat
      BY <1>3, TypedState DEF MayCall
    <3>2. stream[c].sid # 0 /\ stream[c].sid < counter /\ counter \in Nat
      BY <3>1 DEF TruthInv, SessionsDiffer, ServerTypes
    <3>3. \A d \in Client : stream[d].sid = stream[c].sid => d = c
      BY <3>2 DEF TruthInv, SessionsDiffer
    <3> QED
      BY <1>2, <3>1, <3>2, <3>3 DEF GoesHome
  <2> QED
    BY <2>1, <2>2 DEF AddsWork
<1>8. \A j \in DOMAIN work' : (\E i \in DOMAIN work : work'[j] = work[i]) \/ AddsWork(work'[j])
  <2>1. CASE work' = work
    BY <2>1
  <2>2. CASE work' = Append(work, r)
    <3>1. work \in Seq(WorkItem)
      BY DEF ServerTypes
    <3> QED
      BY <1>7, <2>2, <3>1, AppendedIs
  <2> QED
    BY <1>2, <2>1, <2>2
<1> QED
  BY <1>3, <1>4, <1>5, <1>6, <1>8, TruthKept

LEMMA NoiseIsTrue ==
    ASSUME ServerTypes, ServerTypes', TruthInv, Noise PROVE TruthInv'
<1> DEFINE r == [from |-> Parent, sid |-> 0, id |-> 0, ask |-> "noise", answer |-> NoAnswer]
<1>1. r.from = Parent /\ r.id = 0 /\ r.ask = "noise" /\ r.answer = NoAnswer
  OBVIOUS
<1>2. /\ work' = Append(work, r) /\ serving = "stdio"
      /\ UNCHANGED <<serving, ran, call, held, log, counter, stream>>
  BY DEF Noise, outcome, streams
<1> HIDE DEF r
<1>3. CallsAreTrue' /\ \A d \in Client : Later(d)
  BY <1>2, CallsStand DEF TruthInv
<1>4. RanForATool'
  BY <1>2, <1>3, RanStands DEF TruthInv
<1>5. AddsWork(r)
  BY <1>1, <1>2, ServerAssumption, TypedState DEF AddsWork, ItemFits
<1>6. \A j \in DOMAIN work' : (\E i \in DOMAIN work : work'[j] = work[i]) \/ AddsWork(work'[j])
  <2>1. work \in Seq(WorkItem)
    BY DEF ServerTypes
  <2> QED
    BY <1>2, <1>5, <2>1, AppendedIs
<1> QED
  BY <1>2, <1>3, <1>4, <1>6, TruthKept

\* What Handle makes of one item.
LEMMA HandleIs ==
    ASSUME ServerTypes, NEW i \in DOMAIN work, Handle(i)
    PROVE  \E a \in Answer :
              /\ a \in {"ok", "failed"} => work[i].ask = "tool"
              /\ a = "result" => work[i].ask = "plain"
              /\ a \in Code => work[i].ask \in {"nosuch", "refused"}
              /\ ran' = IF work[i].ask = "tool" THEN ran \cup {<<work[i].from, work[i].id, a>>} ELSE ran
              /\ DOMAIN work' = DOMAIN work /\ \A j \in DOMAIN work : j # i => work'[j] = work[j]
              /\ work'[i].from = work[i].from /\ work'[i].sid = work[i].sid
              /\ work'[i].id = work[i].id /\ work'[i].ask = work[i].ask /\ work'[i].answer = a
<1> DEFINE r == work[i]
<1>1. PICK a \in Handled(r.ask) :
          /\ work' = [work EXCEPT ![i].answer = a]
          /\ ran' = IF r.ask = "tool" THEN ran \cup {<<r.from, r.id, a>>} ELSE ran
  BY DEF Handle
<1>2. r \in WorkItem /\ r.ask # "noise" /\ work \in Seq(WorkItem)
  BY TypedState DEF Handle, ServerTypes
<1>3. r.ask \in Ask
  BY <1>2 DEF WorkItem
<1>4. a \in Answer
  BY <1>3 DEF Handled, Ask, Answer, Code
<1>5. /\ a = "result" => r.ask = "plain"
      /\ a \in Code => r.ask \in {"nosuch", "refused"}
      /\ a \in {"ok", "failed"} => r.ask = "tool"
  BY <1>3 DEF Handled, Ask, Code
<1>6. /\ [r EXCEPT !.answer = a].from = r.from /\ [r EXCEPT !.answer = a].sid = r.sid
      /\ [r EXCEPT !.answer = a].id = r.id /\ [r EXCEPT !.answer = a].ask = r.ask
      /\ [r EXCEPT !.answer = a].answer = a
  BY <1>2 DEF WorkItem
<1>7. work'[i] = [r EXCEPT !.answer = a] /\ DOMAIN work' = DOMAIN work
      /\ \A j \in DOMAIN work : j # i => work'[j] = work[j]
  BY <1>1, <1>2
<1> HIDE DEF r
<1>8. /\ work'[i].from = r.from /\ work'[i].sid = r.sid /\ work'[i].id = r.id
      /\ work'[i].ask = r.ask /\ work'[i].answer = a
  BY <1>6, <1>7
<1> QED
  BY <1>1, <1>4, <1>5, <1>7, <1>8 DEF r

LEMMA HandleIsTrue ==
    ASSUME ServerTypes, ServerTypes', TruthInv, NEW i \in DOMAIN work, Handle(i)
    PROVE  TruthInv'
<1> DEFINE r == work[i]
<1>1. PICK a \in Answer :
          /\ a \in {"ok", "failed"} => r.ask = "tool"
          /\ a = "result" => r.ask = "plain"
          /\ a \in Code => r.ask \in {"nosuch", "refused"}
          /\ ran' = IF r.ask = "tool" THEN ran \cup {<<r.from, r.id, a>>} ELSE ran
          /\ DOMAIN work' = DOMAIN work /\ \A j \in DOMAIN work : j # i => work'[j] = work[j]
          /\ work'[i].from = r.from /\ work'[i].sid = r.sid
          /\ work'[i].id = r.id /\ work'[i].ask = r.ask /\ work'[i].answer = a
  BY HandleIs
<1>2. /\ r.ask # "noise" /\ UNCHANGED <<serving, call, held, log, counter, stream>>
  BY DEF Handle, outcome, streams
<1>3. r \in WorkItem /\ r.from \in Client /\ r.id \in Nat /\ ItemFits(call, ran, r)
  BY TypedState DEF TruthInv, WorkIsTrue
<1> HIDE DEF r
<1>5. a \in {"ok", "failed"} => <<r.from, r.id, a>> \in ran'
  BY <1>1
<1>6. \A c \in Client : Later(c)
  BY <1>2 DEF Later
<1>7. ran \subseteq ran'
  BY <1>1
<1>8. ASSUME NEW x \in ran'
      PROVE  x[2] <= call[x[1]].id /\ (x[2] = call[x[1]].id => call[x[1]].ask = "tool")
  <2>1. CASE x \in ran
    BY <2>1 DEF TruthInv, RanForATool
  <2>2. CASE x \notin ran
    <3>1. x = <<r.from, r.id, a>> /\ r.ask = "tool"
      BY <1>1, <2>2
    <3>2. x[1] = r.from /\ x[2] = r.id
      BY <3>1
    <3> QED
      BY <1>3, <3>1, <3>2 DEF ItemFits
  <2> QED
    BY <2>1, <2>2
<1>9. RanForATool'
  BY <1>2, <1>8 DEF RanForATool
<1>10. CallsAreTrue'
  BY <1>2, <1>7 DEF TruthInv, CallsAreTrue, Fits, FitsIn
<1>11. AddsWork(work'[i])
  <2>1. ItemFits(call', ran', work'[i])
    BY <1>1, <1>2, <1>3, <1>5 DEF ItemFits, FitsIn
  <2>2. serving = "sse" => GoesHome(r)
    BY DEF TruthInv, SessionsDiffer, r
  <2>3. serving = "sse" => GoesHome(work'[i])
    BY <1>1, <2>2 DEF GoesHome
  <2> QED
    BY <2>1, <2>3 DEF AddsWork
<1>12. \A j \in DOMAIN work' : (\E k \in DOMAIN work : work'[j] = work[k]) \/ AddsWork(work'[j])
  BY <1>1, <1>11
<1> QED
  BY <1>2, <1>6, <1>7, <1>9, <1>10, <1>12, TruthKept

LEMMA ReplyIsTrue ==
    ASSUME ServerTypes, ServerTypes', TruthInv, NEW i \in DOMAIN work, Reply(i)
    PROVE  TruthInv'
<1> DEFINE r == work[i]
           m == [to |-> r.sid, id |-> r.id, answer |-> r.answer]
<1>1. /\ r.answer # NoAnswer /\ work' = RemoveAt(work, i)
      /\ UNCHANGED <<serving, ran, counter, stream>>
      /\ IF serving = "sse" THEN log' = Append(log, m) /\ UNCHANGED outcome
         ELSE Told(r.from, r.id, r.answer) /\ log' = log
  BY DEF Reply
<1>2. r.from \in Client /\ Fits(r.from, r.id, r.answer)
  BY <1>1, TypedState DEF TruthInv, WorkIsTrue, ItemFits, Fits
<1>3. WasWork(m)
  BY <1>1 DEF WasWork
<1>4. \A j \in DOMAIN work' : \E k \in DOMAIN work : work'[j] = work[k]
  BY <1>1, Remains DEF ServerTypes
<1> HIDE DEF r, m
<1>5. CallsAreTrue' /\ \A d \in Client : Later(d)
  <2>1. CASE serving = "sse"
    BY <1>1, <2>1, CallsStand DEF TruthInv, outcome
  <2>2. CASE serving # "sse"
    BY <1>1, <1>2, <2>2, ToldFits DEF TruthInv
  <2> QED
    BY <2>1, <2>2
<1>6. RanForATool'
  BY <1>1, <1>5, RanStands DEF TruthInv
<1>7. serving = "sse" => \A j \in DOMAIN log' : (j \in DOMAIN log /\ log'[j] = log[j]) \/ WasWork(log'[j])
  <2>0. log \in Seq(Broadcast)
    BY DEF ServerTypes
  <2> QED
    BY <1>1, <1>3, <2>0, AppendedIs
<1> QED
  BY <1>1, <1>4, <1>5, <1>6, <1>7, TruthKept

\* A new session has a number of its own, and nothing in the channel is for it.
LEMMA OpenIsTrue ==
    ASSUME ServerTypes, ServerTypes', TruthInv, NEW c \in Client, OpenStream(c)
    PROVE  TruthInv'
<1> DEFINE s == [state |-> "made", sid |-> counter, next |-> Len(log) + 1]
<1>1. s.sid = counter
  OBVIOUS
<1>2. /\ stream' = [stream EXCEPT ![c] = s] /\ counter' = counter + 1 /\ serving = "sse"
      /\ UNCHANGED <<serving, work, ran, call, held, log>>
  BY DEF OpenStream, requests, outcome
<1> HIDE DEF s
<1>3. stream'[c] = s /\ \A d \in Client : d # c => stream'[d] = stream[d]
  BY <1>2 DEF ServerTypes
<1>4. counter \in Nat \ {0}
  BY DEF ServerTypes
<1>5. SessionsDiffer'
  <2>2. /\ \A d \in Client : stream[d].sid < counter /\ stream[d].sid \in Nat
        /\ \A d, e \in Client : stream[d].sid = stream[e].sid /\ stream[d].sid # 0 => d = e
        /\ \A i \in DOMAIN work : GoesHome(work[i])
        /\ \A i \in DOMAIN log : log[i].to \in 1 .. counter - 1
        /\ \A d \in Client : stream[d].state \in {"made", "open"} => stream[d].sid # 0
    BY <1>2, TypedState DEF TruthInv, SessionsDiffer
  <2>3. \A d, e \in Client : stream'[d].sid = stream'[e].sid /\ stream'[d].sid # 0 => d = e
    BY <1>1, <1>3, <1>4, <2>2
  <2>4. \A i \in DOMAIN work : work[i].sid \in 1 .. counter /\
                               \A d \in Client : stream'[d].sid = work[i].sid => d = work[i].from
    BY <1>1, <1>3, <1>4, <2>2 DEF GoesHome
  <2>5. \A d \in Client : stream'[d].sid < counter + 1
                          /\ (stream'[d].state \in {"made", "open"} => stream'[d].sid # 0)
    BY <1>1, <1>3, <1>4, <2>2
  <2>6. \A i \in DOMAIN log : log[i].to \in 1 .. counter
    BY <1>4, <2>2
  <2> QED
    BY <1>2, <1>4, <2>3, <2>4, <2>5, <2>6 DEF SessionsDiffer, GoesHome
<1>6. LogIsTrue'
  <2> SUFFICES ASSUME NEW i \in DOMAIN log, NEW d \in Client, stream'[d].sid = log[i].to
               PROVE  Fits(d, log[i].id, log[i].answer)
    BY <1>2 DEF LogIsTrue, Fits
  <2>1. log[i].to \in 1 .. counter - 1
    BY <1>2 DEF TruthInv, SessionsDiffer
  <2>2. d # c
    BY <1>1, <1>3, <1>4, <2>1
  <2> QED
    BY <1>2, <1>3, <2>2 DEF TruthInv, LogIsTrue
<1> QED
  BY <1>2, <1>5, <1>6 DEF TruthInv, WorkIsTrue, OnlyStreams, CallsAreTrue, Fits, RanForATool

\* A session moves on, opens or is left under the number it has.
LEMMA SessionMoves ==
    ASSUME ServerTypes, NEW c \in Client, Flow(c) \/ CloseStream(c)
    PROVE  /\ \A d \in Client : stream'[d].sid = stream[d].sid
           /\ \A d \in Client : d # c => stream'[d] = stream[d]
           /\ \A d \in Client : stream'[d].state \in {"made", "open"} =>
                                   stream[d].state \in {"made", "open"}
           /\ stream[c].state \in {"made", "open"}
           /\ CloseStream(c) => stream'[c].next = stream[c].next
           /\ ~CloseStream(c) => stream'[c].state = "open"
           /\ UNCHANGED <<serving, work, ran, log, counter>>
<1>1. stream[c].state \in {"made", "open"} /\ UNCHANGED <<serving, work, ran, log, counter>>
  BY DEF Flow, Acknowledge, Skip, Receive, CloseStream, requests, outcome
<1>2. stream[c] \in StreamState /\ stream \in [Client -> StreamState]
  BY DEF ServerTypes
<1>3. CASE CloseStream(c)
  <2>1. stream' = [stream EXCEPT ![c].state = "left"]
    BY <1>3 DEF CloseStream
  <2>2. /\ [stream[c] EXCEPT !.state = "left"].sid = stream[c].sid
        /\ [stream[c] EXCEPT !.state = "left"].next = stream[c].next
        /\ [stream[c] EXCEPT !.state = "left"].state = "left"
    BY <1>2 DEF StreamState
  <2>3. stream'[c] = [stream[c] EXCEPT !.state = "left"] /\ \A d \in Client : d # c => stream'[d] = stream[d]
    BY <1>2, <2>1
  <2> QED
    BY <1>1, <1>3, <2>2, <2>3
<1>4. CASE ~CloseStream(c)
  <2>1. \/ stream' = [stream EXCEPT ![c].state = "open"]
        \/ stream' = [stream EXCEPT ![c].next = Oldest] /\ stream[c].state = "open"
        \/ stream' = [stream EXCEPT ![c].next = @ + 1] /\ stream[c].state = "open"
    BY <1>4 DEF Flow, Acknowledge, Skip, Receive
  <2>2. \A d \in Client : d # c => stream'[d] = stream[d]
    BY <1>2, <2>1
  <2>3. stream'[c].sid = stream[c].sid /\ stream'[c].state = "open"
    <3>1. /\ [stream[c] EXCEPT !.state = "open"].sid = stream[c].sid
          /\ [stream[c] EXCEPT !.state = "open"].state = "open"
      BY <1>2 DEF StreamState
    <3>2. /\ [stream[c] EXCEPT !.next = Oldest].sid = stream[c].sid
          /\ [stream[c] EXCEPT !.next = Oldest].state = stream[c].state
      BY <1>2 DEF StreamState
    <3>3. /\ [stream[c] EXCEPT !.next = @ + 1].sid = stream[c].sid
          /\ [stream[c] EXCEPT !.next = @ + 1].state = stream[c].state
      BY <1>2 DEF StreamState
    <3>4. CASE stream' = [stream EXCEPT ![c].state = "open"]
      <4>1. stream'[c] = [stream[c] EXCEPT !.state = "open"]
        BY <1>2, <3>4
      <4> QED
        BY <3>1, <4>1
    <3>5. CASE stream' = [stream EXCEPT ![c].next = Oldest] /\ stream[c].state = "open"
      <4>1. stream'[c] = [stream[c] EXCEPT !.next = Oldest]
        BY <1>2, <3>5
      <4> QED
        BY <3>2, <3>5, <4>1
    <3>6. CASE stream' = [stream EXCEPT ![c].next = @ + 1] /\ stream[c].state = "open"
      <4>1. stream'[c] = [stream[c] EXCEPT !.next = @ + 1]
        BY <1>2, <3>6
      <4> QED
        BY <3>3, <3>6, <4>1
    <3> QED
      BY <2>1, <3>4, <3>5, <3>6
  <2> QED
    BY <1>1, <1>4, <2>2, <2>3
<1> QED
  BY <1>3, <1>4

\* Where a session reads on.
LEMMA ReadsOn ==
    ASSUME ServerTypes, NEW c \in Client
    PROVE  /\ Acknowledge(c) => stream'[c].next = stream[c].next /\ stream'[c].state = "open"
           /\ Skip(c) => stream'[c].next = Oldest
           /\ Receive(c) => stream'[c].next = stream[c].next + 1 /\ stream[c].next \in DOMAIN log
<1>1. stream[c] \in StreamState /\ stream \in [Client -> StreamState]
  BY DEF ServerTypes
<1>2. ASSUME Acknowledge(c) PROVE stream'[c].next = stream[c].next /\ stream'[c].state = "open"
  <2>1. stream'[c] = [stream[c] EXCEPT !.state = "open"]
    BY <1>1, <1>2 DEF Acknowledge
  <2> QED
    BY <1>1, <2>1 DEF StreamState
<1>3. ASSUME Skip(c) PROVE stream'[c].next = Oldest
  <2>1. stream'[c] = [stream[c] EXCEPT !.next = Oldest]
    BY <1>1, <1>3 DEF Skip
  <2> QED
    BY <1>1, <2>1 DEF StreamState
<1>4. ASSUME Receive(c) PROVE stream'[c].next = stream[c].next + 1 /\ stream[c].next \in DOMAIN log
  <2>1. stream'[c] = [stream[c] EXCEPT !.next = @ + 1]
    BY <1>1, <1>4 DEF Receive
  <2>2. stream[c].next \in DOMAIN log
    BY <1>4, OldestIs DEF Receive
  <2> QED
    BY <1>1, <2>1, <2>2 DEF StreamState
<1> QED
  BY <1>2, <1>3, <1>4

LEMMA TruthInductive ==
    ASSUME ServerTypes, ServerTypes', TruthInv, KeptInv, [ServerNext]_serverVars PROVE TruthInv'
<1> DEFINE Fewer == \A j \in DOMAIN work' : \E k \in DOMAIN work : work'[j] = work[k]
<1>1. ASSUME UNCHANGED <<serving, ran, log>>, CallsAreTrue' /\ \A d \in Client : Later(d), Fewer,
             serving # "sse" => stream' = stream,
             serving = "sse" =>
                /\ counter' = counter /\ \A c \in Client : stream'[c].sid = stream[c].sid
                /\ \A c \in Client : stream'[c].state \in {"made", "open"} =>
                      stream[c].state \in {"made", "open"}
      PROVE  TruthInv'
  <2>1. RanForATool'
    BY <1>1, RanStands DEF TruthInv
  <2> QED
    BY <1>1, <2>1, TruthKept
<1>2. UNCHANGED work => Fewer
  OBVIOUS
<1> HIDE DEF Fewer
<1>3. ASSUME NEW c \in Client, GiveUp(c) \/ Accepted(c) PROVE TruthInv'
  <2>1. PICK e : call' = [call EXCEPT ![c].end = e] /\ Fits(c, call[c].id, e)
    <3>1. CASE GiveUp(c)
      <4>1. PICK e \in {"http", "timeout"} : call' = [call EXCEPT ![c].end = e]
        BY <3>1 DEF GiveUp, ServerTypes
      <4>2. e \in Failure
        BY DEF Failure
      <4> QED
        BY <4>1, <4>2, EmptyFits
    <3>2. CASE Accepted(c)
      <4>1. call' = [call EXCEPT ![c].end = IF held[c] = NoAnswer THEN "waiting" ELSE held[c]]
        BY <3>2 DEF Accepted
      <4>2. call[c].id > 0
        BY <3>2 DEF Accepted, Awaits, KeptInv, Home
      <4>3. Fits(c, call[c].id, held[c])
        BY <4>2 DEF TruthInv, CallsAreTrue
      <4> QED
        BY <4>1, <4>3, EmptyFits
    <3> QED
      BY <1>3, <3>1, <3>2
  <2>2. CallsAreTrue' /\ \A d \in Client : Later(d)
    <3>1. UNCHANGED <<ran, held>>
      BY <1>3 DEF GiveUp, Accepted
    <3>2. \A d \in Client : /\ call'[d].id = call[d].id /\ call'[d].ask = call[d].ask
                            /\ call'[d].end = call[d].end \/ Fits(d, call[d].id, call'[d].end)
                            /\ held'[d] = held[d] \/ Fits(d, call[d].id, held'[d])
      BY <2>1, <3>1, EndIs
    <3> QED
      BY <3>1, <3>2, CallsFit DEF TruthInv
  <2> QED
    BY <1>1, <1>2, <1>3, <2>2 DEF GiveUp, Accepted, streams
<1>4. CASE Ends
  <2>1. Told(Parent, call[Parent].id, "disconnected") /\ Parent \in Client
        /\ UNCHANGED <<serving, ran, log, counter, stream>> /\ work' = << >>
    BY <1>4, ServerAssumption DEF Ends, streams
  <2>2. Fits(Parent, call[Parent].id, "disconnected")
    <3>1. "disconnected" \in Failure
      BY DEF Failure
    <3> QED
      BY <2>1, <3>1, EmptyFits
  <2>3. CallsAreTrue' /\ \A d \in Client : Later(d)
    BY <2>1, <2>2, ToldFits DEF TruthInv
  <2>4. Fewer
    BY <2>1 DEF Fewer
  <2> QED
    BY <1>1, <2>1, <2>3, <2>4
<1>5. ASSUME NEW i \in DOMAIN work, Ignore(i) \/ Cancelled(i) PROVE TruthInv'
  <2>1. work' = RemoveAt(work, i) /\ UNCHANGED <<serving, ran, call, held, log, counter, stream>>
    BY <1>5 DEF Ignore, Cancelled, outcome, streams
  <2>2. CallsAreTrue' /\ \A d \in Client : Later(d)
    BY <2>1, CallsStand DEF TruthInv
  <2>3. Fewer
    BY <2>1, Remains DEF Fewer, ServerTypes
  <2> QED
    BY <1>1, <2>1, <2>2, <2>3
<1>6. ASSUME NEW c \in Client, Flow(c) \/ CloseStream(c) PROVE TruthInv'
  <2>1. /\ \A d \in Client : stream'[d].sid = stream[d].sid
        /\ \A d \in Client : stream'[d].state \in {"made", "open"} =>
                                stream[d].state \in {"made", "open"}
        /\ UNCHANGED <<serving, work, ran, log, counter>>
        /\ stream[c].state \in {"made", "open"}
    BY <1>6, SessionMoves
  <2>2. serving = "sse"
    BY <2>1 DEF TruthInv, OnlyStreams
  <2>3. CallsAreTrue' /\ \A d \in Client : Later(d)
    <3>1. CASE Acknowledge(c) \/ Skip(c)
      BY <2>1, <3>1, CallsStand DEF TruthInv, Acknowledge, Skip, requests, outcome
    <3>2. CASE CloseStream(c)
      <4>1. "disconnected" \in Failure
        BY DEF Failure
      <4> QED
        BY <2>1, <3>2, <4>1, EmptyFits, ToldFits DEF TruthInv, CloseStream
    <3>3. CASE Receive(c)
      <4>1. stream[c].next \in DOMAIN log
        BY <3>3, ReadsOn
      <4> DEFINE m == log[stream[c].next]
      <4>2. Mine(c, m) => Fits(c, m.id, m.answer)
        BY <2>2, <4>1 DEF Mine, TruthInv, LogIsTrue
      <4>3. IF Mine(c, m) THEN Told(c, m.id, m.answer) ELSE UNCHANGED outcome
        BY <3>3 DEF Receive
      <4> HIDE DEF m
      <4>4. CASE Mine(c, m)
        BY <2>1, <4>2, <4>3, <4>4, ToldFits DEF TruthInv
      <4>5. CASE ~Mine(c, m)
        BY <2>1, <4>3, <4>5, CallsStand DEF TruthInv, outcome
      <4> QED
        BY <4>4, <4>5
    <3> QED
      BY <1>6, <3>1, <3>2, <3>3 DEF Flow
  <2> QED
    BY <1>1, <1>2, <2>1, <2>2, <2>3
<1>7. CASE UNCHANGED serverVars
  <2>1. UNCHANGED <<serving, work, ran, call, held, log, counter, stream>>
    BY <1>7 DEF serverVars, requests, outcome, streams
  <2>2. CallsAreTrue' /\ \A d \in Client : Later(d)
    BY <2>1, CallsStand DEF TruthInv
  <2> QED
    BY <1>1, <1>2, <2>1, <2>2
<1>8. ASSUME ServerNext PROVE TruthInv'
  <2>1. CASE Noise
    BY <2>1, NoiseIsTrue
  <2>2. ASSUME NEW a \in Ask, WriteFails(a) PROVE TruthInv'
    BY <2>2, AskingIsTrue, ServerAssumption
  <2>3. ASSUME NEW a \in Ask, NEW c \in Client, Request(c, a) PROVE TruthInv'
    BY <2>3, AskingIsTrue
  <2>4. ASSUME NEW c \in Client, OpenStream(c) PROVE TruthInv'
    BY <2>4, OpenIsTrue
  <2>5. ASSUME NEW i \in DOMAIN work, Serve(i) \/ Cancelled(i) PROVE TruthInv'
    BY <1>5, <2>5, HandleIsTrue, ReplyIsTrue DEF Serve
  <2> QED
    BY <1>3, <1>4, <1>6, <1>8, <2>1, <2>2, <2>3, <2>4, <2>5 DEF ServerNext
<1> QED
  BY <1>7, <1>8

-----------------------------------------------------------------------------
(* A request runs its tool once.                                            *)

LEMMA OnceMore ==
    ASSUME ServerTypes, RunsOnce, NEW r, work' = Append(work, r), ran' = ran,
           r.ask # "noise" =>
              /\ \A k \in DOMAIN work : ~Same(r, work[k])
              /\ \A q \in ran : ~(q[1] = r.from /\ q[2] = r.id)
    PROVE  RunsOnce'
<1>1. /\ DOMAIN work' = DOMAIN work \cup {Len(work) + 1} /\ Len(work) + 1 \notin DOMAIN work
      /\ \A i \in DOMAIN work : work'[i] = work[i]
      /\ work'[Len(work) + 1] = r
  BY AppendedIs DEF ServerTypes
<1>2. ASSUME NEW i \in DOMAIN work', NEW j \in DOMAIN work', work'[i].ask # "noise",
             work'[j].ask # "noise", Same(work'[i], work'[j])
      PROVE  i = j
  BY <1>1, <1>2 DEF RunsOnce, Same
<1>3. ASSUME NEW i \in DOMAIN work', work'[i].ask # "noise", work'[i].answer = NoAnswer, NEW q \in ran
      PROVE  ~(q[1] = work'[i].from /\ q[2] = work'[i].id)
  BY <1>1, <1>3 DEF RunsOnce
<1> QED
  BY <1>2, <1>3 DEF RunsOnce

LEMMA OnceLess ==
    ASSUME ServerTypes, RunsOnce, NEW k \in DOMAIN work, work' = RemoveAt(work, k), ran' = ran
    PROVE  RunsOnce'
<1> DEFINE Was(j) == IF j < k THEN j ELSE j + 1
<1>1. DOMAIN work = 1 .. Len(work) /\ Len(work) \in Nat /\ k \in 1 .. Len(work)
  BY DEF ServerTypes
<1>2. DOMAIN work' = 1 .. Len(work) - 1 /\ \A j \in DOMAIN work' : work'[j] = work[Was(j)]
  BY RemovedIs DEF ServerTypes
<1>3. \A j \in DOMAIN work' : Was(j) \in DOMAIN work
  BY <1>1, <1>2
<1>4. \A i, j \in DOMAIN work' : Was(i) = Was(j) => i = j
  BY <1>1, <1>2
<1> HIDE DEF Was
<1>5. ASSUME NEW i \in DOMAIN work', NEW j \in DOMAIN work', work'[i].ask # "noise",
             work'[j].ask # "noise", Same(work'[i], work'[j])
      PROVE  i = j
  BY <1>2, <1>3, <1>4, <1>5 DEF RunsOnce
<1>6. ASSUME NEW i \in DOMAIN work', work'[i].ask # "noise", work'[i].answer = NoAnswer, NEW q \in ran
      PROVE  ~(q[1] = work'[i].from /\ q[2] = work'[i].id)
  BY <1>2, <1>3, <1>6 DEF RunsOnce
<1> QED
  BY <1>5, <1>6 DEF RunsOnce

LEMMA HandledOnce ==
    ASSUME ServerTypes, RunsOnce, NEW i \in DOMAIN work, Handle(i)
    PROVE  RunsOnce'
<1> DEFINE r == work[i]
<1>1. PICK a \in Answer :
          /\ ran' = IF r.ask = "tool" THEN ran \cup {<<r.from, r.id, a>>} ELSE ran
          /\ DOMAIN work' = DOMAIN work /\ \A j \in DOMAIN work : j # i => work'[j] = work[j]
          /\ work'[i].from = r.from /\ work'[i].sid = r.sid
          /\ work'[i].id = r.id /\ work'[i].ask = r.ask /\ work'[i].answer = a
  BY HandleIs
<1>2. r.ask # "noise" /\ r.answer = NoAnswer /\ a # NoAnswer
  BY DEF Handle, Answer, Code, NoAnswer
<1>3. \A j \in DOMAIN work : Same(work'[j], work[j]) /\ work'[j].ask = work[j].ask
  BY <1>1 DEF Same
<1>4. \A q \in ran : ~(q[1] = r.from /\ q[2] = r.id)
  BY <1>2 DEF RunsOnce
<1>5. \A j \in DOMAIN work : work[j].ask # "noise" /\ Same(work[j], r) => j = i
  BY <1>2 DEF RunsOnce
<1>9. i \in DOMAIN work
  OBVIOUS
<1> HIDE DEF r
<1>6. ASSUME NEW x \in DOMAIN work', NEW y \in DOMAIN work', work'[x].ask # "noise",
             work'[y].ask # "noise", Same(work'[x], work'[y])
      PROVE  x = y
  BY <1>1, <1>3, <1>6 DEF RunsOnce, Same
<1>7. ASSUME NEW j \in DOMAIN work', work'[j].ask # "noise", work'[j].answer = NoAnswer, NEW q \in ran'
      PROVE  ~(q[1] = work'[j].from /\ q[2] = work'[j].id)
  <2>1. j # i /\ work'[j] = work[j] /\ j \in DOMAIN work
    BY <1>1, <1>2, <1>7
  <2>2. CASE q \in ran
    BY <1>7, <2>1, <2>2 DEF RunsOnce
  <2>3. CASE q \notin ran
    <3>1. q = <<r.from, r.id, a>>
      BY <1>1, <2>3
    <3>2. q[1] = r.from /\ q[2] = r.id
      BY <3>1
    <3> QED
      BY <1>5, <1>7, <2>1, <3>2 DEF Same
  <2> QED
    BY <2>2, <2>3
<1>8. ASSUME NEW x \in ran', NEW y \in ran', x[1] = y[1], x[2] = y[2] PROVE x = y
  <2> DEFINE new == <<r.from, r.id, a>>
  <2>1. new[1] = r.from /\ new[2] = r.id
    OBVIOUS
  <2>2. \A z \in ran' : z \in ran \/ z = new
    BY <1>1
  <2> HIDE DEF new
  <2> QED
    BY <1>4, <1>8, <2>1, <2>2 DEF RunsOnce
<1> QED
  BY <1>6, <1>7, <1>8 DEF RunsOnce

LEMMA RunsOnceInductive ==
    ASSUME ServerTypes, TruthInv, RunsOnce, [ServerNext]_serverVars PROVE RunsOnce'
<1>1. ASSUME UNCHANGED <<work, ran>> PROVE RunsOnce'
  BY <1>1 DEF RunsOnce
<1>2. ASSUME NEW c \in Client, NEW a \in Ask, Request(c, a) \/ (WriteFails(a) /\ c = Parent)
      PROVE  RunsOnce'
  <2>1. PICK e \in {"posting", "waiting", "broken", "io"} :
            Asks(c, a, e) /\ (work' = work \/ work' = Sent(c, a))
    BY <1>2, AskedAs
  <2>2. ran' = ran
    BY <2>1 DEF Asks
  <2>3. work' \in {work, Append(work, Posted(c, a))}
    BY <2>1 DEF Sent, Posted
  <2>4. Posted(c, a).from = c /\ Posted(c, a).id = call[c].id + 1 /\ call[c].id \in Nat
    BY TypedState DEF Posted
  <2>5. \A k \in DOMAIN work : ~Same(Posted(c, a), work[k])
    <3>1. \A k \in DOMAIN work : work[k].id <= call[work[k].from].id /\ work[k].id \in Nat
      BY TypedState DEF TruthInv, WorkIsTrue, ItemFits
    <3> QED
      BY <2>4, <3>1 DEF Same
  <2>6. \A q \in ran : ~(q[1] = Posted(c, a).from /\ q[2] = Posted(c, a).id)
    <3>1. \A q \in ran : q[2] <= call[q[1]].id /\ q[2] \in Nat
      BY TypedState DEF TruthInv, RanForATool
    <3> QED
      BY <2>4, <3>1
  <2> QED
    BY <1>1, <2>2, <2>3, <2>5, <2>6, OnceMore
<1>3. CASE Noise
  <2> DEFINE r == [from |-> Parent, sid |-> 0, id |-> 0, ask |-> "noise", answer |-> NoAnswer]
  <2>1. r.ask = "noise" /\ work' = Append(work, r) /\ ran' = ran
    BY <1>3 DEF Noise
  <2> HIDE DEF r
  <2> QED
    BY <2>1, OnceMore
<1>4. CASE Ends
  <2>1. DOMAIN work' = {} /\ ran' = ran
    BY <1>4 DEF Ends
  <2> QED
    BY <2>1 DEF RunsOnce
<1>5. ASSUME NEW i \in DOMAIN work, Serve(i) \/ Cancelled(i) PROVE RunsOnce'
  BY <1>5, HandledOnce, OnceLess DEF Serve, Ignore, Reply, Cancelled
<1>6. ASSUME NEW c \in Client, GiveUp(c) \/ Accepted(c) \/ OpenStream(c) \/ CloseStream(c) \/ Flow(c)
      PROVE  RunsOnce'
  BY <1>1, <1>6 DEF GiveUp, Accepted, OpenStream, CloseStream, Flow, Acknowledge, Skip, Receive, requests
<1>7. CASE UNCHANGED serverVars
  BY <1>1, <1>7 DEF serverVars, requests
<1>8. CASE ServerNext
  BY <1>2, <1>3, <1>4, <1>5, <1>6, <1>8, ServerAssumption DEF ServerNext
<1> QED
  BY <1>7, <1>8

-----------------------------------------------------------------------------
(* Something is on its way to a caller that waits.                          *)

LEMMA NotWaiting ==
    ASSUME NEW c \in Client, ~Awaits(c)', (stream[c].next <= Len(log) + 1)'
    PROVE  Safe(c)' /\ Home(c)'
BY DEF Safe, Home, Awaits

\* A step that is not about the call of c.
LEMMA Untouched ==
    ASSUME ServerTypes, ServerTypes', NEW c \in Client, Safe(c), Home(c),
           call'[c] = call[c], held'[c] = held[c], serving' = serving, skipped \subseteq skipped',
           stream'[c].next = stream[c].next, stream'[c].sid = stream[c].sid,
           stream[c].state = "open" => stream'[c].state = "open",
           log' = log \/ (\E m : log' = Append(log, m)),
           Awaits(c) =>
              /\ InWork(c) => InWork(c)' \/ OnItsWay(c)' \/ held[c] # NoAnswer
              /\ \A j \in DOMAIN work' : Asked(c, work'[j]) =>
                    \E k \in DOMAIN work : Asked(c, work[k]) /\ work[k].sid = work'[j].sid
    PROVE  Safe(c)' /\ Home(c)'
<1>1. Len(log) \in Nat /\ stream[c].next \in Nat \ {0} /\ Len(log') \in Nat /\ Len(log') >= Len(log)
      /\ DOMAIN log = 1 .. Len(log) /\ \A i \in DOMAIN log : i \in DOMAIN log' /\ log'[i] = log[i]
  <2>1. Len(log) \in Nat /\ stream[c].next \in Nat \ {0} /\ DOMAIN log = 1 .. Len(log)
        /\ log \in Seq(Broadcast)
    BY TypedState DEF ServerTypes
  <2>2. CASE log' = log
    BY <2>1, <2>2
  <2>3. CASE \E m : log' = Append(log, m)
    <3>1. PICK m : log' = Append(log, m)
      BY <2>3
    <3>2. Len(Append(log, m)) = Len(log) + 1
      BY <2>1
    <3>3. \A i \in DOMAIN log : i \in DOMAIN Append(log, m) /\ Append(log, m)[i] = log[i]
      BY <2>1, AppendedIs
    <3> DEFINE l == Append(log, m)
    <3>4. log' = l /\ Len(l) = Len(log) + 1 /\ \A i \in DOMAIN log : i \in DOMAIN l /\ l[i] = log[i]
      BY <3>1, <3>2, <3>3
    <3> HIDE DEF l
    <3> QED
      BY <2>1, <3>4
  <2> QED
    BY <2>1, <2>2, <2>3
<1>2. OnItsWay(c) => OnItsWay(c)'
  <2> SUFFICES ASSUME NEW i \in stream[c].next .. Len(log), log[i].to = stream[c].sid,
                      log[i].id = call[c].id
               PROVE  OnItsWay(c)'
    BY DEF OnItsWay
  <2>1. i \in DOMAIN log /\ i \in stream'[c].next .. Len(log')
    BY <1>1
  <2> QED
    BY <1>1, <2>1 DEF OnItsWay
<1>3. Awaits(c)' = Awaits(c)
  BY DEF Awaits
<1>4. Safe(c)'
  <2> SUFFICES ASSUME Awaits(c)
               PROVE  \/ InWork(c)' \/ OnItsWay(c)' \/ <<c, call'[c].id>> \in skipped'
                      \/ call'[c].end = "posting" /\ held'[c] # NoAnswer
    BY <1>3 DEF Safe
  <2>1. held[c] # NoAnswer => call[c].end = "posting"
    BY DEF Home, Awaits
  <2> QED
    BY <1>2, <2>1 DEF Safe
<1>5. Home(c)'
  <2>1. stream'[c].next <= Len(log') + 1
    BY <1>1 DEF Home
  <2>2. /\ Awaits(c)' => call'[c].id > 0 /\ (serving' = "stdio" => c = Parent)
        /\ call'[c].end = "waiting" => held'[c] = NoAnswer
        /\ call'[c].end = "posting" => serving' = "sse"
    BY <1>3 DEF Home
  <2>3. ASSUME serving' = "sse", Awaits(c)', held'[c] = NoAnswer
        PROVE  /\ stream'[c].state = "open"
               /\ \A j \in DOMAIN work' : (Asked(c, work[j]))' => work'[j].sid = stream'[c].sid
    <3>1. /\ stream[c].state = "open"
          /\ \A i \in DOMAIN work : Asked(c, work[i]) => work[i].sid = stream[c].sid
      BY <1>3, <2>3 DEF Home
    <3>2. ASSUME NEW j \in DOMAIN work', (Asked(c, work[j]))' PROVE work'[j].sid = stream'[c].sid
      <4>1. Asked(c, work'[j])
        BY <3>2 DEF Asked
      <4> QED
        BY <1>3, <2>3, <3>1, <4>1
    <3> QED
      BY <3>1, <3>2
  <2> QED
    BY <2>1, <2>2, <2>3 DEF Home
<1> QED
  BY <1>4, <1>5

\* Work that is still what it was.
LEMMA WorkStands ==
    ASSUME NEW c \in Client, call'[c].id = call[c].id,
           \A k \in DOMAIN work : Asked(c, work[k]) =>
              \E j \in DOMAIN work' : Asked(c, work'[j]),
           \A j \in DOMAIN work' : Asked(c, work'[j]) =>
              \E k \in DOMAIN work : Asked(c, work[k]) /\ work[k].sid = work'[j].sid
    PROVE  /\ InWork(c) => InWork(c)'
           /\ \A j \in DOMAIN work' : Asked(c, work'[j]) =>
                    \E k \in DOMAIN work : Asked(c, work[k]) /\ work[k].sid = work'[j].sid
BY DEF InWork, Asked

\* A step that leaves calls and sessions alone, and of the work keeps what is awaited.
LEMMA OthersWork ==
    ASSUME ServerTypes, ServerTypes', KeptInv,
           UNCHANGED <<serving, call, held, log, stream, skipped>>,
           \A c \in Client : Awaits(c) =>
              /\ \A k \in DOMAIN work : Asked(c, work[k]) =>
                    \E j \in DOMAIN work' : Asked(c, work'[j])
              /\ \A j \in DOMAIN work' : Asked(c, work'[j]) =>
                    \E k \in DOMAIN work : Asked(c, work[k]) /\ work[k].sid = work'[j].sid
    PROVE  KeptInv'
<1> SUFFICES ASSUME NEW c \in Client PROVE Safe(c)' /\ Home(c)'
  BY DEF KeptInv
<1>1. Safe(c) /\ Home(c)
  BY DEF KeptInv
<1>2. Awaits(c) =>
         /\ InWork(c) => InWork(c)'
         /\ \A j \in DOMAIN work' : Asked(c, work'[j]) =>
                    \E k \in DOMAIN work : Asked(c, work[k]) /\ work[k].sid = work'[j].sid
  BY WorkStands
<1> QED
  BY <1>1, <1>2, Untouched

LEMMA KeptInitially == ServerInit => KeptInv
<1> SUFFICES ASSUME ServerInit, NEW c \in Client PROVE Safe(c) /\ Home(c)
  BY DEF KeptInv
<1>1. call[c].end = "result" /\ stream[c].next = 1 /\ log = << >>
  BY DEF ServerInit, Idle, NoStream
<1>2. ~Awaits(c) /\ stream[c].next <= Len(log) + 1
  BY <1>1 DEF Awaits
<1> QED
  BY <1>2 DEF Safe, Home, Awaits

LEMMA AskingIsKept ==
    ASSUME ServerTypes, ServerTypes', TruthInv, KeptInv, NEW c \in Client, NEW a \in Ask,
           Request(c, a) \/ (WriteFails(a) /\ c = Parent)
    PROVE  KeptInv'
<1>1. PICK e \in {"posting", "waiting", "broken", "io"} :
          /\ Asks(c, a, e) /\ (work' = work \/ work' = Sent(c, a))
          /\ e = "posting" => serving = "sse"
          /\ e \in {"posting", "waiting"} => work' = Sent(c, a)
          /\ e = "waiting" => serving # "sse"
  BY AskedAs
<1> DEFINE r == Posted(c, a)
<1>2. /\ work' \in {work, Append(work, r)}
      /\ call'[c].id = call[c].id + 1 /\ call'[c].end = e
      /\ \A d \in Client : d # c => call'[d] = call[d] /\ held'[d] = held[d]
      /\ held'[c] = NoAnswer
      /\ r.from = c /\ r.id = call[c].id + 1 /\ r.sid = stream[c].sid /\ call[c].id \in Nat
  BY <1>1, AsksIs
<1>3. e \in {"posting", "waiting"} => work' = Append(work, r)
  BY <1>1 DEF Sent, Posted
<1> HIDE DEF r
<1>4. MayCall(c) /\ UNCHANGED <<serving, log, stream, skipped>>
  BY <1>1 DEF Asks, streams
<1>5. work \in Seq(WorkItem)
  BY DEF ServerTypes
<1>6. \A j \in DOMAIN work' : work'[j] = r \/ (j \in DOMAIN work /\ work'[j] = work[j])
  BY <1>2, <1>5, AppendedIs
<1>7. \A k \in DOMAIN work : k \in DOMAIN work' /\ work'[k] = work[k]
  BY <1>2, <1>5, AppendedIs
<1>8. ASSUME NEW d \in Client, d # c PROVE Safe(d)' /\ Home(d)'
  <2>1. call'[d] = call[d] /\ held'[d] = held[d]
    BY <1>2, <1>8
  <2>2. \A j \in DOMAIN work' : Asked(d, work'[j]) =>
                    \E k \in DOMAIN work : Asked(d, work[k]) /\ work[k].sid = work'[j].sid
    BY <1>2, <1>6, <1>8, <2>1 DEF Asked
  <2>3. InWork(d) => InWork(d)'
    BY <1>7, <2>1 DEF InWork
  <2>4. Safe(d) /\ Home(d)
    BY DEF KeptInv
  <2> QED
    BY <1>4, <2>1, <2>2, <2>3, <2>4, Untouched
<1>9. Safe(c)' /\ Home(c)'
  <2>1. (stream[c].next <= Len(log) + 1)'
    BY <1>4 DEF KeptInv, Home
  <2>2. CASE e \in {"broken", "io"}
    <3>1. ~Awaits(c)'
      BY <1>2, <2>2 DEF Awaits
    <3> QED
      BY <2>1, <3>1, NotWaiting
  <2>3. CASE e \in {"posting", "waiting"}
    <3>1. work' = Append(work, r)
      BY <1>3, <2>3
    <3>2. Len(work) + 1 \in DOMAIN work' /\ work'[Len(work) + 1] = r
      BY <1>5, <3>1, AppendedIs
    <3>3. InWork(c)'
      BY <1>2, <3>2 DEF InWork
    <3>4. \A k \in DOMAIN work : work[k].from = c => work[k].id <= call[c].id /\ work[k].id \in Nat
      BY TypedState DEF TruthInv, WorkIsTrue, ItemFits
    <3>5. \A j \in DOMAIN work' : (Asked(c, work[j]))' => work'[j].sid = stream[c].sid
      BY <1>2, <1>6, <3>4 DEF Asked
    <3>6. serving = "stdio" => c = Parent
      BY <1>4 DEF MayCall
    <3>7. serving = "sse" => stream[c].state = "open"
      BY <1>4 DEF MayCall
    <3>8. Home(c)'
      BY <1>1, <1>2, <1>4, <2>1, <3>5, <3>6, <3>7 DEF Home
    <3> QED
      BY <3>3, <3>8 DEF Safe
  <2> QED
    BY <2>2, <2>3
<1> QED
  BY <1>8, <1>9 DEF KeptInv

LEMMA NoiseIsKept ==
    ASSUME ServerTypes, ServerTypes', KeptInv, Noise PROVE KeptInv'
<1> DEFINE r == [from |-> Parent, sid |-> 0, id |-> 0, ask |-> "noise", answer |-> NoAnswer]
<1>1. r.id = 0
  OBVIOUS
<1>2. /\ work' = Append(work, r) /\ UNCHANGED <<serving, call, held, log, stream, skipped>>
  BY DEF Noise, outcome, streams
<1> HIDE DEF r
<1>3. work \in Seq(WorkItem)
  BY DEF ServerTypes
<1>4. /\ \A j \in DOMAIN work' : work'[j] = r \/ (j \in DOMAIN work /\ work'[j] = work[j])
      /\ \A k \in DOMAIN work : k \in DOMAIN work' /\ work'[k] = work[k]
  BY <1>2, <1>3, AppendedIs
<1>5. ASSUME NEW c \in Client, Awaits(c)
      PROVE  /\ \A k \in DOMAIN work : Asked(c, work[k]) =>
                    \E j \in DOMAIN work' : Asked(c, work'[j])
             /\ \A j \in DOMAIN work' : Asked(c, work'[j]) =>
                    \E k \in DOMAIN work : Asked(c, work[k]) /\ work[k].sid = work'[j].sid
  <2>1. call[c].id > 0 /\ call'[c] = call[c]
    BY <1>2, <1>5 DEF KeptInv, Home
  <2> QED
    BY <1>1, <1>4, <2>1 DEF Asked
<1> QED
  BY <1>2, <1>5, OthersWork

LEMMA HandleIsKept ==
    ASSUME ServerTypes, ServerTypes', KeptInv, NEW i \in DOMAIN work, Handle(i) PROVE KeptInv'
<1>1. PICK a \in Answer :
          /\ DOMAIN work' = DOMAIN work /\ \A j \in DOMAIN work : j # i => work'[j] = work[j]
          /\ work'[i].from = work[i].from /\ work'[i].sid = work[i].sid
          /\ work'[i].id = work[i].id
  BY HandleIs
<1>2. UNCHANGED <<serving, call, held, log, stream, skipped>>
  BY DEF Handle, outcome, streams
<1>3. \A j \in DOMAIN work : Same(work'[j], work[j]) /\ work'[j].sid = work[j].sid
  BY <1>1 DEF Same
<1>4. ASSUME NEW c \in Client
      PROVE  /\ \A k \in DOMAIN work : Asked(c, work[k]) =>
                    \E j \in DOMAIN work' : Asked(c, work'[j])
             /\ \A j \in DOMAIN work' : Asked(c, work'[j]) =>
                    \E k \in DOMAIN work : Asked(c, work[k]) /\ work[k].sid = work'[j].sid
  BY <1>1, <1>2, <1>3 DEF Asked, Same
<1> QED
  BY <1>2, <1>4, OthersWork

\* What is taken out of the work without an answer is no call that is awaited.
LEMMA RemovedIsKept ==
    ASSUME ServerTypes, ServerTypes', TruthInv, KeptInv, NEW i \in DOMAIN work,
           Ignore(i) \/ Cancelled(i)
    PROVE  KeptInv'
<1>1. work' = RemoveAt(work, i) /\ UNCHANGED <<serving, call, held, log, stream, skipped>>
  BY DEF Ignore, Cancelled, outcome, streams
<1>2. \A c \in Client : Awaits(c) => ~Asked(c, work[i])
  <2> SUFFICES ASSUME NEW c \in Client, Awaits(c), Asked(c, work[i]) PROVE FALSE
    OBVIOUS
  <2>1. CASE Ignore(i)
    BY <2>1 DEF Ignore, Asked, KeptInv, Home, TruthInv, WorkIsTrue, ItemFits
  <2>2. CASE Cancelled(i)
    <3>1. call[c].id > work[i].id
      BY <2>2 DEF Cancelled, Asked
    <3> QED
      BY <3>1, TypedState DEF Asked
  <2> QED
    BY <2>1, <2>2
<1>3. /\ \A j \in DOMAIN work' : \E k \in DOMAIN work : work'[j] = work[k]
      /\ \A k \in DOMAIN work : k # i => \E j \in DOMAIN work' : work'[j] = work[k]
  BY <1>1, Remains DEF ServerTypes
<1>4. ASSUME NEW c \in Client, Awaits(c)
      PROVE  /\ \A k \in DOMAIN work : Asked(c, work[k]) =>
                    \E j \in DOMAIN work' : Asked(c, work'[j])
             /\ \A j \in DOMAIN work' : Asked(c, work'[j]) =>
                    \E k \in DOMAIN work : Asked(c, work[k]) /\ work[k].sid = work'[j].sid
  <2>1. \A k \in DOMAIN work : Asked(c, work[k]) => k # i
    BY <1>2, <1>4
  <2>2. \A k \in DOMAIN work : k # i /\ Asked(c, work[k]) => \E j \in DOMAIN work' : (Asked(c, work[j]))'
    BY <1>1, <1>3 DEF Asked
  <2> QED
    BY <1>1, <1>3, <2>1, <2>2 DEF Asked
<1> QED
  BY <1>1, <1>4, OthersWork

\* A call that has ended, or that holds an answer.
LEMMA EndedIsKept ==
    ASSUME ServerTypes', NEW c \in Client, NEW e \in Answer \cup Failure, call'[c].end = e,
           (stream[c].next <= Len(log) + 1)'
    PROVE  Safe(c)' /\ Home(c)'
<1>1. e \notin {"posting", "waiting"}
  BY DEF Answer, Code, Failure
<1>2. ~Awaits(c)'
  BY <1>1 DEF Awaits
<1> QED
  BY <1>2, NotWaiting

LEMMA HeldIsKept ==
    ASSUME NEW c \in Client, Home(c), call'[c] = call[c], call[c].end = "posting",
           held'[c] # NoAnswer, serving' = serving, (stream[c].next <= Len(log) + 1)'
    PROVE  Safe(c)' /\ Home(c)'
BY DEF Safe, Home, Awaits

LEMMA ReplyIsKept ==
    ASSUME ServerTypes, ServerTypes', KeptInv, NEW i \in DOMAIN work, Reply(i) PROVE KeptInv'
<1> DEFINE r == work[i]
           m == [to |-> r.sid, id |-> r.id, answer |-> r.answer]
<1>1. /\ r.answer # NoAnswer /\ work' = RemoveAt(work, i)
      /\ UNCHANGED <<serving, stream, skipped>>
      /\ IF serving = "sse" THEN log' = Append(log, m) /\ UNCHANGED outcome
         ELSE Told(r.from, r.id, r.answer) /\ log' = log
  BY DEF Reply
<1>2. m.to = r.sid /\ m.id = r.id
  OBVIOUS
<1>3. r.from \in Client /\ r.answer \in Answer
  <2>1. r \in WorkItem
    BY TypedState
  <2> QED
    BY <1>1, <2>1 DEF WorkItem
<1>4. /\ \A j \in DOMAIN work' : \E k \in DOMAIN work : work'[j] = work[k]
      /\ \A k \in DOMAIN work : k # i => \E j \in DOMAIN work' : work'[j] = work[k]
  BY <1>1, Remains DEF ServerTypes
<1>5. Len(log) \in Nat /\ log \in Seq(Broadcast)
  BY DEF ServerTypes
<1> HIDE DEF m
<1>6. SUFFICES ASSUME NEW c \in Client PROVE Safe(c)' /\ Home(c)'
  BY DEF KeptInv
<1>7. Safe(c) /\ Home(c) /\ stream[c].next \in Nat \ {0}
  BY TypedState DEF KeptInv
<1>8. CASE call'[c] = call[c] /\ held'[c] = held[c] /\ (serving = "sse" \/ ~Awaits(c) \/ ~Asked(c, r))
  <2>1. ASSUME NEW k \in DOMAIN work, Asked(c, work[k]), k # i PROVE InWork(c)'
    <3>1. PICK j \in DOMAIN work' : work'[j] = work[k]
      BY <1>4, <2>1
    <3> QED
      BY <1>8, <2>1, <3>1 DEF InWork, Asked
  <2>2. ASSUME Awaits(c), Asked(c, r), held[c] = NoAnswer PROVE OnItsWay(c)'
    <3>1. serving = "sse" /\ r.sid = stream[c].sid
      BY <1>7, <1>8, <2>2 DEF Home
    <3>2. log' = Append(log, m)
      BY <1>1, <3>1
    <3>3. Len(Append(log, m)) = Len(log) + 1 /\ Append(log, m)[Len(log) + 1] = m
      BY <1>5, AppendedIs
    <3>4. Len(log') = Len(log) + 1 /\ log'[Len(log) + 1] = m
      BY <3>2, <3>3
    <3>5. Len(log) + 1 \in stream'[c].next .. Len(log')
      BY <1>1, <1>5, <1>7, <3>4 DEF Home
    <3> QED
      BY <1>1, <1>2, <1>8, <2>2, <3>1, <3>4, <3>5 DEF OnItsWay, Asked
  <2>3. ASSUME Awaits(c), InWork(c) PROVE InWork(c)' \/ OnItsWay(c)' \/ held[c] # NoAnswer
    <3>1. PICK k \in DOMAIN work : Asked(c, work[k])
      BY <2>3 DEF InWork, Asked
    <3> QED
      BY <2>1, <2>2, <2>3, <3>1
  <2>4. \A j \in DOMAIN work' : Asked(c, work'[j]) =>
                    \E k \in DOMAIN work : Asked(c, work[k]) /\ work[k].sid = work'[j].sid
    <3> SUFFICES ASSUME NEW j \in DOMAIN work', Asked(c, work'[j])
                 PROVE  \E k \in DOMAIN work : Asked(c, work[k]) /\ work[k].sid = work'[j].sid
      OBVIOUS
    <3>1. PICK k \in DOMAIN work : work'[j] = work[k]
      BY <1>4
    <3> QED
      BY <3>1
  <2>5. log' = log \/ \E x : log' = Append(log, x)
    BY <1>1
  <2> QED
    BY <1>1, <1>7, <1>8, <2>3, <2>4, <2>5, Untouched
<1>9. CASE serving # "sse" /\ Awaits(c) /\ Asked(c, r)
  <2>1. Told(c, call[c].id, r.answer) /\ log' = log
    BY <1>1, <1>9 DEF Asked
  <2>2. call[c].end = "waiting"
    BY <1>7, <1>9 DEF Home, Awaits
  <2>3. call'[c].end = r.answer
    BY <2>1, <2>2, ToldIs
  <2>4. (stream[c].next <= Len(log) + 1)'
    BY <1>1, <1>7, <2>1 DEF Home
  <2> QED
    BY <1>3, <2>3, <2>4, EndedIsKept
<1>10. CASE serving # "sse" /\ (~Awaits(c) \/ ~Asked(c, r))
  <2>1. Told(r.from, r.id, r.answer)
    BY <1>1, <1>10
  <2>2. CASE r.from # c
    BY <1>3, <1>8, <1>10, <2>1, <2>2, ToldIs
  <2>3. CASE r.from = c
    <3>1. ~(call[c].id = r.id /\ call[c].end = "waiting") /\ ~(call[c].id = r.id /\ Keeps(c))
      BY <1>10, <2>3 DEF Asked, Awaits, Keeps
    <3>2. call' = call /\ held' = held
      BY <2>1, <2>3, <3>1 DEF Told
    <3> QED
      BY <1>8, <1>10, <3>2
  <2> QED
    BY <2>2, <2>3
<1>11. CASE serving = "sse"
  BY <1>1, <1>8, <1>11 DEF outcome
<1> QED
  BY <1>9, <1>10, <1>11

LEMMA CallsAreKept ==
    ASSUME ServerTypes, ServerTypes', KeptInv,
           Ends \/ \E c \in Client : GiveUp(c) \/ Accepted(c)
    PROVE  KeptInv'
<1>1. UNCHANGED <<serving, log, stream, skipped>>
  BY DEF Ends, GiveUp, Accepted, streams
<1>2. \A c \in Client : Safe(c) /\ Home(c) /\ (stream[c].next <= Len(log) + 1)'
  BY <1>1 DEF KeptInv, Home
<1>3. ASSUME NEW c \in Client, GiveUp(c) \/ Accepted(c), NEW d \in Client, d # c
      PROVE  Safe(d)' /\ Home(d)'
  <2>1. work' = work /\ held' = held /\ call'[d] = call[d]
    BY <1>3, EndIs DEF GiveUp, Accepted, ServerTypes
  <2>2. InWork(d) => InWork(d)'
    BY <2>1 DEF InWork
  <2> QED
    BY <1>1, <1>2, <2>1, <2>2, Untouched
<1>4. ASSUME NEW c \in Client, GiveUp(c) PROVE Safe(c)' /\ Home(c)'
  <2>1. PICK e \in {"http", "timeout"} : call' = [call EXCEPT ![c].end = e]
    BY <1>4 DEF GiveUp, ServerTypes
  <2>2. e \in Failure /\ call'[c].end = e
    BY <2>1, EndIs DEF Failure
  <2> QED
    BY <1>2, <2>2, EndedIsKept
<1>5. ASSUME NEW c \in Client, Accepted(c) PROVE Safe(c)' /\ Home(c)'
  <2>1. /\ call' = [call EXCEPT ![c].end = IF held[c] = NoAnswer THEN "waiting" ELSE held[c]]
        /\ call[c].end = "posting" /\ ~InWork(c) /\ UNCHANGED <<work, held>>
    BY <1>5 DEF Accepted
  <2>2. CASE held[c] # NoAnswer
    <3>1. held[c] \in Answer \cup Failure
      BY <2>2, TypedState DEF Failure
    <3>2. call'[c].end = held[c]
      BY <2>1, <2>2, EndIs
    <3> QED
      BY <1>2, <3>1, <3>2, EndedIsKept
  <2>3. CASE held[c] = NoAnswer
    <3>1. call'[c].end = "waiting" /\ call'[c].id = call[c].id
      BY <2>1, <2>3, EndIs
    <3>2. OnItsWay(c) \/ <<c, call[c].id>> \in skipped
      BY <1>2, <2>1, <2>3 DEF Safe, Awaits
    <3>3. Safe(c)'
      BY <1>1, <3>1, <3>2 DEF Safe, OnItsWay
    <3>4. Home(c)'
      BY <1>1, <1>2, <2>1, <2>3, <3>1 DEF Home, Awaits, Asked
    <3> QED
      BY <3>3, <3>4
  <2> QED
    BY <2>2, <2>3
<1>6. CASE Ends
  <2> SUFFICES ASSUME NEW c \in Client PROVE Safe(c)' /\ Home(c)'
    BY DEF KeptInv
  <2>1. Told(Parent, call[Parent].id, "disconnected") /\ serving = "stdio" /\ Parent \in Client
    BY <1>6, ServerAssumption DEF Ends
  <2>2. CASE call[c].end = "waiting"
    <3>1. c = Parent
      BY <1>2, <2>1, <2>2 DEF Home, Awaits
    <3>2. call'[c].end = "disconnected"
      BY <2>1, <2>2, <3>1, ToldIs
    <3>3. "disconnected" \in Failure
      BY DEF Failure
    <3> QED
      BY <1>2, <3>2, <3>3, EndedIsKept
  <2>3. CASE call[c].end # "waiting"
    <3>1. call[c].end # "posting"
      BY <1>2, <2>1 DEF Home
    <3>2. call'[c].end = call[c].end
      BY <2>1, <2>3, ToldIs
    <3>3. ~Awaits(c)'
      BY <2>3, <3>1, <3>2 DEF Awaits
    <3> QED
      BY <1>2, <3>3, NotWaiting
  <2> QED
    BY <2>2, <2>3
<1> QED
  BY <1>3, <1>4, <1>5, <1>6 DEF KeptInv

LEMMA OpenIsKept ==
    ASSUME ServerTypes, ServerTypes', KeptInv, NEW c \in Client, OpenStream(c) PROVE KeptInv'
<1> DEFINE s == [state |-> "made", sid |-> counter, next |-> Len(log) + 1]
<1>1. s.next = Len(log) + 1
  OBVIOUS
<1>2. /\ stream' = [stream EXCEPT ![c] = s] /\ ~Awaits(c)
      /\ UNCHANGED <<serving, work, call, held, log, skipped>>
  BY DEF OpenStream, requests, outcome
<1> HIDE DEF s
<1>3. stream'[c] = s /\ \A d \in Client : d # c => stream'[d] = stream[d]
  BY <1>2 DEF ServerTypes
<1>4. ASSUME NEW d \in Client, d # c PROVE Safe(d)' /\ Home(d)'
  <2>1. Safe(d) /\ Home(d) /\ stream'[d] = stream[d]
    BY <1>3, <1>4 DEF KeptInv
  <2>2. InWork(d) => InWork(d)'
    BY <1>2 DEF InWork
  <2> QED
    BY <1>2, <2>1, <2>2, Untouched
<1>5. Safe(c)' /\ Home(c)'
  <2>1. ~Awaits(c)'
    BY <1>2 DEF Awaits
  <2>2. (stream[c].next <= Len(log) + 1)'
    BY <1>1, <1>2, <1>3, OldestIs
  <2> QED
    BY <2>1, <2>2, NotWaiting
<1> QED
  BY <1>4, <1>5 DEF KeptInv

LEMMA FlowIsKept ==
    ASSUME ServerTypes, ServerTypes', KeptInv, NEW c \in Client, Flow(c) \/ CloseStream(c)
    PROVE  KeptInv'
<1>1. /\ \A d \in Client : stream'[d].sid = stream[d].sid
      /\ \A d \in Client : d # c => stream'[d] = stream[d]
      /\ CloseStream(c) => stream'[c].next = stream[c].next
      /\ ~CloseStream(c) => stream'[c].state = "open"
      /\ UNCHANGED <<serving, work, log>>
  BY SessionMoves
<1>2. Len(log) \in Nat /\ Oldest \in Nat \ {0} /\ Oldest <= Len(log) + 1 /\ DOMAIN log = 1 .. Len(log)
      /\ stream[c].next \in Nat \ {0}
  BY OldestIs, TypedState
<1>3. Safe(c) /\ Home(c)
  BY DEF KeptInv
<1>4. \A d \in Client : InWork(d) /\ call'[d] = call[d] => InWork(d)'
  BY <1>1 DEF InWork
<1>5. skipped \subseteq skipped'
  BY DEF Flow, Acknowledge, Skip, Receive, CloseStream
<1>6. ASSUME NEW d \in Client, d # c PROVE Safe(d)' /\ Home(d)'
  <2>1. call'[d] = call[d] /\ held'[d] = held[d]
    <3>1. CASE Acknowledge(c) \/ Skip(c)
      BY <3>1 DEF Acknowledge, Skip, requests, outcome
    <3>2. CASE CloseStream(c)
      BY <1>6, <3>2, ToldIs DEF CloseStream
    <3>3. CASE Receive(c)
      BY <1>6, <3>3, ToldIs DEF Receive, outcome
    <3> QED
      BY <3>1, <3>2, <3>3 DEF Flow
  <2>2. Safe(d) /\ Home(d) /\ stream'[d] = stream[d]
    BY <1>1, <1>6 DEF KeptInv
  <2> QED
    BY <1>1, <1>4, <1>5, <2>1, <2>2, Untouched
<1>7. CASE Acknowledge(c)
  <2>1. UNCHANGED <<call, held, skipped>> /\ stream'[c].next = stream[c].next
    BY <1>7, ReadsOn DEF Acknowledge, requests, outcome
  <2>2. stream'[c].state = "open"
    BY <1>7, ReadsOn
  <2>3. InWork(c) => InWork(c)'
    BY <1>4, <2>1
  <2>4. Safe(c)' /\ Home(c)'
    BY <1>1, <1>3, <2>1, <2>2, <2>3, Untouched
  <2> QED
    BY <1>6, <2>4 DEF KeptInv
<1>8. CASE Skip(c)
  <2>1. UNCHANGED <<call, held>> /\ stream'[c].next = Oldest
        /\ skipped' = skipped \cup {<<c, log[i].id>> : i \in {j \in stream[c].next .. Oldest - 1 :
                                                            log[j].to = stream[c].sid}}
        /\ stream'[c].state = stream[c].state
    <3>1. (stream[c].state = "open" /\ stream'[c].state = "open") \/ CloseStream(c)
      BY <1>1, <1>8 DEF Skip
    <3>2. ~CloseStream(c)
      <4>1. CASE CloseStream(c)
        <5>1. stream'[c].next = stream[c].next /\ stream[c].next < Oldest /\ stream'[c].next = Oldest
          BY <1>1, <1>8, <4>1, ReadsOn DEF Skip
        <5> QED
          BY <1>2, <5>1
      <4> QED
        BY <4>1
    <3> QED
      BY <1>8, <3>1, <3>2, ReadsOn DEF Skip, requests, outcome
  <2>2. ASSUME OnItsWay(c) PROVE OnItsWay(c)' \/ <<c, call'[c].id>> \in skipped'
    <3>1. PICK i \in stream[c].next .. Len(log) : log[i].to = stream[c].sid /\ log[i].id = call[c].id
      BY <2>2 DEF OnItsWay
    <3>2. CASE i < Oldest
      <4>1. i \in stream[c].next .. Oldest - 1
        BY <1>2, <3>1, <3>2
      <4> QED
        BY <2>1, <3>1, <4>1
    <3>3. CASE ~(i < Oldest)
      <4>1. i \in Oldest .. Len(log)
        BY <1>2, <3>1, <3>3
      <4> QED
        BY <1>1, <2>1, <3>1, <4>1 DEF OnItsWay
    <3> QED
      BY <3>2, <3>3
  <2>3. Safe(c)'
    <3>1. InWork(c) => InWork(c)'
      BY <1>4, <2>1
    <3> QED
      BY <1>3, <2>1, <2>2, <3>1 DEF Safe, Awaits
  <2>4. Home(c)'
    BY <1>1, <1>2, <1>3, <2>1 DEF Home, Awaits, Asked
  <2> QED
    BY <1>6, <2>3, <2>4 DEF KeptInv
<1>9. CASE Receive(c)
  <2> DEFINE m == log[stream[c].next]
  <2>1. stream'[c].next = stream[c].next + 1 /\ stream[c].next \in DOMAIN log
    BY <1>9, ReadsOn
  <2>2. (stream[c].next <= Len(log) + 1)'
    BY <1>1, <1>2, <2>1
  <2>3. stream'[c].state = "open" /\ skipped' = skipped
    <3>1. ~CloseStream(c)
      BY <1>1, <1>2, <2>1
    <3> QED
      BY <1>1, <1>9, <3>1 DEF Receive
  <2>4. m.answer \in Answer /\ m.answer # NoAnswer
    <3>1. m.answer \in Answer
      BY <2>1, TypedState
    <3> QED
      BY <3>1 DEF Answer, Code, NoAnswer
  <2>5. IF Mine(c, m) THEN Told(c, m.id, m.answer) ELSE UNCHANGED outcome
    BY <1>9 DEF Receive
  <2>6. CASE Mine(c, m) /\ call[c].id = m.id /\ call[c].end = "waiting"
    <3>1. call'[c].end = m.answer
      BY <2>5, <2>6, ToldIs
    <3>2. Safe(c)' /\ Home(c)'
      BY <2>2, <2>4, <3>1, EndedIsKept
    <3> QED
      BY <1>6, <3>2 DEF KeptInv
  <2>7. CASE Mine(c, m) /\ call[c].id = m.id /\ Keeps(c)
    <3>1. held'[c] = m.answer
      BY <2>5, <2>7, ToldIs
    <3>2. call'[c] = call[c] /\ call[c].end = "posting"
      BY <2>5, <2>7 DEF Told, Keeps
    <3>3. Safe(c)' /\ Home(c)'
      BY <1>1, <1>3, <2>2, <2>4, <3>1, <3>2, HeldIsKept
    <3> QED
      BY <1>6, <3>3 DEF KeptInv
  <2>8. CASE ~(Mine(c, m) /\ call[c].id = m.id /\ (call[c].end = "waiting" \/ Keeps(c)))
    <3>1. call' = call /\ held' = held
      BY <2>5, <2>8 DEF Told, outcome
    <3>2. ASSUME OnItsWay(c), Awaits(c)
          PROVE  OnItsWay(c)' \/ (call[c].end = "posting" /\ held[c] # NoAnswer)
      <4>1. PICK i \in stream[c].next .. Len(log) : log[i].to = stream[c].sid /\ log[i].id = call[c].id
        BY <3>2 DEF OnItsWay
      <4>2. CASE i = stream[c].next
        BY <2>8, <3>2, <4>1, <4>2 DEF Mine, Keeps, Awaits
      <4>3. CASE i # stream[c].next
        <5>1. i \in stream[c].next + 1 .. Len(log)
          BY <1>2, <4>1, <4>3
        <5> QED
          BY <1>1, <2>1, <3>1, <4>1, <5>1 DEF OnItsWay
      <4> QED
        BY <4>2, <4>3
    <3>3. Safe(c)'
      <4>1. InWork(c) => InWork(c)'
        BY <1>4, <3>1
      <4> QED
        BY <1>3, <2>3, <3>1, <3>2, <4>1 DEF Safe, Awaits
    <3>4. Home(c)'
      BY <1>1, <1>3, <2>2, <2>3, <3>1 DEF Home, Awaits, Asked
    <3> QED
      BY <1>6, <3>3, <3>4 DEF KeptInv
  <2> QED
    BY <2>6, <2>7, <2>8
<1>10. CASE CloseStream(c)
  <2>1. Told(c, call[c].id, "disconnected") /\ (stream[c].next <= Len(log) + 1)'
    BY <1>1, <1>3, <1>10 DEF CloseStream, Home
  <2>2. CASE call[c].end = "waiting"
    <3>1. call'[c].end = "disconnected"
      BY <2>1, <2>2, ToldIs
    <3>2. "disconnected" \in Failure
      BY DEF Failure
    <3>3. Safe(c)' /\ Home(c)'
      BY <2>1, <3>1, <3>2, EndedIsKept
    <3> QED
      BY <1>6, <3>3 DEF KeptInv
  <2>3. CASE call[c].end = "posting"
    <3>1. held'[c] # NoAnswer
      <4>1. "disconnected" # NoAnswer
        BY DEF NoAnswer
      <4>2. held'[c] = IF Keeps(c) THEN "disconnected" ELSE held[c]
        BY <2>1, ToldIs
      <4> QED
        BY <2>3, <4>1, <4>2 DEF Keeps
    <3>2. call'[c] = call[c]
      BY <2>1, <2>3 DEF Told
    <3>3. Safe(c)' /\ Home(c)'
      BY <1>1, <1>3, <2>1, <2>3, <3>1, <3>2, HeldIsKept
    <3> QED
      BY <1>6, <3>3 DEF KeptInv
  <2>4. CASE ~Awaits(c)
    <3>1. call'[c].end = call[c].end
      BY <2>1, <2>4, ToldIs DEF Awaits
    <3>2. ~Awaits(c)'
      BY <2>4, <3>1 DEF Awaits
    <3>3. Safe(c)' /\ Home(c)'
      BY <2>1, <3>2, NotWaiting
    <3> QED
      BY <1>6, <3>3 DEF KeptInv
  <2> QED
    BY <2>2, <2>3, <2>4 DEF Awaits
<1> QED
  BY <1>7, <1>8, <1>9, <1>10 DEF Flow

LEMMA KeptInductive ==
    ASSUME ServerTypes, ServerTypes', TruthInv, KeptInv, [ServerNext]_serverVars PROVE KeptInv'
<1>1. CASE UNCHANGED serverVars
  BY <1>1 DEF serverVars, requests, outcome, streams, KeptInv, Safe, Home, Awaits, InWork, OnItsWay, Asked
<1>2. ASSUME ServerNext PROVE KeptInv'
  <2>1. ASSUME NEW a \in Ask, WriteFails(a) PROVE KeptInv'
    BY <2>1, AskingIsKept, ServerAssumption
  <2>2. ASSUME NEW a \in Ask, NEW c \in Client, Request(c, a) PROVE KeptInv'
    BY <2>2, AskingIsKept
  <2>3. ASSUME NEW i \in DOMAIN work, Serve(i) \/ Cancelled(i) PROVE KeptInv'
    BY <2>3, HandleIsKept, RemovedIsKept, ReplyIsKept DEF Serve
  <2>4. ASSUME NEW c \in Client, OpenStream(c) \/ CloseStream(c) \/ Flow(c) PROVE KeptInv'
    BY <2>4, OpenIsKept, FlowIsKept
  <2> QED
    BY <1>2, <2>1, <2>2, <2>3, <2>4, NoiseIsKept, CallsAreKept DEF ServerNext
<1> QED
  BY <1>1, <1>2

-----------------------------------------------------------------------------
THEOREM ServerInvariance == ServerSpec => []ServerInv
<1>1. ServerInit => ServerInv
  <2> SUFFICES ASSUME ServerInit PROVE ServerInv
    OBVIOUS
  <2>1. RunsOnce
    BY DEF ServerInit, RunsOnce
  <2> QED
    BY <2>1, ServerTypesInitially, TruthInitially, KeptInitially DEF ServerInv
<1>2. ServerInv /\ [ServerNext]_serverVars => ServerInv'
  <2> SUFFICES ASSUME ServerInv, [ServerNext]_serverVars PROVE ServerInv'
    OBVIOUS
  <2>1. ServerTypes'
    <3>1. CASE UNCHANGED serverVars
      BY <3>1 DEF ServerInv, ServerTypes, serverVars, requests, outcome, streams
    <3>2. ASSUME ServerNext PROVE ServerTypes'
      <4>1. ASSUME NEW a \in Ask, WriteFails(a) PROVE ServerTypes'
        BY <4>1, AskingKeepsTypes, ServerAssumption DEF ServerInv
      <4>2. ASSUME NEW a \in Ask, NEW c \in Client, Request(c, a) PROVE ServerTypes'
        BY <4>2, AskingKeepsTypes DEF ServerInv
      <4> QED
        BY <3>2, <4>1, <4>2, RequestsKeepTypes, StreamsKeepTypes DEF ServerInv, ServerNext
    <3> QED
      BY <3>1, <3>2
  <2>2. TruthInv' /\ KeptInv'
    BY <2>1, TruthInductive, KeptInductive DEF ServerInv
  <2>3. RunsOnce'
    BY RunsOnceInductive DEF ServerInv
  <2> QED
    BY <2>1, <2>2, <2>3 DEF ServerInv
<1> QED
  BY <1>1, <1>2, PTL DEF ServerSpec

\* Every variable of the server and its clients has its type.
THEOREM ServerTypesHold == ServerSpec => []ServerTypes
BY ServerInvariance, PTL DEF ServerInv

LEMMA OutcomeFollows == ServerInv => OutcomeIsOwn
<1> SUFFICES ASSUME ServerInv, NEW c \in Client, call[c].id > 0
             PROVE  LET did == {r \in ran : r[1] = c /\ r[2] = call[c].id}
                    IN  /\ ToolResult(call[c].end) = "Ok" => <<c, call[c].id, "ok">> \in did
                        /\ call[c].end = "failed" => <<c, call[c].id, "failed">> \in did
                        /\ call[c].end = "result" => call[c].ask = "plain"
                        /\ call[c].end \in Code => did = {}
                        /\ Disposition(call[c].end) = "Never" /\ ~Awaits(c)
                              => did \subseteq {<<c, call[c].id, call[c].end>>}
  BY DEF OutcomeIsOwn
<1> DEFINE end == call[c].end
           id == call[c].id
           did == {r \in ran : r[1] = c /\ r[2] = id}
<1>1. FitsIn(call, ran, c, id, end)
  BY DEF ServerInv, TruthInv, CallsAreTrue, Fits
<1>2. id \in Nat /\ end \in Outcome
  BY TypedState DEF ServerInv, CallState
<1>3. /\ end \in {"ok", "failed"} => <<c, id, end>> \in did
      /\ end = "result" => call[c].ask = "plain"
      /\ end \in Code => call[c].ask \in {"nosuch", "refused"}
  BY <1>1, <1>2 DEF FitsIn
<1>4. call[c].ask # "tool" => did = {}
  BY <1>2 DEF ServerInv, TruthInv, RanForATool
<1>5. <<c, id, end>> \in did => did \subseteq {<<c, id, end>>}
  <2>1. \A r, q \in ran : r[1] = q[1] /\ r[2] = q[2] => r = q
    BY DEF ServerInv, RunsOnce
  <2> QED
    BY <2>1
<1>6. /\ ToolResult(end) = "Ok" => end = "ok"
      /\ Disposition(end) = "Never" /\ ~Awaits(c) => end \in {"result", "ok", "failed"} \cup Code
  <2>1. ~Awaits(c) => end \notin {"posting", "waiting"}
    BY DEF Awaits
  <2> HIDE DEF end
  <2>2. ToolResult(end) = "Ok" => end = "ok"
    BY DEF ToolResult
  <2>3. end \in Failure => Disposition(end) # "Never"
    BY DEF Disposition, Failure
  <2> QED
    BY <1>2, <2>1, <2>2, <2>3 DEF Outcome, Answer
<1> HIDE DEF end, id, did
<1>7. end \in Code => did = {}
  BY <1>3, <1>4
<1>8. end = "result" => did = {}
  BY <1>3, <1>4
<1> QED
  BY <1>3, <1>5, <1>6, <1>7, <1>8 DEF end, id, did

\* Whatever the sessions that share the channel, the ids their clients count alike, the calls
\* given up, failed or cut off and the streams lost, a caller is told what came of its own
\* request, and what it is told never to retry did nothing it does not say.
THEOREM OutcomesAreOwn == ServerSpec => []OutcomeIsOwn
BY ServerInvariance, OutcomeFollows, PTL

LEMMA KeptFollows == ServerInv => AnswerIsKept
<1> SUFFICES ASSUME ServerInv, NEW c \in Client, Awaits(c)
             PROVE  \/ InWork(c) \/ OnItsWay(c) \/ <<c, call[c].id>> \in skipped
                    \/ call[c].end = "posting" /\ held[c] # NoAnswer
  BY DEF AnswerIsKept
<1> QED
  BY DEF ServerInv, KeptInv, Safe

\* However the POST and the stream of a session race, a caller that awaits an answer has one
\* to come, has it already, or lagged past it.
THEOREM AnswersAreKept == ServerSpec => []AnswerIsKept
BY ServerInvariance, KeptFollows, PTL
=============================================================================
