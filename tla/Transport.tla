----------------------------- MODULE Transport -----------------------------
(***************************************************************************)
(* The TCP transport of remoting: Client of internal/net/client.go with its *)
(* pool of idle connections, and the server of tcp_server.go and            *)
(* proto_server.go with its accept loop, its connection loops and its       *)
(* shutdown.                                                                *)
(*                                                                          *)
(* A connection carries frames in both directions; each side may close it   *)
(* at any time (idle timeouts, deadlines, corrupt frames, handler panics).  *)
(***************************************************************************)
EXTENDS Integers, Sequences, FiniteSets, SequencesExt

CONSTANTS Confs, MaxConns, MaxIdle

VARIABLES conf,     \* the senders, the faults, the shutdown timeout
          client,   \* the pool: idle connections, closed, how far Close is
          sender,   \* per sender: its exchange
          conn,     \* the connections made so far
          server,   \* the TCP server
          runs      \* history: <<sender, request number>> -> times handled

vars == <<conf, client, sender, conn, server, runs>>

Senders == DOMAIN conf.senders
Conns == DOMAIN conn
Fault(f) == f \in conf.faults
NoConn == 0

\* What a sender writes and how many replies it reads.
Requests(s) == IF conf.senders[s] = "batch" THEN 2 ELSE 1
Replies(s) == IF conf.senders[s] = "noReply" THEN 0 ELSE Requests(s)

NewConn == [cl |-> "open", sv |-> "backlog", req |-> <<>>, resp |-> <<>>, cur |-> <<>>]

TInit ==
    /\ conf \in Confs
    /\ client = [idle |-> <<>>, closed |-> FALSE, closing |-> "no"]
    /\ sender = [s \in Senders |-> [pc |-> "get", c |-> NoConn, sent |-> 0, got |-> <<>>, res |-> "none"]]
    /\ conn = <<>>
    /\ server = [shutdown |-> FALSE, timeout |-> "forever", listening |-> TRUE, active |-> 0,
                 serve |-> "accepting", late |-> {}]
    /\ runs = [s \in Senders |-> <<0, 0>>]

---------------------------------------------------------------------------
\* Client.
CloseClientEnd(C) == [i \in Conns |-> IF i \in C THEN [conn[i] EXCEPT !.cl = "closed"] ELSE conn[i]]
Fails(s) == [sender EXCEPT ![s].pc = "done", ![s].res = "error"]

\* Get: the newest idle connection that has not expired; otherwise dial.
Get(s) ==
    /\ sender[s].pc = "get"
    /\ \/ /\ client.closed
          /\ sender' = Fails(s) /\ UNCHANGED <<client, conn>>
       \/ /\ ~client.closed /\ client.idle # <<>>
          /\ client' = [client EXCEPT !.idle = Front(@)]
          /\ \/ sender' = [sender EXCEPT ![s].pc = "write", ![s].c = Last(client.idle)] /\ UNCHANGED conn
             \/ Fault("expires") /\ conn' = CloseClientEnd({Last(client.idle)}) /\ UNCHANGED sender
       \/ /\ ~client.closed /\ client.idle = <<>>
          /\ UNCHANGED client
          /\ IF server.listening /\ Len(conn) < MaxConns
             THEN /\ conn' = Append(conn, NewConn)
                  /\ sender' = [sender EXCEPT ![s].pc = "write", ![s].c = Len(conn) + 1]
             ELSE sender' = Fails(s) /\ UNCHANGED conn
    /\ UNCHANGED <<conf, server, runs>>

\* Discard: an exchange that failed closes its connection.
Discard(s) ==
    /\ sender' = Fails(s)
    /\ conn' = CloseClientEnd({sender[s].c})

\* A frame is written; writing to a connection the server closed may go unnoticed.
Write(s) ==
    LET c == sender[s].c IN
    /\ sender[s].pc = "write"
    /\ \/ /\ conn' = [conn EXCEPT ![c].req = IF conn[c].sv = "closed" THEN @ ELSE Append(@, <<s, sender[s].sent + 1>>)]
          /\ sender' = [sender EXCEPT ![s].sent = @ + 1,
                                      ![s].pc = IF sender[s].sent + 1 < Requests(s) THEN "write"
                                                ELSE IF Replies(s) = 0 THEN "put" ELSE "read"]
       \/ (conn[c].sv = "closed" \/ Fault("deadline")) /\ Discard(s)
    /\ UNCHANGED <<conf, client, server, runs>>

\* readProtoFrame and unmarshalProtoResponse.
Read(s) ==
    LET c == sender[s].c IN
    /\ sender[s].pc = "read"
    /\ \/ /\ conn[c].resp # <<>>
          /\ conn' = [conn EXCEPT ![c].resp = Tail(@)]
          /\ sender' = [sender EXCEPT ![s].got = Append(@, Head(conn[c].resp)),
                                      ![s].pc = IF Len(sender[s].got) + 1 < Replies(s) THEN "read" ELSE "put"]
       \/ (Fault("deadline") \/ (conn[c].sv = "closed" /\ conn[c].resp = <<>>)) /\ Discard(s)
    /\ UNCHANGED <<conf, client, server, runs>>

\* Put: closed is tested first, the list is locked afterwards.
Put(s) ==
    /\ sender[s].pc = "put"
    /\ sender' = [sender EXCEPT ![s].pc = IF client.closed THEN "done" ELSE "append", ![s].res = "ok"]
    /\ conn' = IF client.closed THEN CloseClientEnd({sender[s].c}) ELSE conn
    /\ UNCHANGED <<conf, client, server, runs>>

PutIdle(s) ==
    /\ sender[s].pc = "append"
    /\ sender' = [sender EXCEPT ![s].pc = "done"]
    /\ IF Len(client.idle) < MaxIdle
       THEN client' = [client EXCEPT !.idle = Append(@, sender[s].c)] /\ UNCHANGED conn
       ELSE conn' = CloseClientEnd({sender[s].c}) /\ UNCHANGED client
    /\ UNCHANGED <<conf, server, runs>>

\* Close: the flag, then the idle connections.
Close ==
    /\ \/ /\ conf.closes /\ ~client.closed
          /\ client' = [client EXCEPT !.closed = TRUE, !.closing = "idle"] /\ UNCHANGED conn
       \/ /\ client.closing = "idle"
          /\ conn' = CloseClientEnd(ToSet(client.idle))
          /\ client' = [client EXCEPT !.idle = <<>>, !.closing = "done"]
    /\ UNCHANGED <<conf, sender, server, runs>>

---------------------------------------------------------------------------
\* Server.
ServerCloses(c) == conn' = [conn EXCEPT ![c].sv = "closed", ![c].cur = <<>>]

\* acceptLoop: a connection is handed to the worker pool.
acceptLoop(c) ==
    /\ server.serve = "accepting" /\ server.listening /\ conn[c].sv = "backlog"
    /\ conn' = [conn EXCEPT ![c].sv = "task"]
    /\ UNCHANGED <<conf, client, sender, server, runs>>

\* serveConn starts on a worker: only then is the connection counted.
serveConn(c) ==
    /\ conn[c].sv = "task"
    /\ conn' = [conn EXCEPT ![c].sv = "serving"]
    /\ server' = [server EXCEPT !.active = @ + 1]
    /\ UNCHANGED <<conf, client, sender, runs>>

\* handleConn reads a frame and runs its handler.
handleConn(c) ==
    /\ conn[c].sv = "serving" /\ conn[c].cur = <<>> /\ conn[c].req # <<>>
    /\ conn' = [conn EXCEPT ![c].cur = Head(conn[c].req), ![c].req = Tail(@)]
    /\ LET q == Head(conn[c].req) IN runs' = [runs EXCEPT ![q[1]][q[2]] = @ + 1]
    /\ UNCHANGED <<conf, client, sender, server>>

\* The handler returned: a reply, no reply, or an error or panic that ends the
\* connection.
respond(c) ==
    LET q == conn[c].cur IN
    /\ conn[c].sv = "serving" /\ q # <<>>
    /\ \/ /\ conn' = [conn EXCEPT ![c].cur = <<>>,
                                  ![c].resp = IF Replies(q[1]) = 0 \/ conn[c].cl = "closed" THEN @ ELSE Append(@, q)]
          /\ UNCHANGED server
       \/ /\ Fault("panic") /\ ServerCloses(c)
          /\ server' = [server EXCEPT !.active = @ - 1]
    /\ UNCHANGED <<conf, client, sender, runs>>

\* The read returns an error: the peer closed, or the idle timeout passed.
ConnEnds(c) ==
    /\ conn[c].sv = "serving" /\ conn[c].cur = <<>> /\ conn[c].req = <<>>
    /\ conn[c].cl = "closed" \/ Fault("idle")
    /\ ServerCloses(c)
    /\ server' = [server EXCEPT !.active = @ - 1]
    /\ UNCHANGED <<conf, client, sender, runs>>

\* Shutdown(d): the flag, then the timeout and the listener.
Shutdown ==
    /\ \/ /\ conf.shutdown # "never" /\ ~server.shutdown
          /\ server' = [server EXCEPT !.shutdown = TRUE] /\ UNCHANGED conn
       \/ /\ server.shutdown /\ server.listening
          /\ server' = [server EXCEPT !.timeout = conf.shutdown, !.listening = FALSE]
          /\ conn' = [i \in Conns |-> IF conn[i].sv = "backlog" THEN [conn[i] EXCEPT !.sv = "closed"] ELSE conn[i]]
    /\ UNCHANGED <<conf, client, sender, runs>>

\* Serve: the loops have ended; with nothing active it returns, else awaitConnections.
Serve ==
    /\ server.shutdown /\ server.serve = "accepting"
    /\ server' = IF server.active = 0 \/ server.timeout = "none"
                 THEN [server EXCEPT !.serve = "returned", !.late = {c \in Conns : conn[c].sv = "task"}]
                 ELSE [server EXCEPT !.serve = server.timeout]
    /\ UNCHANGED <<conf, client, sender, conn, runs>>

awaitConnections ==
    /\ \/ server.serve = "forever" /\ server.active = 0
       \/ server.serve = "timer"
    /\ server' = [server EXCEPT !.serve = "returned", !.late = {c \in Conns : conn[c].sv = "task"}]
    /\ UNCHANGED <<conf, client, sender, conn, runs>>

---------------------------------------------------------------------------
TSystem ==
    \/ \E s \in Senders : Get(s) \/ Write(s) \/ Read(s) \/ Put(s) \/ PutIdle(s)
    \/ \E c \in Conns : acceptLoop(c) \/ serveConn(c) \/ handleConn(c) \/ respond(c) \/ ConnEnds(c)
    \/ Shutdown \/ Serve \/ awaitConnections \/ Close
TNext == TSystem
TSpec == TInit /\ [][TNext]_vars /\ WF_vars(TSystem)

---------------------------------------------------------------------------
\* Client: whatever deadlines, closes and panics happened on the pooled
\* connections, an exchange that succeeds has read the replies to its own
\* requests, in their order.
OwnReplies ==
    \A s \in Senders : sender[s].res = "ok" =>
        sender[s].got = [k \in 1..Replies(s) |-> <<s, k>>]

InUse(s) == sender[s].pc \in {"write", "read", "put", "append"}

\* A connection belongs to one exchange or to the pool, never to two; the pool
\* holds open connections and at most MaxIdle of them.
ConnectionsExclusive ==
    /\ Len(client.idle) <= MaxIdle
    /\ Cardinality(ToSet(client.idle)) = Len(client.idle)
    /\ \A c \in ToSet(client.idle) : conn[c].cl = "open"
    /\ \A s, t \in Senders : (InUse(s) /\ InUse(t) /\ sender[s].c = sender[t].c) => s = t
    /\ \A s \in Senders : InUse(s) => sender[s].c \notin ToSet(client.idle)

\* The transport never repeats a request: a handler runs at most once for it.
HandledAtMostOnce == \A s \in Senders : \A k \in 1..2 : runs[s][k] <= 1

\* Serve waits for the connections it counts: when it has returned after a
\* shutdown without a limit, a connection still served is one that had not
\* started when Serve looked.
ServeWaits ==
    (server.serve = "returned" /\ conf.shutdown = "forever") =>
        \A c \in Conns : conn[c].sv = "serving" => c \in server.late

\* The counter of active connections is the number of connections served.
ActiveExact == server.active = Cardinality({c \in Conns : conn[c].sv = "serving"})

\* Every sender finishes, and a server that was told to stop returns from Serve
\* once its clients have gone quiet, also when the accept loops ended between
\* the two assignments of Shutdown and Serve read a timeout not yet stored.
TransportEnded ==
    /\ \A s \in Senders : sender[s].pc = "done"
    /\ (conf.shutdown # "never" /\ Fault("idle")) => server.serve = "returned"
=============================================================================
