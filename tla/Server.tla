------------------------------- MODULE Server -------------------------------
(***************************************************************************)
(* The TCP server: Server (src/src/network/server.cpp) and the process     *)
(* around it (src/client/server_main.cpp): one accept thread, one thread   *)
(* per client, stop() from the signal handler and again from ~Server.      *)
(*                                                                         *)
(* A connection carries the requests of one client as a stream of parts    *)
(* (header, key, value) and the replies in the other direction; what a     *)
(* reply says is the engine's and the executor's business.  The two        *)
(* platforms of the code differ in the system calls: on POSIX close() does *)
(* not wake a thread that is inside accept(), a signal handler runs on a   *)
(* thread of the process, which stands still meanwhile, and a write to a   *)
(* connection the peer has reset may raise SIGPIPE, which ends the         *)
(* process; on Windows closesocket() wakes accept(), the handler runs on a *)
(* thread of its own, once, and send() fails.                              *)
(***************************************************************************)
EXTENDS Naturals, Sequences, FiniteSets

CONSTANTS
    Conn,         \* connections; each is used once
    Platforms,    \* the platforms considered
    MaxSignals,   \* bound: SIGINT or SIGTERM in a behaviour
    None

RequestKinds == {"put", "get", "delete", "scan", "sql", "unknown", "oversize"}

ASSUME ServerConstants ==
    /\ IsFiniteSet(Conn) /\ None \notin Conn /\ None \notin Nat
    /\ Platforms \subseteq {"posix", "windows"}
    /\ MaxSignals \in Nat

Stopper    == 0..MaxSignals      \* the calls of stop(): 0 is that of ~Server, n that of
Activation == Stopper \ {0}      \* signal_handler for the n-th signal

VARIABLES
    platform,
    proc,      \* the process: "up", "exited" (main returned) or "killed"
    mpc,       \* main()
    signals,   \* signals so far (bounded by MaxSignals)
    running,   \* running_
    listen,    \* listen_sock_ is valid
    acc,       \* accept_thread_: where accept_loop() is
    accepted,  \* the connection accept() returned
    spc,       \* where each call of stop() is
    host,      \* the thread it runs on: "main", "acceptor", a client's or "own" (Windows)
    mutex,     \* who holds threads_mutex_ over a wait
    threads,   \* client_threads_
    hpc,       \* handle_client(), one thread per connection
    req,       \* the request it handles
    sock,      \* the server's end of a connection
    peer,      \* the client's end
    up, down,  \* parts and replies on their way
    executed   \* history: requests of a connection that were executed

main    == <<proc, mpc, signals>>
control == <<running, listen, acc, accepted, spc, host, mutex, threads>>
handler == <<hpc, req, executed>>
network == <<sock, peer, up, down>>
svars   == <<platform, main, control, handler, network>>

ServerInit ==
    /\ platform \in Platforms
    /\ proc = "up" /\ mpc = "start" /\ signals = 0
    /\ running = FALSE /\ listen = FALSE
    /\ acc = "none" /\ accepted = None
    /\ spc = [x \in Stopper |-> "idle"] /\ host = [x \in Stopper |-> "main"]
    /\ mutex = None /\ threads = {}
    /\ hpc = [c \in Conn |-> "none"]
    /\ req = [c \in Conn |-> None]
    /\ sock = [c \in Conn |-> "none"]
    /\ peer = [c \in Conn |-> "new"]
    /\ up = [c \in Conn |-> <<>>]
    /\ down = [c \in Conn |-> <<>>]
    /\ executed = [c \in Conn |-> <<>>]

-----------------------------------------------------------------------------
(* Sockets.                                                                *)

\* The listening socket lives until it is closed and no thread is inside accept() on it.
Listening == proc = "up" /\ (listen \/ (platform = "posix" /\ acc = "accept"))

\* Closing a socket with unread data resets the connection, otherwise the peer reads its end.
Closed(c) == IF up[c] = <<>> THEN "closed" ELSE "reset"

\* Connections that were never accepted are reset with the listening socket.
ResetBacklog(s) == [c \in Conn |-> IF s[c] = "backlog" THEN "reset" ELSE s[c]]

\* The system closes every socket of a process that ends.
CloseAll(s) == ResetBacklog([c \in Conn |-> IF s[c] = "open" THEN Closed(c) ELSE s[c]])

\* connect() of a client: refused unless somebody listens.
Connect(c) ==
    /\ peer[c] = "new"
    /\ IF Listening
       THEN peer' = [peer EXCEPT ![c] = "open"] /\ sock' = [sock EXCEPT ![c] = "backlog"]
       ELSE peer' = [peer EXCEPT ![c] = "closed"] /\ sock' = [sock EXCEPT ![c] = "reset"]

\* The parts of a request: a header and, where the sizes in it are not zero, key and value.
Parts(k) ==
    CASE k \in {"put", "scan", "unknown"} -> <<"header", "key", "value">>
      [] k \in {"get", "delete", "sql"} -> <<"header", "key">>
      [] k = "oversize" -> <<"header", "key">>

Frame(k, id) == [i \in DOMAIN Parts(k) |-> [part |-> Parts(k)[i], kind |-> k, id |-> id]]

-----------------------------------------------------------------------------
(* main() and the signal handler.                                          *)

Active(x) == spc[x] \notin {"idle", "done"}

\* A thread stands still while a handler runs on it, and so does a handler that another
\* signal has interrupted.
Paused(t)    == \E x \in Activation : host[x] = t /\ Active(x)
Preempted(x) == \E y \in Activation : y > x /\ host[y] = host[x] /\ Active(y)

MainAt(label) == proc = "up" /\ mpc = label /\ ~Paused("main")

\* Server::start up to listen(), which fails if the port is taken.
Listen ==
    /\ MainAt("start")
    /\ \/ listen' = TRUE /\ mpc' = "launch"
       \/ mpc' = "poll" /\ UNCHANGED listen
    /\ UNCHANGED <<platform, proc, signals, running, acc, accepted, spc, host, mutex, threads, handler, network>>

\* The rest of start().
Launch ==
    /\ MainAt("launch")
    /\ running' = TRUE
    /\ acc' = "loop"
    /\ mpc' = "poll"
    /\ UNCHANGED <<platform, proc, signals, listen, accepted, spc, host, mutex, threads, handler, network>>

\* main() sees is_running() false within 100 ms and leaves the scope of the server.
Poll ==
    /\ MainAt("poll")
    /\ ~running
    /\ mpc' = "destroy"
    /\ spc' = [spc EXCEPT ![0] = "stop"]
    /\ UNCHANGED <<platform, proc, signals, running, listen, acc, accepted, host, mutex, threads, handler, network>>

\* The threads a signal may be delivered to: on POSIX main(), or another one while a handler
\* of the same signal runs on main().
Hosts ==
    IF platform = "windows" THEN {"own"}
    ELSE {"main"} \cup (IF Paused("main")
                        THEN {c \in Conn : hpc[c] \notin {"none", "done"}}
                             \cup (IF acc \in {"none", "done", "joined"} THEN {} ELSE {"acceptor"})
                        ELSE {})

\* SIGINT or SIGTERM.  main() clears g_server before it destroys the server; on Windows the
\* first signal puts the default action back, and the next one ends the process.
Signal ==
    /\ proc = "up" /\ signals < MaxSignals
    /\ signals' = signals + 1
    /\ \/ /\ platform = "windows" /\ signals > 0
          /\ proc' = "killed" /\ sock' = CloseAll(sock)
          /\ UNCHANGED <<spc, host>>
       \/ /\ platform = "windows" => signals = 0
          /\ mpc = "destroy"
          /\ UNCHANGED <<proc, sock, spc, host>>
       \/ /\ platform = "windows" => signals = 0
          /\ mpc # "destroy"
          /\ spc' = [spc EXCEPT ![signals'] = "stop"]
          /\ \E t \in Hosts : host' = [host EXCEPT ![signals'] = t]
          /\ UNCHANGED <<proc, sock>>
    /\ UNCHANGED <<platform, mpc, running, listen, acc, accepted, mutex, threads, handler, peer, up, down>>

-----------------------------------------------------------------------------
(* Server::stop.                                                           *)

StopAt(x, label) == proc = "up" /\ spc[x] = label /\ ~Preempted(x)

StopGoTo(x, label) == spc' = [spc EXCEPT ![x] = label]

StopClose(x) ==
    /\ StopAt(x, "stop")
    /\ running' = FALSE
    /\ listen' = FALSE
    /\ sock' = IF platform = "posix" /\ acc = "accept" THEN sock ELSE ResetBacklog(sock)
    /\ StopGoTo(x, "join_acceptor")
    /\ UNCHANGED <<platform, main, acc, accepted, host, mutex, threads, handler, peer, up, down>>

\* Mutant: the accept thread is left to itself.
StopJoinAcceptorSkipped(x) ==
    /\ StopAt(x, "join_acceptor")
    /\ StopGoTo(x, "lock")
    /\ UNCHANGED <<platform, main, running, listen, acc, accepted, host, mutex, threads, handler, network>>

\* Mutant: threads_mutex_ is taken before the accept thread is joined.
StopJoinAcceptorLocked(x) ==
    /\ StopAt(x, "join_acceptor")
    /\ mutex = None
    /\ mutex' = IF acc \notin {"none", "joined"} THEN x ELSE None
    /\ StopGoTo(x, IF acc \notin {"none", "joined"} THEN "joining" ELSE "lock")
    /\ UNCHANGED <<platform, main, running, listen, acc, accepted, host, threads, handler, network>>

StopJoinAcceptor(x) ==
    /\ StopAt(x, "join_acceptor")
    /\ StopGoTo(x, IF acc \notin {"none", "joined"} THEN "joining" ELSE "lock")
    /\ UNCHANGED <<platform, main, running, listen, acc, accepted, host, mutex, threads, handler, network>>

\* accept_thread_.join(); it throws, which ends the process, if the accept thread joins
\* itself or another call of stop() is joining it, and is undefined if one has joined it.
StopJoined(x) ==
    /\ StopAt(x, "joining")
    /\ \/ /\ acc \in {"done", "joined"}
          /\ acc' = "joined"
          /\ StopGoTo(x, "lock")
          /\ UNCHANGED <<proc, sock>>
       \/ /\ acc = "joined" \/ host[x] = "acceptor" \/ \E y \in Stopper \ {x} : spc[y] = "joining"
          /\ proc' = "killed"
          /\ sock' = CloseAll(sock)
          /\ UNCHANGED <<acc, spc>>
    /\ UNCHANGED <<platform, mpc, signals, running, listen, accepted, host, mutex, threads, handler, peer, up, down>>

\* threads_mutex_, for which a call of stop() waits that has interrupted its owner.
StopLock(x) ==
    /\ StopAt(x, "lock")
    /\ mutex \in {None, x}
    /\ mutex' = x
    /\ StopGoTo(x, "join_clients")
    /\ UNCHANGED <<platform, main, running, listen, acc, accepted, host, threads, handler, network>>

\* Every client thread has been joined, or one tries to join itself and throws; after ~Server
\* the engine is destroyed and main() returns.
StopReturn(x) ==
    /\ StopAt(x, "join_clients")
    /\ \/ /\ \A c \in threads : hpc[c] = "done"
          /\ threads' = {}
          /\ mutex' = None
          /\ StopGoTo(x, "done")
          /\ IF x = 0
             THEN proc' = "exited" /\ sock' = CloseAll(sock)
             ELSE UNCHANGED <<proc, sock>>
       \/ /\ host[x] \in threads
          /\ proc' = "killed" /\ sock' = CloseAll(sock)
          /\ UNCHANGED <<threads, mutex, spc>>
    /\ UNCHANGED <<platform, mpc, signals, running, listen, acc, accepted, host, handler, peer, up, down>>

-----------------------------------------------------------------------------
(* Server::accept_loop.                                                    *)

AcceptorAt(label) == proc = "up" /\ acc = label /\ ~Paused("acceptor")

AcceptLoop ==
    /\ AcceptorAt("loop")
    /\ acc' = IF ~running THEN "done" ELSE IF listen THEN "accept" ELSE "failed"
    /\ UNCHANGED <<platform, main, running, listen, accepted, spc, host, mutex, threads, handler, network>>

Accept(c) ==
    /\ AcceptorAt("accept") /\ Listening
    /\ sock[c] = "backlog"
    /\ LET s == [sock EXCEPT ![c] = "open"] IN sock' = IF listen THEN s ELSE ResetBacklog(s)
    /\ accepted' = c
    /\ acc' = "spawn"
    /\ UNCHANGED <<platform, main, running, listen, spc, host, mutex, threads, handler, peer, up, down>>

\* accept() on a closed socket.
AcceptFails ==
    /\ AcceptorAt("failed") \/ (AcceptorAt("accept") /\ ~Listening)
    /\ acc' = IF running THEN "loop" ELSE "done"
    /\ UNCHANGED <<platform, main, running, listen, accepted, spc, host, mutex, threads, handler, network>>

Spawn ==
    /\ AcceptorAt("spawn")
    /\ mutex = None
    /\ threads' = threads \cup {accepted}
    /\ hpc' = [hpc EXCEPT ![accepted] = "loop"]
    /\ accepted' = None
    /\ acc' = "loop"
    /\ UNCHANGED <<platform, main, running, listen, spc, host, mutex, req, executed, network>>

-----------------------------------------------------------------------------
(* Server::handle_client.                                                  *)

HandlerAt(c, label) == proc = "up" /\ hpc[c] = label /\ ~Paused(c)

HandlerGoTo(c, label) == hpc' = [hpc EXCEPT ![c] = label]

\* break, and close_socket() behind the loop.
Leave(c) ==
    /\ hpc' = [hpc EXCEPT ![c] = "done"]
    /\ req' = [req EXCEPT ![c] = None]
    /\ sock' = [sock EXCEPT ![c] = Closed(c)]

HandlerLoop(c) ==
    /\ HandlerAt(c, "loop")
    /\ IF running THEN HandlerGoTo(c, "recv") /\ UNCHANGED <<req, sock>> ELSE Leave(c)
    /\ UNCHANGED <<platform, main, control, peer, up, down, executed>>

\* Mutant: the body of an unknown request is not read.
AsHeaderUndrained(p) ==
    IF p.part = "header" /\ p.kind # "unknown"
    THEN [kind |-> p.kind, id |-> p.id, parts |-> Len(Parts(p.kind))]
    ELSE [kind |-> "unknown", id |-> p.id, parts |-> 1]

\* What the handler makes of the next nine bytes, a header or not: how many parts follow.
AsHeader(p) ==
    IF p.part = "header" THEN [kind |-> p.kind, id |-> p.id, parts |-> Len(Parts(p.kind))]
    ELSE [kind |-> "unknown", id |-> 0, parts |-> 1]

\* recv_all() of header, key and value got no byte or an error: the peer has gone.
RecvFails(c) ==
    /\ HandlerAt(c, "recv") /\ peer[c] = "closed"
    /\ up[c] # <<>> => Len(up[c]) < AsHeader(Head(up[c])).parts
    /\ up' = [up EXCEPT ![c] = <<>>]
    /\ hpc' = [hpc EXCEPT ![c] = "done"]
    /\ sock' = [sock EXCEPT ![c] = "closed"]
    /\ UNCHANGED <<platform, main, control, peer, down, req, executed>>

\* A header that announces too much: break, with the rest unread and no answer.
RecvOversize(c) ==
    /\ HandlerAt(c, "recv") /\ up[c] # <<>>
    /\ AsHeader(Head(up[c])).kind = "oversize"
    /\ up' = [up EXCEPT ![c] = Tail(@)]
    /\ hpc' = [hpc EXCEPT ![c] = "done"]
    /\ sock' = [sock EXCEPT ![c] = IF Len(up[c]) = 1 THEN "closed" ELSE "reset"]
    /\ UNCHANGED <<platform, main, control, peer, down, req, executed>>

\* Mutant: one part too many is waited for.
RecvOneMore(c) ==
    /\ HandlerAt(c, "recv") /\ up[c] # <<>>
    /\ LET h == AsHeader(Head(up[c])) IN
         /\ h.kind # "oversize" /\ Len(up[c]) > h.parts
         /\ req' = [req EXCEPT ![c] = [kind |-> h.kind, id |-> h.id]]
         /\ up' = [up EXCEPT ![c] = SubSeq(@, h.parts + 2, Len(@))]
    /\ HandlerGoTo(c, "execute")
    /\ UNCHANGED <<platform, main, control, sock, peer, down, executed>>

\* The header, and as much behind it as it announces.
Recv(c) ==
    /\ HandlerAt(c, "recv") /\ up[c] # <<>>
    /\ LET h == AsHeader(Head(up[c])) IN
         /\ h.kind # "oversize" /\ Len(up[c]) >= h.parts
         /\ req' = [req EXCEPT ![c] = [kind |-> h.kind, id |-> h.id]]
         /\ up' = [up EXCEPT ![c] = SubSeq(@, h.parts + 1, Len(@))]
    /\ HandlerGoTo(c, "execute")
    /\ UNCHANGED <<platform, main, control, sock, peer, down, executed>>

\* The switch; an unknown type executes nothing and is answered with an error.
Execute(c) ==
    /\ HandlerAt(c, "execute")
    /\ executed' = IF req[c].kind = "unknown" THEN executed
                   ELSE [executed EXCEPT ![c] = Append(@, req[c].id)]
    /\ HandlerGoTo(c, "send")
    /\ UNCHANGED <<platform, main, control, req, network>>

\* Replies that may have something behind their header: a second send().
HasPayload(r) == r.kind \in {"get", "scan", "sql"}

\* Mutant: an answer is sent again if the client has not taken it yet.
SendTwice(c) ==
    /\ HandlerAt(c, "send")
    /\ down' = IF peer[c] = "closed" THEN down ELSE [down EXCEPT ![c] = Append(@, req[c].id)]
    /\ IF down[c] = <<>> /\ peer[c] # "closed"
       THEN UNCHANGED <<hpc, req>>
       ELSE HandlerGoTo(c, "loop") /\ req' = [req EXCEPT ![c] = None]
    /\ UNCHANGED <<platform, main, control, sock, peer, up, executed>>

Replied(c) ==
    /\ HandlerGoTo(c, "loop")
    /\ req' = [req EXCEPT ![c] = None]
    /\ UNCHANGED <<proc, sock>>

\* send() meets the reset of a client that has left: break, or SIGPIPE.
Broken(c) ==
    \/ Leave(c) /\ UNCHANGED proc
    \/ platform = "posix" /\ proc' = "killed" /\ sock' = CloseAll(sock) /\ UNCHANGED <<hpc, req>>

\* Header and payload.  If the client has left, the system takes the header and the bytes are
\* lost; the second send() may meet the reset that the first one provoked.  If the client does
\* not read, send_all() may wait with a part of the payload unsent.
Send(c) ==
    /\ HandlerAt(c, "send")
    /\ \/ /\ Replied(c)
          /\ down' = IF peer[c] = "closed" THEN down ELSE [down EXCEPT ![c] = Append(@, req[c].id)]
       \/ /\ peer[c] = "closed" /\ HasPayload(req[c])
          /\ Broken(c) /\ UNCHANGED down
       \/ /\ peer[c] # "closed" /\ HasPayload(req[c])
          /\ HandlerGoTo(c, "blocked") /\ UNCHANGED <<proc, req, sock, down>>
    /\ UNCHANGED <<platform, mpc, signals, control, peer, up, executed>>

\* The client has left instead of reading.
SendBroken(c) ==
    /\ HandlerAt(c, "blocked") /\ peer[c] = "closed"
    /\ Broken(c)
    /\ UNCHANGED <<platform, mpc, signals, control, peer, up, down, executed>>

\* The client reads, and the rest of the payload goes out.
SendRest(c) ==
    /\ HandlerAt(c, "blocked") /\ peer[c] # "closed"
    /\ Replied(c)
    /\ down' = [down EXCEPT ![c] = Append(@, req[c].id)]
    /\ UNCHANGED <<platform, mpc, signals, control, peer, up, executed>>

-----------------------------------------------------------------------------
Stop(x) ==
    \/ StopClose(x) \/ StopJoinAcceptor(x) \/ StopJoined(x) \/ StopLock(x) \/ StopReturn(x)

Acceptor == AcceptLoop \/ (\E c \in Conn : Accept(c)) \/ AcceptFails \/ Spawn

Handle(c) ==
    \/ HandlerLoop(c) \/ RecvFails(c) \/ RecvOversize(c) \/ Recv(c) \/ Execute(c) \/ Send(c) \/ SendBroken(c)

Main == Listen \/ Launch \/ Poll

ServerStep ==
    \/ Main \/ Signal \/ Acceptor
    \/ \E x \in Stopper : Stop(x)
    \/ \E c \in Conn : Handle(c) \/ SendRest(c)
=============================================================================
