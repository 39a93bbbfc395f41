-------------------------- MODULE HttpProxyProofs ---------------------------
(***************************************************************************)
(* The server, its proxy and its clients, for any number of connections,   *)
(* signals and requests, on both platforms: the engine outlives every      *)
(* thread that uses it, replies answer the requests in order, and a proxy  *)
(* that reports a result has it from a statement that was executed.        *)
(***************************************************************************)
EXTENDS HttpProxy, TLAPS

-----------------------------------------------------------------------------
(* Requests as parts, sockets as states.                                   *)

LEMMA PartsType ==
    ASSUME NEW k \in RequestKinds
    PROVE  Parts(k) \in Seq({"header", "key", "value"}) /\ Len(Parts(k)) \in {2, 3} /\ Parts(k)[1] = "header"
<1>1. CASE k \in {"put", "scan", "unknown"}
  <2>1. Parts(k) = <<"header", "key", "value">>
    BY <1>1 DEF Parts
  <2> QED
    BY <2>1
<1>2. CASE k \in {"get", "delete", "sql", "oversize"}
  <2>1. Parts(k) = <<"header", "key">>
    BY <1>2 DEF Parts
  <2> QED
    BY <2>1
<1> QED
  BY <1>1, <1>2 DEF RequestKinds

\* A frame is one whole request.
LEMMA FrameWhole ==
    ASSUME NEW k \in RequestKinds, NEW id \in Nat
    PROVE  /\ Frame(k, id) \in Seq(Part) /\ Whole(Frame(k, id)) /\ Len(Frame(k, id)) \in {2, 3}
           /\ Head(Frame(k, id)) = [part |-> "header", kind |-> k, id |-> id]
           /\ Head(Frame(k, id)) \in Part
<1> DEFINE p == Parts(k)
           f == Frame(k, id)
<1>1. p \in Seq({"header", "key", "value"}) /\ Len(p) \in {2, 3} /\ p[1] = "header" /\ DOMAIN p = 1..Len(p)
  BY PartsType
<1> HIDE DEF p
<1>2. f = [i \in 1..Len(p) |-> [part |-> p[i], kind |-> k, id |-> id]]
  BY <1>1 DEF Frame, p
<1>3. \A i \in 1..Len(p) : [part |-> p[i], kind |-> k, id |-> id] \in Part
  BY <1>1 DEF Part
<1> HIDE DEF f
<1>4. f \in Seq(Part) /\ Len(f) = Len(p)
  BY <1>1, <1>2, <1>3
<1>5. f[1] = [part |-> "header", kind |-> k, id |-> id] /\ f # <<>>
  BY <1>1, <1>2, <1>4
<1>6. Head(f) = f[1]
  BY <1>4, <1>5
<1>7. f[1] \in Part
  BY <1>1, <1>3, <1>5
<1>8. f[1].kind = k /\ f[1].part = "header"
  BY <1>5
<1>9. Whole(f)
  BY <1>4, <1>5, <1>6, <1>8 DEF Whole, p
<1> QED
  BY <1>1, <1>4, <1>5, <1>6, <1>7, <1>9 DEF f

\* One more identifier at the end of a sequence.
LEMMA AppendFacts ==
    ASSUME NEW s \in Seq(Nat), NEW n \in Nat
    PROVE  /\ Append(s, n) \in Seq(Nat) /\ Append(s, n) # <<>> /\ Len(Append(s, n)) = Len(s) + 1
           /\ DOMAIN s = 1..Len(s) /\ DOMAIN Append(s, n) = 1..(Len(s) + 1)
           /\ \A i \in 1..Len(s) : Append(s, n)[i] = s[i]
           /\ Append(s, n)[Len(s) + 1] = n
OBVIOUS

SockState == {"none", "backlog", "open", "closed", "reset"}

\* What happens to the sockets when a listening socket or a process goes.
LEMMA SocketsClose ==
    ASSUME sock \in [Conn -> SockState], NEW s \in [Conn -> SockState]
    PROVE  /\ ResetBacklog(s) \in [Conn -> SockState]
           /\ CloseAll(s) \in [Conn -> SockState]
           /\ \A c \in Conn : ResetBacklog(s)[c] = IF s[c] = "backlog" THEN "reset" ELSE s[c]
           /\ \A c \in Conn : /\ s[c] \in {"backlog", "open"} => CloseAll(s)[c] \in {"closed", "reset"}
                              /\ s[c] \notin {"backlog", "open"} => CloseAll(s)[c] = s[c]
BY DEF ResetBacklog, CloseAll, Closed, SockState

LEMMA SocketsEnd ==
    ASSUME sock \in [Conn -> SockState], NEW s \in [Conn -> SockState],
           NEW r, r = s \/ r = ResetBacklog(s) \/ r = CloseAll(s)
    PROVE  /\ r \in [Conn -> SockState]
           /\ \A c \in Conn : r[c] = s[c] \/ (s[c] \in {"backlog", "open"} /\ r[c] \in {"closed", "reset"})
<1>1. CASE r = s
  BY <1>1
<1>2. CASE r = ResetBacklog(s)
  BY <1>2, SocketsClose
<1>3. CASE r = CloseAll(s)
  BY <1>3, SocketsClose
<1> QED
  BY <1>1, <1>2, <1>3

-----------------------------------------------------------------------------
(* The threads of the server and its end.                                  *)

StopLabel == {"idle", "stop", "join_acceptor", "joining", "lock", "join_clients", "done"}

Host == {"main", "acceptor", "own"} \cup Conn

ControlType ==
    /\ platform \in Platforms
    /\ proc \in {"up", "exited", "killed"}
    /\ mpc \in {"start", "launch", "poll", "destroy"}
    /\ signals \in 0..MaxSignals
    /\ running \in BOOLEAN /\ listen \in BOOLEAN
    /\ acc \in {"none", "loop", "accept", "failed", "spawn", "done", "joined"}
    /\ accepted \in Conn \cup {None}
    /\ spc \in [Stopper -> StopLabel]
    /\ host \in [Stopper -> Host]
    /\ mutex \in Stopper \cup {None}
    /\ threads \subseteq Conn

HandlerLabel == {"none", "loop", "recv", "execute", "send", "blocked", "done"}

\* ~Server and the handlers of all signals call stop().
LEMMA Stoppers ==
    ASSUME signals \in 0..MaxSignals
    PROVE  /\ 0 \in Stopper /\ None \notin Stopper
           /\ signals < MaxSignals => signals + 1 \in 0..MaxSignals /\ signals + 1 \in Stopper /\ signals + 1 # 0
BY ServerConstants DEF Stopper

\* A step that leaves alone what the shutdown depends on, and at most kills the process.
LEMMA ShutdownKept ==
    ASSUME ShutdownInv, UNCHANGED <<mpc, acc, accepted, threads, hpc>>, spc'[0] = spc[0],
           proc' \in {proc, "killed"}
    PROVE  ShutdownInv'
BY DEF ShutdownInv, EngineOutlivesThreads

LEMMA MainStep ==
    ASSUME TypeOK, ShutdownInv, Main
    PROVE  ControlType' /\ ShutdownInv'
<1>a. ControlType /\ 0 \in Stopper
  BY Stoppers DEF TypeOK, ControlType, StopLabel, Host
<1>b. UNCHANGED <<platform, proc, signals, accepted, host, mutex, threads, hpc>> /\ proc = "up"
  BY DEF Main, Listen, Launch, Poll, MainAt, handler
<1>1. CASE Listen
  BY <1>1, <1>a, <1>b DEF Listen, MainAt, ControlType, ShutdownInv, EngineOutlivesThreads
<1>2. CASE Launch
  BY <1>2, <1>a, <1>b DEF Launch, MainAt, ControlType, ShutdownInv, EngineOutlivesThreads
<1>3. CASE Poll
  <2>1. spc' \in [Stopper -> StopLabel] /\ spc'[0] = "stop"
    BY <1>3, <1>a DEF Poll, ControlType, StopLabel
  <2> QED
    BY <1>3, <1>a, <1>b, <2>1 DEF Poll, ControlType, ShutdownInv, EngineOutlivesThreads
<1> QED
  BY <1>1, <1>2, <1>3 DEF Main

\* A signal kills the process, is ignored or starts a call of stop() other than that of ~Server.
LEMMA SignalStep ==
    ASSUME TypeOK, ShutdownInv, Signal
    PROVE  ControlType' /\ ShutdownInv'
<1>a. ControlType
  BY DEF TypeOK, ControlType, StopLabel, Host
<1>b. /\ UNCHANGED <<platform, mpc, running, listen, acc, accepted, mutex, threads, hpc>>
      /\ signals' = signals + 1 /\ signals < MaxSignals
  BY DEF Signal, handler
<1>c. 0 \in Stopper /\ signals' \in 0..MaxSignals /\ signals' \in Stopper /\ signals' # 0
  BY <1>a, <1>b, Stoppers DEF ControlType
<1>1. CASE proc' \in {proc, "killed"} /\ UNCHANGED <<spc, host>>
  <2>1. ShutdownInv'
    BY <1>1, <1>b, ShutdownKept
  <2> QED
    BY <1>1, <1>a, <1>b, <1>c, <2>1 DEF ControlType
<1>2. CASE /\ spc' = [spc EXCEPT ![signals'] = "stop"] /\ UNCHANGED proc
           /\ \E t \in Hosts : host' = [host EXCEPT ![signals'] = t]
  <2>1. Hosts \subseteq Host
    BY DEF Hosts, Host
  <2>2. host' \in [Stopper -> Host]
    BY <1>2, <1>a, <2>1 DEF ControlType
  <2>3. spc' \in [Stopper -> StopLabel] /\ spc'[0] = spc[0]
    BY <1>2, <1>a, <1>c DEF ControlType, StopLabel
  <2>4. ShutdownInv'
    BY <1>2, <1>b, <2>3, ShutdownKept
  <2> QED
    BY <1>2, <1>a, <1>b, <1>c, <2>2, <2>3, <2>4 DEF ControlType
<1> QED
  BY <1>1, <1>2 DEF Signal

\* stop(), by a handler or by ~Server: the acceptor is joined first, then the clients.
LEMMA StopStep ==
    ASSUME TypeOK, ShutdownInv, NEW x \in Stopper, Stop(x)
    PROVE  ControlType' /\ ShutdownInv'
<1>a. ControlType
  BY DEF TypeOK, ControlType, StopLabel, Host
<1>b. UNCHANGED <<platform, mpc, signals, accepted, host, hpc>> /\ proc = "up"
  BY DEF Stop, StopClose, StopJoinAcceptor, StopJoined, StopLock, StopReturn, StopAt, main, handler
<1>s. 0 \in Stopper
  BY <1>a, Stoppers DEF ControlType
<1>c. ASSUME NEW l \in {"join_acceptor", "joining", "lock", "join_clients", "done"}, StopGoTo(x, l)
      PROVE  spc' \in [Stopper -> StopLabel] /\ spc'[x] = l /\ (x # 0 => spc'[0] = spc[0])
  <2>1. l \in StopLabel
    BY DEF StopLabel
  <2> QED
    BY <1>a, <1>c, <1>s, <2>1 DEF StopGoTo, ControlType
<1>1. CASE StopClose(x)
  BY <1>1, <1>a, <1>b, <1>c DEF StopClose, StopAt, main, ControlType, ShutdownInv, EngineOutlivesThreads
<1>2. CASE StopJoinAcceptor(x)
  <2>1. CASE acc \notin {"none", "joined"} /\ StopGoTo(x, "joining")
    BY <1>2, <1>a, <1>b, <1>c, <2>1 DEF StopJoinAcceptor, StopAt, main, ControlType, ShutdownInv, EngineOutlivesThreads
  <2>2. CASE acc \in {"none", "joined"} /\ StopGoTo(x, "lock")
    BY <1>2, <1>a, <1>b, <1>c, <2>2 DEF StopJoinAcceptor, StopAt, main, ControlType, ShutdownInv, EngineOutlivesThreads
  <2> QED
    BY <1>2, <2>1, <2>2 DEF StopJoinAcceptor
<1>3. CASE StopJoined(x)
  <2>1. CASE acc' = "joined" /\ StopGoTo(x, "lock") /\ UNCHANGED proc
    BY <1>3, <1>a, <1>b, <1>c, <2>1 DEF StopJoined, StopAt, ControlType, ShutdownInv, EngineOutlivesThreads
  <2>2. CASE proc' = "killed" /\ UNCHANGED <<acc, spc>>
    BY <1>3, <1>a, <1>b, <2>2 DEF StopJoined, ControlType, ShutdownInv, EngineOutlivesThreads
  <2> QED
    BY <1>3, <2>1, <2>2 DEF StopJoined
<1>4. CASE StopLock(x)
  BY <1>4, <1>a, <1>b, <1>c DEF StopLock, StopAt, main, ControlType, ShutdownInv, EngineOutlivesThreads
<1>5. CASE StopReturn(x)
  <2>0. UNCHANGED <<running, listen, acc>> /\ spc[x] = "join_clients"
    BY <1>5 DEF StopReturn, StopAt
  <2>1. CASE /\ \A c \in threads : hpc[c] = "done"
             /\ StopGoTo(x, "done") /\ threads' = {} /\ mutex' = None
             /\ proc' = IF x = 0 THEN "exited" ELSE proc
    <3>1. \A c \in Conn : hpc[c] \in {"none", "done"}
      BY <2>1 DEF ShutdownInv
    <3>2. x = 0 => acc \in {"none", "joined"}
      BY <2>0 DEF ShutdownInv
    <3>3. spc' \in [Stopper -> StopLabel] /\ spc'[x] = "done" /\ (x # 0 => spc'[0] = spc[0])
      BY <1>c, <2>1
    <3>4. ControlType'
      BY <1>a, <1>b, <2>0, <2>1, <3>3 DEF ControlType
    <3> QED
      BY <1>a, <1>b, <2>0, <2>1, <3>1, <3>2, <3>3, <3>4 DEF ShutdownInv, EngineOutlivesThreads
  <2>2. CASE proc' = "killed" /\ UNCHANGED <<threads, mutex, spc>>
    <3>1. ShutdownInv'
      BY <1>b, <2>0, <2>2, ShutdownKept
    <3> QED
      BY <1>a, <1>b, <2>0, <2>2, <3>1 DEF ControlType
  <2> QED
    BY <1>5, <2>1, <2>2 DEF StopReturn
<1> QED
  BY <1>1, <1>2, <1>3, <1>4, <1>5 DEF Stop

\* accept_loop(): the only place where client threads come from.
LEMMA AcceptorStep ==
    ASSUME TypeOK, ShutdownInv, Acceptor
    PROVE  ControlType' /\ ShutdownInv'
<1>a. ControlType /\ hpc \in [Conn -> HandlerLabel]
  BY DEF TypeOK, ControlType, HandlerLabel, StopLabel, Host
<1>b. UNCHANGED <<platform, main, running, listen, spc, host, mutex>> /\ proc = "up"
  BY DEF Acceptor, AcceptLoop, Accept, AcceptFails, Spawn, AcceptorAt
<1>1. CASE AcceptLoop
  BY <1>1, <1>a, <1>b DEF AcceptLoop, AcceptorAt, main, handler, ControlType, ShutdownInv, EngineOutlivesThreads
<1>2. CASE \E c \in Conn : Accept(c)
  BY <1>2, <1>a, <1>b DEF Accept, AcceptorAt, main, handler, ControlType, ShutdownInv, EngineOutlivesThreads
<1>3. CASE AcceptFails
  BY <1>3, <1>a, <1>b DEF AcceptFails, AcceptorAt, main, handler, ControlType, ShutdownInv, EngineOutlivesThreads
<1>4. CASE Spawn
  <2>1. accepted \in Conn /\ acc = "spawn" /\ acc' = "loop" /\ accepted' = None /\ threads' = threads \cup {accepted}
    BY <1>4 DEF Spawn, AcceptorAt, ShutdownInv
  <2>2. \A c \in Conn : c # accepted => hpc'[c] = hpc[c]
    BY <1>4, <1>a DEF Spawn
  <2> QED
    BY <1>a, <1>b, <2>1, <2>2 DEF main, ControlType, ShutdownInv, EngineOutlivesThreads
<1> QED
  BY <1>1, <1>2, <1>3, <1>4 DEF Acceptor

\* handle_client() moves within its own thread, and ends at most the process.
LEMMA HandlerOfOne ==
    ASSUME TypeOK, NEW c \in Conn, Handle(c) \/ SendRest(c)
    PROVE  /\ UNCHANGED <<platform, mpc, signals, control>> /\ proc = "up" /\ proc' \in {"up", "killed"}
           /\ hpc[c] \notin {"none", "done"} /\ \A d \in Conn : d # c => hpc'[d] = hpc[d]
<1>a. hpc \in [Conn -> HandlerLabel]
  BY DEF TypeOK, HandlerLabel
<1>b. ASSUME NEW l, hpc' = [hpc EXCEPT ![c] = l] PROVE \A d \in Conn : d # c => hpc'[d] = hpc[d]
  BY <1>a, <1>b
<1>1. CASE HandlerLoop(c)
  BY <1>1, <1>b DEF HandlerLoop, HandlerAt, HandlerGoTo, Leave, main
<1>2. CASE RecvFails(c) \/ RecvOversize(c)
  BY <1>2, <1>b DEF RecvFails, RecvOversize, HandlerAt, main
<1>3. CASE Recv(c) \/ Execute(c)
  BY <1>3, <1>b DEF Recv, Execute, HandlerAt, HandlerGoTo, main
<1>4. CASE Send(c) \/ SendBroken(c) \/ SendRest(c)
  <2>1. proc = "up" /\ hpc[c] \in {"send", "blocked"} /\ UNCHANGED <<platform, mpc, signals, control>>
    BY <1>4 DEF Send, SendBroken, SendRest, HandlerAt
  <2>2. proc' \in {"up", "killed"} /\ \E l : hpc' = [hpc EXCEPT ![c] = l] \/ hpc' = hpc
    BY <1>4, <2>1 DEF Send, SendBroken, SendRest, Replied, Broken, HandlerGoTo, Leave
  <2> QED
    BY <1>b, <2>1, <2>2
<1> QED
  BY <1>1, <1>2, <1>3, <1>4 DEF Handle

LEMMA HandlerShutdown ==
    ASSUME TypeOK, ShutdownInv, NEW c \in Conn, Handle(c) \/ SendRest(c)
    PROVE  ControlType' /\ ShutdownInv'
<1>a. ControlType
  BY DEF TypeOK, ControlType, StopLabel, Host
<1>1. /\ UNCHANGED <<platform, mpc, signals, running, listen, acc, accepted, spc, host, mutex, threads>>
      /\ proc' \in {"up", "killed"}
      /\ hpc[c] \notin {"none", "done"} /\ \A d \in Conn : d # c => hpc'[d] = hpc[d]
  BY HandlerOfOne DEF control
<1>2. c \in threads
  BY <1>1 DEF ShutdownInv
<1> QED
  BY <1>a, <1>1, <1>2 DEF ControlType, ShutdownInv, EngineOutlivesThreads

\* Clients touch none of it.
LEMMA ClientsLeaveServer ==
    ASSUME NEW c, Post(c) \/ ProxyEvent(c) \/ ClientStep(c)
    PROVE  ServerIdle
BY DEF Post, ProxyEvent, ProxyConnect, ProxyWrite, ProxyThrows, ProxyData, ProxyError, ProxyEnd, ProxyTimeout,
       ClientStep, ClientConnect, ClientRequest, ClientReceive, ClientClose, ClientDies

LEMMA ShutdownStep ==
    ASSUME TypeOK, ShutdownInv, [Next]_vars
    PROVE  ControlType' /\ ShutdownInv'
<1>1. CASE ServerStep
  BY <1>1, MainStep, SignalStep, StopStep, AcceptorStep, HandlerShutdown DEF ServerStep
<1>2. CASE ServerIdle
  BY <1>2 DEF ServerIdle, main, control, handler, TypeOK, ControlType, StopLabel, Host, ShutdownInv, EngineOutlivesThreads
<1>3. CASE UNCHANGED vars
  BY <1>3 DEF vars, svars, main, control, handler, TypeOK, ControlType, StopLabel, Host, ShutdownInv, EngineOutlivesThreads
<1> QED
  BY <1>1, <1>2, <1>3, ClientsLeaveServer DEF Next

-----------------------------------------------------------------------------
(* Connections.                                                            *)

ConnInv(c) == LinkInv(c) /\ StreamInv(c) /\ AnswerInv(c) /\ (c \in Proxied => ProxyInv(c))

HttpState == Settled \cup {"none", "posted", "connecting", "waiting", "hung", "lost"}

ConnType ==
    /\ hpc \in [Conn -> HandlerLabel]
    /\ req \in [Conn -> Request \cup {None}]
    /\ executed \in [Conn -> Seq(Nat)]
    /\ sock \in [Conn -> SockState]
    /\ peer \in [Conn -> {"new", "open", "closed"}]
    /\ up \in [Conn -> Seq(Part)]
    /\ down \in [Conn -> Seq(Nat)]
    /\ proxy \in {"up", "dead"} /\ route \in [Proxied -> {"sql", "health"}]
    /\ http \in [Proxied -> HttpState]
    /\ sent \in [Conn -> Nat] /\ got \in [Conn -> Seq(Nat)]

\* The two ends of a connection are as they were, but that the server's may have been closed.
Same(c) ==
    /\ peer'[c] = peer[c] /\ hpc'[c] = hpc[c] /\ req'[c] = req[c] /\ executed'[c] = executed[c]
    /\ up'[c] = up[c] /\ down'[c] = down[c] /\ sent'[c] = sent[c] /\ got'[c] = got[c]
    /\ c \in Proxied => http'[c] = http[c]
    /\ sock'[c] = sock[c] \/ (sock[c] \in {"backlog", "open"} /\ sock'[c] \in {"closed", "reset"})

\* accept() has not just returned this connection.
NotAccepted(c) == acc' = "spawn" /\ accepted' = c => acc = "spawn" /\ accepted = c

LEMMA SameKept ==
    ASSUME NEW c \in Conn, ConnInv(c), Same(c), NotAccepted(c)
    PROVE  ConnInv(c)'
<1>1. LinkInv(c)'
  BY DEF ConnInv, LinkInv, Same, NotAccepted
<1>2. StreamInv(c)' /\ AnswerInv(c)'
  BY DEF ConnInv, StreamInv, AnswerInv, Same, Pending
<1>3. c \in Proxied => ProxyInv(c)'
  BY DEF ConnInv, ProxyInv, Same
<1> QED
  BY <1>1, <1>2, <1>3 DEF ConnInv

\* main(), stop() and the accept loop leave connections alone, but for closing them.
LEMMA ControlKeepsConns ==
    ASSUME TypeOK, ConnType, \A c \in Conn : ConnInv(c), UNCHANGED <<proxy, route, http, sent, got>>,
           Main \/ Signal \/ (\E x \in Stopper : Stop(x)) \/ AcceptLoop \/ AcceptFails
    PROVE  ConnType' /\ \A c \in Conn : ConnInv(c)'
<1>1. UNCHANGED <<hpc, req, executed, peer, up, down>>
  BY DEF Main, Listen, Launch, Poll, Signal, Stop, StopClose, StopJoinAcceptor, StopJoined, StopLock,
         StopReturn, AcceptLoop, AcceptFails, handler, network
<1>2. sock' \in {sock, ResetBacklog(sock), CloseAll(sock)}
  BY DEF Main, Listen, Launch, Poll, Signal, Stop, StopClose, StopJoinAcceptor, StopJoined, StopLock,
         StopReturn, AcceptLoop, AcceptFails, network
<1>3. sock' \in [Conn -> SockState]
  BY <1>2, SocketsEnd DEF ConnType
<1>4. \A c \in Conn : sock'[c] = sock[c] \/ (sock[c] \in {"backlog", "open"} /\ sock'[c] \in {"closed", "reset"})
  BY <1>2, SocketsEnd DEF ConnType
<1>5. accepted' = accepted /\ (acc' = "spawn" => acc = "spawn")
  BY DEF Main, Listen, Launch, Poll, Signal, Stop, StopClose, StopJoinAcceptor, StopJoined, StopLock,
         StopReturn, AcceptLoop, AcceptFails, AcceptorAt
<1>6. \A c \in Conn : Same(c) /\ NotAccepted(c)
  BY <1>1, <1>4, <1>5 DEF Same, NotAccepted
<1> QED
  BY <1>1, <1>3, <1>6, SameKept DEF ConnType

LEMMA AcceptKeepsConns ==
    ASSUME TypeOK, ConnType, \A c \in Conn : ConnInv(c), UNCHANGED <<proxy, route, http, sent, got>>,
           NEW c \in Conn, Accept(c)
    PROVE  ConnType' /\ \A d \in Conn : ConnInv(d)'
<1> DEFINE s == [sock EXCEPT ![c] = "open"]
<1>1. UNCHANGED <<hpc, req, executed, peer, up, down>> /\ sock[c] = "backlog" /\ acc' = "spawn" /\ accepted' = c
  BY DEF Accept, handler
<1>2. s \in [Conn -> SockState] /\ s[c] = "open" /\ \A d \in Conn : d # c => s[d] = sock[d]
  BY DEF ConnType, SockState
<1>3. sock' = s \/ sock' = ResetBacklog(s)
  BY DEF Accept
<1>s. sock \in [Conn -> SockState]
  BY DEF ConnType
<1> HIDE DEF s
<1>r. \A d \in Conn : ResetBacklog(s)[d] = IF s[d] = "backlog" THEN "reset" ELSE s[d]
  BY <1>2, <1>s, SocketsClose
<1>4. sock' \in [Conn -> SockState] /\ sock'[c] = "open"
  BY <1>2, <1>3, <1>s, <1>r, SocketsEnd
<1>5. \A d \in Conn : d # c =>
         sock'[d] = sock[d] \/ (sock[d] \in {"backlog", "open"} /\ sock'[d] \in {"closed", "reset"})
  BY <1>2, <1>3, <1>r
<1>6. ASSUME NEW d \in Conn, d # c PROVE ConnInv(d)'
  <2>1. Same(d) /\ NotAccepted(d)
    BY <1>1, <1>5, <1>6 DEF Same, NotAccepted
  <2> QED
    BY <2>1, SameKept
<1>7. ConnInv(c)'
  <2>1. hpc[c] = "none" /\ peer[c] # "new"
    BY <1>1 DEF ConnInv, LinkInv
  <2>2. LinkInv(c)'
    BY <1>1, <1>4, <2>1 DEF LinkInv
  <2>3. StreamInv(c)' /\ AnswerInv(c)'
    BY <1>1 DEF ConnInv, StreamInv, AnswerInv, Pending
  <2>4. c \in Proxied => ProxyInv(c)'
    BY <1>1 DEF ConnInv, ProxyInv
  <2> QED
    BY <2>2, <2>3, <2>4 DEF ConnInv
<1> QED
  BY <1>1, <1>4, <1>6, <1>7 DEF ConnType

LEMMA SpawnKeepsConns ==
    ASSUME TypeOK, ShutdownInv, ConnType, \A c \in Conn : ConnInv(c), UNCHANGED <<proxy, route, http, sent, got>>, Spawn
    PROVE  ConnType' /\ \A d \in Conn : ConnInv(d)'
<1>1. UNCHANGED <<req, executed, sock, peer, up, down>> /\ acc' = "loop" /\ acc = "spawn" /\ accepted \in Conn
  BY DEF Spawn, AcceptorAt, network, ShutdownInv
<1>2. /\ hpc' \in [Conn -> HandlerLabel] /\ hpc'[accepted] = "loop"
      /\ \A d \in Conn : d # accepted => hpc'[d] = hpc[d]
  BY <1>1 DEF Spawn, ConnType, HandlerLabel
<1>3. ASSUME NEW d \in Conn, d # accepted PROVE ConnInv(d)'
  <2>1. Same(d) /\ NotAccepted(d)
    BY <1>1, <1>2, <1>3 DEF Same, NotAccepted
  <2> QED
    BY <2>1, SameKept
<1>4. ASSUME NEW d \in Conn, d = accepted PROVE ConnInv(d)'
  <2>1. ConnInv(d) /\ hpc[d] = "none" /\ hpc'[d] = "loop" /\ sock[d] \notin {"none", "backlog"}
    BY <1>1, <1>2, <1>4 DEF ConnInv, LinkInv
  <2>2. LinkInv(d)'
    BY <1>1, <2>1 DEF ConnInv, LinkInv
  <2>3. StreamInv(d)' /\ AnswerInv(d)'
    BY <1>1, <2>1 DEF ConnInv, StreamInv, AnswerInv, Pending
  <2>4. d \in Proxied => ProxyInv(d)'
    BY <1>1, <2>1 DEF ConnInv, ProxyInv
  <2> QED
    BY <2>2, <2>3, <2>4 DEF ConnInv
<1> QED
  BY <1>1, <1>2, <1>3, <1>4 DEF ConnType

\* The handler reads a whole request, or nothing that it takes for one.
LEMMA ReadsWhole ==
    ASSUME ConnType, NEW c \in Conn, ConnInv(c), hpc[c] = "recv", up[c] # <<>>,
           AsHeader(Head(up[c])).kind # "oversize", Len(up[c]) >= AsHeader(Head(up[c])).parts
    PROVE  LET h == AsHeader(Head(up[c])) IN
             /\ h.kind \in RequestKinds /\ h.kind = Head(up[c]).kind
             /\ h.id = sent[c] /\ sent[c] > Len(got[c]) /\ down[c] = <<>> /\ Pending(c)
             /\ SubSeq(up[c], h.parts + 1, Len(up[c])) = <<>>
<1>1. up[c] \in Seq(Part)
  BY DEF ConnType
<1>2. Head(up[c]) \in Part
  BY <1>1
<1>3. Head(up[c]).kind \in RequestKinds
  BY <1>2 DEF Part
<1>4. Head(up[c]).part = "header"
  BY DEF ConnInv, StreamInv, Whole
<1> DEFINE h == AsHeader(Head(up[c]))
<1>5. h = [kind |-> Head(up[c]).kind, id |-> Head(up[c]).id, parts |-> Len(Parts(Head(up[c]).kind))]
  BY <1>4 DEF AsHeader
<1>6. h.kind = Head(up[c]).kind /\ h.id = Head(up[c]).id /\ h.parts = Len(Parts(Head(up[c]).kind))
  BY <1>5
<1> HIDE DEF h
<1>7. ~(Len(up[c]) = 1 /\ Head(up[c]).kind = "put")
  <2> SUFFICES ASSUME Len(up[c]) = 1, Head(up[c]).kind = "put" PROVE FALSE
    OBVIOUS
  <2>1. h.parts \in {2, 3}
    BY <1>3, <1>6, PartsType
  <2> QED
    BY <2>1 DEF h
<1>8. Whole(up[c]) /\ Head(up[c]).id = sent[c] /\ Pending(c) /\ down[c] = <<>> /\ sent[c] > Len(got[c])
  BY <1>7 DEF ConnInv, StreamInv
<1>9. h.parts = Len(up[c])
  BY <1>6, <1>8 DEF Whole
<1>10. SubSeq(up[c], h.parts + 1, Len(up[c])) = <<>>
  BY <1>1, <1>9
<1> QED
  BY <1>3, <1>6, <1>8, <1>10 DEF h

LEMMA LoopConn ==
    ASSUME ConnType, NEW c \in Conn, ConnInv(c), UNCHANGED <<proxy, route, http, sent, got>>,
           HandlerLoop(c) \/ RecvFails(c) \/ RecvOversize(c)
    PROVE  ConnType' /\ ConnInv(c)' /\ \A d \in Conn : d # c => Same(d)
<1>1. CASE UNCHANGED <<req, sock>> /\ HandlerGoTo(c, "recv") /\ HandlerLoop(c)
  <2>1. UNCHANGED <<control, peer, up, down, executed>> /\ hpc[c] = "loop"
    BY <1>1 DEF HandlerLoop, HandlerAt
  <2>2. hpc' \in [Conn -> HandlerLabel] /\ hpc'[c] = "recv" /\ \A d \in Conn : d # c => hpc'[d] = hpc[d]
    BY <1>1 DEF HandlerGoTo, ConnType, HandlerLabel
  <2>3. LinkInv(c)'
    BY <1>1, <2>1, <2>2 DEF ConnInv, LinkInv, control
  <2>4. StreamInv(c)' /\ AnswerInv(c)'
    BY <1>1, <2>1, <2>2 DEF ConnInv, StreamInv, AnswerInv, Pending
  <2>5. c \in Proxied => ProxyInv(c)'
    BY <1>1, <2>1, <2>2 DEF ConnInv, ProxyInv
  <2>6. ConnType' /\ \A d \in Conn : d # c => Same(d)
    BY <1>1, <2>1, <2>2 DEF ConnType, Same
  <2> QED
    BY <2>3, <2>4, <2>5, <2>6 DEF ConnInv
<1>2. CASE /\ UNCHANGED <<control, peer, down, executed>>
           /\ hpc' = [hpc EXCEPT ![c] = "done"]
           /\ \E r : req' = [req EXCEPT ![c] = r] /\ r \in {None, req[c]}
           /\ \E q : sock' = [sock EXCEPT ![c] = q] /\ q \in {"closed", "reset"}
           /\ \E f \in Seq(Part) : up' = [up EXCEPT ![c] = f]
           /\ hpc[c] \in {"loop", "recv"}
  <2>1. hpc' \in [Conn -> HandlerLabel] /\ hpc'[c] = "done" /\ \A d \in Conn : d # c => hpc'[d] = hpc[d]
    BY <1>2 DEF ConnType, HandlerLabel
  <2>2. /\ sock' \in [Conn -> SockState] /\ sock'[c] \in {"closed", "reset"}
        /\ \A d \in Conn : d # c => sock'[d] = sock[d]
    BY <1>2 DEF ConnType, SockState
  <2>3. up' \in [Conn -> Seq(Part)] /\ \A d \in Conn : d # c => up'[d] = up[d]
    BY <1>2 DEF ConnType
  <2>4. req' \in [Conn -> Request \cup {None}] /\ \A d \in Conn : d # c => req'[d] = req[d]
    BY <1>2 DEF ConnType
  <2>5. LinkInv(c)'
    BY <1>2, <2>1, <2>2 DEF ConnInv, LinkInv, control
  <2>6. StreamInv(c)' /\ AnswerInv(c)'
    BY <1>2, <2>1 DEF ConnInv, StreamInv, AnswerInv
  <2>7. c \in Proxied => ProxyInv(c)'
    BY <1>2, <2>1 DEF ConnInv, ProxyInv
  <2>8. ConnType'
    BY <1>2, <2>1, <2>2, <2>3, <2>4 DEF ConnType
  <2>9. \A d \in Conn : d # c => Same(d)
    BY <1>2, <2>1, <2>2, <2>3, <2>4 DEF Same
  <2> QED
    BY <2>5, <2>6, <2>7, <2>8, <2>9 DEF ConnInv
<1>3. up[c] \in Seq(Part) /\ up = [up EXCEPT ![c] = up[c]] /\ req = [req EXCEPT ![c] = req[c]]
  BY DEF ConnType
<1>4. CASE HandlerLoop(c) /\ Leave(c)
  <2>1. UNCHANGED <<control, peer, up, down, executed>> /\ hpc[c] = "loop"
    BY <1>4 DEF HandlerLoop, HandlerAt
  <2>2. Closed(c) \in {"closed", "reset"}
    BY DEF Closed
  <2> QED
    BY <1>2, <1>3, <1>4, <2>1, <2>2 DEF Leave
<1>5. CASE RecvFails(c)
  <2>1. <<>> \in Seq(Part)
    OBVIOUS
  <2> QED
    BY <1>2, <1>3, <1>5, <2>1 DEF RecvFails, HandlerAt
<1>6. CASE RecvOversize(c)
  <2>1. up[c] # <<>> /\ Tail(up[c]) \in Seq(Part)
    BY <1>3, <1>6 DEF RecvOversize
  <2>2. (IF Len(up[c]) = 1 THEN "closed" ELSE "reset") \in {"closed", "reset"}
    OBVIOUS
  <2> QED
    BY <1>2, <1>3, <1>6, <2>1, <2>2 DEF RecvOversize, HandlerAt
<1> QED
  BY <1>1, <1>4, <1>5, <1>6 DEF HandlerLoop

LEMMA RecvConn ==
    ASSUME ConnType, NEW c \in Conn, ConnInv(c), UNCHANGED <<proxy, route, http, sent, got>>, Recv(c)
    PROVE  ConnType' /\ ConnInv(c)' /\ \A d \in Conn : d # c => Same(d)
<1> DEFINE h == AsHeader(Head(up[c]))
           rest == SubSeq(up[c], h.parts + 1, Len(up[c]))
<1>1. /\ UNCHANGED <<control, sock, peer, down, executed>> /\ hpc[c] = "recv" /\ up[c] # <<>>
      /\ h.kind # "oversize" /\ Len(up[c]) >= h.parts
      /\ req' = [req EXCEPT ![c] = [kind |-> h.kind, id |-> h.id]]
      /\ up' = [up EXCEPT ![c] = rest]
      /\ hpc' = [hpc EXCEPT ![c] = "execute"]
  BY DEF Recv, HandlerAt, HandlerGoTo
<1>2. /\ h.kind \in RequestKinds /\ h.kind = Head(up[c]).kind
      /\ h.id = sent[c] /\ sent[c] > Len(got[c]) /\ down[c] = <<>> /\ Pending(c)
      /\ rest = <<>>
  BY <1>1, ReadsWhole
<1> HIDE DEF h, rest
<1>3. sent[c] \in Nat /\ <<>> \in Seq(Part)
  BY DEF ConnType
<1>4. [kind |-> h.kind, id |-> h.id] \in Request
  BY <1>2, <1>3 DEF Request
<1>5. hpc' \in [Conn -> HandlerLabel] /\ hpc'[c] = "execute" /\ \A d \in Conn : d # c => hpc'[d] = hpc[d]
  BY <1>1 DEF ConnType, HandlerLabel
<1>6. up' \in [Conn -> Seq(Part)] /\ up'[c] = <<>> /\ \A d \in Conn : d # c => up'[d] = up[d]
  BY <1>1, <1>2, <1>3 DEF ConnType
<1>7. /\ req' \in [Conn -> Request \cup {None}] /\ req'[c] = [kind |-> h.kind, id |-> h.id]
      /\ \A d \in Conn : d # c => req'[d] = req[d]
  BY <1>1, <1>4 DEF ConnType
<1>8. req'[c].kind = h.kind /\ req'[c].id = h.id
  BY <1>7
<1>9. req'[c] \in Request
  BY <1>4, <1>7
<1>10. LinkInv(c)'
  BY <1>1, <1>5 DEF ConnInv, LinkInv, control
<1>11. StreamInv(c)' /\ AnswerInv(c)'
  BY <1>1, <1>2, <1>5, <1>6, <1>8, <1>9 DEF ConnInv, StreamInv, AnswerInv, Pending
<1>12. c \in Proxied => ProxyInv(c)'
  BY <1>1, <1>2, <1>5, <1>6, <1>8 DEF ConnInv, ProxyInv
<1>13. ConnType' /\ \A d \in Conn : d # c => Same(d)
  BY <1>1, <1>5, <1>6, <1>7 DEF ConnType, Same
<1> QED
  BY <1>10, <1>11, <1>12, <1>13 DEF ConnInv

\* The switch: a request is executed after all before it, and once.
LEMMA ExecuteConn ==
    ASSUME ConnType, NEW c \in Conn, ConnInv(c), UNCHANGED <<proxy, route, http, sent, got>>, Execute(c)
    PROVE  ConnType' /\ ConnInv(c)' /\ \A d \in Conn : d # c => Same(d)
<1>1. /\ UNCHANGED <<control, req, sock, peer, up, down>> /\ hpc[c] = "execute"
      /\ hpc' = [hpc EXCEPT ![c] = "send"]
  BY DEF Execute, HandlerAt, HandlerGoTo, network
<1>2. /\ req[c] \in Request /\ req[c].id = sent[c] /\ sent[c] > Len(got[c])
      /\ up[c] = <<>> /\ down[c] = <<>> /\ Pending(c)
  BY <1>1 DEF ConnInv, StreamInv
<1>3. sent[c] \in Nat /\ Len(got[c]) \in Nat /\ executed[c] \in Seq(Nat)
  BY DEF ConnType
<1>4. /\ executed' \in [Conn -> Seq(Nat)]
      /\ \A d \in Conn : d # c => executed'[d] = executed[d]
      /\ executed'[c] = IF req[c].kind = "unknown" THEN executed[c] ELSE Append(executed[c], sent[c])
  <2>1. Append(executed[c], sent[c]) \in Seq(Nat)
    BY <1>3
  <2> QED
    BY <1>2, <2>1 DEF Execute, ConnType
<1>5. hpc' \in [Conn -> HandlerLabel] /\ hpc'[c] = "send" /\ \A d \in Conn : d # c => hpc'[d] = hpc[d]
  BY <1>1 DEF ConnType, HandlerLabel
<1>6. LinkInv(c)'
  BY <1>1, <1>5 DEF ConnInv, LinkInv, control
<1>7. StreamInv(c)'
  BY <1>1, <1>2, <1>5 DEF ConnInv, StreamInv
<1>8. AnswerInv(c)'
  <2>1. /\ \A i \in DOMAIN executed'[c] : executed'[c][i] <= sent[c]
        /\ \A i, j \in DOMAIN executed'[c] : i < j => executed'[c][i] < executed'[c][j]
    <3>1. CASE req[c].kind = "unknown"
      BY <1>4, <3>1 DEF ConnInv, AnswerInv
    <3>2. CASE req[c].kind # "unknown"
      <4> DEFINE e == executed[c]
                 f == Append(e, sent[c])
      <4>1. \A i \in DOMAIN e : e[i] < sent[c] /\ e[i] \in Nat
        BY <1>2, <1>3 DEF Pending
      <4>2. \A i, j \in DOMAIN e : i < j => e[i] < e[j]
        BY DEF ConnInv, AnswerInv
      <4>3. /\ DOMAIN f = 1..(Len(e) + 1) /\ DOMAIN e = 1..Len(e) /\ Len(e) \in Nat
            /\ \A i \in 1..Len(e) : f[i] = e[i]
            /\ f[Len(e) + 1] = sent[c]
        BY <1>3
      <4>4. executed'[c] = f
        BY <1>4, <3>2
      <4> HIDE DEF e, f
      <4>5. ASSUME NEW i \in DOMAIN f PROVE i \in 1..Len(e) \/ i = Len(e) + 1
        BY <4>3
      <4>6. \A i \in DOMAIN f : f[i] <= sent[c]
        BY <1>3, <4>1, <4>3, <4>5
      <4>7. ASSUME NEW i \in DOMAIN f, NEW j \in DOMAIN f, i < j PROVE f[i] < f[j]
        <5>1. i \in 1..Len(e)
          BY <4>3, <4>7
        <5>2. CASE j \in 1..Len(e)
          BY <4>2, <4>3, <4>7, <5>1, <5>2
        <5>3. CASE j = Len(e) + 1
          BY <4>1, <4>3, <5>1, <5>3
        <5> QED
          BY <4>5, <5>2, <5>3
      <4> QED
        BY <4>4, <4>6, <4>7
    <3> QED
      BY <3>1, <3>2
  <2> QED
    BY <1>1, <1>2, <2>1 DEF ConnInv, AnswerInv
<1>9. c \in Proxied => ProxyInv(c)'
  <2> SUFFICES ASSUME c \in Proxied PROVE ProxyInv(c)'
    OBVIOUS
  <2>1. ProxyInv(c) /\ sent[c] = 1 /\ executed[c] = <<>> /\ req[c].kind # "unknown"
    BY <1>1, <1>2, <1>3 DEF ConnInv, ProxyInv
  <2>2. Append(<<>>, 1) = <<1>>
    OBVIOUS
  <2>3. executed'[c] = <<1>>
    BY <1>4, <2>1, <2>2
  <2> QED
    BY <1>1, <1>2, <1>5, <2>1, <2>3 DEF ProxyInv
<1>10. ConnType' /\ \A d \in Conn : d # c => Same(d)
  BY <1>1, <1>4, <1>5 DEF ConnType, Same
<1> QED
  BY <1>6, <1>7, <1>8, <1>9, <1>10 DEF ConnInv

\* The reply, or the end of the connection or of the process.
LEMMA SendConn ==
    ASSUME ConnType, NEW c \in Conn, ConnInv(c), UNCHANGED <<proxy, route, http, sent, got>>,
           Send(c) \/ SendBroken(c) \/ SendRest(c)
    PROVE  ConnType' /\ ConnInv(c)' /\ \A d \in Conn : d # c => Same(d)
<1>1. UNCHANGED <<control, peer, up, executed>> /\ hpc[c] \in {"send", "blocked"}
  BY DEF Send, SendBroken, SendRest, HandlerAt
<1>2. /\ req[c] \in Request /\ req[c].id = sent[c] /\ sent[c] > Len(got[c])
      /\ up[c] = <<>> /\ down[c] = <<>>
  BY <1>1 DEF ConnInv, StreamInv
<1>3. sent[c] \in Nat /\ Append(<<>>, sent[c]) = <<sent[c]>> /\ <<sent[c]>> \in Seq(Nat)
  BY DEF ConnType
<1>4. CASE /\ HandlerGoTo(c, "loop") /\ req' = [req EXCEPT ![c] = None]
           /\ down' = down \/ down' = [down EXCEPT ![c] = Append(@, req[c].id)]
           /\ UNCHANGED sock
  <2>1. hpc' \in [Conn -> HandlerLabel] /\ hpc'[c] = "loop" /\ \A d \in Conn : d # c => hpc'[d] = hpc[d]
    BY <1>4 DEF HandlerGoTo, ConnType, HandlerLabel
  <2>2. req' \in [Conn -> Request \cup {None}] /\ \A d \in Conn : d # c => req'[d] = req[d]
    BY <1>4 DEF ConnType
  <2>3. /\ down' \in [Conn -> Seq(Nat)] /\ \A d \in Conn : d # c => down'[d] = down[d]
        /\ down'[c] = <<>> \/ down'[c] = <<sent[c]>>
    <3>1. CASE down' = down
      BY <1>2, <3>1 DEF ConnType
    <3>2. CASE down' = [down EXCEPT ![c] = <<sent[c]>>]
      BY <1>3, <3>2 DEF ConnType
    <3>3. down' = down \/ down' = [down EXCEPT ![c] = <<sent[c]>>]
      BY <1>2, <1>3, <1>4
    <3> QED
      BY <3>1, <3>2, <3>3
  <2>4. LinkInv(c)'
    BY <1>1, <1>4, <2>1 DEF ConnInv, LinkInv, control
  <2>5. StreamInv(c)'
    BY <1>1, <1>2, <2>1 DEF StreamInv
  <2>6. AnswerInv(c)'
    BY <1>1, <1>2, <2>3 DEF ConnInv, AnswerInv
  <2>7. c \in Proxied => ProxyInv(c)'
    BY <1>1, <1>2, <2>1 DEF ConnInv, ProxyInv
  <2>8. ConnType' /\ \A d \in Conn : d # c => Same(d)
    BY <1>1, <1>4, <2>1, <2>2, <2>3 DEF ConnType, Same
  <2> QED
    BY <2>4, <2>5, <2>6, <2>7, <2>8 DEF ConnInv
<1>5. CASE sock' = CloseAll(sock) /\ UNCHANGED <<hpc, req, down>>
  <2>1. sock' \in [Conn -> SockState] /\ ConnType'
    BY <1>1, <1>5, SocketsEnd DEF ConnType
  <2>2. \A d \in Conn : sock'[d] = sock[d] \/ (sock[d] \in {"backlog", "open"} /\ sock'[d] \in {"closed", "reset"})
    BY <1>5, SocketsEnd DEF ConnType
  <2>3. \A d \in Conn : Same(d) /\ NotAccepted(d)
    BY <1>1, <1>5, <2>2 DEF Same, NotAccepted, control
  <2> QED
    BY <2>1, <2>3, SameKept
<1>6. CASE Leave(c) /\ UNCHANGED down
  <2>1. hpc' \in [Conn -> HandlerLabel] /\ hpc'[c] = "done" /\ \A d \in Conn : d # c => hpc'[d] = hpc[d]
    BY <1>6 DEF Leave, ConnType, HandlerLabel
  <2>2. req' \in [Conn -> Request \cup {None}] /\ \A d \in Conn : d # c => req'[d] = req[d]
    BY <1>6 DEF Leave, ConnType
  <2>3. /\ sock' \in [Conn -> SockState] /\ sock'[c] \in {"closed", "reset"}
        /\ \A d \in Conn : d # c => sock'[d] = sock[d]
    BY <1>6 DEF Leave, Closed, ConnType, SockState
  <2>4. LinkInv(c)'
    BY <1>1, <2>1, <2>3 DEF ConnInv, LinkInv, control
  <2>5. StreamInv(c)'
    BY <2>1 DEF StreamInv
  <2>6. AnswerInv(c)'
    BY <1>1, <1>6 DEF ConnInv, AnswerInv
  <2>7. c \in Proxied => ProxyInv(c)'
    BY <1>1, <1>6, <2>1 DEF ConnInv, ProxyInv
  <2>8. ConnType' /\ \A d \in Conn : d # c => Same(d)
    BY <1>1, <1>6, <2>1, <2>2, <2>3 DEF ConnType, Same
  <2> QED
    BY <2>4, <2>5, <2>6, <2>7, <2>8 DEF ConnInv
<1>7. CASE HandlerGoTo(c, "blocked") /\ UNCHANGED <<req, sock, down>>
  <2>1. hpc' \in [Conn -> HandlerLabel] /\ hpc'[c] = "blocked" /\ \A d \in Conn : d # c => hpc'[d] = hpc[d]
    BY <1>7 DEF HandlerGoTo, ConnType, HandlerLabel
  <2>2. LinkInv(c)'
    BY <1>1, <1>7, <2>1 DEF ConnInv, LinkInv, control
  <2>3. StreamInv(c)' /\ AnswerInv(c)'
    BY <1>1, <1>2, <1>7, <2>1 DEF ConnInv, StreamInv, AnswerInv
  <2>4. c \in Proxied => ProxyInv(c)'
    BY <1>1, <1>7, <2>1 DEF ConnInv, ProxyInv
  <2>5. ConnType' /\ \A d \in Conn : d # c => Same(d)
    BY <1>1, <1>7, <2>1 DEF ConnType, Same
  <2> QED
    BY <2>2, <2>3, <2>4, <2>5 DEF ConnInv
<1>8. CASE Broken(c) /\ UNCHANGED down
  BY <1>5, <1>6, <1>8 DEF Broken
<1>9. CASE Send(c)
  BY <1>4, <1>7, <1>8, <1>9 DEF Send, Replied
<1>10. CASE SendBroken(c)
  BY <1>8, <1>10 DEF SendBroken
<1>11. CASE SendRest(c)
  BY <1>4, <1>11 DEF SendRest, Replied
<1> QED
  BY <1>9, <1>10, <1>11

LEMMA HandlerKeepsConns ==
    ASSUME TypeOK, ConnType, \A c \in Conn : ConnInv(c), UNCHANGED <<proxy, route, http, sent, got>>,
           NEW c \in Conn, Handle(c) \/ SendRest(c)
    PROVE  ConnType' /\ \A d \in Conn : ConnInv(d)'
<1>1. ConnType' /\ ConnInv(c)' /\ \A d \in Conn : d # c => Same(d)
  BY LoopConn, RecvConn, ExecuteConn, SendConn DEF Handle
<1>2. \A d \in Conn : NotAccepted(d)
  BY HandlerOfOne DEF NotAccepted, control
<1> QED
  BY <1>1, <1>2, SameKept

-----------------------------------------------------------------------------
(* The clients' ends.                                                      *)

\* connect(), accepted by the system or refused.
LEMMA ConnectConn ==
    ASSUME ConnType, NEW c \in Conn, ConnInv(c), Connect(c),
           UNCHANGED <<hpc, req, executed, up, down, sent, got, acc, accepted>>
    PROVE  /\ peer' \in [Conn -> {"new", "open", "closed"}] /\ sock' \in [Conn -> SockState]
           /\ \A d \in Conn : d # c => peer'[d] = peer[d] /\ sock'[d] = sock[d]
           /\ peer'[c] = IF Listening THEN "open" ELSE "closed"
           /\ LinkInv(c)' /\ StreamInv(c)' /\ AnswerInv(c)'
<1>1. peer[c] = "new" /\ sock[c] = "none" /\ hpc[c] = "none"
  BY DEF Connect, ConnInv, LinkInv
<1>2. /\ peer' \in [Conn -> {"new", "open", "closed"}] /\ sock' \in [Conn -> SockState]
      /\ \A d \in Conn : d # c => peer'[d] = peer[d] /\ sock'[d] = sock[d]
      /\ peer'[c] = IF Listening THEN "open" ELSE "closed"
      /\ sock'[c] \in {"backlog", "reset"}
  <2>1. CASE Listening
    BY <2>1 DEF Connect, ConnType, SockState
  <2>2. CASE ~Listening
    BY <2>2 DEF Connect, ConnType, SockState
  <2> QED
    BY <2>1, <2>2
<1>3. LinkInv(c)'
  BY <1>1, <1>2 DEF ConnInv, LinkInv
<1>4. StreamInv(c)'
  BY <1>1 DEF ConnInv, StreamInv, Pending
<1>5. AnswerInv(c)'
  BY DEF ConnInv, AnswerInv
<1> QED
  BY <1>2, <1>3, <1>4, <1>5

\* destroy() of a client, with nothing of the stream changed.
LEMMA DestroyConn ==
    ASSUME ConnType, NEW c \in Conn, ConnInv(c), Destroy(c), peer[c] = "open",
           UNCHANGED <<hpc, req, executed, sock, up, down, sent, got, acc, accepted>>
    PROVE  /\ peer' \in [Conn -> {"new", "open", "closed"}] /\ peer'[c] = "closed"
           /\ \A d \in Conn : d # c => peer'[d] = peer[d]
           /\ LinkInv(c)' /\ StreamInv(c)' /\ AnswerInv(c)'
<1>1. /\ peer' \in [Conn -> {"new", "open", "closed"}] /\ peer'[c] = "closed"
      /\ \A d \in Conn : d # c => peer'[d] = peer[d]
  BY DEF Destroy, ConnType
<1>2. LinkInv(c)'
  BY <1>1 DEF ConnInv, LinkInv
<1>3. StreamInv(c)'
  BY <1>1 DEF ConnInv, StreamInv, Pending
<1>4. AnswerInv(c)'
  BY DEF ConnInv, AnswerInv
<1> QED
  BY <1>1, <1>2, <1>3, <1>4

\* A client that has all its answers writes the next request into an empty stream.
LEMMA WriteConn ==
    ASSUME ConnType, NEW c \in Conn, ConnInv(c), peer[c] = "open", sent[c] = Len(got[c]),
           NEW k \in RequestKinds, Write(c, Frame(k, sent[c] + 1)), sent' = [sent EXCEPT ![c] = sent[c] + 1],
           UNCHANGED <<hpc, req, executed, sock, peer, down, got, acc, accepted>>
    PROVE  /\ up' \in [Conn -> Seq(Part)] /\ sent' \in [Conn -> Nat] /\ sent'[c] = sent[c] + 1
           /\ \A d \in Conn : d # c => up'[d] = up[d] /\ sent'[d] = sent[d]
           /\ LinkInv(c)' /\ StreamInv(c)' /\ AnswerInv(c)'
           /\ up'[c] = up[c] \/ Head(up'[c]).kind = k
           /\ hpc[c] \in {"none", "loop", "recv"} => up[c] = <<>>
<1> DEFINE f == Frame(k, sent[c] + 1)
<1>1. sent[c] \in Nat /\ up[c] \in Seq(Part) /\ Len(got[c]) \in Nat
  BY DEF ConnType
<1>2. /\ f \in Seq(Part) /\ Whole(f) /\ f # <<>> /\ Head(f) = [part |-> "header", kind |-> k, id |-> sent[c] + 1]
  BY <1>1, FrameWhole DEF Whole
<1>3. Head(f).kind = k /\ Head(f).id = sent[c] + 1
  BY <1>2
<1> HIDE DEF f
<1>4. sent' \in [Conn -> Nat] /\ sent'[c] = sent[c] + 1 /\ \A d \in Conn : d # c => sent'[d] = sent[d]
  BY <1>1 DEF ConnType
<1>5. hpc[c] \in {"none", "loop", "recv"} => up[c] = <<>>
  BY <1>1 DEF ConnInv, StreamInv
<1>6. hpc[c] \notin {"execute", "send", "blocked"}
  BY <1>1 DEF ConnInv, StreamInv
<1>7. hpc[c] \in HandlerLabel
  BY DEF ConnType
<1>8. down[c] = <<>>
  BY <1>1 DEF ConnInv, AnswerInv
<1>9. Pending(c)'
  <2>1. \A i \in DOMAIN executed[c] : executed[c][i] \in Nat /\ executed[c][i] <= sent[c]
    BY DEF ConnType, ConnInv, AnswerInv
  <2> QED
    BY <1>1, <1>4, <2>1 DEF Pending
<1>10. LinkInv(c)'
  BY DEF ConnInv, LinkInv
<1>11. AnswerInv(c)'
  <2>1. \A i \in DOMAIN executed[c] : executed[c][i] \in Nat /\ executed[c][i] <= sent[c]
    BY DEF ConnType, ConnInv, AnswerInv
  <2>2. \A i \in DOMAIN executed[c] : executed[c][i] <= sent'[c]
    BY <1>1, <1>4, <2>1
  <2> QED
    BY <1>1, <1>4, <1>8, <2>2 DEF ConnInv, AnswerInv
<1>12. CASE up' = up
  <2>1. up' \in [Conn -> Seq(Part)]
    BY <1>12 DEF ConnType
  <2>2. StreamInv(c)'
    BY <1>5, <1>6, <1>12 DEF StreamInv
  <2> QED
    BY <1>4, <1>5, <1>10, <1>11, <1>12, <2>1, <2>2
<1>13. CASE sock[c] \in {"backlog", "open"} /\ up' = [up EXCEPT ![c] = up[c] \o f]
  <2>1. hpc[c] \in {"none", "loop", "recv"}
    BY <1>6, <1>7, <1>13 DEF ConnInv, LinkInv, HandlerLabel
  <2>2. up[c] \o f = f
    BY <1>2, <1>5, <2>1
  <2>3. up' \in [Conn -> Seq(Part)] /\ up'[c] = f /\ \A d \in Conn : d # c => up'[d] = up[d]
    BY <1>2, <1>13, <2>2 DEF ConnType
  <2>4. sent'[c] > Len(got[c])
    BY <1>1, <1>4
  <2>5. StreamInv(c)'
    BY <1>2, <1>3, <1>4, <1>6, <1>8, <1>9, <2>3, <2>4 DEF StreamInv
  <2> QED
    BY <1>3, <1>4, <1>5, <1>10, <1>11, <2>3, <2>5
<1> QED
  BY <1>12, <1>13 DEF Write, f

\* A reply is read.
LEMMA ReadConn ==
    ASSUME ConnType, NEW c \in Conn, ConnInv(c), down[c] # <<>>,
           got' = [got EXCEPT ![c] = Append(@, Head(down[c]))],
           down' = [down EXCEPT ![c] = Tail(@)],
           peer'[c] = peer[c] \/ (peer'[c] = "closed" /\ peer[c] = "open"),
           UNCHANGED <<hpc, req, executed, sock, up, sent, acc, accepted>>
    PROVE  /\ got' \in [Conn -> Seq(Nat)] /\ down' \in [Conn -> Seq(Nat)]
           /\ \A d \in Conn : d # c => got'[d] = got[d] /\ down'[d] = down[d]
           /\ LinkInv(c)' /\ StreamInv(c)' /\ AnswerInv(c)'
           /\ got'[c] # <<>>
<1>1. sent[c] \in Nat /\ got[c] \in Seq(Nat) /\ Len(got[c]) \in Nat
  BY DEF ConnType
<1>2. down[c] = <<sent[c]>> /\ sent[c] = Len(got[c]) + 1
  BY <1>1 DEF ConnInv, AnswerInv
<1>3. Head(down[c]) = sent[c] /\ Tail(down[c]) = <<>>
  BY <1>1, <1>2
<1>4. /\ Append(got[c], sent[c]) \in Seq(Nat) /\ Len(Append(got[c], sent[c])) = sent[c]
      /\ Append(got[c], sent[c]) # <<>>
      /\ \A i \in 1..Len(got[c]) : Append(got[c], sent[c])[i] = got[c][i]
      /\ Append(got[c], sent[c])[Len(got[c]) + 1] = sent[c]
      /\ DOMAIN Append(got[c], sent[c]) = 1..(Len(got[c]) + 1)
      /\ DOMAIN got[c] = 1..Len(got[c])
  BY <1>1, <1>2, AppendFacts
<1>5. /\ got' \in [Conn -> Seq(Nat)] /\ got'[c] = Append(got[c], sent[c])
      /\ \A d \in Conn : d # c => got'[d] = got[d]
  BY <1>3, <1>4 DEF ConnType
<1>6. <<>> \in Seq(Nat)
  OBVIOUS
<1>7. /\ down' \in [Conn -> Seq(Nat)] /\ down'[c] = <<>>
      /\ \A d \in Conn : d # c => down'[d] = down[d]
  BY <1>3, <1>6 DEF ConnType
<1>8. \A i \in DOMAIN got'[c] : got'[c][i] = i
  <2>1. \A i \in 1..Len(got[c]) : got[c][i] = i
    BY <1>4 DEF ConnInv, AnswerInv
  <2>2. \A n \in Nat : \A i \in 1..(n + 1) : i \in 1..n \/ i = n + 1
    OBVIOUS
  <2> QED
    BY <1>1, <1>2, <1>4, <1>5, <2>1, <2>2
<1>9. AnswerInv(c)'
  BY <1>1, <1>2, <1>4, <1>5, <1>7, <1>8 DEF ConnInv, AnswerInv
<1>10. LinkInv(c)'
  BY DEF ConnInv, LinkInv
<1>11. StreamInv(c)'
  <2>1. hpc[c] \notin {"execute", "send", "blocked"}
    BY DEF ConnInv, StreamInv
  <2>2. hpc[c] \in {"none", "loop", "recv"} =>
          \/ up[c] = <<>>
          \/ peer[c] = "closed" /\ Len(up[c]) = 1 /\ Head(up[c]).part = "header" /\ Head(up[c]).kind = "put"
    BY DEF ConnInv, StreamInv
  <2> QED
    BY <2>1, <2>2 DEF StreamInv
<1> QED
  BY <1>4, <1>5, <1>7, <1>9, <1>10, <1>11

-----------------------------------------------------------------------------
(* The proxy and MosaicDBClient, event by event.                           *)

\* A step of the client's end of c: nothing happens to the other connections.
LEMMA OthersKept ==
    ASSUME NEW c \in Conn, \A d \in Conn : ConnInv(d), UNCHANGED <<acc, accepted>>,
           \A d \in Conn : d # c => Same(d), ConnInv(c)'
    PROVE  \A d \in Conn : ConnInv(d)'
<1>1. \A d \in Conn : NotAccepted(d)
  BY DEF NotAccepted
<1> QED
  BY <1>1, SameKept

\* The end of the proxy closes its connections and leaves its open requests without response.
LEMMA ThrowConns ==
    ASSUME ConnType, \A d \in Conn : ConnInv(d), NEW c \in Proxied, ProxyThrows(c)
    PROVE  ConnType' /\ \A d \in Conn : ConnInv(d)'
<1>1. UNCHANGED <<hpc, req, executed, acc, accepted, sock, up, down, route, sent, got>> /\ proxy' = "dead"
  BY DEF ProxyThrows, ServerIdle, handler, control
<1>2. /\ http' = [p \in Proxied |-> IF http[p] \in Settled \cup {"none"} THEN http[p] ELSE "lost"]
      /\ peer' = [p \in Conn |-> IF p \in Proxied /\ peer[p] = "open" THEN "closed" ELSE peer[p]]
  BY DEF ProxyThrows
<1>3. http' \in [Proxied -> HttpState] /\ \A d \in Proxied :
        http'[d] = "lost" \/ (http'[d] = http[d] /\ http[d] \in Settled \cup {"none"})
  BY <1>2 DEF HttpState, ConnType
<1>4. peer' \in [Conn -> {"new", "open", "closed"}] /\ \A d \in Conn :
        peer'[d] = peer[d] \/ (peer'[d] = "closed" /\ peer[d] = "open")
  BY <1>2 DEF ConnType
<1>5. ASSUME NEW d \in Conn PROVE ConnInv(d)'
  <2>1. LinkInv(d)'
    BY <1>1, <1>4 DEF ConnInv, LinkInv
  <2>2. StreamInv(d)' /\ AnswerInv(d)'
    BY <1>1, <1>4 DEF ConnInv, StreamInv, AnswerInv, Pending
  <2>3. ASSUME d \in Proxied PROVE ProxyInv(d)'
    <3>1. http'[d] \in {"lost", "none"} \cup Settled /\ (http'[d] # "lost" => http'[d] = http[d])
      BY <1>3, <2>3
    <3>2. http'[d] \notin {"connecting", "waiting", "posted"}
      BY <3>1 DEF Settled
    <3>3. ProxyInv(d)
      BY <2>3 DEF ConnInv
    <3>4. http'[d] = "none" => peer'[d] = "new" /\ sent[d] = 0
      BY <1>4, <3>1, <3>3 DEF ProxyInv
    <3> QED
      BY <1>1, <3>1, <3>2, <3>3, <3>4 DEF ProxyInv
  <2> QED
    BY <2>1, <2>2, <2>3 DEF ConnInv
<1> QED
  BY <1>1, <1>3, <1>4, <1>5 DEF ConnType

LEMMA ProxyConn ==
    ASSUME ConnType, NEW c \in Proxied, ConnInv(c), Post(c) \/ ProxyEvent(c), ~ProxyThrows(c)
    PROVE  ConnType' /\ ConnInv(c)' /\ \A d \in Conn : d # c => Same(d)
<1>a. c \in Conn
  BY ProxyConstants
<1>b. UNCHANGED <<hpc, req, executed, acc, accepted>>
  BY ClientsLeaveServer DEF ServerIdle, handler, control
<1>c. LinkInv(c) /\ StreamInv(c) /\ AnswerInv(c) /\ ProxyInv(c)
  BY DEF ConnInv
<1>d. ASSUME NEW h \in HttpState, http' = [http EXCEPT ![c] = h]
      PROVE  http' \in [Proxied -> HttpState] /\ http'[c] = h /\ \A d \in Proxied : d # c => http'[d] = http[d]
  BY <1>d DEF ConnType
<1>e. UNCHANGED <<proxy, route>>
  BY DEF Post, ProxyEvent, ProxyConnect, ProxyWrite, ProxyData, ProxyError, ProxyEnd, ProxyTimeout, HttpGoTo
<1>f. Rejected(c) \in {"failed", "disconnected"} /\ Resolved(c) \in {"ok", "connected"}
  BY DEF Rejected, Resolved
<1>1. CASE Post(c)
  <2>1. UNCHANGED <<sock, peer, up, down, sent, got>> /\ http[c] = "none"
    BY <1>1 DEF Post, HttpAt, network
  <2>2. PICK h \in {"posted", "failed", "bad_request"} : http' = [http EXCEPT ![c] = h]
    BY <1>1 DEF Post, HttpGoTo
  <2>3. h \in HttpState
    BY DEF HttpState, Settled
  <2>4. http' \in [Proxied -> HttpState] /\ http'[c] = h /\ \A d \in Proxied : d # c => http'[d] = http[d]
    BY <1>d, <2>2, <2>3
  <2>5. LinkInv(c)' /\ StreamInv(c)' /\ AnswerInv(c)'
    BY <1>b, <1>c, <2>1 DEF LinkInv, StreamInv, AnswerInv, Pending
  <2>6. ProxyInv(c)'
    BY <1>b, <1>c, <2>1, <2>2, <2>4 DEF ProxyInv
  <2>7. ConnType' /\ \A d \in Conn : d # c => Same(d)
    BY <1>b, <1>e, <2>1, <2>4 DEF ConnType, Same
  <2> QED
    BY <2>5, <2>6, <2>7 DEF ConnInv
<1>2. CASE ProxyConnect(c)
  <2> DEFINE h == IF Listening THEN "connecting" ELSE Rejected(c)
  <2>1. UNCHANGED <<up, down, sent, got>> /\ Connect(c) /\ http' = [http EXCEPT ![c] = h] /\ http[c] = "posted"
    BY <1>2 DEF ProxyConnect, HttpAt, HttpGoTo
  <2>2. h \in HttpState
    BY <1>f DEF HttpState, Settled
  <2>3. http' \in [Proxied -> HttpState] /\ http'[c] = h /\ \A d \in Proxied : d # c => http'[d] = http[d]
    BY <1>d, <2>1, <2>2
  <2>4. /\ peer' \in [Conn -> {"new", "open", "closed"}] /\ sock' \in [Conn -> SockState]
        /\ \A d \in Conn : d # c => peer'[d] = peer[d] /\ sock'[d] = sock[d]
        /\ peer'[c] = IF Listening THEN "open" ELSE "closed"
        /\ LinkInv(c)' /\ StreamInv(c)' /\ AnswerInv(c)'
    BY <1>a, <1>b, <2>1, ConnectConn
  <2>5. ProxyInv(c)'
    <3>1. CASE Listening
      BY <1>b, <1>c, <1>f, <2>1, <2>3, <2>4, <3>1 DEF ProxyInv
    <3>2. CASE ~Listening
      BY <1>b, <1>c, <1>f, <2>1, <2>3, <2>4, <3>2 DEF ProxyInv
    <3> QED
      BY <3>1, <3>2
  <2>6. ConnType' /\ \A d \in Conn : d # c => Same(d)
    BY <1>b, <1>e, <2>1, <2>3, <2>4 DEF ConnType, Same
  <2> QED
    BY <2>4, <2>5, <2>6 DEF ConnInv
<1>3. CASE ProxyWrite(c)
  <2>1. /\ UNCHANGED <<sock, peer, down, got>> /\ http[c] = "connecting"
        /\ sent' = [sent EXCEPT ![c] = 1] /\ http' = [http EXCEPT ![c] = "waiting"]
    BY <1>3 DEF ProxyWrite, HttpAt, HttpGoTo
  <2>2. PICK k \in {"sql", "oversize"} : Write(c, Frame(k, 1))
    BY <1>3 DEF ProxyWrite
  <2>3. peer[c] = "open" /\ sent[c] = 0 /\ executed[c] \in {<<>>, <<1>>}
    BY <1>c, <2>1 DEF ProxyInv
  <2>4. got[c] \in Seq(Nat) /\ sent[c] = Len(got[c]) /\ sent[c] + 1 = 1
    BY <1>a, <1>c, <2>3 DEF AnswerInv, ConnType
  <2>5. got[c] = <<>>
    BY <2>3, <2>4
  <2>6. executed[c] = <<>>
    <3> SUFFICES ASSUME executed[c] # <<>> PROVE FALSE
      OBVIOUS
    <3>1. 1 \in DOMAIN executed[c] /\ executed[c][1] = 1
      BY <2>3
    <3> QED
      BY <1>c, <2>3, <3>1 DEF AnswerInv
  <2>7. k \in RequestKinds
    BY DEF RequestKinds
  <2>8. /\ up' \in [Conn -> Seq(Part)] /\ sent' \in [Conn -> Nat] /\ sent'[c] = sent[c] + 1
        /\ \A d \in Conn : d # c => up'[d] = up[d] /\ sent'[d] = sent[d]
        /\ LinkInv(c)' /\ StreamInv(c)' /\ AnswerInv(c)'
        /\ up'[c] = up[c] \/ Head(up'[c]).kind = k
        /\ hpc[c] \in {"none", "loop", "recv"} => up[c] = <<>>
    BY <1>a, <1>b, <2>1, <2>2, <2>3, <2>4, <2>7, WriteConn
  <2>9. "waiting" \in HttpState
    BY DEF HttpState
  <2>10. /\ http' \in [Proxied -> HttpState] /\ http'[c] = "waiting"
         /\ \A d \in Proxied : d # c => http'[d] = http[d]
    BY <1>d, <2>1, <2>9
  <2>11. hpc[c] \notin {"execute", "send", "blocked"}
    BY <1>c, <2>3, <2>4 DEF StreamInv
  <2>12. ProxyInv(c)'
    BY <1>b, <1>c, <2>1, <2>3, <2>4, <2>5, <2>6, <2>8, <2>10, <2>11 DEF ProxyInv
  <2>13. ConnType' /\ \A d \in Conn : d # c => Same(d)
    BY <1>b, <1>e, <2>1, <2>8, <2>10 DEF ConnType, Same
  <2> QED
    BY <2>8, <2>12, <2>13 DEF ConnInv
<1>4. CASE ProxyData(c)
  <2>1. /\ UNCHANGED <<sock, up, sent>> /\ http[c] = "waiting" /\ down[c] # <<>>
        /\ got' = [got EXCEPT ![c] = Append(@, Head(down[c]))]
        /\ down' = [down EXCEPT ![c] = Tail(@)]
        /\ http' = [http EXCEPT ![c] = Resolved(c)]
        /\ peer' = [peer EXCEPT ![c] = "closed"]
    BY <1>4 DEF ProxyData, HttpAt, HttpGoTo, Destroy
  <2>2. /\ peer' \in [Conn -> {"new", "open", "closed"}] /\ peer'[c] = "closed"
        /\ \A d \in Conn : d # c => peer'[d] = peer[d]
    BY <1>a, <2>1 DEF ConnType
  <2>3. peer[c] = "open" /\ executed[c] = <<1>>
    BY <1>c, <2>1 DEF ProxyInv
  <2>4. /\ got' \in [Conn -> Seq(Nat)] /\ down' \in [Conn -> Seq(Nat)]
        /\ \A d \in Conn : d # c => got'[d] = got[d] /\ down'[d] = down[d]
        /\ LinkInv(c)' /\ StreamInv(c)' /\ AnswerInv(c)'
        /\ got'[c] # <<>>
    BY <1>a, <1>b, <2>1, <2>2, <2>3, ReadConn
  <2>5. Resolved(c) \in HttpState
    BY <1>f DEF HttpState, Settled
  <2>6. http' \in [Proxied -> HttpState] /\ http'[c] = Resolved(c) /\ \A d \in Proxied : d # c => http'[d] = http[d]
    BY <1>d, <2>1, <2>5
  <2>7. hpc[c] \notin {"execute", "send", "blocked"} /\ (hpc[c] \in {"none", "loop", "recv"} => up[c] = <<>>)
    BY <1>c, <2>1, <2>3 DEF StreamInv
  <2>8. ProxyInv(c)'
    BY <1>b, <1>c, <1>f, <2>1, <2>3, <2>4, <2>6, <2>7 DEF ProxyInv
  <2>9. ConnType' /\ \A d \in Conn : d # c => Same(d)
    BY <1>b, <1>e, <2>1, <2>2, <2>4, <2>6 DEF ConnType, Same
  <2> QED
    BY <2>4, <2>8, <2>9 DEF ConnInv
<1>5. CASE ProxyError(c) \/ ProxyEnd(c) \/ ProxyTimeout(c)
  <2>1. /\ UNCHANGED <<sock, up, down, sent, got>> /\ http[c] \in {"connecting", "waiting"}
        /\ Destroy(c)
    BY <1>5 DEF ProxyError, ProxyEnd, ProxyTimeout, HttpAt
  <2>2. PICK h \in {"failed", "disconnected", "hung"} : http' = [http EXCEPT ![c] = h]
    BY <1>5, <1>f DEF ProxyError, ProxyEnd, ProxyTimeout, HttpGoTo
  <2>3. h \in HttpState
    BY DEF HttpState, Settled
  <2>4. http' \in [Proxied -> HttpState] /\ http'[c] = h /\ \A d \in Proxied : d # c => http'[d] = http[d]
    BY <1>d, <2>2, <2>3
  <2>5. peer[c] = "open"
    BY <1>c, <2>1 DEF ProxyInv
  <2>6. /\ peer' \in [Conn -> {"new", "open", "closed"}] /\ peer'[c] = "closed"
        /\ \A d \in Conn : d # c => peer'[d] = peer[d]
        /\ LinkInv(c)' /\ StreamInv(c)' /\ AnswerInv(c)'
    BY <1>a, <1>b, <2>1, <2>5, DestroyConn
  <2>7. ProxyInv(c)'
    BY <1>b, <1>c, <2>1, <2>2, <2>4 DEF ProxyInv
  <2>8. ConnType' /\ \A d \in Conn : d # c => Same(d)
    BY <1>b, <1>e, <2>1, <2>4, <2>6 DEF ConnType, Same
  <2> QED
    BY <2>6, <2>7, <2>8 DEF ConnInv
<1> QED
  BY <1>1, <1>2, <1>3, <1>4, <1>5 DEF ProxyEvent

LEMMA ClientConn ==
    ASSUME ConnType, NEW c \in Direct, ConnInv(c), ClientStep(c)
    PROVE  ConnType' /\ ConnInv(c)' /\ \A d \in Conn : d # c => Same(d)
<1>a. c \in Conn /\ c \notin Proxied
  BY DEF Direct
<1>b. UNCHANGED <<hpc, req, executed, acc, accepted>>
  BY ClientsLeaveServer DEF ServerIdle, handler, control
<1>c. LinkInv(c) /\ StreamInv(c) /\ AnswerInv(c)
  BY DEF ConnInv
<1>d. UNCHANGED <<proxy, route, http>>
  BY DEF ClientStep, ClientConnect, ClientRequest, ClientReceive, ClientClose, ClientDies
<1>e. sent[c] \in Nat /\ Len(got[c]) \in Nat /\ up[c] \in Seq(Part)
  BY <1>a DEF ConnType
<1>1. CASE ClientConnect(c)
  <2>1. UNCHANGED <<up, down, sent, got>> /\ Connect(c)
    BY <1>1 DEF ClientConnect
  <2>2. /\ peer' \in [Conn -> {"new", "open", "closed"}] /\ sock' \in [Conn -> SockState]
        /\ \A d \in Conn : d # c => peer'[d] = peer[d] /\ sock'[d] = sock[d]
        /\ LinkInv(c)' /\ StreamInv(c)' /\ AnswerInv(c)'
    BY <1>a, <1>b, <2>1, ConnectConn
  <2>3. ConnType' /\ \A d \in Conn : d # c => Same(d)
    BY <1>b, <1>d, <2>1, <2>2 DEF ConnType, Same
  <2> QED
    BY <1>a, <2>2, <2>3 DEF ConnInv
<1>2. CASE ClientRequest(c)
  <2>1. /\ UNCHANGED <<sock, peer, down, got>> /\ peer[c] = "open" /\ sent[c] = Len(got[c])
        /\ sent[c] < Len(Requests) /\ Write(c, Frame(Requests[sent[c] + 1], sent[c] + 1))
    BY <1>2 DEF ClientRequest
  <2>2. sent' = [sent EXCEPT ![c] = sent[c] + 1]
    BY <1>2 DEF ClientRequest
  <2>3. Requests[sent[c] + 1] \in RequestKinds
    <3>1. Requests \in Seq(RequestKinds) /\ sent[c] + 1 \in 1..Len(Requests)
      BY <1>e, <2>1, ProxyConstants
    <3> QED
      BY <3>1
  <2>4. /\ up' \in [Conn -> Seq(Part)] /\ sent' \in [Conn -> Nat]
        /\ \A d \in Conn : d # c => up'[d] = up[d] /\ sent'[d] = sent[d]
        /\ LinkInv(c)' /\ StreamInv(c)' /\ AnswerInv(c)'
    BY <1>a, <1>b, <2>1, <2>2, <2>3, WriteConn
  <2>5. ConnType' /\ \A d \in Conn : d # c => Same(d)
    BY <1>b, <1>d, <2>1, <2>4 DEF ConnType, Same
  <2> QED
    BY <1>a, <2>4, <2>5 DEF ConnInv
<1>3. CASE ClientReceive(c)
  <2>1. /\ UNCHANGED <<sock, peer, up, sent>> /\ down[c] # <<>>
        /\ got' = [got EXCEPT ![c] = Append(@, Head(down[c]))]
        /\ down' = [down EXCEPT ![c] = Tail(@)]
    BY <1>3 DEF ClientReceive
  <2>2. /\ got' \in [Conn -> Seq(Nat)] /\ down' \in [Conn -> Seq(Nat)]
        /\ \A d \in Conn : d # c => got'[d] = got[d] /\ down'[d] = down[d]
        /\ LinkInv(c)' /\ StreamInv(c)' /\ AnswerInv(c)'
    BY <1>a, <1>b, <2>1, ReadConn
  <2>3. ConnType' /\ \A d \in Conn : d # c => Same(d)
    BY <1>b, <1>d, <2>1, <2>2 DEF ConnType, Same
  <2> QED
    BY <1>a, <2>2, <2>3 DEF ConnInv
<1>4. CASE ClientClose(c)
  <2>1. UNCHANGED <<sock, up, down, sent, got>> /\ peer[c] = "open" /\ Destroy(c)
    BY <1>4 DEF ClientClose
  <2>2. /\ peer' \in [Conn -> {"new", "open", "closed"}]
        /\ \A d \in Conn : d # c => peer'[d] = peer[d]
        /\ LinkInv(c)' /\ StreamInv(c)' /\ AnswerInv(c)'
    BY <1>a, <1>b, <2>1, DestroyConn
  <2>3. ConnType' /\ \A d \in Conn : d # c => Same(d)
    BY <1>b, <1>d, <2>1, <2>2 DEF ConnType, Same
  <2> QED
    BY <1>a, <2>2, <2>3 DEF ConnInv
<1>5. CASE ClientDies(c)
  <2> DEFINE f == Frame("put", sent[c] + 1)
  <2>1. /\ UNCHANGED <<sock, down, sent, got>> /\ peer[c] = "open" /\ sent[c] = Len(got[c])
        /\ peer' = [peer EXCEPT ![c] = "closed"]
        /\ up' = up \/ (sock[c] \in {"backlog", "open"} /\ up' = [up EXCEPT ![c] = up[c] \o <<Head(f)>>])
    BY <1>5 DEF ClientDies, Write, Destroy
  <2>2. Head(f) \in Part /\ Head(f) = [part |-> "header", kind |-> "put", id |-> sent[c] + 1]
    <3>1. "put" \in RequestKinds /\ sent[c] + 1 \in Nat
      BY <1>e DEF RequestKinds
    <3> QED
      BY <3>1, FrameWhole
  <2>3. Head(f).part = "header" /\ Head(f).kind = "put"
    BY <2>2
  <2> HIDE DEF f
  <2>4. /\ peer' \in [Conn -> {"new", "open", "closed"}] /\ peer'[c] = "closed"
        /\ \A d \in Conn : d # c => peer'[d] = peer[d]
    BY <1>a, <2>1 DEF ConnType
  <2>5. hpc[c] \notin {"execute", "send", "blocked"} /\ (hpc[c] \in {"none", "loop", "recv"} => up[c] = <<>>)
    BY <1>c, <1>e, <2>1 DEF StreamInv
  <2>6. /\ up' \in [Conn -> Seq(Part)] /\ \A d \in Conn : d # c => up'[d] = up[d]
        /\ hpc[c] # "done" => up'[c] = <<>> \/ up'[c] = <<Head(f)>>
    <3>1. CASE up' = up
      <4>1. hpc[c] \in HandlerLabel
        BY <1>a DEF ConnType
      <4> QED
        BY <2>5, <3>1, <4>1 DEF ConnType, HandlerLabel
    <3>2. CASE sock[c] \in {"backlog", "open"} /\ up' = [up EXCEPT ![c] = up[c] \o <<Head(f)>>]
      <4>1. hpc[c] \in HandlerLabel
        BY <1>a DEF ConnType
      <4>2. up[c] = <<>>
        BY <1>c, <2>5, <3>2, <4>1 DEF LinkInv, HandlerLabel
      <4>3. up[c] \o <<Head(f)>> = <<Head(f)>> /\ <<Head(f)>> \in Seq(Part)
        BY <2>2, <4>2
      <4> QED
        BY <1>a, <3>2, <4>3 DEF ConnType
    <3> QED
      BY <2>1, <3>1, <3>2
  <2>7. LinkInv(c)'
    BY <1>b, <1>c, <2>1, <2>4 DEF LinkInv
  <2>8. StreamInv(c)'
    <3>1. up'[c] = <<Head(f)>> => Len(up'[c]) = 1 /\ Head(up'[c]) = Head(f)
      OBVIOUS
    <3> QED
      BY <1>b, <2>3, <2>4, <2>5, <2>6, <3>1 DEF StreamInv
  <2>9. AnswerInv(c)'
    BY <1>b, <1>c, <2>1 DEF AnswerInv
  <2>10. ConnType' /\ \A d \in Conn : d # c => Same(d)
    BY <1>b, <1>d, <2>1, <2>4, <2>6 DEF ConnType, Same
  <2> QED
    BY <1>a, <2>7, <2>8, <2>9, <2>10 DEF ConnInv
<1> QED
  BY <1>1, <1>2, <1>3, <1>4, <1>5 DEF ClientStep

-----------------------------------------------------------------------------
(* The theorems.                                                           *)

LEMMA InvInit ==
    ASSUME Init
    PROVE  TypeOK /\ ShutdownInv /\ \A c \in Conn : ConnInv(c)
<1>1. ShutdownInv
  BY Stoppers, ServerConstants DEF Init, ServerInit, ShutdownInv, EngineOutlivesThreads, Stopper
<1>2. ConnType
  <2>1. <<>> \in Seq(Nat) /\ <<>> \in Seq(Part) /\ 0 \in Nat
    OBVIOUS
  <2> QED
    BY <2>1 DEF Init, ServerInit, ConnType, HandlerLabel, SockState, HttpState
<1>3. ControlType
  <2>1. 0 \in 0..MaxSignals
    BY ServerConstants
  <2>2. spc \in [Stopper -> StopLabel] /\ host \in [Stopper -> Host]
    BY DEF Init, ServerInit, StopLabel, Host
  <2> QED
    BY <2>1, <2>2 DEF Init, ServerInit, ControlType
<1>4. \A c \in Conn : sent[c] = 0 /\ got[c] = <<>> /\ Len(got[c]) = 0
  BY DEF Init
<1>5. TypeOK
  BY <1>2, <1>3, <1>4 DEF TypeOK, ConnType, ControlType, StopLabel, Host, HandlerLabel, SockState, HttpState
<1>6. ASSUME NEW c \in Conn PROVE ConnInv(c)
  <2>1. /\ peer[c] = "new" /\ sock[c] = "none" /\ hpc[c] = "none" /\ acc = "none"
        /\ up[c] = <<>> /\ down[c] = <<>> /\ executed[c] = <<>>
    BY DEF Init, ServerInit
  <2>2. LinkInv(c)
    BY <2>1 DEF LinkInv
  <2>3. StreamInv(c) /\ AnswerInv(c)
    BY <1>4, <2>1 DEF StreamInv, AnswerInv
  <2>4. c \in Proxied => ProxyInv(c)
    BY <1>4, <2>1 DEF Init, ProxyInv
  <2> QED
    BY <2>2, <2>3, <2>4 DEF ConnInv
<1> QED
  BY <1>1, <1>5, <1>6

LEMMA InvStep ==
    ASSUME TypeOK, ShutdownInv, \A c \in Conn : ConnInv(c), [Next]_vars
    PROVE  TypeOK' /\ ShutdownInv' /\ \A c \in Conn : ConnInv(c)'
<1>1. ConnType
  BY DEF TypeOK, ConnType, HandlerLabel, SockState, HttpState
<1>2. ConnType' /\ \A c \in Conn : ConnInv(c)'
  <2>1. CASE ServerStep /\ UNCHANGED <<proxy, route, http, sent, got>>
    BY <1>1, <2>1, ControlKeepsConns, AcceptKeepsConns, SpawnKeepsConns, HandlerKeepsConns
       DEF ServerStep, Acceptor
  <2>2. ASSUME NEW c \in Proxied, Post(c) \/ ProxyEvent(c) PROVE ConnType' /\ \A d \in Conn : ConnInv(d)'
    <3>1. c \in Conn
      BY ProxyConstants
    <3>2. CASE ProxyThrows(c)
      BY <1>1, <3>2, ThrowConns
    <3>3. CASE ~ProxyThrows(c)
      <4>1. ConnType' /\ ConnInv(c)' /\ \A d \in Conn : d # c => Same(d)
        BY <1>1, <2>2, <3>1, <3>3, ProxyConn
      <4>2. UNCHANGED <<acc, accepted>>
        BY <2>2, ClientsLeaveServer DEF ServerIdle, control
      <4> QED
        BY <3>1, <4>1, <4>2, OthersKept
    <3> QED
      BY <3>2, <3>3
  <2>3. ASSUME NEW c \in Direct, ClientStep(c) PROVE ConnType' /\ \A d \in Conn : ConnInv(d)'
    <3>1. c \in Conn
      BY DEF Direct
    <3>2. ConnType' /\ ConnInv(c)' /\ \A d \in Conn : d # c => Same(d)
      BY <1>1, <2>3, <3>1, ClientConn
    <3>3. UNCHANGED <<acc, accepted>>
      BY <2>3, ClientsLeaveServer DEF ServerIdle, control
    <3> QED
      BY <3>1, <3>2, <3>3, OthersKept
  <2>4. CASE UNCHANGED vars
    <3>1. /\ UNCHANGED <<hpc, req, executed, sock, peer, up, down, proxy, route, http, sent, got>>
          /\ UNCHANGED <<acc, accepted>>
      BY <2>4 DEF vars, svars, clients, control, handler, network
    <3>2. \A c \in Conn : Same(c) /\ NotAccepted(c)
      BY <3>1 DEF Same, NotAccepted
    <3> QED
      BY <1>1, <3>1, <3>2, SameKept DEF ConnType
  <2> QED
    BY <2>1, <2>2, <2>3, <2>4 DEF Next, clients
<1>3. ControlType' /\ ShutdownInv'
  BY ShutdownStep
<1>4. \A c \in Conn : Len(got'[c]) <= sent'[c]
  <2>1. \A c \in Conn : sent'[c] \in {Len(got'[c]), Len(got'[c]) + 1} /\ Len(got'[c]) \in Nat
    BY <1>2 DEF ConnInv, AnswerInv, ConnType
  <2> QED
    BY <2>1
<1>5. TypeOK'
  BY <1>2, <1>3, <1>4 DEF TypeOK, ConnType, ControlType, StopLabel, Host, HandlerLabel, SockState, HttpState
<1> QED
  BY <1>2, <1>3, <1>5

\* The threads of the server, its connections and their clients are as the invariants say, at
\* every interleaving of requests, signals, shutdown and broken connections.
THEOREM ServerInvariant == Spec => [](TypeOK /\ ShutdownInv /\ ConnectionInv)
<1> DEFINE Inv == TypeOK /\ ShutdownInv /\ \A c \in Conn : ConnInv(c)
<1>1. Init => Inv
  BY InvInit
<1>2. Inv /\ [Next]_vars => Inv'
  BY InvStep
<1>3. Inv => TypeOK /\ ShutdownInv /\ ConnectionInv
  BY ProxyConstants DEF ConnInv, ConnectionInv
<1> HIDE DEF Inv
<1> QED
  BY <1>1, <1>2, <1>3, PTL DEF Spec

\* Every variable of server, proxy and clients keeps its type; no client has more replies than
\* it sent requests.
THEOREM ServerTypeCorrect == Spec => []TypeOK
BY ServerInvariant, PTL

\* No thread is left when the engine is destroyed: stop() joins the acceptor before the client
\* threads, whoever else is in stop() at the time.
THEOREM EngineOutlives == Spec => []EngineOutlivesThreads
<1>1. ShutdownInv => EngineOutlivesThreads
  BY DEF ShutdownInv
<1> QED
  BY ServerInvariant, <1>1, PTL

\* Replies and executions of a connection are in step with its requests.
LEMMA InvGivesReplies ==
    ASSUME TypeOK, ConnectionInv, NEW c \in Conn
    PROVE  /\ \A i \in DOMAIN (got[c] \o down[c]) : (got[c] \o down[c])[i] = i
           /\ \A i, j \in DOMAIN executed[c] : i < j => executed[c][i] < executed[c][j]
<1>1. AnswerInv(c)
  BY DEF ConnectionInv
<1>2. got[c] \in Seq(Nat) /\ down[c] \in Seq(Nat) /\ sent[c] \in Nat /\ Len(got[c]) \in Nat
  BY DEF TypeOK
<1>3. \A i \in 1..Len(got[c]) : got[c][i] = i
  BY <1>1, <1>2 DEF AnswerInv
<1>4. CASE down[c] = <<>>
  <2>1. got[c] \o down[c] = got[c] /\ DOMAIN got[c] = 1..Len(got[c])
    BY <1>2, <1>4
  <2> QED
    BY <1>1, <1>3, <2>1 DEF AnswerInv
<1>5. CASE down[c] # <<>>
  <2>1. down[c] = <<sent[c]>> /\ sent[c] = Len(got[c]) + 1
    BY <1>1, <1>2, <1>5 DEF AnswerInv
  <2>2. got[c] \o down[c] = Append(got[c], sent[c])
    BY <1>2, <2>1
  <2>3. \A n \in Nat : \A i \in 1..(n + 1) : i \in 1..n \/ i = n + 1
    OBVIOUS
  <2> QED
    BY <1>1, <1>2, <1>3, <2>1, <2>2, <2>3, AppendFacts DEF AnswerInv
<1> QED
  BY <1>4, <1>5

\* handle_client() answers the requests of a connection one by one and in order, and executes
\* none twice, however many there are and whatever they ask.
THEOREM RepliesMatch == Spec => []RepliesMatchRequests
<1>1. TypeOK /\ ConnectionInv => RepliesMatchRequests
  BY InvGivesReplies DEF RepliesMatchRequests
<1> QED
  BY ServerInvariant, <1>1, PTL

\* /api/sql answers with HTTP 200, and /api/health with "connected", only for a statement that the
\* server has executed, once, and answered; the HTTP 200 of a failed health request says
\* "disconnected" and is not among them.
THEOREM OkMeansExecuted == Spec => []HttpOkExecuted
<1>1. ConnectionInv => HttpOkExecuted
  BY DEF ConnectionInv, ProxyInv, HttpOkExecuted
<1> QED
  BY ServerInvariant, <1>1, PTL
=============================================================================
