----------------------------- MODULE HttpProxy ------------------------------
(***************************************************************************)
(* The clients of the server: the HTTP proxy (src/visualizer/proxy.mjs),   *)
(* which opens a connection per HTTP request, and MosaicDBClient           *)
(* (src/client/mosaic_client.py), which sends one request after the other  *)
(* over a connection it keeps.  Composed with Server.                      *)
(***************************************************************************)
EXTENDS Server

CONSTANTS
    Proxied,       \* the connections that sendSQL() opens
    Requests       \* bound: the kinds of the requests over one connection of MosaicDBClient

ASSUME ProxyConstants == Proxied \subseteq Conn /\ Requests \in Seq(RequestKinds)

Direct == Conn \ Proxied

VARIABLES
    proxy,  \* the proxy's process: "up" or "dead"
    route,  \* what an HTTP request asks for: POST /api/sql or GET /api/health
    http,   \* an HTTP request and the promise of its sendSQL()
    sent,   \* requests sent over a connection
    got     \* replies the client has read

clients == <<proxy, route, http, sent, got>>
vars    == <<svars, clients>>

Init ==
    /\ ServerInit
    /\ proxy = "up"
    /\ route \in [Proxied -> {"sql", "health"}]
    /\ http = [c \in Proxied |-> "none"]
    /\ sent = [c \in Conn |-> 0]
    /\ got = [c \in Conn |-> <<>>]

\* HTTP 200 with the result, 500, 400, and 200 for a health request whatever its result.
Settled == {"ok", "failed", "bad_request", "connected", "disconnected"}

-----------------------------------------------------------------------------
\* The client's end: nothing but the connection changes on the server's side.
ServerIdle == UNCHANGED <<platform, main, control, handler>>

\* Writing a request; what is written to a connection the server has left is lost.
Write(c, parts) ==
    up' = IF sock[c] \in {"backlog", "open"} THEN [up EXCEPT ![c] = @ \o parts] ELSE up

Destroy(c) == peer' = [peer EXCEPT ![c] = "closed"]

-----------------------------------------------------------------------------
(* proxy.mjs.                                                              *)

HttpAt(c, labels) == proxy = "up" /\ http[c] \in labels

HttpGoTo(c, label) == http' = [http EXCEPT ![c] = label] /\ UNCHANGED <<proxy, route>>

\* await sendSQL(): the response when it resolves, and when it rejects.
Resolved(c) == IF route[c] = "health" THEN "connected" ELSE "ok"
Rejected(c) == IF route[c] = "health" THEN "disconnected" ELSE "failed"

\* A request arrives; a body that is no JSON is answered with 500 at once, one without "sql"
\* with 400.
Post(c) ==
    /\ HttpAt(c, {"none"})
    /\ \/ HttpGoTo(c, "posted")
       \/ route[c] = "sql" /\ (HttpGoTo(c, "failed") \/ HttpGoTo(c, "bad_request"))
    /\ ServerIdle /\ UNCHANGED <<network, sent, got>>

\* client.connect(); a refused connection is the 'error' event.
ProxyConnect(c) ==
    /\ HttpAt(c, {"posted"})
    /\ Connect(c)
    /\ HttpGoTo(c, IF Listening THEN "connecting" ELSE Rejected(c))
    /\ ServerIdle /\ UNCHANGED <<up, down, sent, got>>

\* The callback of connect() writes the statement, however long it is.
ProxyWrite(c) ==
    /\ HttpAt(c, {"connecting"})
    /\ \E k \in {"sql"} \cup (IF route[c] = "sql" THEN {"oversize"} ELSE {}) : Write(c, Frame(k, 1))
    /\ sent' = [sent EXCEPT ![c] = 1]
    /\ HttpGoTo(c, "waiting")
    /\ ServerIdle /\ UNCHANGED <<sock, peer, down, got>>

\* Its Buffer.from() throws if "sql" is no text: nobody catches it, and the proxy ends with
\* all its connections and every request that has no response yet.
ProxyThrows(c) ==
    /\ HttpAt(c, {"connecting"}) /\ route[c] = "sql"
    /\ proxy' = "dead"
    /\ http' = [p \in Proxied |-> IF http[p] \in Settled \cup {"none"} THEN http[p] ELSE "lost"]
    /\ peer' = [p \in Conn |-> IF p \in Proxied /\ peer[p] = "open" THEN "closed" ELSE peer[p]]
    /\ ServerIdle /\ UNCHANGED <<sock, up, down, route, sent, got>>

\* Mutant: the promise is resolved by the first bytes, the header.
ProxyDataEarly(c) ==
    /\ HttpAt(c, {"waiting"}) /\ hpc[c] \in {"execute", "send"}
    /\ Destroy(c)
    /\ HttpGoTo(c, Resolved(c))
    /\ ServerIdle /\ UNCHANGED <<sock, up, down, sent, got>>

\* 'data' with the whole reply: the promise resolves, whatever the status in it.
ProxyData(c) ==
    /\ HttpAt(c, {"waiting"}) /\ down[c] # <<>>
    /\ got' = [got EXCEPT ![c] = Append(@, Head(down[c]))]
    /\ down' = [down EXCEPT ![c] = Tail(@)]
    /\ Destroy(c)
    /\ HttpGoTo(c, Resolved(c))
    /\ ServerIdle /\ UNCHANGED <<sock, up, sent>>

\* Mutant: no handler for 'error'.
ProxyErrorIgnored(c) ==
    /\ HttpAt(c, {"connecting", "waiting"}) /\ down[c] = <<>> /\ peer[c] = "open"
    /\ sock[c] = "reset"
    /\ Destroy(c)
    /\ UNCHANGED <<proxy, route, http>>
    /\ ServerIdle /\ UNCHANGED <<sock, up, down, sent, got>>

\* 'error': a reset connection, or a write to one that the server has closed.
ProxyError(c) ==
    /\ HttpAt(c, {"connecting", "waiting"}) /\ down[c] = <<>>
    /\ sock[c] = "reset" \/ (sock[c] = "closed" /\ http[c] = "waiting")
    /\ Destroy(c)
    /\ HttpGoTo(c, Rejected(c))
    /\ ServerIdle /\ UNCHANGED <<sock, up, down, sent, got>>

\* 'end' has no handler: the socket goes, its timer too, and the promise stays as it is.
ProxyEnd(c) ==
    /\ HttpAt(c, {"connecting", "waiting"}) /\ down[c] = <<>>
    /\ sock[c] = "closed"
    /\ Destroy(c)
    /\ HttpGoTo(c, "hung")
    /\ ServerIdle /\ UNCHANGED <<sock, up, down, sent, got>>

\* 'timeout' after five idle seconds, whatever the server is doing.
ProxyTimeout(c) ==
    /\ HttpAt(c, {"connecting", "waiting"}) /\ peer[c] = "open"
    /\ Destroy(c)
    /\ HttpGoTo(c, Rejected(c))
    /\ ServerIdle /\ UNCHANGED <<sock, up, down, sent, got>>

-----------------------------------------------------------------------------
(* mosaic_client.py.                                                       *)

ClientConnect(c) ==
    /\ Connect(c)
    /\ ServerIdle /\ UNCHANGED <<up, down, proxy, route, http, sent, got>>

\* _request: the next request once the reply to the last one is read.
ClientRequest(c) ==
    /\ peer[c] = "open" /\ sock[c] \in {"backlog", "open"}
    /\ sent[c] = Len(got[c]) /\ sent[c] < Len(Requests)
    /\ Write(c, Frame(Requests[sent[c] + 1], sent[c] + 1))
    /\ sent' = [sent EXCEPT ![c] = @ + 1]
    /\ ServerIdle /\ UNCHANGED <<sock, peer, down, proxy, route, http, got>>

\* The client dies in the middle of a request.
ClientDies(c) ==
    /\ peer[c] = "open" /\ sent[c] = Len(got[c]) /\ sent[c] < Len(Requests)
    /\ Write(c, <<Head(Frame("put", sent[c] + 1))>>)
    /\ Destroy(c)
    /\ ServerIdle /\ UNCHANGED <<sock, down, proxy, route, http, sent, got>>

ClientReceive(c) ==
    /\ peer[c] = "open" /\ down[c] # <<>>
    /\ got' = [got EXCEPT ![c] = Append(@, Head(down[c]))]
    /\ down' = [down EXCEPT ![c] = Tail(@)]
    /\ ServerIdle /\ UNCHANGED <<sock, peer, up, proxy, route, http, sent>>

\* close(), or ConnectionError because the server has left.
ClientClose(c) ==
    /\ peer[c] = "open" /\ down[c] = <<>>
    /\ sent[c] = Len(got[c]) \/ sock[c] \in {"closed", "reset"}
    /\ Destroy(c)
    /\ ServerIdle /\ UNCHANGED <<sock, up, down, proxy, route, http, sent, got>>

-----------------------------------------------------------------------------
\* The events of one HTTP request behind its arrival.
ProxyEvent(c) ==
    \/ ProxyConnect(c) \/ ProxyWrite(c) \/ ProxyThrows(c) \/ ProxyData(c)
    \/ ProxyError(c) \/ ProxyEnd(c) \/ ProxyTimeout(c)

ClientStep(c) ==
    \/ ClientConnect(c) \/ ClientRequest(c) \/ ClientReceive(c)
    \/ ClientClose(c) \/ ClientDies(c)

Next ==
    \/ ServerStep /\ UNCHANGED clients
    \/ \E c \in Proxied : Post(c) \/ ProxyEvent(c)
    \/ \E c \in Direct : ClientStep(c)

Spec == Init /\ [][Next]_vars

-----------------------------------------------------------------------------
(* Properties.                                                             *)

Part    == [part : {"header", "key", "value"}, kind : RequestKinds, id : Nat]
Request == [kind : RequestKinds, id : Nat]

TypeOK ==
    /\ platform \in Platforms
    /\ proc \in {"up", "exited", "killed"}
    /\ mpc \in {"start", "launch", "poll", "destroy"}
    /\ signals \in 0..MaxSignals
    /\ running \in BOOLEAN /\ listen \in BOOLEAN
    /\ acc \in {"none", "loop", "accept", "failed", "spawn", "done", "joined"}
    /\ accepted \in Conn \cup {None}
    /\ spc \in [Stopper -> {"idle", "stop", "join_acceptor", "joining", "lock",
                            "join_clients", "done"}]
    /\ host \in [Stopper -> {"main", "acceptor", "own"} \cup Conn]
    /\ mutex \in Stopper \cup {None}
    /\ threads \subseteq Conn
    /\ hpc \in [Conn -> {"none", "loop", "recv", "execute", "send", "blocked", "done"}]
    /\ req \in [Conn -> Request \cup {None}]
    /\ executed \in [Conn -> Seq(Nat)]
    /\ sock \in [Conn -> {"none", "backlog", "open", "closed", "reset"}]
    /\ peer \in [Conn -> {"new", "open", "closed"}]
    /\ up \in [Conn -> Seq(Part)]
    /\ down \in [Conn -> Seq(Nat)]
    /\ proxy \in {"up", "dead"} /\ route \in [Proxied -> {"sql", "health"}]
    /\ http \in [Proxied -> Settled \cup {"none", "posted", "connecting", "waiting", "hung", "lost"}]
    /\ sent \in [Conn -> Nat] /\ got \in [Conn -> Seq(Nat)]
    /\ \A c \in Conn : Len(got[c]) <= sent[c]

\* The i-th reply on a connection answers the i-th request, and no request is executed twice,
\* whatever mixture of requests, unknown types and broken connections came before:
\* handle_client() reads exactly the bytes that the header announced.
RepliesMatchRequests ==
    \A c \in Conn :
        /\ \A i \in DOMAIN (got[c] \o down[c]) : (got[c] \o down[c])[i] = i
        /\ \A i, j \in DOMAIN executed[c] : i < j => executed[c][i] < executed[c][j]

\* When main() returns and the engine is destroyed no accept or client thread is left that
\* could still use it, on either platform: stop() joins the acceptor before it looks at
\* client_threads_, so no late connection escapes it.
EngineOutlivesThreads ==
    proc = "exited" => acc \in {"none", "joined"} /\ \A c \in Conn : hpc[c] \in {"none", "done"}

\* /api/sql answers with HTTP 200, and /api/health with "connected", only when the server has
\* executed the statement and its whole reply is there.  The contrary is not promised: a request
\* that timed out may have been executed, and /api/health answers HTTP 200 for a failure too.
HttpOkExecuted ==
    \A c \in Proxied : http[c] \in {"ok", "connected"} => executed[c] = <<1>> /\ got[c] # <<>>

\* A client thread that is waiting for its client to say something, to read its reply or to
\* leave.
WaitsForClient ==
    \E c \in Conn : peer[c] = "open" /\ ((hpc[c] = "recv" /\ up[c] = <<>>) \/ hpc[c] = "blocked")

\* A signal has come while the handler of another was in stop().
Nested == \E x, y \in Activation : x # y /\ Active(x) /\ Active(y)

\* Some thread of the server can go on without a client, and the thread of c can.
ThreadsRun  == ENABLED ((Main \/ Acceptor \/ (\E x \in Stopper : Stop(x)) \/ \E c \in Conn : Handle(c))
                         /\ UNCHANGED clients)
Serves(c) == ENABLED (Handle(c) /\ UNCHANGED clients)

\* A server that is to stop goes on until the process has ended, or stays only because accept()
\* waits for a connection that nobody makes (POSIX), a client keeps an idle connection open or
\* does not read its reply, or a second signal came into the handler: no order of accepts,
\* requests and the calls of stop() by one handler after the other and by ~Server makes the
\* threads wait for each other.
ShutdownWaitsOnlyForClients ==
    proc = "up" /\ ~running /\ ~ThreadsRun =>
        WaitsForClient \/ Nested \/ (platform = "posix" /\ acc = "accept")

\* MosaicDBClient waits without a timeout: as long as a request has no answer a thread of the
\* server is at work for it, unless the client does not read, the server has closed the
\* connection, which the client sees, a signal handler has taken the client's thread, which it
\* never gives back, or a stop() that ran before start() was over holds threads_mutex_ for an
\* idle client, so that no accepted connection gets a thread.
RequestsAnswered ==
    \A c \in Direct :
        sent[c] > Len(got[c]) =>
            \/ down[c] # <<>> \/ hpc[c] = "blocked"
            \/ sock[c] \in {"closed", "reset"} \/ peer[c] = "closed" \/ Paused(c)
            \/ IF hpc[c] = "none" THEN ThreadsRun \/ (mutex # None /\ WaitsForClient) ELSE Serves(c)

\* A promise of sendSQL() that is not settled has an event to come, so every HTTP request gets
\* its response, except one whose connection the server closed without an answer and without a
\* reset, for which proxy.mjs has no handler, and those that are open when a statement that is
\* no text ends the proxy.
HttpSettled ==
    \A c \in Proxied :
        proxy = "up" /\ http[c] \notin Settled \cup {"none", "hung"} => ENABLED ProxyEvent(c)

-----------------------------------------------------------------------------
(* The inductive invariant behind the safety properties.                   *)

\* main() is past the acceptor's join only when there is no acceptor, and none starts again
\* (start() is over); a running client thread is in client_threads_ until it has been joined.
ShutdownInv ==
    /\ spc[0] # "idle" => mpc = "destroy"
    /\ spc[0] \in {"lock", "join_clients"} => acc \in {"none", "joined"}
    /\ \A c \in Conn : hpc[c] \notin {"none", "done"} => c \in threads
    /\ acc = "spawn" => accepted \in Conn
    /\ EngineOutlivesThreads

\* A connection gets a thread once, between accept() and close_socket().
LinkInv(c) ==
    /\ peer[c] = "new" => sock[c] = "none"
    /\ sock[c] \in {"none", "backlog"} => hpc[c] = "none"
    /\ hpc[c] = "done" => sock[c] \in {"closed", "reset"}
    /\ acc = "spawn" /\ accepted = c => hpc[c] = "none" /\ sock[c] \notin {"none", "backlog"}

\* f is a whole request: a header and as many parts as it announces.
Whole(f) == f # <<>> /\ Head(f).part = "header" /\ Len(f) = Len(Parts(Head(f).kind))

\* The last request has not been executed.
Pending(c) == \A i \in DOMAIN executed[c] : executed[c][i] < sent[c]

\* Before the handler reads, the stream holds nothing, the request without an answer, or what
\* a client wrote that died; while it works the stream is empty.
StreamInv(c) ==
    /\ hpc[c] \in {"none", "loop", "recv"} =>
          \/ up[c] = <<>>
          \/ peer[c] = "closed" /\ Len(up[c]) = 1 /\ Head(up[c]).part = "header" /\ Head(up[c]).kind = "put"
          \/ Whole(up[c]) /\ Head(up[c]).id = sent[c] /\ Pending(c) /\ down[c] = <<>> /\ sent[c] > Len(got[c])
    /\ hpc[c] \in {"execute", "send", "blocked"} =>
          /\ req[c] \in Request /\ req[c].id = sent[c] /\ sent[c] > Len(got[c])
          /\ up[c] = <<>> /\ down[c] = <<>>
    /\ hpc[c] = "execute" => Pending(c)

\* One request at a time is without an answer, and the answers are those to all before it.
AnswerInv(c) ==
    /\ sent[c] \in {Len(got[c]), Len(got[c]) + 1}
    /\ \A i \in DOMAIN got[c] : got[c][i] = i
    /\ down[c] # <<>> => down[c] = <<sent[c]>> /\ sent[c] > Len(got[c])
    /\ \A i \in DOMAIN executed[c] : executed[c][i] <= sent[c]
    /\ \A i, j \in DOMAIN executed[c] : i < j => executed[c][i] < executed[c][j]

\* sendSQL() writes one statement over an open connection, and it is a statement that the
\* server executes before it answers.
ProxyInv(c) ==
    /\ http[c] = "connecting" => peer[c] = "open" /\ sent[c] = 0
    /\ http[c] = "waiting" => peer[c] = "open" /\ sent[c] = 1 /\ got[c] = <<>>
    /\ http[c] \in {"none", "posted"} => peer[c] = "new" /\ sent[c] = 0
    /\ executed[c] \in {<<>>, <<1>>} /\ sent[c] \in {0, 1}
    /\ hpc[c] \in {"none", "loop", "recv"} /\ up[c] # <<>> =>
          Head(up[c]).kind \in {"sql", "oversize"} /\ executed[c] = <<>>
    /\ hpc[c] = "execute" => req[c].kind # "unknown" /\ executed[c] = <<>>
    /\ hpc[c] \in {"send", "blocked"} \/ down[c] # <<>> \/ got[c] # <<>> => executed[c] = <<1>>
    /\ http[c] \in {"ok", "connected"} => got[c] # <<>>

\* The inductive invariant of a connection: when handle_client() is about to read, nothing but
\* the request without an answer is in the stream, whole unless its client died, and while it
\* works on a request nothing is; so replies and executions stay in step with the requests.
ConnectionInv ==
    /\ \A c \in Conn : LinkInv(c) /\ StreamInv(c) /\ AnswerInv(c)
    /\ \A c \in Proxied : ProxyInv(c)
=============================================================================
