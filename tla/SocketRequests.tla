---------------------------- MODULE SocketRequests ---------------------------
(***************************************************************************)
(* Requests over the message socket (OWSWebSocket.m), with the failover to *)
(* REST of whoever makes them (OWSRequestMaker.swift).                     *)
(*                                                                         *)
(* The socket changes its state on the main thread, in the steps setState  *)
(* takes; makeRequest runs on any thread; timers and answers run on global *)
(* queues.  Only socketMessageMap and hasCompleted are behind a lock, so   *)
(* every step that takes such a lock, or reads canMakeRequests or the      *)
(* websocket, is an action of its own.                                     *)
(*                                                                         *)
(* Each request is made once.  Taking a request out of the map and         *)
(* completing it are one step: what may come between is its timer, which   *)
(* then might as well have come before.                                    *)
(***************************************************************************)
EXTENDS Naturals, Sequences

CONSTANTS
    Requests,
    MaxConnections      \* bound: how often the socket connects

ASSUME MaxConnectionsAssumption == MaxConnections \in Nat

VARIABLES
    \* the socket
    state,
    websocket,          \* the connection of self.websocket, 0 for nil
    canMakeRequests,
    setter,             \* where setState is, on the main thread
    connections,
    \* the requests
    thread,             \* where makeRequest is
    socketMessageMap,
    timer,
    completions,        \* what each request was completed with, in order
    inbound,            \* answers the service has sent on the current connection
    answers,            \* answers whose blocks are on the global queue
    \* OWSRequestMaker
    maker,
    \* history
    accepted            \* how often the service accepted a request

socketVars  == <<state, websocket, canMakeRequests, setter, connections>>
requestVars == <<thread, socketMessageMap, timer, completions>>
answerVars  == <<inbound, answers>>
vars        == <<socketVars, requestVars, answerVars, maker, accepted>>

\* An answer that reports success, an error, or that the rate limit is hit (413).
Verdicts == {"success", "failure", "limited"}

Answers == [request : Requests, verdict : Verdicts]

\* makeRequest ends as "written", or "unbuilt" if its proto could not be built.
Threads == {"none", "making", "registered", "checked", "written", "unbuilt", "failed"}

Makers == {"none", "websocket", "rest", "fulfilled", "rejected"}

TypeOK ==
    /\ state \in {"closed", "connecting", "open"}
    /\ websocket \in 0 .. MaxConnections
    /\ canMakeRequests \in BOOLEAN
    /\ setter \in {"none", "reset", "failing"}
    /\ connections \in 0 .. MaxConnections
    /\ thread \in [Requests -> Threads]
    /\ socketMessageMap \subseteq Requests
    /\ timer \in [Requests -> {"none", "armed", "fired"}]
    /\ completions \in [Requests -> Seq(Verdicts)]
    /\ inbound \subseteq Answers
    /\ answers \subseteq Answers
    /\ maker \in [Requests -> Makers]
    /\ accepted \in [Requests -> Nat]

Init ==
    /\ state = "closed"
    /\ websocket = 0
    /\ canMakeRequests = FALSE
    /\ setter = "none"
    /\ connections = 0
    /\ thread = [r \in Requests |-> "none"]
    /\ socketMessageMap = {}
    /\ timer = [r \in Requests |-> "none"]
    /\ completions = [r \in Requests |-> <<>>]
    /\ inbound = {}
    /\ answers = {}
    /\ maker = [r \in Requests |-> "none"]
    /\ accepted = [r \in Requests |-> 0]

------------------------------------------------------------------------------
\* TSSocketMessage: completing a request

hasCompleted(r) == completions[r] # <<>>

\* Mutant: the flag is set but not looked at.
CompletedAnyway(rs, verdict) ==
    [r \in Requests |->
        IF r \in rs /\ Len(completions[r]) < 2 THEN Append(completions[r], verdict)
        ELSE completions[r]]

\* didSucceed and didFail of the requests rs: only the first one has an effect.
Completed(rs, verdict) ==
    [r \in Requests |->
        IF r \in rs /\ ~hasCompleted(r) THEN Append(completions[r], verdict)
        ELSE completions[r]]

didFailBeforeSending(r) == completions' = Completed({r}, "failure")

------------------------------------------------------------------------------
\* setState, on the main thread

IsMainFree == setter = "none"

\* The app closes the socket or learns that it has failed: resetSocket.  What the
\* old connection still had to say is not heard.
CloseSocket ==
    /\ IsMainFree
    /\ state # "closed"
    /\ websocket' = 0
    /\ inbound' = {}
    /\ setter' = "reset"
    /\ UNCHANGED <<state, canMakeRequests, connections, requestVars, answers, maker, accepted>>

SocketIsClosed ==
    /\ setter = "reset"
    /\ state' = "closed"
    /\ canMakeRequests' = FALSE
    /\ setter' = "failing"
    /\ UNCHANGED <<websocket, connections, requestVars, answerVars, maker, accepted>>

failAllPendingSocketMessages ==
    /\ setter = "failing"
    /\ completions' = Completed(socketMessageMap, "failure")
    /\ socketMessageMap' = {}
    /\ setter' = "none"
    /\ UNCHANGED <<state, websocket, canMakeRequests, connections, thread, timer,
                   answerVars, maker, accepted>>

\* ensureWebsocketIsOpen: setState to connecting builds a websocket and fails what
\* is pending, too.
Connect ==
    /\ IsMainFree
    /\ state = "closed"
    /\ connections < MaxConnections
    /\ connections' = connections + 1
    /\ websocket' = connections + 1
    /\ state' = "connecting"
    /\ canMakeRequests' = FALSE
    /\ setter' = "failing"
    /\ UNCHANGED <<requestVars, answerVars, maker, accepted>>

websocketDidConnect ==
    /\ IsMainFree
    /\ state = "connecting"
    /\ state' = "open"
    /\ canMakeRequests' = TRUE
    /\ UNCHANGED <<websocket, setter, connections, requestVars, answerVars, maker, accepted>>

------------------------------------------------------------------------------
\* makeRequest, on the thread of its caller

\* makeRequestInternal asks the socket, and uses REST if it is not open.
StartRequest(r) ==
    /\ maker[r] = "none"
    /\ maker' = [maker EXCEPT ![r] = IF canMakeRequests THEN "websocket" ELSE "rest"]
    /\ thread' = [thread EXCEPT ![r] = IF canMakeRequests THEN "making" ELSE @]
    /\ UNCHANGED <<socketVars, socketMessageMap, timer, completions, answerVars, accepted>>

RegisterRequest(r) ==
    /\ thread[r] = "making"
    /\ thread' = [thread EXCEPT ![r] = "registered"]
    /\ socketMessageMap' = socketMessageMap \cup {r}
    /\ UNCHANGED <<socketVars, timer, completions, answerVars, maker, accepted>>

\* Its JSON or its message cannot be serialised.
SerializationFails(r) ==
    /\ thread[r] = "registered"
    /\ thread' = [thread EXCEPT ![r] = "failed"]
    /\ didFailBeforeSending(r)
    /\ UNCHANGED <<socketVars, socketMessageMap, timer, answerVars, maker, accepted>>

\* Its proto cannot be built: makeRequest returns, and does not fail it.
BuildFails(r) ==
    /\ thread[r] = "registered"
    /\ thread' = [thread EXCEPT ![r] = "unbuilt"]
    /\ UNCHANGED <<socketVars, socketMessageMap, timer, completions, answerVars, maker,
                   accepted>>

\* Mutant: the flag is not looked at once more.
CheckNothing(r) ==
    /\ thread[r] = "registered"
    /\ thread' = [thread EXCEPT ![r] = "checked"]
    /\ UNCHANGED <<socketVars, socketMessageMap, timer, completions, answerVars, maker,
                   accepted>>

CheckSocket(r) ==
    /\ thread[r] = "registered"
    /\ thread' = [thread EXCEPT ![r] = IF canMakeRequests THEN "checked" ELSE "failed"]
    /\ IF canMakeRequests THEN UNCHANGED completions ELSE didFailBeforeSending(r)
    /\ UNCHANGED <<socketVars, socketMessageMap, timer, answerVars, maker, accepted>>

\* Mutant: a request without a timer.
WithoutTimer(r) == UNCHANGED timer

StartTimer(r) == timer' = [timer EXCEPT ![r] = "armed"]

\* writeData to whatever self.websocket is by now.  The request reaches the service
\* or gets lost; the service may accept or refuse it, and answers it or never does.
WriteRequest(r) ==
    /\ thread[r] = "checked"
    /\ thread' = [thread EXCEPT ![r] = "written"]
    /\ StartTimer(r)
    /\ \/ UNCHANGED <<accepted, inbound>>
       \/ /\ state = "open"
          /\ websocket # 0
          /\ \E verdict \in Verdicts :
                /\ accepted' = IF verdict = "success" THEN [accepted EXCEPT ![r] = @ + 1]
                               ELSE accepted
                /\ inbound' = inbound \cup {[request |-> r, verdict |-> verdict]}
    /\ UNCHANGED <<socketVars, socketMessageMap, completions, answers, maker>>

timeoutIfNecessary(r) ==
    /\ timer[r] = "armed"
    /\ timer' = [timer EXCEPT ![r] = "fired"]
    /\ didFailBeforeSending(r)
    /\ UNCHANGED <<socketVars, thread, socketMessageMap, answerVars, maker, accepted>>

------------------------------------------------------------------------------
\* Answers

processWebSocketResponseMessage(a) ==
    /\ IsMainFree
    /\ a \in inbound
    /\ inbound' = inbound \ {a}
    /\ answers' = answers \cup {a}
    /\ UNCHANGED <<socketVars, requestVars, maker, accepted>>

Verdict(a) == a.verdict

\* An answer to a request that is not in the map any more is ignored.
processWebSocketResponseMessageAsync(a) ==
    /\ a \in answers
    /\ answers' = answers \ {a}
    /\ socketMessageMap' = socketMessageMap \ {a.request}
    /\ completions' = Completed({a.request} \cap socketMessageMap, Verdict(a))
    /\ UNCHANGED <<socketVars, thread, timer, inbound, maker, accepted>>

------------------------------------------------------------------------------
\* OWSRequestMaker

WebsocketSucceeds(r) ==
    /\ maker[r] = "websocket"
    /\ hasCompleted(r)
    /\ Head(completions[r]) = "success"
    /\ maker' = [maker EXCEPT ![r] = "fulfilled"]
    /\ UNCHANGED <<socketVars, requestVars, answerVars, accepted>>

\* Mutant: the retry does not skip the websocket.
FailOverToWebsocket(r) ==
    /\ maker[r] = "websocket"
    /\ hasCompleted(r)
    /\ Head(completions[r]) = "failure"
    /\ accepted[r] < 3
    /\ maker' = [maker EXCEPT ![r] = IF canMakeRequests THEN "websocket" ELSE "rest"]
    /\ thread' = [thread EXCEPT ![r] = IF canMakeRequests THEN "making" ELSE @]
    /\ completions' = [completions EXCEPT ![r] = <<>>]
    /\ UNCHANGED <<socketVars, socketMessageMap, timer, answerVars, accepted>>

\* Any failure of the websocket but a rate limit is retried over REST.
FailOver(r) ==
    /\ maker[r] = "websocket"
    /\ hasCompleted(r)
    /\ Head(completions[r]) = "failure"
    /\ maker' = [maker EXCEPT ![r] = "rest"]
    /\ UNCHANGED <<socketVars, requestVars, answerVars, accepted>>

RateLimited(r) ==
    /\ maker[r] = "websocket"
    /\ hasCompleted(r)
    /\ Head(completions[r]) = "limited"
    /\ maker' = [maker EXCEPT ![r] = "rejected"]
    /\ UNCHANGED <<socketVars, requestVars, answerVars, accepted>>

\* The service accepts the REST request, though its answer may get lost, or not.
RestEnds(r) ==
    /\ maker[r] = "rest"
    /\ \/ /\ accepted' = [accepted EXCEPT ![r] = @ + 1]
          /\ \E end \in {"fulfilled", "rejected"} : maker' = [maker EXCEPT ![r] = end]
       \/ /\ maker' = [maker EXCEPT ![r] = "rejected"]
          /\ UNCHANGED accepted
    /\ UNCHANGED <<socketVars, requestVars, answerVars>>

------------------------------------------------------------------------------

setState == CloseSocket \/ SocketIsClosed \/ failAllPendingSocketMessages \/ Connect

makeRequest(r) ==
    \/ RegisterRequest(r)
    \/ SerializationFails(r) \/ BuildFails(r)
    \/ CheckSocket(r) \/ WriteRequest(r)

makeRequestInternal(r) ==
    \/ WebsocketSucceeds(r) \/ FailOver(r) \/ RateLimited(r) \/ RestEnds(r)

Next ==
    \/ setState \/ websocketDidConnect
    \/ \E r \in Requests :
            \/ StartRequest(r) \/ makeRequest(r) \/ timeoutIfNecessary(r)
            \/ makeRequestInternal(r)
    \/ \E a \in Answers :
            processWebSocketResponseMessage(a) \/ processWebSocketResponseMessageAsync(a)

\* Threads go on, timers fire, promises are resolved, REST requests end, and the
\* main thread finishes setState.  The socket need not connect, nor the service answer.
Fairness ==
    /\ WF_vars(SocketIsClosed)
    /\ WF_vars(failAllPendingSocketMessages)
    /\ \A r \in Requests :
            /\ WF_vars(makeRequest(r))
            /\ WF_vars(timeoutIfNecessary(r))
            /\ WF_vars(makeRequestInternal(r))

Spec == Init /\ [][Next]_vars /\ Fairness

------------------------------------------------------------------------------
(***************************************************************************)
(* Properties                                                              *)
(***************************************************************************)

\* The assertions of setState, and what the threads that make requests rely on: once
\* setState has returned, there is a websocket exactly if the socket is not closed,
\* and requests can be made exactly if it is open.
StateMatchesWebsocket ==
    IsMainFree =>
        /\ state # "closed" <=> websocket # 0
        /\ canMakeRequests <=> state = "open"

\* Answer, timeout, closing of the socket and makeRequest itself race for a request:
\* its caller hears of one of them.
CompletedOnce == \A r \in Requests : Len(completions[r]) <= 1

\* A request that is being written, or was, has been completed when the socket is not
\* open any more and setState has returned: it is in the map when the map is failed,
\* or finds the flag cleared, whenever it was registered.
ClosedSocketLeavesNoneWaiting ==
    IsMainFree /\ ~canMakeRequests =>
        \A r \in Requests : thread[r] \in {"checked", "written"} => hasCompleted(r)

\* While the socket is open, a request that waits for its answer has a timer, unless
\* it could not be built: nothing but the closing of the socket ends that one.
WaitingIsTimed ==
    \A r \in Requests :
        r \in socketMessageMap /\ thread[r] = "written" /\ ~hasCompleted(r) => timer[r] = "armed"

\* Success is reported only of what the service has accepted.
FulfilledMeansAccepted ==
    \A r \in Requests : maker[r] = "fulfilled" => accepted[r] > 0

\* One use of the RequestMaker has the service accept a request at most twice: once
\* over the websocket, where the answer was too late, and once over REST.
AcceptedAtMostTwice == \A r \in Requests : accepted[r] <= 2

\* Every request that could be built is fulfilled or rejected in the end, whatever
\* the socket and the service do.
EveryRequestEnds ==
    \A r \in Requests :
        maker[r] \in {"websocket", "rest"} ~>
            maker[r] \in {"fulfilled", "rejected"} \/ thread[r] = "unbuilt"
==============================================================================
