------------------------- MODULE SocketRequestsProofs -------------------------
(***************************************************************************)
(* Theorems about SocketRequests, for any set of requests and any number   *)
(* of connections.                                                         *)
(***************************************************************************)
EXTENDS SocketRequests, TLAPS

------------------------------------------------------------------------------
(***************************************************************************)
(* Types                                                                   *)
(***************************************************************************)

\* Completing requests keeps the type of the completions.
LEMMA CompletedType ==
    ASSUME TypeOK, NEW rs, NEW v \in Verdicts
    PROVE  Completed(rs, v) \in [Requests -> Seq(Verdicts)]
BY DEF TypeOK, Completed

LEMMA FailedType ==
    ASSUME TypeOK, NEW rs
    PROVE  Completed(rs, "failure") \in [Requests -> Seq(Verdicts)]
BY CompletedType DEF Verdicts

LEMMA TypeInduction ==
    ASSUME TypeOK, [Next]_vars
    PROVE  TypeOK'
<1> USE DEF TypeOK, socketVars, requestVars, answerVars, Threads, Makers
<1>1. CASE UNCHANGED vars
  BY <1>1 DEF vars
<1>2. CASE setState
  <2>1. CASE CloseSocket
    BY <2>1, MaxConnectionsAssumption DEF CloseSocket, IsMainFree
  <2>2. CASE SocketIsClosed
    BY <2>2 DEF SocketIsClosed
  <2>3. CASE failAllPendingSocketMessages
    <3>1. completions' \in [Requests -> Seq(Verdicts)]
      BY <2>3, FailedType DEF failAllPendingSocketMessages
    <3> QED
      BY <2>3, <3>1 DEF failAllPendingSocketMessages
  <2>4. CASE Connect
    <3>1. connections' \in 0 .. MaxConnections /\ websocket' \in 0 .. MaxConnections
      BY <2>4, MaxConnectionsAssumption DEF Connect
    <3>2. /\ state' = "connecting" /\ canMakeRequests' = FALSE /\ setter' = "failing"
          /\ UNCHANGED <<requestVars, answerVars, maker, accepted>>
      BY <2>4 DEF Connect
    <3>3. canMakeRequests' \in BOOLEAN
      BY <3>2
    <3> QED
      BY <3>1, <3>2, <3>3
  <2> QED
    BY <1>2, <2>1, <2>2, <2>3, <2>4 DEF setState
<1>3. CASE websocketDidConnect
  BY <1>3 DEF websocketDidConnect
<1>4. ASSUME NEW r \in Requests, StartRequest(r)
      PROVE  TypeOK'
  BY <1>4 DEF StartRequest
<1>5. ASSUME NEW r \in Requests, makeRequest(r)
      PROVE  TypeOK'
  <2>1. CASE RegisterRequest(r)
    BY <2>1 DEF RegisterRequest
  <2>2. CASE SerializationFails(r)
    <3>1. completions' \in [Requests -> Seq(Verdicts)]
      BY <2>2, FailedType DEF SerializationFails, didFailBeforeSending
    <3> QED
      BY <2>2, <3>1 DEF SerializationFails
  <2>3. CASE BuildFails(r)
    BY <2>3 DEF BuildFails
  <2>4. CASE CheckSocket(r)
    <3>1. completions' \in [Requests -> Seq(Verdicts)]
      BY <2>4, FailedType DEF CheckSocket, didFailBeforeSending
    <3> QED
      BY <2>4, <3>1 DEF CheckSocket
  <2>5. CASE WriteRequest(r)
    <3>1. accepted' \in [Requests -> Nat] /\ inbound' \subseteq Answers
      <4>1. CASE UNCHANGED <<accepted, inbound>>
        BY <4>1
      <4>2. CASE ~UNCHANGED <<accepted, inbound>>
        <5>1. PICK verdict \in Verdicts :
                /\ accepted' = IF verdict = "success" THEN [accepted EXCEPT ![r] = @ + 1]
                               ELSE accepted
                /\ inbound' = inbound \cup {[request |-> r, verdict |-> verdict]}
          BY <2>5, <4>2 DEF WriteRequest
        <5>2. [request |-> r, verdict |-> verdict] \in Answers
          BY DEF Answers
        <5> QED
          BY <5>1, <5>2
      <4> QED
        BY <4>1, <4>2
    <3> QED
      BY <2>5, <3>1 DEF WriteRequest, StartTimer
  <2> QED
    BY <1>5, <2>1, <2>2, <2>3, <2>4, <2>5 DEF makeRequest
<1>6. ASSUME NEW r \in Requests, timeoutIfNecessary(r)
      PROVE  TypeOK'
  <2>1. completions' \in [Requests -> Seq(Verdicts)]
    BY <1>6, FailedType DEF timeoutIfNecessary, didFailBeforeSending
  <2> QED
    BY <1>6, <2>1 DEF timeoutIfNecessary
<1>7. ASSUME NEW r \in Requests, makeRequestInternal(r)
      PROVE  TypeOK'
  <2>1. CASE WebsocketSucceeds(r) \/ FailOver(r) \/ RateLimited(r)
    BY <2>1 DEF WebsocketSucceeds, FailOver, RateLimited
  <2>2. CASE RestEnds(r)
    <3>1. accepted' \in [Requests -> Nat]
      BY <2>2 DEF RestEnds
    <3>2. maker' \in [Requests -> Makers]
      BY <2>2 DEF RestEnds
    <3>3. UNCHANGED <<socketVars, requestVars, answerVars>>
      BY <2>2 DEF RestEnds
    <3> QED
      BY <3>1, <3>2, <3>3
  <2> QED
    BY <1>7, <2>1, <2>2 DEF makeRequestInternal
<1>8. ASSUME NEW a \in Answers, processWebSocketResponseMessage(a)
      PROVE  TypeOK'
  BY <1>8 DEF processWebSocketResponseMessage
<1>9. ASSUME NEW a \in Answers, processWebSocketResponseMessageAsync(a)
      PROVE  TypeOK'
  <2>1. Verdict(a) \in Verdicts
    BY DEF Verdict, Answers
  <2>2. completions' \in [Requests -> Seq(Verdicts)]
    BY <1>9, <2>1, CompletedType DEF processWebSocketResponseMessageAsync
  <2> QED
    BY <1>9, <2>2 DEF processWebSocketResponseMessageAsync
<1> QED
  BY <1>1, <1>2, <1>3, <1>4, <1>5, <1>6, <1>7, <1>8, <1>9 DEF Next

\* Every variable keeps its type.
THEOREM TypeCorrect == Spec => []TypeOK
<1>1. Init => TypeOK
  <2> SUFFICES ASSUME Init PROVE TypeOK
    OBVIOUS
  <2>1. websocket \in 0 .. MaxConnections /\ connections \in 0 .. MaxConnections
    BY MaxConnectionsAssumption DEF Init
  <2>2. completions \in [Requests -> Seq(Verdicts)]
    BY DEF Init
  <2>3. canMakeRequests \in BOOLEAN
    BY Zenon DEF Init
  <2>4. inbound \subseteq Answers /\ answers \subseteq Answers
    BY DEF Init
  <2>5. thread \in [Requests -> Threads] /\ maker \in [Requests -> Makers]
    BY DEF Init, Threads, Makers
  <2>6. /\ timer \in [Requests -> {"none", "armed", "fired"}]
        /\ accepted \in [Requests -> Nat]
    BY DEF Init
  <2>7. /\ state \in {"closed", "connecting", "open"}
        /\ setter \in {"none", "reset", "failing"}
        /\ socketMessageMap \subseteq Requests
    BY DEF Init
  <2> QED
    BY <2>1, <2>2, <2>3, <2>4, <2>5, <2>6, <2>7 DEF TypeOK
<1> QED
  BY <1>1, TypeInduction, PTL DEF Spec

------------------------------------------------------------------------------
(***************************************************************************)
(* The state of the socket                                                 *)
(***************************************************************************)

\* What holds at each step of setState.
SocketState ==
    /\ setter = "reset" => websocket = 0
    /\ setter # "reset" => (state # "closed" <=> websocket # 0)
    /\ setter # "failing" => (canMakeRequests <=> state = "open")
    /\ setter = "failing" => ~canMakeRequests /\ state # "open"

\* Between two calls of setState there is a websocket exactly if the socket is not
\* closed, and requests can be made exactly if it is open.
THEOREM SocketStateIsConsistent == Spec => []StateMatchesWebsocket
<1>1. Init => SocketState
  BY DEF Init, SocketState
<1>2. TypeOK /\ SocketState /\ [Next]_vars => SocketState'
  <2> SUFFICES ASSUME TypeOK, SocketState, [Next]_vars PROVE SocketState'
    OBVIOUS
  <2>1. CASE setState \/ websocketDidConnect
    <3>0. CASE CloseSocket
      BY <3>0 DEF CloseSocket, IsMainFree, SocketState
    <3>1. CASE SocketIsClosed
      <4>1. /\ setter = "reset" /\ state' = "closed" /\ setter' = "failing"
            /\ websocket' = websocket
        BY <3>1 DEF SocketIsClosed
      <4>2. ~canMakeRequests'
        BY <3>1, Zenon DEF SocketIsClosed
      <4> QED
        BY <4>1, <4>2 DEF SocketState
    <3>4. CASE failAllPendingSocketMessages
      BY <3>4 DEF failAllPendingSocketMessages, SocketState
    <3>2. CASE Connect
      BY <3>2 DEF Connect, IsMainFree, SocketState, TypeOK
    <3>3. CASE websocketDidConnect
      BY <3>3 DEF websocketDidConnect, IsMainFree, SocketState
    <3> QED
      BY <2>1, <3>0, <3>1, <3>2, <3>3, <3>4 DEF setState
  <2>2. CASE UNCHANGED socketVars
    BY <2>2 DEF SocketState, socketVars
  <2>3. UNCHANGED socketVars \/ setState \/ websocketDidConnect
    BY DEF Next, vars, StartRequest, makeRequest, RegisterRequest, SerializationFails,
       BuildFails, CheckSocket, WriteRequest, timeoutIfNecessary, makeRequestInternal,
       WebsocketSucceeds, FailOver, RateLimited, RestEnds, processWebSocketResponseMessage,
       processWebSocketResponseMessageAsync
  <2> QED
    BY <2>1, <2>2, <2>3
<1>3. SocketState => StateMatchesWebsocket
  BY DEF SocketState, StateMatchesWebsocket, IsMainFree
<1> QED
  BY <1>1, <1>2, <1>3, TypeCorrect, PTL DEF Spec

------------------------------------------------------------------------------
(***************************************************************************)
(* Completions                                                             *)
(***************************************************************************)

\* Completed gives the uncompleted requests of rs their verdict, and no other.
LEMMA CompletedEffect ==
    ASSUME TypeOK, NEW rs, NEW v, NEW r \in Requests
    PROVE  /\ r \in rs /\ ~hasCompleted(r) => Completed(rs, v)[r] = <<v>>
           /\ r \notin rs \/ hasCompleted(r) => Completed(rs, v)[r] = completions[r]
<1>1. Completed(rs, v)[r] = IF r \in rs /\ ~hasCompleted(r) THEN Append(completions[r], v)
                             ELSE completions[r]
  BY DEF Completed
<1>2. ASSUME completions[r] = <<>>
      PROVE  Append(completions[r], v) = <<v>>
  BY <1>2
<1> QED
  BY <1>1, <1>2 DEF hasCompleted

\* Each step completes requests as Completed does, if it completes any.
LEMMA CompletionSteps ==
    ASSUME TypeOK, [Next]_vars
    PROVE  \/ UNCHANGED completions
           \/ failAllPendingSocketMessages
           \/ \E r \in Requests :
                /\ SerializationFails(r) \/ CheckSocket(r) \/ timeoutIfNecessary(r)
                /\ completions' = Completed({r}, "failure")
           \/ \E a \in Answers : processWebSocketResponseMessageAsync(a)
<1> USE DEF vars, socketVars, requestVars, answerVars
<1>1. CASE UNCHANGED vars
  BY <1>1
<1>2. CASE setState \/ websocketDidConnect
  BY <1>2 DEF setState, CloseSocket, SocketIsClosed, Connect, websocketDidConnect
<1>3. ASSUME NEW r \in Requests,
             StartRequest(r) \/ makeRequest(r) \/ timeoutIfNecessary(r)
                \/ makeRequestInternal(r)
      PROVE  \/ UNCHANGED completions
             \/ /\ SerializationFails(r) \/ CheckSocket(r) \/ timeoutIfNecessary(r)
                /\ completions' = Completed({r}, "failure")
  <2>1. CASE StartRequest(r) \/ makeRequestInternal(r)
    BY <2>1 DEF StartRequest, makeRequestInternal, WebsocketSucceeds, FailOver,
       RateLimited, RestEnds
  <2>2. CASE RegisterRequest(r) \/ BuildFails(r) \/ WriteRequest(r)
    BY <2>2 DEF RegisterRequest, BuildFails, WriteRequest
  <2>3. CASE SerializationFails(r) \/ CheckSocket(r) \/ timeoutIfNecessary(r)
    BY <2>3 DEF SerializationFails, CheckSocket, timeoutIfNecessary, didFailBeforeSending
  <2> QED
    BY <1>3, <2>1, <2>2, <2>3 DEF makeRequest
<1>4. ASSUME NEW a \in Answers, processWebSocketResponseMessage(a)
      PROVE  UNCHANGED completions
  BY <1>4 DEF processWebSocketResponseMessage
<1> QED
  BY <1>1, <1>2, <1>3, <1>4 DEF Next

\* A completion is the first one of its request, and stays.
LEMMA CompletionsAreFinal ==
    ASSUME TypeOK, [Next]_vars, NEW r \in Requests
    PROVE  \/ completions'[r] = completions[r]
           \/ /\ completions[r] = <<>>
              /\ \E v \in Verdicts : completions'[r] = <<v>>
<1> USE DEF hasCompleted
<1>0. "failure" \in Verdicts
  BY DEF Verdicts
<1>1. CASE UNCHANGED completions
  BY <1>1
<1>2. CASE failAllPendingSocketMessages
  <2>1. completions' = Completed(socketMessageMap, "failure")
    BY <1>2 DEF failAllPendingSocketMessages
  <2> QED
    BY <2>1, <1>0, CompletedEffect
<1>3. ASSUME NEW q \in Requests, completions' = Completed({q}, "failure")
      PROVE  \/ completions'[r] = completions[r]
             \/ /\ completions[r] = <<>>
                /\ completions'[r] = <<"failure">>
  BY <1>3, CompletedEffect
<1>4. ASSUME NEW a \in Answers, processWebSocketResponseMessageAsync(a)
      PROVE  \/ completions'[r] = completions[r]
             \/ /\ completions[r] = <<>>
                /\ completions'[r] = <<Verdict(a)>>
  <2>1. completions' = Completed({a.request} \cap socketMessageMap, Verdict(a))
    BY <1>4 DEF processWebSocketResponseMessageAsync
  <2> QED
    BY <2>1, CompletedEffect
<1>5. \A a \in Answers : Verdict(a) \in Verdicts
  BY DEF Verdict, Answers
<1> QED
  BY <1>0, <1>1, <1>2, <1>3, <1>4, <1>5, CompletionSteps

\* Answer, timeout, closing of the socket and makeRequest race for a request, and its
\* caller hears of one of them.
THEOREM RequestsAreCompletedOnce == Spec => []CompletedOnce
<1>1. Init => CompletedOnce
  <2> SUFFICES ASSUME Init, NEW r \in Requests PROVE Len(completions[r]) <= 1
    BY DEF CompletedOnce
  <2>1. completions[r] = <<>>
    BY DEF Init
  <2> QED
    BY <2>1
<1>2. TypeOK /\ CompletedOnce /\ [Next]_vars => CompletedOnce'
  <2> SUFFICES ASSUME TypeOK, CompletedOnce, [Next]_vars, NEW r \in Requests
               PROVE  Len(completions'[r]) <= 1
    BY DEF CompletedOnce
  <2>1. CASE completions'[r] = completions[r]
    BY <2>1 DEF CompletedOnce
  <2>2. ASSUME NEW v \in Verdicts, completions'[r] = <<v>>
        PROVE  Len(completions'[r]) <= 1
    BY <2>2
  <2> QED
    BY <2>1, <2>2, CompletionsAreFinal, Zenon
<1> QED
  BY <1>1, <1>2, TypeCorrect, PTL DEF Spec

------------------------------------------------------------------------------
(***************************************************************************)
(* Requests and the closing of the socket                                  *)
(***************************************************************************)

Unanswered(r) == ~hasCompleted(r)

\* A registered request is in the map until it is completed, so failing the map
\* reaches it; and no request passes the check of a socket that is not open.
WaitingRequests ==
    /\ \A r \in Requests :
            thread[r] \notin {"none", "making"} /\ Unanswered(r) => r \in socketMessageMap
    /\ \A r \in Requests :
            ~canMakeRequests /\ setter # "failing" /\ thread[r] \in {"checked", "written"}
                => hasCompleted(r)
    /\ \A r \in Requests :
            thread[r] = "written" /\ Unanswered(r) => timer[r] = "armed"

\* A request that was completed stays so, and one that is being completed is.
LEMMA CompletedStaysCompleted ==
    ASSUME TypeOK, [Next]_vars, NEW r \in Requests, hasCompleted(r)
    PROVE  hasCompleted(r)'
BY CompletionsAreFinal DEF hasCompleted

LEMMA CompletedNow ==
    ASSUME TypeOK, NEW rs, NEW v, NEW r \in Requests, r \in rs,
           completions' = Completed(rs, v)
    PROVE  hasCompleted(r)'
<1>1. CASE hasCompleted(r)
  BY <1>1, CompletedEffect DEF hasCompleted
<1>2. CASE ~hasCompleted(r)
  <2>1. completions'[r] = <<v>>
    BY <1>2, CompletedEffect
  <2> QED
    BY <2>1 DEF hasCompleted
<1> QED
  BY <1>1, <1>2

\* The step of one request leaves the others alone.
LEMMA WaitingInduction ==
    ASSUME TypeOK, WaitingRequests, [Next]_vars
    PROVE  WaitingRequests'
<1> SUFFICES ASSUME NEW r \in Requests, Unanswered(r)'
             PROVE  /\ thread'[r] \notin {"none", "making"} => r \in socketMessageMap'
                    /\ canMakeRequests' \/ setter' = "failing"
                            \/ thread'[r] \notin {"checked", "written"}
                    /\ thread'[r] = "written" => timer'[r] = "armed"
  BY DEF WaitingRequests, Unanswered
<1>0. Unanswered(r)
  BY CompletedStaysCompleted DEF Unanswered
<1>1. /\ thread[r] \notin {"none", "making"} => r \in socketMessageMap
      /\ canMakeRequests \/ setter = "failing" \/ thread[r] \notin {"checked", "written"}
      /\ thread[r] = "written" => timer[r] = "armed"
  BY <1>0 DEF WaitingRequests, Unanswered
<1> HIDE DEF Unanswered
<1> USE DEF TypeOK, vars, socketVars, requestVars, answerVars
<1>2. CASE UNCHANGED vars
  BY <1>1, <1>2
<1>3. CASE CloseSocket
  BY <1>1, <1>3 DEF CloseSocket, IsMainFree
<1>4. CASE SocketIsClosed
  BY <1>1, <1>4 DEF SocketIsClosed
<1>5. CASE failAllPendingSocketMessages
  <2>1. r \notin socketMessageMap
    BY <1>5, CompletedNow DEF failAllPendingSocketMessages, Unanswered
  <2> QED
    BY <2>1, <1>1, <1>5 DEF failAllPendingSocketMessages
<1>6. CASE Connect
  BY <1>1, <1>6 DEF Connect
<1>7. CASE websocketDidConnect
  BY <1>1, <1>7 DEF websocketDidConnect
<1>8. ASSUME NEW q \in Requests,
             StartRequest(q) \/ RegisterRequest(q) \/ BuildFails(q) \/ WriteRequest(q)
      PROVE  /\ thread'[r] \notin {"none", "making"} => r \in socketMessageMap'
             /\ canMakeRequests' \/ setter' = "failing"
                    \/ thread'[r] \notin {"checked", "written"}
             /\ thread'[r] = "written" => timer'[r] = "armed"
  <2>1. CASE StartRequest(q)
    BY <1>1, <2>1 DEF StartRequest
  <2>2. CASE RegisterRequest(q)
    BY <1>1, <2>2 DEF RegisterRequest
  <2>3. CASE BuildFails(q)
    BY <1>1, <2>3 DEF BuildFails
  <2>4. CASE WriteRequest(q)
    BY <1>1, <2>4 DEF WriteRequest, StartTimer
  <2> QED
    BY <1>8, <2>1, <2>2, <2>3, <2>4
<1>9. ASSUME NEW q \in Requests,
             SerializationFails(q) \/ CheckSocket(q) \/ timeoutIfNecessary(q)
      PROVE  /\ thread'[r] \notin {"none", "making"} => r \in socketMessageMap'
             /\ canMakeRequests' \/ setter' = "failing"
                    \/ thread'[r] \notin {"checked", "written"}
             /\ thread'[r] = "written" => timer'[r] = "armed"
  <2>1. CASE SerializationFails(q)
    <3>1. r # q
      BY <2>1, CompletedNow DEF SerializationFails, didFailBeforeSending, Unanswered
    <3> QED
      BY <3>1, <1>1, <2>1 DEF SerializationFails
  <2>2. CASE CheckSocket(q) /\ canMakeRequests
    BY <1>1, <2>2 DEF CheckSocket
  <2>3. CASE CheckSocket(q) /\ ~canMakeRequests
    <3>1. r # q
      BY <2>3, CompletedNow DEF CheckSocket, didFailBeforeSending, Unanswered
    <3> QED
      BY <3>1, <1>1, <2>3 DEF CheckSocket
  <2>4. CASE timeoutIfNecessary(q)
    <3>1. r # q
      BY <2>4, CompletedNow DEF timeoutIfNecessary, didFailBeforeSending, Unanswered
    <3> QED
      BY <3>1, <1>1, <2>4 DEF timeoutIfNecessary
  <2> QED
    BY <1>9, <2>1, <2>2, <2>3, <2>4
<1>10. ASSUME NEW q \in Requests, makeRequestInternal(q)
       PROVE  UNCHANGED <<socketVars, requestVars>>
  BY <1>10 DEF makeRequestInternal, WebsocketSucceeds, FailOver, RateLimited, RestEnds
<1>11. ASSUME NEW a \in Answers, processWebSocketResponseMessage(a)
       PROVE  UNCHANGED <<socketVars, requestVars>>
  BY <1>11 DEF processWebSocketResponseMessage
<1>12. ASSUME NEW a \in Answers, processWebSocketResponseMessageAsync(a)
       PROVE  /\ thread'[r] \notin {"none", "making"} => r \in socketMessageMap'
              /\ canMakeRequests' \/ setter' = "failing"
                    \/ thread'[r] \notin {"checked", "written"}
              /\ thread'[r] = "written" => timer'[r] = "armed"
  <2>1. r \notin {a.request} \cap socketMessageMap
    BY <1>12, CompletedNow DEF processWebSocketResponseMessageAsync, Unanswered
  <2> QED
    BY <2>1, <1>1, <1>12 DEF processWebSocketResponseMessageAsync
<1> QED
  BY <1>1, <1>2, <1>3, <1>4, <1>5, <1>6, <1>7, <1>8, <1>9, <1>10, <1>11, <1>12
     DEF Next, setState, makeRequest

\* Once setState has returned and the socket is not open, every request that is being
\* written, or was, has been completed.  The registration comes before the check of
\* the flag, and the flag is cleared before the map is failed.
THEOREM NoRequestWaitsForAClosedSocket == Spec => []ClosedSocketLeavesNoneWaiting
<1>1. Init => WaitingRequests
  BY DEF Init, WaitingRequests
<1>2. WaitingRequests => ClosedSocketLeavesNoneWaiting
  BY DEF WaitingRequests, ClosedSocketLeavesNoneWaiting, IsMainFree
<1> QED
  BY <1>1, <1>2, WaitingInduction, TypeCorrect, PTL DEF Spec

\* A request that was written and has no completion yet has a timer that will give it
\* one, whether or not the socket stays open.
THEOREM RequestsThatWaitAreTimed == Spec => []WaitingIsTimed
<1>1. Init => WaitingRequests
  BY DEF Init, WaitingRequests
<1>2. WaitingRequests => WaitingIsTimed
  BY DEF WaitingRequests, WaitingIsTimed, Unanswered
<1> QED
  BY <1>1, <1>2, WaitingInduction, TypeCorrect, PTL DEF Spec

------------------------------------------------------------------------------
(***************************************************************************)
(* What the service has accepted                                           *)
(***************************************************************************)

\* A request is accepted once by each way it was tried: by the socket, once it is
\* written, and by REST, once the maker has ended.
AcceptedByEachWay ==
    \A r \in Requests :
        /\ maker[r] = "none" => thread[r] = "none"
        /\ thread[r] # "written" /\ maker[r] \notin {"fulfilled", "rejected"} =>
                accepted[r] = 0
        /\ thread[r] # "written" \/ maker[r] \notin {"fulfilled", "rejected"} =>
                accepted[r] <= 1
        /\ accepted[r] <= 2

LEMMA AcceptedInduction ==
    ASSUME TypeOK, AcceptedByEachWay, [Next]_vars
    PROVE  AcceptedByEachWay'
<1> USE DEF AcceptedByEachWay, TypeOK, vars, socketVars, requestVars, answerVars
<1>1. CASE UNCHANGED <<thread, maker, accepted>>
  BY <1>1
<1>2. ASSUME NEW q \in Requests, StartRequest(q)
      PROVE  AcceptedByEachWay'
  BY <1>2 DEF StartRequest
<1>3. ASSUME NEW q \in Requests, makeRequest(q)
      PROVE  AcceptedByEachWay'
  <2>1. CASE RegisterRequest(q) \/ SerializationFails(q) \/ BuildFails(q) \/ CheckSocket(q)
    <3>1. UNCHANGED <<maker, accepted>> /\ thread[q] \in {"making", "registered"}
      BY <2>1 DEF RegisterRequest, SerializationFails, BuildFails, CheckSocket
    <3>2. \E to \in Threads \ {"none", "written"} : thread' = [thread EXCEPT ![q] = to]
      BY <2>1 DEF RegisterRequest, SerializationFails, BuildFails, CheckSocket, Threads
    <3> QED
      BY <3>1, <3>2
  <2>2. CASE WriteRequest(q)
    <3>1. /\ thread[q] = "checked" /\ thread' = [thread EXCEPT ![q] = "written"]
          /\ maker' = maker
      BY <2>2 DEF WriteRequest
    <3>2. accepted' = accepted \/ accepted' = [accepted EXCEPT ![q] = @ + 1]
      BY <2>2 DEF WriteRequest
    <3> QED
      BY <3>1, <3>2
  <2> QED
    BY <1>3, <2>1, <2>2 DEF makeRequest
<1>4. ASSUME NEW q \in Requests, makeRequestInternal(q)
      PROVE  AcceptedByEachWay'
  <2>1. CASE WebsocketSucceeds(q) \/ FailOver(q) \/ RateLimited(q)
    <3>1. UNCHANGED <<thread, accepted>> /\ maker[q] = "websocket"
      BY <2>1 DEF WebsocketSucceeds, FailOver, RateLimited
    <3>2. \E to \in Makers \ {"none"} : maker' = [maker EXCEPT ![q] = to]
      BY <2>1 DEF WebsocketSucceeds, FailOver, RateLimited, Makers
    <3> QED
      BY <3>1, <3>2
  <2>2. CASE RestEnds(q)
    <3>1. thread' = thread /\ maker[q] = "rest"
      BY <2>2 DEF RestEnds
    <3>2. \E to \in {"fulfilled", "rejected"} : maker' = [maker EXCEPT ![q] = to]
      BY <2>2 DEF RestEnds
    <3>3. accepted' = accepted \/ accepted' = [accepted EXCEPT ![q] = @ + 1]
      BY <2>2 DEF RestEnds
    <3> QED
      BY <3>1, <3>2, <3>3
  <2> QED
    BY <1>4, <2>1, <2>2 DEF makeRequestInternal
<1>5. \/ UNCHANGED <<thread, maker, accepted>>
      \/ \E q \in Requests : StartRequest(q) \/ makeRequest(q) \/ makeRequestInternal(q)
  BY DEF Next, setState, CloseSocket, SocketIsClosed, failAllPendingSocketMessages, Connect,
     websocketDidConnect, timeoutIfNecessary, processWebSocketResponseMessage,
     processWebSocketResponseMessageAsync
<1> QED
  BY <1>1, <1>2, <1>3, <1>4, <1>5

\* One use of the RequestMaker has the service accept a request at most twice,
\* whatever is late or lost: the retry skips the websocket, and there is one.
THEOREM RequestsAreAcceptedAtMostTwice == Spec => []AcceptedAtMostTwice
<1>1. Init => AcceptedByEachWay
  <2>1. ASSUME Init, NEW r \in Requests
        PROVE  maker[r] = "none" /\ thread[r] = "none" /\ accepted[r] = 0
    BY <2>1 DEF Init
  <2>2. 0 <= 1 /\ 0 <= 2
    OBVIOUS
  <2> QED
    BY <2>1, <2>2 DEF AcceptedByEachWay
<1>2. AcceptedByEachWay => AcceptedAtMostTwice
  BY DEF AcceptedByEachWay, AcceptedAtMostTwice
<1> QED
  BY <1>1, <1>2, AcceptedInduction, TypeCorrect, PTL DEF Spec

\* A success is heard only of requests the service has accepted.
SuccessIsAcceptance ==
    /\ \A x \in inbound \cup answers : x.verdict = "success" => accepted[x.request] > 0
    /\ \A r \in Requests : completions[r] = <<"success">> => accepted[r] > 0
    /\ \A r \in Requests : maker[r] = "fulfilled" => accepted[r] > 0

\* Acceptance is not taken back.
LEMMA AcceptedGrows ==
    ASSUME TypeOK, [Next]_vars, NEW r \in Requests, accepted[r] > 0
    PROVE  accepted'[r] > 0
<1> USE DEF TypeOK
<1>1. \/ accepted' = accepted
      \/ \E q \in Requests : accepted' = [accepted EXCEPT ![q] = @ + 1]
  BY DEF Next, vars, setState, CloseSocket, SocketIsClosed, failAllPendingSocketMessages,
     Connect, websocketDidConnect, StartRequest, makeRequest, RegisterRequest,
     SerializationFails, BuildFails, CheckSocket, WriteRequest, timeoutIfNecessary,
     makeRequestInternal, WebsocketSucceeds, FailOver, RateLimited, RestEnds,
     processWebSocketResponseMessage, processWebSocketResponseMessageAsync
<1>2. ASSUME NEW q \in Requests, accepted' = [accepted EXCEPT ![q] = @ + 1]
      PROVE  accepted'[r] > 0
  BY <1>2
<1> QED
  BY <1>1, <1>2

\* The maker reports a success it heard of, or what REST accepted.
LEMMA SuccessInduction ==
    ASSUME TypeOK, CompletedOnce, SuccessIsAcceptance, [Next]_vars
    PROVE  SuccessIsAcceptance'
<1> USE DEF vars, socketVars, requestVars, answerVars
<1>1. ASSUME NEW x \in inbound' \cup answers', x.verdict = "success"
      PROVE  accepted'[x.request] > 0
  <2>0. x \in Answers
    BY TypeInduction DEF TypeOK
  <2>1. x.request \in Requests
    BY <2>0 DEF Answers
  <2>2. CASE x \in inbound \cup answers
    BY <1>1, <2>1, <2>2, AcceptedGrows DEF SuccessIsAcceptance
  <2>3. CASE x \notin inbound \cup answers
    <3>1. \E q \in Requests : WriteRequest(q)
      BY <1>1, <2>3 DEF Next, setState, CloseSocket, SocketIsClosed,
         failAllPendingSocketMessages, Connect, websocketDidConnect, StartRequest,
         makeRequest, RegisterRequest, SerializationFails, BuildFails, CheckSocket,
         timeoutIfNecessary, makeRequestInternal, WebsocketSucceeds, FailOver,
         RateLimited, RestEnds, processWebSocketResponseMessage,
         processWebSocketResponseMessageAsync
    <3>2. PICK q \in Requests : WriteRequest(q)
      BY <3>1
    <3>3. answers' = answers
      BY <3>2 DEF WriteRequest
    <3>4. ~UNCHANGED <<accepted, inbound>>
      BY <3>3, <2>3
    <3>5. PICK verdict \in Verdicts :
            /\ accepted' = IF verdict = "success" THEN [accepted EXCEPT ![q] = @ + 1]
                           ELSE accepted
            /\ inbound' = inbound \cup {[request |-> q, verdict |-> verdict]}
      BY <3>2, <3>4 DEF WriteRequest
    <3>6. x = [request |-> q, verdict |-> verdict]
      BY <3>3, <3>5, <2>3
    <3>7. verdict = "success" /\ x.request = q
      BY <3>6, <1>1
    <3> QED
      BY <3>5, <3>7 DEF TypeOK
  <2> QED
    BY <2>2, <2>3
<1>2. ASSUME NEW r \in Requests, completions'[r] = <<"success">>
      PROVE  accepted'[r] > 0
  <2>1. CASE completions[r] = <<"success">>
    BY <2>1, AcceptedGrows DEF SuccessIsAcceptance
  <2>2. ASSUME completions[r] # <<"success">>
        PROVE  accepted[r] > 0
    <3>1. ~UNCHANGED completions
      BY <2>2, <1>2
    <3>2. ASSUME NEW rs, completions' = Completed(rs, "failure")
          PROVE  FALSE
      <4>1. completions'[r] = <<"failure">> \/ completions'[r] = completions[r]
        BY <3>2, CompletedEffect
      <4> QED
        BY <4>1, <1>2, <2>2
    <3>3. ~failAllPendingSocketMessages
      BY <3>2 DEF failAllPendingSocketMessages
    <3>4. PICK a \in Answers : processWebSocketResponseMessageAsync(a)
      BY <3>1, <3>2, <3>3, CompletionSteps
    <3>5. completions' = Completed({a.request} \cap socketMessageMap, Verdict(a))
      BY <3>4 DEF processWebSocketResponseMessageAsync
    <3>6. r = a.request /\ completions'[r] = <<Verdict(a)>>
      BY <3>5, <1>2, <2>2, CompletedEffect
    <3>7. Verdict(a) = "success"
      BY <3>6, <1>2
    <3> QED
      BY <3>4, <3>6, <3>7 DEF processWebSocketResponseMessageAsync, Verdict,
         SuccessIsAcceptance
  <2> QED
    BY <2>1, <2>2, AcceptedGrows
<1>3. ASSUME NEW r \in Requests, maker'[r] = "fulfilled"
      PROVE  accepted'[r] > 0
  <2>1. CASE maker[r] = "fulfilled"
    BY <2>1, AcceptedGrows DEF SuccessIsAcceptance
  <2>2. CASE maker[r] # "fulfilled"
    <3>1. ~UNCHANGED maker
      BY <2>2, <1>3
    <3>2. \E q \in Requests : WebsocketSucceeds(q) \/ FailOver(q) \/ RateLimited(q)
                                \/ RestEnds(q) \/ StartRequest(q)
      BY <3>1 DEF Next, setState, CloseSocket, SocketIsClosed,
         failAllPendingSocketMessages, Connect, websocketDidConnect,
         makeRequest, RegisterRequest, SerializationFails, BuildFails, CheckSocket,
         WriteRequest, timeoutIfNecessary, makeRequestInternal,
         processWebSocketResponseMessage, processWebSocketResponseMessageAsync
    <3>3. PICK q \in Requests : WebsocketSucceeds(q) \/ FailOver(q) \/ RateLimited(q)
                                \/ RestEnds(q) \/ StartRequest(q)
      BY <3>2
    <3>4. r = q
      BY <3>3, <2>2, <1>3 DEF TypeOK, WebsocketSucceeds, FailOver, RateLimited, RestEnds,
         StartRequest
    <3>5. CASE WebsocketSucceeds(r)
      <4>1. completions[r] # <<>> /\ Head(completions[r]) = "success"
        BY <3>5 DEF WebsocketSucceeds, hasCompleted
      <4>2. completions[r] \in Seq(Verdicts) /\ Len(completions[r]) <= 1
        BY DEF TypeOK, CompletedOnce
      <4>3. completions[r] = <<"success">>
        BY <4>1, <4>2
      <4> QED
        BY <4>3, AcceptedGrows DEF SuccessIsAcceptance
    <3>6. CASE RestEnds(r)
      BY <3>6, <1>3 DEF RestEnds, TypeOK
    <3>7. ~FailOver(r) /\ ~RateLimited(r) /\ ~StartRequest(r)
      BY <1>3 DEF FailOver, RateLimited, StartRequest, TypeOK
    <3> QED
      BY <3>3, <3>4, <3>5, <3>6, <3>7
  <2> QED
    BY <2>1, <2>2
<1> QED
  BY <1>1, <1>2, <1>3 DEF SuccessIsAcceptance

\* The caller is told of a success only if the service accepted the request: neither
\* the timer nor the closing of the socket completes a request that way.
THEOREM SuccessMeansAcceptance == Spec => []FulfilledMeansAccepted
<1>1. Init => SuccessIsAcceptance
  <2>1. <<>> # <<"success">>
    OBVIOUS
  <2> QED
    BY <2>1 DEF Init, SuccessIsAcceptance
<1>2. SuccessIsAcceptance => FulfilledMeansAccepted
  BY DEF SuccessIsAcceptance, FulfilledMeansAccepted
<1> QED
  BY <1>1, <1>2, SuccessInduction, TypeCorrect, RequestsAreCompletedOnce, PTL DEF Spec
==============================================================================
