------------------------ MODULE OpenClawClientProofs ------------------------
(* Proofs about OpenClawClient, for any number of tasks, requests, external *)
(* runs, aborts, connection losses and refusals.                            *)
EXTENDS OpenClawClient, FiniteSetTheorems, SequenceTheorems, TLAPS

-----------------------------------------------------------------------------
(* The inductive invariant.                                                 *)

(* The chat event being handled is the first frame of the queue.            *)
FrameHeld ==
  /\ wsPc \in {"delta", "final"} => inbox # <<>> /\ Head(inbox).type = wsPc
  /\ wsPc = "calling" => inbox # <<>> /\ Head(inbox).type = "final"

(* A request that was not yet sent has no answer and no callback.           *)
FreshUntouched == \A r \in fresh : answers[r] = <<>> /\ chatCb # r /\ called # r

(* Except between its final call and its removal, the registered callback   *)
(* has not been given a final text.                                         *)
RegisteredUnanswered ==
  \A r \in Requests : wsPc # "closing" /\ chatCb = r => answers[r] = <<>>

(* Nor has the one that was loaded to be called.                            *)
CalledUnanswered == called # None => answers[called] = <<>>

(* A request whose callback an abort took away never gets it back, and it   *)
(* is not the one that is being called.                                     *)
AbandonedGone == \A r \in abandoned : r \notin fresh /\ chatCb # r /\ called # r

(* A request is being sent by one task at most, and is no longer fresh.     *)
SentOnce ==
  \A t \in Tasks :
    /\ arg[t] \notin fresh
    /\ \A u \in Tasks : t # u /\ arg[t] # None => arg[t] # arg[u]

(* Between the guard of chat_send and the registration of the callback the  *)
(* request has nothing yet that another thread could have taken from it.    *)
BegunUntouched ==
  \A t \in Tasks : pc[t] = "begun" =>
    /\ arg[t] \in Requests /\ answers[arg[t]] = <<>>
    /\ chatCb # arg[t] /\ called # arg[t] /\ arg[t] \notin abandoned

IInv == TypeOK /\ FrameHeld /\ FreshUntouched /\ RegisteredUnanswered
        /\ CalledUnanswered /\ AtMostOneAnswer /\ AbandonedGone /\ SentOnce
        /\ BegunUntouched

-----------------------------------------------------------------------------
(* Type correctness.                                                        *)

USE DEF States, Chatting, AtLeastConnected, Threads, Runs

(* Every frame the client or the gateway queues is a message, and queueing  *)
(* or consuming one leaves a queue of messages.                             *)
LEMMA MessageTypes ==
  /\ \A type \in {"challenge", "ok", "error"} : Msg(type, None) \in Messages
  /\ \A r \in Runs : Msg("delta", r) \in Messages /\ Msg("final", r) \in Messages
  BY DEF Msg, Messages

(* A final text is always that of a run.                                    *)
LEMMA FinalHasRun ==
  ASSUME NEW m \in Messages, m.type = "final"
  PROVE  m.run \in Runs
  BY DEF Messages

(* The initial state is well typed.                                         *)
LEMMA InitType == Init => TypeOK /\ FrameHeld
  BY ConstantsAssumption DEF Init, TypeOK, Messages, FrameHeld

(* Consuming the head of the queue leaves a queue.                          *)
LEMMA InboxTail ==
  ASSUME inbox \in Seq(Messages), inbox # <<>>
  PROVE  Head(inbox) \in Messages /\ Tail(inbox) \in Seq(Messages)
  OBVIOUS

(* The state-changing helper keeps its two variables well typed.            *)
LEMMA SetStateType ==
  ASSUME TypeOK, NEW th \in Threads, NEW st \in States, SetState(th, st)
  PROVE  oc' \in States /\ notify' \in [Threads -> States \cup {None}]
  BY DEF TypeOK, SetState

(* Appending a message to a queue of messages gives one.                    *)
LEMMA AppendType ==
  ASSUME NEW q \in Seq(Messages), NEW m \in Messages
  PROVE  Append(q, m) \in Seq(Messages)
  OBVIOUS

(* ... with the same head.                                                  *)
LEMMA AppendHead ==
  ASSUME NEW q \in Seq(Messages), NEW m \in Messages, q # <<>>
  PROVE  Append(q, m) # <<>> /\ Head(Append(q, m)) = Head(q)
  OBVIOUS

(* Spending one of a budget leaves every budget a natural number.           *)
LEMMA SpendType ==
  ASSUME TypeOK, NEW what \in {"abort", "drop", "reject"}, Spend(what)
  PROVE  budget' \in [{"abort", "drop", "reject"} -> Nat]
  BY DEF TypeOK, Spend

(* Every step preserves the types.                                          *)
LEMMA NextType == TypeOK /\ FrameHeld /\ [Next]_vars => TypeOK'
<1> SUFFICES ASSUME TypeOK, FrameHeld, [Next]_vars
             PROVE  TypeOK'
  OBVIOUS
<1> USE DEF TypeOK, clientVars, historyVars, Goto, WsIdle
<1>1. ASSUME NEW th \in Threads, StateCallback(th)
      PROVE  TypeOK'
  BY <1>1 DEF StateCallback
<1>2. CASE Connect
  BY <1>2, SetStateType DEF Connect
<1>3. CASE WatchdogDisconnect
  <2>1. inbox' \in Seq(Messages)
    BY <1>3 DEF WatchdogDisconnect
  <2> QED BY <1>3, <2>1, SetStateType DEF WatchdogDisconnect
<1>4. CASE WsOpened
  <2>1. inbox' \in Seq(Messages)
    BY <1>4, MessageTypes DEF WsOpened
  <2> QED BY <1>4, <2>1, SetStateType DEF WsOpened
<1>5. CASE WsLost
  <2>1. inbox' \in Seq(Messages)
    BY <1>5 DEF WsLost
  <2>2. Spend("drop") /\ SetState("ws", "DISCONNECTED")
    BY <1>5 DEF WsLost
  <2> QED BY <1>5, <2>1, <2>2, SetStateType, SpendType DEF WsLost
<1>6. CASE WsError
  <2>1. inbox' \in Seq(Messages)
    BY <1>6 DEF WsError
  <2>2. Spend("drop") /\ SetState("ws", "ERROR")
    BY <1>6 DEF WsError
  <2> QED BY <1>6, <2>1, <2>2, SetStateType, SpendType DEF WsError
<1>7. CASE OnChallenge
  <2>1. inbox' \in Seq(Messages)
    <3>1. Tail(inbox) \in Seq(Messages)
      BY <1>7, InboxTail DEF OnChallenge, Receive
    <3>2. \E type \in {"ok", "error"} : inbox' = Append(Tail(inbox), Msg(type, None))
      BY <1>7 DEF OnChallenge
    <3> HIDE DEF TypeOK
    <3> QED BY <3>1, <3>2, AppendType, MessageTypes
  <2>2. budget' \in [{"abort", "drop", "reject"} -> Nat]
    BY <1>7, SpendType DEF OnChallenge
  <2>3. SetState("ws", "AUTHENTICATING")
    BY <1>7 DEF OnChallenge
  <2> QED BY <1>7, <2>1, <2>2, <2>3, SetStateType DEF OnChallenge
<1>8. ASSUME NEW type \in {"ok", "error"}, OnResponse(type)
      PROVE  TypeOK'
  <2>1. inbox' \in Seq(Messages)
    BY <1>8, InboxTail DEF OnResponse, Receive
  <2>2. oc' \in States /\ notify' \in [Threads -> States \cup {None}]
    BY <1>8, SetStateType DEF OnResponse
  <2> QED BY <1>8, <2>1, <2>2 DEF OnResponse
<1>9. CASE OnChatDelta \/ OnChatFinal
  <2>1. inbox' \in Seq(Messages)
    BY <1>9, InboxTail DEF OnChatDelta, OnChatFinal, Receive
  <2> QED BY <1>9, <2>1 DEF OnChatDelta, OnChatFinal, Receive
<1>10. CASE StreamChat
  <2>1. inbox' \in Seq(Messages)
    BY <1>10, InboxTail DEF StreamChat, FrameHeld
  <2> QED BY <1>10, <2>1, SetStateType DEF StreamChat
<1>17. CASE LoadCallback
  <2>1. inbox' \in Seq(Messages)
    BY <1>17, InboxTail DEF LoadCallback, FrameHeld
  <2> QED BY <1>17, <2>1 DEF LoadCallback
<1>16. CASE AnswerChat
  <2>1. inbox' \in Seq(Messages) /\ Head(inbox).run \in Runs
    BY <1>16, InboxTail, FinalHasRun DEF AnswerChat, FrameHeld
  <2>2. answers' \in [Requests -> Seq(Runs)]
    <3>1. called \in Requests /\ answers[called] \in Seq(Runs)
      BY <1>16 DEF AnswerChat
    <3>2. Append(answers[called], Head(inbox).run) \in Seq(Runs)
      BY <3>1, <2>1
    <3> QED BY <1>16, <3>1, <3>2 DEF AnswerChat
  <2> QED BY <1>16, <2>1, <2>2 DEF AnswerChat
<1>18. CASE ChatClosed
  BY <1>18, SetStateType DEF ChatClosed
<1>11. CASE CloseChat
  BY <1>11 DEF CloseChat
<1>12. ASSUME NEW t \in Tasks, SendNext(t)
       PROVE  TypeOK'
  <2>1. ASSUME NEW r \in Requests, SendBegin(t, r)
        PROVE  TypeOK'
    BY <2>1, ConstantsAssumption DEF SendBegin
  <2>6. CASE SendRegister(t)
    <3>1. arg[t] \in Requests
      BY <2>6 DEF SendRegister
    <3>2. chatCb' \in Requests /\ crossed' \in SUBSET Requests
      BY <2>6, <3>1 DEF SendRegister
    <3> QED BY <2>6, <3>2 DEF SendRegister
  <2>2. CASE SendFails(t)
    BY <2>2 DEF SendFails
  <2>3. CASE SendAnnounce(t)
    BY <2>3, SetStateType DEF SendAnnounce
  <2>4. CASE Transmit(t)
    <3>1. inbox' \in Seq(Messages)
      <4>1. inbox' = inbox \/ inbox' = Append(inbox, Msg("error", None))
        BY <2>4 DEF Transmit
      <4>2. inbox \in Seq(Messages) /\ Msg("error", None) \in Messages
        BY MessageTypes
      <4> HIDE DEF TypeOK
      <4> QED BY <4>1, <4>2, AppendType
    <3>2. budget' \in [{"abort", "drop", "reject"} -> Nat]
      BY <2>4, SpendType DEF Transmit
    <3>3. run' \in [Runs -> {"none", "running", "streaming", "done"}]
      BY <2>4 DEF Transmit
    <3> QED BY <2>4, <3>1, <3>2, <3>3 DEF Transmit
  <2>5. CASE SendDone(t)
    BY <2>5, SetStateType DEF SendDone
  <2> QED BY <1>12, <2>1, <2>2, <2>3, <2>4, <2>5, <2>6 DEF SendNext
<1>13. ASSUME NEW t \in Tasks, AbortNext(t)
       PROVE  TypeOK'
  <2>1. CASE AbortBegin(t)
    BY <2>1, SpendType DEF AbortBegin
  <2>2. CASE AbortClear(t)
    BY <2>2 DEF AbortClear
  <2>3. CASE AbortDone(t)
    BY <2>3, SetStateType DEF AbortDone
  <2> QED BY <1>13, <2>1, <2>2, <2>3 DEF AbortNext
<1>14. CASE GatewayNext
  <2>1. ASSUME NEW e \in Externals, GatewayStart(e)
        PROVE  TypeOK'
    BY <2>1 DEF GatewayStart
  <2>2. ASSUME NEW r \in Runs, GatewayDelta(r)
        PROVE  TypeOK'
    <3>1. inbox' \in Seq(Messages)
      BY <2>2, MessageTypes DEF GatewayDelta, Publish
    <3> QED BY <2>2, <3>1 DEF GatewayDelta
  <2>3. ASSUME NEW r \in Runs, GatewayFinal(r)
        PROVE  TypeOK'
    <3>1. inbox' \in Seq(Messages)
      BY <2>3, MessageTypes DEF GatewayFinal, Publish
    <3> QED BY <2>3, <3>1 DEF GatewayFinal
  <2> QED BY <1>14, <2>1, <2>2, <2>3 DEF GatewayNext
<1>15. CASE UNCHANGED vars
  BY <1>15 DEF vars
<1> QED
  BY <1>1, <1>2, <1>3, <1>4, <1>5, <1>6, <1>7, <1>8, <1>9, <1>10, <1>11,
     <1>12, <1>13, <1>14, <1>15, <1>16, <1>17, <1>18 DEF Next, WsNext

(* The frame being handled stays first: the others are queued behind it,    *)
(* and only an idle WebSocket task loses its connection.                    *)
LEMMA NextFrame == TypeOK /\ FrameHeld /\ [Next]_vars => FrameHeld'
<1> SUFFICES ASSUME TypeOK, FrameHeld, [Next]_vars
             PROVE  FrameHeld'
  OBVIOUS
<1>1. CASE inbox' = inbox /\ wsPc' = wsPc
  BY <1>1 DEF FrameHeld
<1>2. CASE wsPc' \in {"idle", "closing", "reset"}
  BY <1>2 DEF FrameHeld
<1>3. CASE \E m \in Messages : inbox' = Append(inbox, m) /\ wsPc' = wsPc
  BY <1>3, AppendHead DEF FrameHeld, TypeOK
<1>4. CASE (OnChatDelta \/ OnChatFinal) /\ wsPc' # wsPc
  BY <1>4 DEF FrameHeld, OnChatDelta, OnChatFinal, Receive
<1>5. CASE (OnChatDelta \/ OnChatFinal) /\ wsPc' = wsPc
  BY <1>2, <1>5 DEF OnChatDelta, OnChatFinal, Receive, WsIdle
<1>6. CASE WatchdogDisconnect \/ WsOpened \/ WsLost \/ WsError \/ OnChallenge
           \/ OnResponse("ok") \/ OnResponse("error")
  BY <1>2, <1>6 DEF WatchdogDisconnect, WsOpened, WsLost, WsError, OnChallenge,
                    OnResponse, Receive, WsIdle
<1>7. CASE StreamChat \/ AnswerChat \/ CloseChat \/ ChatClosed
  BY <1>2, <1>7 DEF StreamChat, AnswerChat, CloseChat, ChatClosed
<1>11. CASE LoadCallback
  BY <1>2, <1>11 DEF LoadCallback, FrameHeld
<1>8. ASSUME NEW t \in Tasks, Transmit(t)
      PROVE  FrameHeld'
  BY <1>1, <1>3, <1>8, MessageTypes DEF Transmit
<1>9. ASSUME NEW r \in Runs, GatewayDelta(r) \/ GatewayFinal(r)
      PROVE  FrameHeld'
  BY <1>1, <1>3, <1>9, MessageTypes DEF GatewayDelta, GatewayFinal, Publish
<1>10. CASE \/ \E th \in Threads : StateCallback(th)
            \/ Connect
            \/ \E t \in Tasks : \/ \E r \in Requests : SendBegin(t, r)
                               \/ SendRegister(t) \/ SendFails(t)
                               \/ SendAnnounce(t) \/ SendDone(t) \/ AbortNext(t)
            \/ \E e \in Externals : GatewayStart(e)
            \/ UNCHANGED vars
  BY <1>1, <1>10 DEF StateCallback, Connect, SendBegin, SendRegister, SendFails,
                     SendAnnounce, SendDone, AbortNext, AbortBegin, AbortClear,
                     AbortDone, GatewayStart, clientVars, vars
<1> QED
  BY <1>4, <1>5, <1>6, <1>7, <1>8, <1>9, <1>10, <1>11
     DEF Next, WsNext, SendNext, GatewayNext

(* Every reachable state is well typed.                                     *)
THEOREM TypeCorrect == Spec => []TypeOK
  BY InitType, NextType, NextFrame, PTL DEF Spec

-----------------------------------------------------------------------------
(* The inductive invariant holds initially.                                 *)
LEMMA InitInvariant == Init => IInv
  BY InitType, ConstantsAssumption
     DEF Init, IInv, FreshUntouched, RegisteredUnanswered, CalledUnanswered,
         AtMostOneAnswer, AbandonedGone, SentOnce, BegunUntouched

(* What the parts of the invariant other than the types are about; a task   *)
(* may go on in chat_send or leave it.                                      *)
chatVars == <<chatCb, called, fresh, answers, abandoned>>

SendersGoOn ==
  \A t \in Tasks : /\ arg'[t] \in {arg[t], None}
                   /\ pc'[t] = "begun" => pc[t] = "begun" /\ arg'[t] = arg[t]

(* A step that leaves the callback and the history alone, while senders     *)
(* only go on, keeps the invariant.                                         *)
LEMMA ChatUnchanged ==
  ASSUME IInv, TypeOK', FrameHeld', UNCHANGED chatVars, SendersGoOn,
         wsPc = "closing" => wsPc' = "closing"
  PROVE  IInv'
  BY ConstantsAssumption
     DEF IInv, FreshUntouched, RegisteredUnanswered, CalledUnanswered,
         AtMostOneAnswer, AbandonedGone, SentOnce, BegunUntouched, chatVars, SendersGoOn,
         TypeOK

(* Steps that touch neither the callback nor the history.                   *)
LEMMA OtherSteps ==
  ASSUME TypeOK,
         \/ \E th \in Threads : StateCallback(th)
         \/ Connect \/ WatchdogDisconnect
         \/ WsOpened \/ WsLost \/ WsError
         \/ OnChallenge \/ OnResponse("ok") \/ OnResponse("error")
         \/ OnChatDelta \/ StreamChat \/ OnChatFinal \/ ChatClosed
         \/ \E t \in Tasks : SendFails(t) \/ SendAnnounce(t) \/ Transmit(t)
                            \/ SendDone(t) \/ AbortBegin(t) \/ AbortDone(t)
         \/ GatewayNext
         \/ UNCHANGED vars
  PROVE  /\ UNCHANGED chatVars /\ SendersGoOn
         /\ wsPc = "closing" => wsPc' = "closing"
<1> USE DEF chatVars, SendersGoOn, clientVars, historyVars
<1>1. CASE \/ \E th \in Threads : StateCallback(th)
           \/ Connect \/ WatchdogDisconnect
           \/ WsOpened \/ WsLost \/ WsError
           \/ OnChallenge \/ OnResponse("ok") \/ OnResponse("error")
           \/ OnChatDelta \/ StreamChat \/ OnChatFinal \/ ChatClosed
           \/ GatewayNext \/ UNCHANGED vars
  BY <1>1 DEF StateCallback, Connect, WatchdogDisconnect, WsOpened, WsLost,
         WsError, OnChallenge, OnResponse, OnChatDelta, StreamChat, OnChatFinal,
         ChatClosed, Receive, WsIdle, GatewayNext, GatewayStart, GatewayDelta, GatewayFinal, vars
<1>2. ASSUME NEW t \in Tasks,
             SendFails(t) \/ SendAnnounce(t) \/ Transmit(t) \/ SendDone(t)
             \/ AbortBegin(t) \/ AbortDone(t)
      PROVE  /\ UNCHANGED chatVars /\ SendersGoOn
             /\ wsPc = "closing" => wsPc' = "closing"
  BY <1>2 DEF SendFails, SendAnnounce, Transmit, SendDone, AbortBegin, AbortClear, AbortDone, Goto,
               TypeOK
<1> QED
  BY <1>1, <1>2

(* Every step preserves the inductive invariant.                            *)
LEMMA NextInvariant == IInv /\ [Next]_vars => IInv'
<1> SUFFICES ASSUME IInv, [Next]_vars
             PROVE  IInv'
  OBVIOUS
<1>1. TypeOK /\ TypeOK' /\ FrameHeld /\ FrameHeld'
  BY NextType, NextFrame DEF IInv
<1> USE DEF IInv, FreshUntouched, RegisteredUnanswered, CalledUnanswered,
            AtMostOneAnswer, AbandonedGone, SentOnce, BegunUntouched
<1>2. CASE AnswerChat
  <2>1. UNCHANGED <<chatCb, fresh, abandoned, pc, arg>> /\ wsPc' = "closing"
        /\ called' = None /\ called # None
    BY <1>1, <1>2 DEF AnswerChat, TypeOK
  <2>2. called \in Requests /\ answers[called] = <<>> /\ Head(inbox).run \in Runs
    BY <1>1, <1>2, <2>1, InboxTail, FinalHasRun DEF AnswerChat, FrameHeld, TypeOK
  <2>3. answers' = [answers EXCEPT ![called] = <<Head(inbox).run>>]
    BY <1>2, <2>2 DEF AnswerChat
  <2>4. AtMostOneAnswer'
    BY <1>1, <2>2, <2>3 DEF TypeOK
  <2>5. FreshUntouched' /\ BegunUntouched'
    BY <1>1, <2>1, <2>2, <2>3, ConstantsAssumption DEF TypeOK
  <2>6. AbandonedGone' /\ SentOnce'
    BY <1>1, <2>1, ConstantsAssumption DEF TypeOK
  <2> QED BY <1>1, <2>1, <2>4, <2>5, <2>6
<1>8. CASE LoadCallback
  <2>1. UNCHANGED <<chatCb, fresh, answers, abandoned, pc, arg>> /\ called' = chatCb
        /\ wsPc = "final"
    BY <1>8 DEF LoadCallback, historyVars
  <2>2. chatCb # None => chatCb \in Requests
    BY <1>1 DEF TypeOK
  <2> QED BY <1>1, <2>1, <2>2
<1>3. CASE CloseChat
  <2>1. chatCb' = None /\ None \notin Requests
    BY <1>3, ConstantsAssumption DEF CloseChat
  <2>2. UNCHANGED <<called, fresh, answers, abandoned, pc, arg>>
    BY <1>3 DEF CloseChat, historyVars
  <2>3. fresh \subseteq Requests /\ abandoned \subseteq Requests
    BY <1>1 DEF TypeOK
  <2> HIDE DEF TypeOK
  <2> QED BY <1>1, <2>1, <2>2, <2>3
<1>4. ASSUME NEW t \in Tasks, NEW r \in Requests, SendBegin(t, r)
      PROVE  IInv'
  BY <1>1, <1>4, ConstantsAssumption DEF SendBegin, Goto, TypeOK
<1>5. ASSUME NEW t \in Tasks, SendRegister(t)
      PROVE  IInv'
  BY <1>1, <1>5, ConstantsAssumption DEF SendRegister, Goto, TypeOK, historyVars
<1>6. ASSUME NEW t \in Tasks, AbortClear(t)
      PROVE  IInv'
  BY <1>1, <1>6, ConstantsAssumption DEF AbortClear, Goto, TypeOK
<1> HIDE DEF IInv
<1>7. CASE ~AnswerChat /\ ~CloseChat /\ ~LoadCallback
           /\ \A t \in Tasks : /\ \A r \in Requests : ~SendBegin(t, r)
                               /\ ~SendRegister(t) /\ ~AbortClear(t)
  BY <1>1, <1>7, OtherSteps, ChatUnchanged DEF Next, WsNext, SendNext, AbortNext
<1> QED
  BY <1>2, <1>3, <1>4, <1>5, <1>6, <1>7, <1>8

(* At most one final text ever reaches the callback of a request,           *)
(* however the senders, the aborts, the connection and the events of other  *)
(* clients' runs interleave (openclaw_client.c:472-473).                    *)
THEOREM OneAnswer == Spec => []AtMostOneAnswer
<1>1. IInv => AtMostOneAnswer
  BY DEF IInv
<1> QED
  BY <1>1, InitInvariant, NextInvariant, PTL DEF Spec

(* An aborted request stays silent: once openclaw_chat_abort has cleared    *)
(* its callback, no event of the gateway reaches it, unless the WebSocket   *)
(* task had already loaded it for its one final call (472, 1703).           *)
THEOREM AbortIsFinal == Spec => AbandonedStaysSilent
<1>1. IInv /\ [Next]_vars => [\A r \in abandoned : answers'[r] = answers[r]]_vars
  <2> SUFFICES ASSUME IInv, [Next]_vars, NEW r \in abandoned
               PROVE  answers'[r] = answers[r]
    OBVIOUS
  <2>1. r # called /\ TypeOK
    BY DEF IInv, AbandonedGone
  <2>2. CASE AnswerChat
    BY <2>1, <2>2 DEF AnswerChat, TypeOK
  <2>3. CASE ~AnswerChat
    <3>1. UNCHANGED answers \/ CloseChat \/ LoadCallback
          \/ \E t \in Tasks : AbortClear(t) \/ SendRegister(t)
                             \/ \E q \in Requests : SendBegin(t, q)
      BY <2>1, <2>3, OtherSteps DEF Next, WsNext, SendNext, AbortNext, chatVars
    <3> QED BY <3>1 DEF CloseChat, LoadCallback, AbortClear, SendBegin, SendRegister,
                        historyVars
  <2> QED BY <2>2, <2>3
<1> QED
  BY <1>1, InitInvariant, NextInvariant, PTL DEF Spec, AbandonedStaysSilent

-----------------------------------------------------------------------------
(* What holds as long as no connection was lost and nothing was refused.    *)

BudgetHolds == budget["drop"] <= MaxDrops /\ budget["reject"] <= MaxRejects

(* Until the handshake is over nobody sends and no callback is registered;  *)
(* afterwards the connection stays authenticated and no challenge is left.  *)
PhaseHolds ==
  /\ wdPc \in {"boot", "reconnect"} => link = "none"
  /\ link \in {"none", "down"} => inbox = <<>>
  /\ link # "authed" => oc \in {"DISCONNECTED", "CONNECTING"} /\ Len(inbox) <= 1
  /\ link = "authed" => /\ oc \in {"AUTHENTICATING", "CONNECTED"} \cup Chatting
                        /\ \A i \in 1..Len(inbox) : inbox[i].type # "challenge"
  /\ oc = "AUTHENTICATING" => inbox # <<>> /\ Head(inbox).type = "ok"
  /\ oc \in {"DISCONNECTED", "CONNECTING", "AUTHENTICATING"} =>
       chatCb = None /\ wsPc = "idle" /\ \A t \in Tasks : pc[t] = "idle"

(* A request that was not transmitted has no run.                           *)
UnsentHasNoRun ==
  /\ \A t \in Tasks : pc[t] \in {"begun", "armed", "sending"} =>
                         arg[t] \in Requests /\ run[arg[t]] = "none"
  /\ \A r \in fresh : run[r] = "none"

(* Unless it was registered between the two stores of a reset, the state is *)
(* CONNECTED only where the callback has no run, not once a task has        *)
(* announced the request it registered, and no reset is still to store it.  *)
CallbackHolds ==
  chatCb # None /\ chatCb \notin crossed =>
    /\ oc = "CONNECTED" => run[chatCb] = "none"
    /\ \A t \in Tasks : pc[t] = "sending" /\ chatCb = arg[t] => oc # "CONNECTED"
    /\ ~Resetting

(* Where chat_send cannot fail, a callback without a run is that of a task  *)
(* which is going to transmit its request.                                  *)
ArmedHolds ==
  chatCb # None /\ run[chatCb] = "none" =>
    \E t \in Tasks : pc[t] \in {"armed", "sending"} /\ arg[t] = chatCb

CalmInv == /\ IInv /\ BudgetHolds /\ UnsentHasNoRun
           /\ Unharmed => PhaseHolds /\ CallbackHolds /\ (~MayFail => ArmedHolds)

(* Budgets are only spent: what was harmed stays so.                        *)
LEMMA NextBudget ==
  ASSUME IInv, BudgetHolds, [Next]_vars
  PROVE  BudgetHolds' /\ (Unharmed' => Unharmed)
  <1>1. budget["drop"] \in Nat /\ budget["reject"] \in Nat
        /\ MaxDrops \in Nat /\ MaxRejects \in Nat
    BY ConstantsAssumption DEF IInv, TypeOK
  <1>2. budget' = budget \/ Spend("drop") \/ Spend("reject") \/ Spend("abort")
    <2>1. ASSUME NEW t \in Tasks, SendNext(t) \/ AbortNext(t)
          PROVE  budget' = budget \/ Spend("reject") \/ Spend("abort")
      BY <2>1 DEF SendNext, AbortNext, SendBegin, SendRegister, SendFails, SendAnnounce,
                  Transmit, SendDone, AbortBegin, AbortClear, AbortDone, historyVars
    <2>2. CASE WsNext
      BY <2>2 DEF WsNext, WsOpened, WsLost, WsError, OnChallenge, OnResponse, OnChatDelta,
                  StreamChat, OnChatFinal, LoadCallback, AnswerChat, CloseChat, ChatClosed,
                  historyVars
    <2>3. CASE GatewayNext
      BY <2>3 DEF GatewayNext, GatewayStart, GatewayDelta, GatewayFinal, historyVars
    <2>4. CASE (\E th \in Threads : StateCallback(th)) \/ Connect \/ WatchdogDisconnect
               \/ UNCHANGED vars
      BY <2>4 DEF StateCallback, Connect, WatchdogDisconnect, historyVars, vars
    <2> QED BY <2>1, <2>2, <2>3, <2>4 DEF Next
  <1>3. budget \in [{"abort", "drop", "reject"} -> Nat]
    BY DEF IInv, TypeOK
  <1> QED BY <1>1, <1>2, <1>3 DEF BudgetHolds, Unharmed, Linked, Spend

(* A spent loss or refusal is harm.                                         *)
LEMMA SpentIsHarm ==
  ASSUME IInv, BudgetHolds, Spend("drop") \/ Spend("reject")
  PROVE  ~Unharmed'
  <1>1. budget \in [{"abort", "drop", "reject"} -> Nat]
        /\ MaxDrops \in Nat /\ MaxRejects \in Nat
    BY ConstantsAssumption DEF IInv, TypeOK
  <1> QED BY <1>1 DEF BudgetHolds, Unharmed, Linked, Spend

(* Requests that were not transmitted keep having no run: only a            *)
(* transmission starts one, of the request its own task registered.         *)
LEMMA NextUnsent ==
  ASSUME IInv, UnsentHasNoRun, [Next]_vars
  PROVE  UnsentHasNoRun'
  <1> USE DEF UnsentHasNoRun
  <1>1. TypeOK /\ SentOnce
    BY DEF IInv
  <1>2. ASSUME NEW t \in Tasks, Transmit(t)
        PROVE  UnsentHasNoRun'
    <2>1. pc[t] = "sending" /\ pc' = [pc EXCEPT ![t] = "sent"] /\ UNCHANGED <<arg, fresh>>
          /\ run' \in {run, [run EXCEPT ![arg[t]] = "running"]}
      BY <1>2 DEF Transmit, Goto
    <2>2. arg[t] \in Requests /\ arg[t] # None /\ arg[t] \notin fresh
          /\ \A u \in Tasks : u # t => arg[u] # arg[t]
      BY <1>1, <2>1, ConstantsAssumption DEF SentOnce
    <2>3. \A r \in Requests : r # arg[t] => run'[r] = run[r]
      BY <1>1, <2>1 DEF TypeOK
    <2> QED BY <1>1, <2>1, <2>2, <2>3 DEF TypeOK
  <1>3. ASSUME NEW t \in Tasks, NEW r \in Requests, SendBegin(t, r)
        PROVE  UnsentHasNoRun'
    BY <1>1, <1>3 DEF SendBegin, Goto, TypeOK
  <1>4. ASSUME NEW t \in Tasks, SendRegister(t) \/ SendFails(t) \/ SendAnnounce(t)
                                \/ SendDone(t) \/ AbortNext(t)
        PROVE  UnsentHasNoRun'
    <2>1. /\ UNCHANGED <<run, fresh>>
          /\ arg' \in {arg, [arg EXCEPT ![t] = None]}
          /\ \E to \in {"idle", "armed", "sending", "aborting", "reset"} :
               /\ pc' = [pc EXCEPT ![t] = to]
               /\ to \in {"armed", "sending"} => arg' = arg /\ pc[t] \in {"begun", "armed"}
      BY <1>4 DEF SendRegister, SendFails, SendAnnounce, SendDone, AbortNext,
                  AbortBegin, AbortClear, AbortDone, Goto, historyVars
    <2> QED BY <1>1, <2>1 DEF TypeOK
  <1>5. CASE GatewayNext
    <2>1. \A r \in Requests : run[r] = "none" => run'[r] = "none"
      BY <1>1, <1>5, ConstantsAssumption
         DEF GatewayNext, GatewayStart, GatewayDelta, GatewayFinal, TypeOK
    <2>2. UNCHANGED <<pc, arg, fresh>>
      BY <1>5 DEF GatewayNext, GatewayStart, GatewayDelta, GatewayFinal, clientVars,
                  historyVars
    <2> QED BY <1>1, <2>1, <2>2 DEF TypeOK
  <1>6. CASE (\E th \in Threads : StateCallback(th)) \/ Connect \/ WatchdogDisconnect
             \/ WsNext \/ UNCHANGED vars
    <2>1. UNCHANGED <<pc, arg, fresh, run>>
      BY <1>6 DEF StateCallback, Connect, WatchdogDisconnect, WsNext, WsOpened, WsLost,
                  WsError, OnChallenge, OnResponse, OnChatDelta, StreamChat, OnChatFinal,
                  LoadCallback, AnswerChat, CloseChat, ChatClosed, historyVars, vars
    <2> QED BY <2>1
  <1> QED BY <1>2, <1>3, <1>4, <1>5, <1>6 DEF Next, SendNext

(* Queues without a challenge stay so when a frame is taken or another one  *)
(* is added; the first frame stays first.                                   *)
NoChallenge(q) == \A i \in 1..Len(q) : q[i].type # "challenge"

(* Taking the first frame keeps a queue free of challenges.                 *)
LEMMA CalmTail ==
  ASSUME NEW q \in Seq(Messages), q # <<>>
  PROVE  /\ Len(Tail(q)) = Len(q) - 1
         /\ NoChallenge(q) => NoChallenge(Tail(q))
         /\ NoChallenge(q) => Head(q).type # "challenge"
  <1>1. Len(Tail(q)) = Len(q) - 1 /\ Len(q) \in Nat /\ Len(q) > 0
    OBVIOUS
  <1>2. \A i \in 1..(Len(q) - 1) : Tail(q)[i] = q[i + 1] /\ i + 1 \in 1..Len(q)
    BY <1>1
  <1>3. Head(q) = q[1] /\ 1 \in 1..Len(q)
    BY <1>1
  <1> QED BY <1>1, <1>2, <1>3 DEF NoChallenge

(* So does adding a frame that is no challenge.                             *)
LEMMA CalmAppend ==
  ASSUME NEW q \in Seq(Messages), NEW m \in Messages, NoChallenge(q), m.type # "challenge"
  PROVE  NoChallenge(Append(q, m))
  <1>1. Len(Append(q, m)) = Len(q) + 1 /\ Len(q) \in Nat
    OBVIOUS
  <1>2. \A i \in 1..Len(q) : Append(q, m)[i] = q[i]
    OBVIOUS
  <1>3. Append(q, m)[Len(q) + 1] = m
    OBVIOUS
  <1>4. \A i \in 1..(Len(q) + 1) : i \in 1..Len(q) \/ i = Len(q) + 1
    BY <1>1
  <1> QED BY <1>1, <1>2, <1>3, <1>4 DEF NoChallenge

(* A queue of one frame.                                                    *)
LEMMA OneFrame ==
  ASSUME NEW q \in Seq(Messages), Len(q) = 1, NEW m \in Messages
  PROVE  /\ q # <<>> /\ Head(q) = q[1] /\ Tail(q) = <<>>
         /\ Len(Append(<<>>, m)) = 1 /\ Append(<<>>, m)[1] = m
         /\ Append(<<>>, m) \in Seq(Messages)
  <1>1. q # <<>> /\ Len(<<>>) = 0 /\ <<>> \in Seq(Messages)
    BY EmptySeq
  <1>2. Tail(q) \in Seq(Messages) /\ Len(Tail(q)) = 0
    BY <1>1, HeadTailProperties
  <1>3. Tail(q) = <<>>
    BY <1>2, EmptySeq
  <1>4. Len(Append(<<>>, m)) = 1 /\ Append(<<>>, m)[1] = m /\ Append(<<>>, m) \in Seq(Messages)
    BY <1>1, AppendProperties
  <1>5. Head(q) = q[1]
    BY <1>1
  <1> QED BY <1>1, <1>3, <1>4, <1>5

(* The phases follow one another as long as nothing is harmed.              *)
LEMMA NextPhase ==
  ASSUME IInv, BudgetHolds, Unharmed', PhaseHolds, [Next]_vars
  PROVE  PhaseHolds'
  <1> USE DEF PhaseHolds
  <1>1. /\ TypeOK /\ FrameHeld /\ inbox \in Seq(Messages)
        /\ link = "authed" => NoChallenge(inbox)
    BY DEF IInv, TypeOK, NoChallenge
  <1>0. Len(<<>>) = 0
    BY EmptySeq
  <1>2. CASE (\E th \in Threads : StateCallback(th)) \/ UNCHANGED vars
    BY <1>2 DEF StateCallback, vars
  <1>3. CASE Connect
    <2>1. oc' = "CONNECTING" /\ link' = "down" /\ wdPc' = "watch" /\ link = "none"
          /\ UNCHANGED <<chatCb, inbox, wsPc, pc>>
      BY <1>3 DEF Connect, SetState
    <2> QED BY <2>1
  <1>4. CASE WatchdogDisconnect
    <2>1. oc \in {"DISCONNECTED", "CONNECTING"} /\ link # "authed"
      BY <1>4 DEF WatchdogDisconnect
    <2>2. oc' = "DISCONNECTED" /\ link' = "none" /\ inbox' = <<>>
          /\ UNCHANGED <<chatCb, wsPc, pc>>
      BY <1>4 DEF WatchdogDisconnect, SetState
    <2> QED BY <1>0, <2>1, <2>2
  <1>5. CASE WsOpened
    <2>1. oc' = "CONNECTING" /\ link' = "open" /\ inbox' = <<Msg("challenge", None)>>
          /\ link = "down" /\ UNCHANGED <<chatCb, wsPc, pc, wdPc>>
      BY <1>5 DEF WsOpened, SetState
    <2>2. Len(inbox') = 1
      BY <2>1
    <2> QED BY <1>1, <2>1, <2>2
  <1>6. CASE WsLost \/ WsError
    BY <1>6, SpentIsHarm DEF WsLost, WsError
  <1>7. CASE OnChallenge
    <2>1. inbox # <<>> /\ Head(inbox).type = "challenge"
      BY <1>7 DEF OnChallenge, Receive
    <2>2. link = "open"
      BY <1>1, <2>1, CalmTail DEF TypeOK
    <2>3. Len(inbox) = 1
      <3>1. Len(inbox) \in Nat \ {0}
        <4> HIDE DEF PhaseHolds
        <4> QED BY <1>1, <2>1, EmptySeq
      <3> QED BY <2>2, <3>1
    <2>4. link' = "authed" /\ inbox' = Append(Tail(inbox), Msg("ok", None))
      BY <1>7, SpentIsHarm DEF OnChallenge
    <2>5. Len(inbox') = 1 /\ inbox'[1] = Msg("ok", None) /\ inbox' \in Seq(Messages)
      BY <1>1, <2>3, <2>4, OneFrame, MessageTypes
    <2>6. inbox' # <<>> /\ Head(inbox').type = "ok" /\ inbox'[1].type = "ok"
      BY <2>5, OneFrame DEF Msg
    <2>7. oc' = "AUTHENTICATING" /\ UNCHANGED <<chatCb, wsPc, pc, wdPc>>
      BY <1>7 DEF OnChallenge, SetState
    <2> QED BY <2>2, <2>4, <2>5, <2>6, <2>7
  <1>8. ASSUME NEW type \in {"ok", "error"}, OnResponse(type)
        PROVE  PhaseHolds'
    <2>1. inbox # <<>> /\ Head(inbox).type = type /\ inbox' = Tail(inbox)
          /\ UNCHANGED <<chatCb, link, wsPc, wdPc, pc>>
      BY <1>8 DEF OnResponse, Receive
    <2>2. Len(inbox') = Len(inbox) - 1 /\ (link = "authed" => NoChallenge(inbox'))
      BY <1>1, <2>1, CalmTail
    <2>3. oc # "AUTHENTICATING" => oc' = oc
      BY <1>8 DEF OnResponse
    <2>4. oc = "AUTHENTICATING" => type = "ok" /\ oc' = "CONNECTED" /\ link = "authed"
      BY <1>8, <2>1 DEF OnResponse, SetState
    <2>5. Len(inbox) \in Nat /\ link \notin {"none", "down"}
      BY <1>1, <2>1
    <2> QED BY <2>1, <2>2, <2>3, <2>4, <2>5 DEF NoChallenge
  <1>9. CASE OnChatDelta \/ OnChatFinal
    <2>1. inbox # <<>> /\ Head(inbox).type \in {"delta", "final"}
          /\ UNCHANGED <<oc, chatCb, link, wdPc, pc>>
          /\ inbox' \in {inbox, Tail(inbox)} /\ (chatCb = None => wsPc' = wsPc)
      BY <1>9 DEF OnChatDelta, OnChatFinal, Receive
    <2>2. Len(Tail(inbox)) = Len(inbox) - 1 /\ (link = "authed" => NoChallenge(Tail(inbox)))
      BY <1>1, <2>1, CalmTail
    <2>3. Len(inbox) \in Nat /\ link \notin {"none", "down"} /\ oc # "AUTHENTICATING"
      BY <1>1, <2>1
    <2> QED BY <1>1, <2>1, <2>2, <2>3 DEF NoChallenge
  <1>10. CASE StreamChat \/ LoadCallback \/ AnswerChat
    <2>1. inbox # <<>> /\ wsPc # "idle" /\ inbox' \in {inbox, Tail(inbox)}
          /\ UNCHANGED <<chatCb, link, wdPc, pc>> /\ oc' \in {oc, "CHAT_STREAMING"}
      BY <1>1, <1>10 DEF StreamChat, LoadCallback, AnswerChat, FrameHeld, SetState
    <2>2. link = "authed" /\ oc \notin {"DISCONNECTED", "CONNECTING", "AUTHENTICATING"}
      BY <2>1
    <2>3. NoChallenge(inbox')
      BY <1>1, <2>1, <2>2, CalmTail
    <2> QED BY <2>1, <2>2, <2>3 DEF NoChallenge
  <1>11. CASE CloseChat \/ ChatClosed
    <2>1. wsPc # "idle" /\ oc' \in {oc, "CONNECTED"} /\ UNCHANGED <<link, inbox, wdPc, pc>>
      BY <1>11 DEF CloseChat, ChatClosed, SetState
    <2> QED BY <2>1
  <1>12. ASSUME NEW t \in Tasks, SendNext(t) \/ AbortNext(t)
         PROVE  PhaseHolds'
    <2>1. oc \notin {"DISCONNECTED", "CONNECTING", "AUTHENTICATING"} /\ link = "authed"
      <3>1. pc[t] # "idle" \/ oc \in AtLeastConnected
        BY <1>12 DEF SendNext, AbortNext, SendBegin, SendRegister, SendFails, SendAnnounce,
                     Transmit, SendDone, AbortBegin, AbortClear, AbortDone, Goto
      <3> QED BY <3>1
    <2>2. oc' \in {oc, "CHAT_SENDING", "CHAT_THINKING", "CONNECTED"}
          /\ UNCHANGED <<link, wdPc, wsPc>>
      BY <1>12 DEF SendNext, AbortNext, SendBegin, SendRegister, SendFails, SendAnnounce,
                   Transmit, SendDone, AbortBegin, AbortClear, AbortDone, SetState
    <2>3. inbox' = inbox \/ inbox' = Append(inbox, Msg("error", None))
      BY <1>12 DEF SendNext, AbortNext, SendBegin, SendRegister, SendFails, SendAnnounce,
                   Transmit, SendDone, AbortBegin, AbortClear, AbortDone
    <2>4. NoChallenge(inbox')
      <3>1. Msg("error", None) \in Messages /\ Msg("error", None).type = "error"
        BY MessageTypes DEF Msg
      <3> QED BY <1>1, <2>1, <2>3, <3>1, CalmAppend
    <2> QED BY <2>1, <2>2, <2>4 DEF NoChallenge
  <1>13. CASE GatewayNext
    <2>1. UNCHANGED <<oc, chatCb, link, wsPc, wdPc, pc>>
      BY <1>13 DEF GatewayNext, GatewayStart, GatewayDelta, GatewayFinal, clientVars
    <2>2. inbox' = inbox \/ (link = "authed" /\ \E m \in Messages :
                               m.type \in {"delta", "final"} /\ inbox' = Append(inbox, m))
      <3>1. \A r \in Runs : Msg("delta", r).type = "delta" /\ Msg("final", r).type = "final"
        BY DEF Msg
      <3> QED BY <1>13, <3>1, MessageTypes
              DEF GatewayNext, GatewayStart, GatewayDelta, GatewayFinal, Publish, clientVars
    <2>3. CASE inbox' = inbox
      BY <2>1, <2>3
    <2>4. ASSUME NEW m \in Messages, link = "authed", m.type \in {"delta", "final"},
                 inbox' = Append(inbox, m)
          PROVE  PhaseHolds'
      <3>1. NoChallenge(inbox')
        BY <1>1, <2>4, CalmAppend
      <3>2. inbox # <<>> => Head(inbox') = Head(inbox) /\ inbox' # <<>>
        BY <1>1, <2>4, AppendHead
      <3> QED BY <2>1, <2>4, <3>1, <3>2 DEF NoChallenge
    <2> QED BY <2>2, <2>3, <2>4
  <1> QED
    BY <1>2, <1>3, <1>4, <1>5, <1>6, <1>7, <1>8, <1>9, <1>10, <1>11, <1>12, <1>13
       DEF Next, WsNext

(* A callback that is registered in CONNECTED has no run.                   *)
LEMMA NextCallback ==
  ASSUME IInv, UnsentHasNoRun, PhaseHolds, PhaseHolds', CallbackHolds, [Next]_vars
  PROVE  CallbackHolds'
  <1> USE DEF CallbackHolds
  <1>1. TypeOK /\ SentOnce
    BY DEF IInv
  <1>2. ASSUME NEW t \in Tasks, NEW r \in Requests, SendBegin(t, r)
        PROVE  CallbackHolds'
    <2>1. pc' = [pc EXCEPT ![t] = "begun"] /\ arg' = [arg EXCEPT ![t] = r]
          /\ UNCHANGED <<oc, chatCb, wsPc, run, crossed>>
      BY <1>2 DEF SendBegin, Goto
    <2>2. Resetting' => Resetting
      BY <1>1, <2>1 DEF Resetting, TypeOK
    <2> QED BY <1>1, <2>1, <2>2 DEF TypeOK
  <1>3. ASSUME NEW t \in Tasks, SendRegister(t)
        PROVE  CallbackHolds'
    <2>1. pc[t] = "begun" /\ pc' = [pc EXCEPT ![t] = "armed"] /\ chatCb' = arg[t]
          /\ UNCHANGED <<oc, wsPc, arg, run>>
          /\ (Resetting => arg[t] \in crossed')
      BY <1>3 DEF SendRegister, Goto
    <2>2. arg[t] \in Requests /\ run[arg[t]] = "none" /\ arg[t] # None
      BY <2>1, ConstantsAssumption DEF UnsentHasNoRun
    <2>3. \A u \in Tasks : u # t => arg[u] # arg[t]
      BY <1>1, <2>2 DEF SentOnce
    <2>4. Resetting' => Resetting
      BY <1>1, <2>1 DEF Resetting, TypeOK
    <2>5. \A u \in Tasks : pc'[u] = "sending" => u # t
      BY <1>1, <2>1 DEF TypeOK
    <2> QED BY <2>1, <2>2, <2>3, <2>4, <2>5
  <1>4. ASSUME NEW t \in Tasks, Transmit(t)
        PROVE  CallbackHolds'
    <2>1. pc[t] = "sending" /\ pc' = [pc EXCEPT ![t] = "sent"]
          /\ UNCHANGED <<oc, wsPc, arg, chatCb, crossed>>
          /\ run' \in {run, [run EXCEPT ![arg[t]] = "running"]}
      BY <1>4 DEF Transmit, Goto
    <2>2. chatCb # None /\ chatCb # arg[t] => run'[chatCb] = run[chatCb]
      BY <1>1, <2>1 DEF TypeOK
    <2>3. Resetting' => Resetting
      BY <1>1, <2>1 DEF Resetting, TypeOK
    <2>4. \A u \in Tasks : pc'[u] = "sending" => pc[u] = "sending"
      BY <1>1, <2>1 DEF TypeOK
    <2> QED BY <2>1, <2>2, <2>3, <2>4
  <1>5. ASSUME NEW t \in Tasks, SendFails(t) \/ SendAnnounce(t) \/ SendDone(t)
                                \/ AbortNext(t)
        PROVE  CallbackHolds'
    <2>1. CASE AbortClear(t)
      BY <2>1 DEF AbortClear
    <2>2. CASE AbortDone(t)
      <3>1. pc[t] = "reset" /\ pc' = [pc EXCEPT ![t] = "idle"]
            /\ UNCHANGED <<chatCb, crossed>>
        BY <2>2 DEF AbortDone, Goto, historyVars
      <3>2. Resetting
        BY <3>1 DEF Resetting
      <3> QED BY <3>1, <3>2
    <2>3. CASE SendFails(t) \/ SendAnnounce(t) \/ SendDone(t) \/ AbortBegin(t)
      <3>1. \E to \in {"idle", "sending", "aborting"} : pc' = [pc EXCEPT ![t] = to]
        BY <2>3 DEF SendFails, SendAnnounce, SendDone, AbortBegin, Goto
      <3>2. UNCHANGED <<chatCb, wsPc, run, crossed>> /\ (oc' = oc \/ oc' # "CONNECTED")
            /\ (pc' = [pc EXCEPT ![t] = "sending"] => oc' # "CONNECTED" /\ arg' = arg)
            /\ (arg' = arg \/ arg' = [arg EXCEPT ![t] = None])
        BY <1>1, <2>3 DEF SendFails, SendAnnounce, SendDone, AbortBegin, Goto, SetState,
                          TypeOK, historyVars
      <3>3. Resetting' => Resetting
        BY <1>1, <3>1, <3>2 DEF Resetting, TypeOK
      <3>4. \A u \in Tasks : pc'[u] = "sending" /\ chatCb' # None /\ chatCb' = arg'[u] =>
              oc' # "CONNECTED" \/ (pc[u] = "sending" /\ chatCb = arg[u])
        BY <1>1, <3>1, <3>2 DEF TypeOK
      <3> QED BY <3>2, <3>3, <3>4
    <2> QED BY <1>5, <2>1, <2>2, <2>3 DEF AbortNext
  <1>6. CASE GatewayNext
    <2>1. UNCHANGED <<oc, chatCb, wsPc, pc, arg, crossed>>
      BY <1>6 DEF GatewayNext, GatewayStart, GatewayDelta, GatewayFinal, clientVars,
                  historyVars
    <2>2. \A r \in Requests : run[r] = "none" => run'[r] = "none"
      BY <1>1, <1>6, ConstantsAssumption
         DEF GatewayNext, GatewayStart, GatewayDelta, GatewayFinal, TypeOK
    <2>3. chatCb # None => chatCb \in Requests
      BY <1>1 DEF TypeOK
    <2> QED BY <2>1, <2>2, <2>3 DEF Resetting
  <1>7. CASE CloseChat \/ ChatClosed
    <2>1. CASE CloseChat
      BY <2>1 DEF CloseChat
    <2>2. CASE ChatClosed
      <3>1. Resetting /\ UNCHANGED <<chatCb, crossed>>
        BY <2>2 DEF ChatClosed, Resetting, historyVars
      <3> QED BY <3>1
    <2> QED BY <1>7, <2>1, <2>2
  <1>8. CASE \E type \in {"ok", "error"} : OnResponse(type)
    <2>1. UNCHANGED <<chatCb, wsPc, pc, arg, run, crossed>>
      BY <1>8 DEF OnResponse, historyVars
    <2>2. oc # "AUTHENTICATING" => oc' = oc
      BY <1>8 DEF OnResponse
    <2> QED BY <2>1, <2>2 DEF PhaseHolds, Resetting
  <1>9. CASE (\E th \in Threads : StateCallback(th)) \/ Connect \/ WatchdogDisconnect
             \/ WsOpened \/ WsLost \/ WsError \/ OnChallenge \/ OnChatDelta
             \/ StreamChat \/ OnChatFinal \/ LoadCallback \/ AnswerChat \/ UNCHANGED vars
    <2>1. UNCHANGED <<chatCb, pc, arg, run, crossed>> /\ (oc' = oc \/ oc' # "CONNECTED")
          /\ (wsPc' = "reset" => wsPc = "reset")
      BY <1>9 DEF StateCallback, Connect, WatchdogDisconnect, WsOpened, WsLost, WsError,
                  OnChallenge, OnChatDelta, StreamChat, OnChatFinal, LoadCallback,
                  AnswerChat, SetState, historyVars, vars
    <2> QED BY <2>1 DEF Resetting
  <1> QED BY <1>2, <1>3, <1>4, <1>5, <1>6, <1>7, <1>8, <1>9 DEF Next, WsNext, SendNext

(* The task that registered a callback goes on to transmit its request.     *)
LEMMA NextArmed ==
  ASSUME IInv, BudgetHolds, UnsentHasNoRun, PhaseHolds, Unharmed', ~MayFail, ArmedHolds,
         [Next]_vars
  PROVE  ArmedHolds'
  <1> USE DEF ArmedHolds
  <1>1. TypeOK /\ SentOnce
    BY DEF IInv
  <1>2. ASSUME NEW t \in Tasks, NEW r \in Requests, SendBegin(t, r)
        PROVE  ArmedHolds'
    BY <1>1, <1>2 DEF SendBegin, Goto, TypeOK
  <1>3. ASSUME NEW t \in Tasks, SendRegister(t)
        PROVE  ArmedHolds'
    BY <1>1, <1>3 DEF SendRegister, Goto, TypeOK
  <1>4. ASSUME NEW t \in Tasks, SendAnnounce(t)
        PROVE  ArmedHolds'
    BY <1>1, <1>4 DEF SendAnnounce, Goto, TypeOK
  <1>5. ASSUME NEW t \in Tasks, Transmit(t)
        PROVE  ArmedHolds'
    <2>1. pc[t] = "sending" /\ pc' = [pc EXCEPT ![t] = "sent"] /\ UNCHANGED <<arg, chatCb>>
      BY <1>5 DEF Transmit, Goto
    <2>2. link = "authed"
      BY <1>1, <2>1 DEF PhaseHolds, TypeOK
    <2>3. run' = [run EXCEPT ![arg[t]] = "running"] /\ arg[t] \in Requests
      BY <1>5, <2>1, <2>2, SpentIsHarm DEF Transmit, UnsentHasNoRun
    <2> QED BY <1>1, <2>1, <2>3 DEF TypeOK
  <1>6. ASSUME NEW t \in Tasks, SendFails(t) \/ SendDone(t) \/ AbortNext(t)
        PROVE  ArmedHolds'
    <2>1. CASE SendFails(t)
      BY <1>1, <2>1 DEF SendFails, Goto, TypeOK, historyVars
    <2>2. CASE SendDone(t)
      BY <1>1, <2>2 DEF SendDone, Goto, TypeOK, historyVars
    <2>3. CASE AbortNext(t)
      BY <1>1, <2>3 DEF AbortNext, AbortBegin, AbortClear, AbortDone, Goto, TypeOK, historyVars
    <2> QED BY <1>6, <2>1, <2>2, <2>3
  <1>7. CASE GatewayNext
    <2>1. UNCHANGED <<chatCb, pc, arg>>
      BY <1>7 DEF GatewayNext, GatewayStart, GatewayDelta, GatewayFinal, clientVars
    <2>2. \A r \in Requests : run'[r] = "none" => run[r] = "none"
      BY <1>1, <1>7, ConstantsAssumption
         DEF GatewayNext, GatewayStart, GatewayDelta, GatewayFinal, TypeOK
    <2> QED BY <1>1, <2>1, <2>2 DEF TypeOK
  <1>8. CASE (\E th \in Threads : StateCallback(th)) \/ Connect \/ WatchdogDisconnect
             \/ WsNext \/ UNCHANGED vars
    <2>1. UNCHANGED <<pc, arg, run>> /\ (chatCb' = chatCb \/ chatCb' = None)
      BY <1>8 DEF StateCallback, Connect, WatchdogDisconnect, WsNext, WsOpened, WsLost,
                  WsError, OnChallenge, OnResponse, OnChatDelta, StreamChat, OnChatFinal,
                  LoadCallback, AnswerChat, CloseChat, ChatClosed, historyVars, vars
    <2> QED BY <2>1
  <1> QED BY <1>2, <1>3, <1>4, <1>5, <1>6, <1>7, <1>8 DEF Next, SendNext

(* The invariant of an unharmed connection holds at the start.              *)
LEMMA CalmInit == Init => CalmInv
  <1> SUFFICES ASSUME Init PROVE CalmInv
    OBVIOUS
  <1>1. IInv /\ Len(<<>>) = 0
    BY InitInvariant, EmptySeq
  <1>2. BudgetHolds /\ UnsentHasNoRun
    BY ConstantsAssumption DEF Init, BudgetHolds, UnsentHasNoRun
  <1>3. PhaseHolds /\ CallbackHolds /\ ArmedHolds
    BY <1>1 DEF Init, PhaseHolds, CallbackHolds, ArmedHolds
  <1> QED BY <1>1, <1>2, <1>3 DEF CalmInv

(* Every step keeps it; what was lost or refused once stays so.             *)
LEMMA CalmNext == CalmInv /\ [Next]_vars => CalmInv'
  <1> SUFFICES ASSUME CalmInv, [Next]_vars PROVE CalmInv'
    OBVIOUS
  <1>1. IInv' /\ BudgetHolds' /\ UnsentHasNoRun' /\ (Unharmed' => Unharmed)
    BY NextInvariant, NextBudget, NextUnsent DEF CalmInv
  <1>2. Unharmed' => PhaseHolds' /\ CallbackHolds' /\ (~MayFail => ArmedHolds')
    BY <1>1, NextPhase, NextCallback, NextArmed DEF CalmInv
  <1> QED BY <1>1, <1>2 DEF CalmInv

(* While the connection holds and nothing was refused, a callback that is   *)
(* registered in CONNECTED belongs to a request without a run, however many *)
(* tasks send and abort (openclaw_client.c:473, 481, 487, 1136, 1704).      *)
THEOREM BusyShownAsBusy == Spec => []CallbackMeansBusy
  <1>1. CalmInv => CallbackMeansBusy
    BY DEF CalmInv, CallbackHolds, CallbackMeansBusy
  <1> QED BY <1>1, CalmInit, CalmNext, PTL DEF Spec

-----------------------------------------------------------------------------
(* One task, alone on its gateway, that never aborts: as long as nothing is *)
(* harmed, the callback, the run and the frames in the queue belong to one  *)
(* request.                                                                 *)
OneSender ==
  Externals = {} /\ MaxAborts = 0 /\ ~MayFail /\ \E t \in Tasks : Tasks = {t}

InProgress(r) == run[r] \in {"running", "streaming"}
IsChat(m) == m.type \in {"delta", "final"}

(* Frames of a chat in the queue are those of the registered callback, and  *)
(* after its final one there is none.                                       *)
QueueHolds ==
  \A i \in 1..Len(inbox) : IsChat(inbox[i]) =>
    /\ inbox[i].run = chatCb /\ wsPc \notin {"closing", "reset"}
    /\ ~ \E t \in Tasks : pc[t] \in {"armed", "sending"}
    /\ inbox[i].type = "final" =>
         run[chatCb] = "done" /\ \A j \in (i + 1)..Len(inbox) : ~IsChat(inbox[j])

SoloHolds ==
  /\ budget["abort"] = 0 /\ \A t \in Tasks : pc[t] \notin {"aborting", "reset"}
  /\ crossed = {}
  /\ \A r \in Requests : InProgress(r) => chatCb = r /\ wsPc # "closing"
  /\ wsPc \notin {"idle", "reset"} => chatCb # None
  /\ wsPc = "calling" => called = chatCb
  /\ wsPc = "reset" =>
       chatCb = None /\ oc # "CONNECTED" /\ \A t \in Tasks : pc[t] # "begun"
  /\ \A t \in Tasks : /\ pc[t] = "begun" => chatCb = None
                      /\ pc[t] \in {"armed", "sending"} => chatCb = arg[t] /\ wsPc = "idle"
  /\ QueueHolds

AnswersHold == \A r \in Requests : \A i \in DOMAIN answers[r] : answers[r][i] = r

SoloInv == CalmInv /\ (Unharmed => SoloHolds /\ AnswersHold)

(* Taking the first frame leaves the rest in order.                         *)
LEMMA QueueTail ==
  ASSUME QueueHolds, inbox \in Seq(Messages), inbox # <<>>, inbox' = Tail(inbox),
         UNCHANGED <<chatCb, run, pc>>,
         wsPc' \notin {"closing", "reset"} \/ Head(inbox).type = "final"
  PROVE  QueueHolds'
  <1>1. Len(inbox') = Len(inbox) - 1 /\ Len(inbox) \in Nat /\ Len(inbox) > 0
    BY HeadTailProperties, EmptySeq
  <1>2. \A i \in 1..Len(inbox') : inbox'[i] = inbox[i + 1] /\ i + 1 \in 1..Len(inbox)
    BY <1>1, HeadTailProperties
  <1>3. Head(inbox) = inbox[1] /\ 1 \in 1..Len(inbox)
    BY <1>1
  <1> SUFFICES ASSUME NEW i \in 1..Len(inbox'), IsChat(inbox'[i])
               PROVE  /\ inbox'[i].run = chatCb /\ wsPc' \notin {"closing", "reset"}
                      /\ ~ \E t \in Tasks : pc[t] \in {"armed", "sending"}
                      /\ inbox'[i].type = "final" =>
                           /\ run[chatCb] = "done"
                           /\ \A j \in (i + 1)..Len(inbox') : ~IsChat(inbox'[j])
    BY DEF QueueHolds, IsChat
  <1>4. /\ inbox[i + 1].run = chatCb
        /\ ~ \E t \in Tasks : pc[t] \in {"armed", "sending"}
        /\ inbox[i + 1].type = "final" =>
             /\ run[chatCb] = "done"
             /\ \A j \in ((i + 1) + 1)..Len(inbox) : ~IsChat(inbox[j])
    BY <1>2 DEF QueueHolds
  <1>5. wsPc' \notin {"closing", "reset"}
    <2>1. Head(inbox).type = "final" => ~IsChat(inbox[i + 1])
      <3>1. i + 1 \in (1 + 1)..Len(inbox)
        BY <1>2
      <3> QED BY <1>3, <3>1 DEF QueueHolds, IsChat
    <2> QED BY <1>2, <2>1
  <1>6. ASSUME NEW j \in (i + 1)..Len(inbox')
        PROVE  inbox'[j] = inbox[j + 1] /\ j + 1 \in ((i + 1) + 1)..Len(inbox)
    BY <1>1, <1>2
  <1> QED BY <1>2, <1>4, <1>5, <1>6

(* A frame that is not of a chat may be added at any time ...               *)
LEMMA QueueAppend ==
  ASSUME QueueHolds, inbox \in Seq(Messages), NEW m \in Messages, ~IsChat(m),
         inbox' = Append(inbox, m), UNCHANGED <<chatCb, wsPc, run, pc>>
  PROVE  QueueHolds'
  <1>1. Len(inbox') = Len(inbox) + 1 /\ Len(inbox) \in Nat
        /\ inbox'[Len(inbox) + 1] = m
    BY AppendProperties
  <1>2. \A i \in 1..Len(inbox) : inbox'[i] = inbox[i]
    BY AppendProperties
  <1>3. \A i \in 1..Len(inbox') : i \in 1..Len(inbox) \/ i = Len(inbox) + 1
    BY <1>1
  <1>4. ASSUME NEW i \in 1..Len(inbox), NEW j \in (i + 1)..Len(inbox')
        PROVE  j \in 1..Len(inbox')
    BY <1>1
  <1>5. ASSUME NEW i \in 1..Len(inbox), NEW j \in (i + 1)..Len(inbox')
        PROVE  j \in (i + 1)..Len(inbox) \/ j = Len(inbox) + 1
    BY <1>1
  <1>6. ASSUME NEW i \in 1..Len(inbox), NEW j \in (i + 1)..Len(inbox)
        PROVE  inbox'[j] = inbox[j]
    BY <1>1, <1>2
  <1>7. ASSUME NEW i \in 1..Len(inbox'), IsChat(inbox'[i])
        PROVE  i \in 1..Len(inbox) /\ inbox'[i] = inbox[i]
    BY <1>1, <1>2, <1>3, <1>7
  <1> QED BY <1>1, <1>5, <1>6, <1>7 DEF QueueHolds, IsChat

(* ... and one of the run in progress as long as it goes on, or at its end. *)
LEMMA QueuePublish ==
  ASSUME QueueHolds, TypeOK, NEW r \in Requests, InProgress(r), chatCb = r,
         wsPc \notin {"closing", "reset"}, ~ \E t \in Tasks : pc[t] \in {"armed", "sending"},
         NEW type \in {"delta", "final"}, inbox' = Append(inbox, Msg(type, r)),
         run' = [run EXCEPT ![r] = IF type = "delta" THEN "streaming" ELSE "done"],
         UNCHANGED <<chatCb, wsPc, pc>>
  PROVE  QueueHolds'
  <1>0. inbox \in Seq(Messages) /\ Msg(type, r) \in Messages
        /\ Msg(type, r).type = type /\ Msg(type, r).run = r
    BY MessageTypes DEF TypeOK, Msg
  <1>1. Len(inbox') = Len(inbox) + 1 /\ Len(inbox) \in Nat
        /\ inbox'[Len(inbox) + 1] = Msg(type, r)
    BY <1>0, AppendProperties
  <1>2. \A i \in 1..Len(inbox) : inbox'[i] = inbox[i]
    BY <1>0, AppendProperties
  <1>3. \A i \in 1..Len(inbox) : inbox[i].type # "final"
    BY DEF QueueHolds, IsChat, InProgress
  <1>4. run'[r] = IF type = "delta" THEN "streaming" ELSE "done"
    BY DEF TypeOK
  <1> SUFFICES ASSUME NEW i \in 1..Len(inbox'), IsChat(inbox'[i])
               PROVE  /\ inbox'[i].run = r
                      /\ inbox'[i].type = "final" =>
                           /\ run'[r] = "done"
                           /\ \A j \in (i + 1)..Len(inbox') : ~IsChat(inbox'[j])
    BY DEF QueueHolds, IsChat
  <1>5. CASE i \in 1..Len(inbox)
    BY <1>2, <1>3, <1>5 DEF QueueHolds
  <1>6. CASE i = Len(inbox) + 1
    <2>1. (i + 1)..Len(inbox') = {}
      BY <1>1, <1>6
    <2> QED BY <1>0, <1>1, <1>4, <1>6, <2>1
  <1> QED BY <1>1, <1>5, <1>6

(* What one sender sees stays so as long as nothing is harmed.              *)
LEMMA NextSolo ==
  ASSUME OneSender, IInv, BudgetHolds, UnsentHasNoRun, PhaseHolds, CallbackHolds,
         ArmedHolds, SoloHolds, AnswersHold, Unharmed', [Next]_vars
  PROVE  SoloHolds' /\ AnswersHold'
  <1>1. /\ TypeOK /\ FrameHeld /\ SentOnce /\ inbox \in Seq(Messages) /\ QueueHolds
        /\ None \notin Runs
    BY ConstantsAssumption DEF IInv, TypeOK, SoloHolds
  <1>2. Runs = Requests /\ Externals = {} /\ ~MayFail
    BY DEF OneSender
  <1>3. PICK s \in Tasks : Tasks = {s}
    BY DEF OneSender
  <1>4. ASSUME NEW i \in 1..Len(inbox), IsChat(inbox[i])
        PROVE  inbox[i].run \in Requests /\ chatCb \in Requests /\ chatCb # None
    <2>1. inbox[i] \in Messages
      BY <1>1, ElementOfSeq
    <2>2. inbox[i].run \in Runs
      BY <1>4, <2>1 DEF Messages, IsChat
    <2> QED BY <1>1, <1>2, <1>4, <2>2 DEF QueueHolds
  <1>5. CASE (\E th \in Threads : StateCallback(th)) \/ Connect \/ UNCHANGED vars
    <2>1. UNCHANGED <<inbox, chatCb, run, pc, arg, budget, answers, wsPc, called, crossed>>
          /\ (oc' = oc \/ oc' # "CONNECTED")
      BY <1>5 DEF StateCallback, Connect, SetState, historyVars, vars
    <2>2. QueueHolds'
      BY <1>1, <2>1 DEF QueueHolds
    <2> QED BY <2>1, <2>2 DEF SoloHolds, AnswersHold, InProgress
  <1>6. CASE WatchdogDisconnect \/ WsOpened
    <2>1. UNCHANGED <<chatCb, run, pc, arg, budget, answers, wsPc, called, crossed>>
          /\ wsPc = "idle"
      BY <1>6 DEF WatchdogDisconnect, WsOpened, WsIdle, historyVars
    <2>2. QueueHolds'
      <3>1. inbox' = <<>> \/ inbox' = <<Msg("challenge", None)>>
        BY <1>6 DEF WatchdogDisconnect, WsOpened
      <3>2. \A i \in 1..Len(inbox') : ~IsChat(inbox'[i])
        <4>1. CASE inbox' = <<>>
          BY <4>1, EmptySeq
        <4>2. CASE inbox' = <<Msg("challenge", None)>>
          BY <4>2 DEF Msg, IsChat
        <4> QED BY <3>1, <4>1, <4>2
      <3> QED BY <3>2 DEF QueueHolds, IsChat
    <2> QED BY <2>1, <2>2 DEF SoloHolds, AnswersHold, InProgress
  <1>7. CASE WsLost \/ WsError
    BY <1>7, SpentIsHarm DEF WsLost, WsError
  <1>8. CASE OnChallenge
    <2>1. inbox # <<>> /\ UNCHANGED <<chatCb, run, pc, arg, answers, wsPc, called, crossed>>
          /\ wsPc = "idle" /\ Head(inbox).type = "challenge"
      BY <1>8 DEF OnChallenge, Receive, WsIdle
    <2>2. budget' = budget /\ inbox' = Append(Tail(inbox), Msg("ok", None))
      BY <1>8, SpentIsHarm DEF OnChallenge
    <2>3. link # "authed"
      BY <1>1, <2>1, CalmTail DEF PhaseHolds, NoChallenge
    <2>4. Len(inbox) = 1
      <3>1. Len(inbox) \in Nat /\ Len(inbox) # 0
        <4>1. Len(inbox) \in Nat \ {0}
          BY <1>1, <2>1, EmptySeq
        <4> QED BY <4>1
      <3>2. Len(inbox) <= 1
        BY <2>3, Zenon DEF PhaseHolds
      <3>3. \A n \in Nat : n # 0 /\ n <= 1 => n = 1
        OBVIOUS
      <3> QED BY <3>1, <3>2, <3>3
    <2>5. Len(inbox') = 1 /\ inbox'[1] = Msg("ok", None)
      BY <1>1, <2>2, <2>4, OneFrame, MessageTypes
    <2>6. QueueHolds'
      BY <2>5 DEF QueueHolds, Msg, IsChat
    <2> QED BY <2>1, <2>2, <2>6 DEF SoloHolds, AnswersHold, InProgress
  <1>9. CASE \E type \in {"ok", "error"} : OnResponse(type)
    <2>1. inbox # <<>> /\ inbox' = Tail(inbox) /\ wsPc = "idle"
          /\ UNCHANGED <<chatCb, run, pc, arg, budget, answers, wsPc, called, crossed>>
      BY <1>9 DEF OnResponse, Receive, WsIdle, historyVars
    <2>2. QueueHolds'
      BY <1>1, <2>1, QueueTail
    <2> QED BY <2>1, <2>2 DEF SoloHolds, AnswersHold, InProgress
  <1>10. CASE OnChatDelta \/ OnChatFinal
    <2>1. inbox # <<>> /\ IsChat(Head(inbox)) /\ wsPc = "idle"
          /\ UNCHANGED <<chatCb, run, pc, arg, budget, answers, called, crossed>>
      BY <1>10 DEF OnChatDelta, OnChatFinal, Receive, WsIdle, historyVars, IsChat
    <2>2. Head(inbox) = inbox[1] /\ 1 \in 1..Len(inbox)
      BY <1>1, <2>1, EmptySeq
    <2>3. chatCb # None
      BY <1>4, <2>1, <2>2
    <2>4. inbox' = inbox /\ wsPc' \in {"delta", "final"}
      BY <1>10, <2>3 DEF OnChatDelta, OnChatFinal
    <2>5. ~ \E t \in Tasks : pc[t] \in {"armed", "sending"}
      BY <1>1, <2>1, <2>2 DEF QueueHolds
    <2>6. QueueHolds'
      BY <1>1, <2>1, <2>4 DEF QueueHolds
    <2> QED BY <2>1, <2>3, <2>4, <2>5, <2>6 DEF SoloHolds, AnswersHold, InProgress
  <1>11. CASE StreamChat
    <2>1. inbox # <<>> /\ inbox' = Tail(inbox) /\ wsPc' = "idle" /\ wsPc = "delta"
          /\ UNCHANGED <<chatCb, run, pc, arg, budget, answers, called, crossed>>
      BY <1>1, <1>11 DEF StreamChat, FrameHeld, historyVars
    <2>2. QueueHolds'
      BY <1>1, <2>1, QueueTail
    <2> QED BY <2>1, <2>2 DEF SoloHolds, AnswersHold, InProgress
  <1>12. CASE AnswerChat
    <2>1. inbox # <<>> /\ inbox' = Tail(inbox) /\ wsPc = "calling" /\ wsPc' = "closing"
          /\ Head(inbox).type = "final" /\ UNCHANGED <<chatCb, run, pc, arg, budget, crossed>>
      BY <1>1, <1>12 DEF AnswerChat, FrameHeld
    <2>7. called = chatCb
      BY <2>1 DEF SoloHolds
    <2>2. Head(inbox) = inbox[1] /\ 1 \in 1..Len(inbox) /\ IsChat(inbox[1])
      BY <1>1, <2>1, EmptySeq DEF IsChat
    <2>3. inbox[1].run = chatCb /\ run[chatCb] = "done" /\ chatCb \in Requests
          /\ chatCb # None /\ ~ \E t \in Tasks : pc[t] \in {"armed", "sending"}
      BY <1>1, <1>4, <2>1, <2>2 DEF QueueHolds
    <2>4. QueueHolds'
      BY <1>1, <2>1, QueueTail
    <2>5. AnswersHold'
      <3>1. answers' = [answers EXCEPT ![chatCb] = Append(@, chatCb)]
        BY <1>12, <2>2, <2>3, <2>7 DEF AnswerChat
      <3>2. answers[chatCb] = <<>>
        BY <2>1, <2>3 DEF IInv, RegisteredUnanswered
      <3>3. answers'[chatCb] = <<chatCb>>
        BY <1>1, <2>3, <3>1, <3>2 DEF TypeOK
      <3>4. \A r \in Requests : r # chatCb => answers'[r] = answers[r]
        BY <1>1, <3>1 DEF TypeOK
      <3>5. \A i \in DOMAIN answers'[chatCb] : answers'[chatCb][i] = chatCb
        BY <3>3
      <3> QED BY <3>4, <3>5 DEF AnswersHold
    <2>6. \A r \in Requests : ~InProgress(r)
      BY <2>3 DEF SoloHolds, InProgress
    <2> QED BY <2>1, <2>3, <2>4, <2>5, <2>6 DEF SoloHolds, InProgress
  <1>21. CASE LoadCallback
    <2>1. wsPc = "final" /\ UNCHANGED <<chatCb, run, pc, arg, budget, answers, crossed>>
          /\ called' = chatCb
      BY <1>21 DEF LoadCallback, historyVars
    <2>2. chatCb # None
      BY <2>1 DEF SoloHolds
    <2>3. wsPc' = "calling" /\ inbox' = inbox
      BY <1>21, <2>2 DEF LoadCallback
    <2>4. QueueHolds'
      BY <1>1, <2>1, <2>3 DEF QueueHolds
    <2> QED BY <2>1, <2>2, <2>3, <2>4 DEF SoloHolds, AnswersHold, InProgress
  <1>13. CASE CloseChat
    <2>1. wsPc = "closing" /\ wsPc' = "reset" /\ chatCb' = None
          /\ UNCHANGED <<oc, inbox, run, pc, arg, budget, answers, called, crossed>>
      BY <1>13 DEF CloseChat, historyVars
    <2>2. \A i \in 1..Len(inbox) : ~IsChat(inbox[i])
      BY <1>1, <2>1 DEF QueueHolds
    <2>3. QueueHolds'
      BY <2>1, <2>2 DEF QueueHolds, IsChat
    <2>4. \A r \in Requests : ~InProgress(r)
      BY <2>1 DEF SoloHolds
    <2>5. (\A t \in Tasks : pc[t] \notin {"begun", "armed", "sending"}) /\ chatCb # None
      BY <2>1 DEF SoloHolds
    <2>6. oc # "CONNECTED"
      BY <2>5 DEF CallbackHolds, ArmedHolds, SoloHolds
    <2> QED BY <2>1, <2>3, <2>4, <2>5, <2>6 DEF SoloHolds, AnswersHold, InProgress
  <1>22. CASE ChatClosed
    <2>1. wsPc = "reset" /\ wsPc' = "idle"
          /\ UNCHANGED <<chatCb, inbox, run, pc, arg, budget, answers, called, crossed>>
      BY <1>22 DEF ChatClosed, historyVars
    <2>2. chatCb = None /\ \A i \in 1..Len(inbox) : ~IsChat(inbox[i])
      BY <1>1, <2>1 DEF QueueHolds, SoloHolds
    <2>3. QueueHolds'
      BY <2>1, <2>2 DEF QueueHolds, IsChat
    <2>4. \A t \in Tasks : pc[t] \notin {"armed", "sending"}
      BY <2>1 DEF SoloHolds
    <2> QED BY <2>1, <2>2, <2>3, <2>4 DEF SoloHolds, AnswersHold, InProgress
  <1>14. ASSUME NEW t \in Tasks, NEW r \in Requests, SendBegin(t, r)
         PROVE  SoloHolds' /\ AnswersHold'
    <2>1. pc[t] = "idle" /\ pc' = [pc EXCEPT ![t] = "begun"] /\ oc = "CONNECTED"
          /\ UNCHANGED <<inbox, wsPc, chatCb, run, budget, answers, called, crossed>>
      BY <1>14 DEF SendBegin, Goto
    <2>2. t = s /\ pc'[t] = "begun"
      BY <1>1, <1>3, <2>1 DEF TypeOK
    <2>3. chatCb = None
      BY <1>3, <2>1, <2>2 DEF CallbackHolds, ArmedHolds, SoloHolds
    <2>5. wsPc = "idle"
      BY <2>1, <2>3 DEF SoloHolds
    <2>4. QueueHolds'
      BY <1>1, <1>3, <2>1, <2>2 DEF QueueHolds
    <2> QED BY <1>3, <2>1, <2>2, <2>3, <2>4, <2>5 DEF SoloHolds, AnswersHold, InProgress
  <1>15. ASSUME NEW t \in Tasks, SendRegister(t)
         PROVE  SoloHolds' /\ AnswersHold'
    <2>1. pc[t] = "begun" /\ pc' = [pc EXCEPT ![t] = "armed"] /\ chatCb' = arg[t]
          /\ UNCHANGED <<inbox, wsPc, arg, run, budget, answers, called>>
          /\ (Resetting \/ crossed' = crossed)
      BY <1>15 DEF SendRegister, Goto
    <2>2. t = s /\ pc'[t] = "armed" /\ chatCb = None /\ wsPc = "idle"
      BY <1>1, <1>3, <2>1 DEF TypeOK, SoloHolds
    <2>6. ~Resetting
      BY <2>2 DEF SoloHolds, Resetting
    <2>3. \A i \in 1..Len(inbox) : ~IsChat(inbox[i])
      BY <1>4, <2>2
    <2>4. QueueHolds'
      BY <2>1, <2>3 DEF QueueHolds, IsChat
    <2>5. \A r \in Requests : ~InProgress(r)
      BY <1>1, <2>2 DEF SoloHolds
    <2> QED BY <1>3, <2>1, <2>2, <2>4, <2>5, <2>6 DEF SoloHolds, AnswersHold, InProgress
  <1>16. ASSUME NEW t \in Tasks, SendAnnounce(t)
         PROVE  SoloHolds' /\ AnswersHold'
    <2>1. pc[t] = "armed" /\ pc' = [pc EXCEPT ![t] = "sending"]
          /\ UNCHANGED <<inbox, wsPc, chatCb, arg, run, budget, answers, called, crossed>>
      BY <1>16 DEF SendAnnounce, Goto, historyVars
    <2>2. t = s /\ pc'[t] = "sending"
      BY <1>1, <1>3, <2>1 DEF TypeOK
    <2>3. \A i \in 1..Len(inbox) : ~IsChat(inbox[i])
      BY <1>1, <2>1 DEF QueueHolds
    <2>4. QueueHolds'
      BY <2>1, <2>3 DEF QueueHolds, IsChat
    <2> QED BY <1>3, <2>1, <2>2, <2>4 DEF SoloHolds, AnswersHold, InProgress
  <1>17. ASSUME NEW t \in Tasks, Transmit(t)
         PROVE  SoloHolds' /\ AnswersHold'
    <2>1. pc[t] = "sending" /\ pc' = [pc EXCEPT ![t] = "sent"]
          /\ UNCHANGED <<wsPc, chatCb, arg, answers, called, crossed>>
      BY <1>17 DEF Transmit, Goto
    <2>2. t = s /\ pc'[t] = "sent" /\ chatCb = arg[t] /\ wsPc = "idle" /\ arg[t] \in Requests
      BY <1>1, <1>3, <2>1 DEF TypeOK, SoloHolds, UnsentHasNoRun
    <2>3. link = "authed"
      BY <1>1, <2>1 DEF PhaseHolds, TypeOK
    <2>4. run' = [run EXCEPT ![arg[t]] = "running"] /\ UNCHANGED <<inbox, budget>>
      BY <1>17, <2>3, SpentIsHarm DEF Transmit
    <2>5. \A i \in 1..Len(inbox) : ~IsChat(inbox[i])
      BY <1>1, <2>1 DEF QueueHolds
    <2>6. QueueHolds'
      BY <2>4, <2>5 DEF QueueHolds, IsChat
    <2>7. \A r \in Requests : r # chatCb => run'[r] = run[r]
      BY <1>1, <2>2, <2>4 DEF TypeOK
    <2> QED BY <1>3, <2>1, <2>2, <2>4, <2>6, <2>7 DEF SoloHolds, AnswersHold, InProgress
  <1>18. ASSUME NEW t \in Tasks, SendDone(t) \/ SendFails(t)
         PROVE  SoloHolds' /\ AnswersHold'
    <2>1. pc' = [pc EXCEPT ![t] = "idle"]
          /\ UNCHANGED <<inbox, wsPc, chatCb, run, budget, answers, called, crossed>>
          /\ oc' # "CONNECTED"
      BY <1>2, <1>18 DEF SendDone, SendFails, Goto, SetState, historyVars
    <2>2. t = s /\ pc'[t] = "idle"
      BY <1>1, <1>3, <2>1 DEF TypeOK
    <2>3. QueueHolds'
      BY <1>1, <1>3, <2>1, <2>2 DEF QueueHolds
    <2> QED BY <1>3, <2>1, <2>2, <2>3 DEF SoloHolds, AnswersHold, InProgress
  <1>19. ASSUME NEW t \in Tasks, AbortNext(t)
         PROVE  SoloHolds' /\ AnswersHold'
    BY <1>19 DEF AbortNext, AbortBegin, AbortClear, AbortDone, Spend, Goto, SoloHolds
  <1>20. CASE GatewayNext
    <2>1. PICK r \in Requests : GatewayDelta(r) \/ GatewayFinal(r)
      BY <1>2, <1>20 DEF GatewayNext
    <2>2. /\ InProgress(r) /\ UNCHANGED <<oc, wsPc, chatCb, pc, arg, budget, answers, link, called,
                                             crossed>>
          /\ \E type \in {"delta", "final"} :
               /\ Publish(Msg(type, r))
               /\ run' = [run EXCEPT ![r] = IF type = "delta" THEN "streaming" ELSE "done"]
      BY <2>1 DEF GatewayDelta, GatewayFinal, InProgress, historyVars
    <2>3. chatCb = r /\ wsPc \notin {"closing", "reset"}
      BY <1>1, <1>2, <2>2 DEF SoloHolds
    <2>4. ~ \E t \in Tasks : pc[t] \in {"armed", "sending"}
      BY <2>2, <2>3 DEF SoloHolds, UnsentHasNoRun, InProgress
    <2>5. link = "authed"
      BY <1>1, <2>3 DEF PhaseHolds
    <2>6. QueueHolds'
      BY <1>1, <2>2, <2>3, <2>4, <2>5, QueuePublish DEF Publish
    <2>7. \A q \in Requests : InProgress(q)' => InProgress(q)
      BY <1>1, <2>2 DEF InProgress, TypeOK
    <2> QED BY <2>2, <2>6, <2>7 DEF SoloHolds, AnswersHold
  <1> QED
    BY <1>5, <1>6, <1>7, <1>8, <1>9, <1>10, <1>11, <1>12, <1>13, <1>14, <1>15, <1>16,
       <1>17, <1>18, <1>19, <1>20, <1>21, <1>22 DEF Next, WsNext, SendNext

(* Answers of one sender, and requests in flight, are as promised.          *)
LEMMA SoloInit == OneSender /\ Init => SoloInv
  <1> SUFFICES ASSUME OneSender, Init PROVE SoloInv
    OBVIOUS
  <1>1. CalmInv
    BY CalmInit
  <1>2. QueueHolds
    BY EmptySeq DEF Init, QueueHolds
  <1>3. SoloHolds /\ AnswersHold
    BY <1>2 DEF OneSender, Init, SoloHolds, InProgress, AnswersHold
  <1> QED BY <1>1, <1>3 DEF SoloInv

(* Every step of a client with one sender keeps its invariant.              *)
LEMMA SoloNext == OneSender /\ SoloInv /\ [Next]_vars => SoloInv'
  <1> SUFFICES ASSUME OneSender, SoloInv, [Next]_vars PROVE SoloInv'
    OBVIOUS
  <1>1. CalmInv /\ CalmInv' /\ ~MayFail
    BY CalmNext DEF SoloInv, OneSender
  <1>2. Unharmed' => Unharmed
    BY <1>1, NextBudget DEF CalmInv
  <1>3. Unharmed' => SoloHolds' /\ AnswersHold'
    BY <1>1, <1>2, NextSolo DEF SoloInv, CalmInv
  <1> QED BY <1>1, <1>3 DEF SoloInv

(* A single sender, alone on its gateway, is given the final text of its    *)
(* own run as long as no connection was lost and nothing was refused: chat  *)
(* events carry no request, and the registered callback is the only thing   *)
(* that tells whose they are (openclaw_client.c:380, 472).                  *)
THEOREM OwnAnswerGiven == OneSender => (Spec => []OwnAnswer)
  <1>1. SoloInv => OwnAnswer
    BY DEF SoloInv, AnswersHold, OwnAnswer
  <1>2. CASE OneSender
    BY <1>1, <1>2, SoloInit, SoloNext, PTL DEF Spec
  <1> QED BY <1>2

(* ... and has one request in flight at a time: the guard of chat_send      *)
(* suffices, although the callback of THINKING may overtake the end of the  *)
(* run (openclaw_client.c:1136, 1194).                                      *)
THEOREM OneRequestInFlight == OneSender => (Spec => []OneInFlight)
  <1>1. SoloInv => OneInFlight
    <2> SUFFICES ASSUME SoloInv, Unharmed
                 PROVE  Cardinality({r \in Requests : InProgress(r)}) <= 1
      BY DEF OneInFlight, InProgress
    <2>1. {r \in Requests : InProgress(r)} \subseteq {chatCb}
      BY DEF SoloInv, SoloHolds
    <2>2. IsFiniteSet({chatCb}) /\ Cardinality({chatCb}) = 1
      BY FS_Singleton
    <2>3. Cardinality({r \in Requests : InProgress(r)}) <= Cardinality({chatCb})
      BY <2>1, <2>2, FS_Subset
    <2> QED BY <2>2, <2>3
  <1>2. CASE OneSender
    BY <1>1, <1>2, SoloInit, SoloNext, PTL DEF Spec
  <1> QED BY <1>2
=============================================================================
