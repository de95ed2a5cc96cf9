------------------------ MODULE MqttConnection_proof -----------------------
(***************************************************************************)
(* Proofs about MqttConnection: types, the mark of a manual disconnection, *)
(* the count of unanswered pings and the permanence of giving up, for      *)
(* every interval, retry count and depth of calls within callbacks.        *)
(***************************************************************************)
EXTENDS MqttConnection, SequenceTheorems, TLAPS

(* Pings held against a connection were written on it. *)
PingsWritten == pingOut <= pings

IInv ==
    /\ TypeOK
    /\ ManualOnlyInCallback
    /\ PingsWritten

----------------------------------------------------------------------------
(* What the operations on the stack of calls do to it. *)
LEMMA EnterStack ==
    ASSUME stack \in Seq(Frame), NEW op \in Ops, NEW p \in Places, Enter(op, p)
    PROVE  /\ stack' \in Seq(Frame)
           /\ Len(stack') = Len(stack) + 1
           /\ \A k \in 1..Len(stack) : stack'[k] = stack[k]
           /\ stack'[Len(stack) + 1].at = p
  <1>1. [op |-> op, at |-> p, rc |-> "SUCCESS"] \in Frame
    BY DEF Frame, Codes
  <1> QED
    BY <1>1 DEF Enter

(* A step of the innermost call changes its frame and no other. *)
LEMMA GoStack ==
    ASSUME stack \in Seq(Frame), stack # <<>>, NEW p \in Places, NEW code \in Codes, Go(p, code)
    PROVE  /\ stack' \in Seq(Frame)
           /\ Len(stack') = Len(stack) /\ Depth \in 1..Len(stack)
           /\ \A k \in 1..Len(stack) : k # Depth => stack'[k] = stack[k]
           /\ stack'[Depth].at = p
  <1>1. Depth \in 1..Len(stack)
    BY DEF Depth
  <1>2. stack[Depth] \in Frame
    BY <1>1
  <1>3. stack' = [stack EXCEPT ![Depth] = [stack[Depth] EXCEPT !.at = p, !.rc = code]]
    BY <1>1, <1>2 DEF Go, Frame
  <1>4. [stack[Depth] EXCEPT !.at = p, !.rc = code] \in Frame
    BY <1>2 DEF Frame
  <1> QED
    BY <1>1, <1>2, <1>3, <1>4 DEF Frame

(* A return removes the innermost frame and leaves the others. *)
LEMMA ReturnStack ==
    ASSUME stack \in Seq(Frame), stack # <<>>, NEW code \in Codes, Return(code)
    PROVE  /\ stack' \in Seq(Frame) /\ lastRc' \in Codes
           /\ Len(stack') = Len(stack) - 1
           /\ \A k \in 1..Len(stack) - 1 : stack'[k] = stack[k]
  <1> DEFINE n == Len(stack) - 1
  <1>1. n \in Nat /\ Len(stack) \in Nat
    OBVIOUS
  <1>2. \A k \in 1..n : stack[k] \in Frame
    BY <1>1
  <1>3. stack' = SubSeq(stack, 1, n) /\ lastRc' = code
    BY DEF Return, Depth
  <1> HIDE DEF n
  <1>4. /\ SubSeq(stack, 1, n) \in Seq(Frame)
        /\ Len(SubSeq(stack, 1, n)) = IF 1 <= n THEN n - 1 + 1 ELSE 0
        /\ \A k \in 1..n - 1 + 1 : SubSeq(stack, 1, n)[k] = stack[1 + k - 1]
    BY <1>1, <1>2, SubSeqProperties
  <1>5. Len(stack') = n /\ \A k \in 1..n : stack'[k] = stack[k]
    BY <1>1, <1>3, <1>4
  <1> QED
    BY <1>3, <1>4, <1>5 DEF n

----------------------------------------------------------------------------
LEMMA InitInv == Init => IInv
  <1> SUFFICES ASSUME Init PROVE IInv
    OBVIOUS
  <1>1. TypeOK
    <2>1. 0 \in 0..PingRetry /\ 0 \in 0..2 * MaxInterval
      BY MaxIntervalAssumption, PingRetryAssumption
    <2>2. stack \in Seq(Frame)
      BY DEF Init
    <2> QED
      BY <2>1, <2>2 DEF Init, TypeOK, Codes
  <1>2. ManualOnlyInCallback /\ PingsWritten
    BY DEF Init, ManualOnlyInCallback, PingsWritten
  <1> QED
    BY <1>1, <1>2 DEF IInv

(* After a failed attempt the interval has at most doubled once past MaxInterval. *)
LEMMA BackoffType ==
    ASSUME TypeOK, stack # <<>>, interval <= MaxInterval, Backoff
    PROVE  /\ stack' \in Seq(Frame)
           /\ interval' \in 0..2 * MaxInterval /\ delayOver' \in BOOLEAN
  <1>1. interval' \in 0..2 * MaxInterval
    BY MaxIntervalAssumption DEF Backoff, TypeOK
  <1>2. \E code \in Codes : Go("loop", code)
    BY DEF Backoff, Codes
  <1>3. stack' \in Seq(Frame)
    BY <1>2, GoStack DEF TypeOK, Places
  <1> QED
    BY <1>1, <1>3 DEF Backoff, TypeOK

(* A new random interval is within the bounds. *)
LEMMA RestartBackoffType ==
    ASSUME RestartBackoff
    PROVE  interval' \in 0..2 * MaxInterval /\ delayOver' \in BOOLEAN
  <1>1. interval' \in 1..MaxInterval
    BY FirstIntervalsAssumption DEF RestartBackoff
  <1>2. interval' \in 0..2 * MaxInterval
    BY <1>1, MaxIntervalAssumption
  <1> QED
    BY <1>2 DEF RestartBackoff

(* What a successful connect assigns is of the right types. *)
LEMMA ConnectedType ==
    ASSUME TypeOK, Connected
    PROVE  /\ autoConnect' \in BOOLEAN /\ isConnected' \in BOOLEAN /\ manual' \in BOOLEAN
           /\ pingOut' \in 0..PingRetry /\ pings' \in 0..PingRetry /\ pingOver' \in BOOLEAN
           /\ socket' \in {"open", "broken"} /\ netUp' \in BOOLEAN /\ lastRc' \in Codes
  <1>1. pingOut' \in 0..PingRetry /\ pings' \in 0..PingRetry
    BY PingRetryAssumption DEF Connected
  <1> QED
    BY <1>1 DEF Connected, TypeOK

(* What a yield does after it lost the connection keeps the types. *)
LEMMA NoConnType ==
    ASSUME TypeOK, stack # <<>>, NoConn
    PROVE  /\ stack' \in Seq(Frame) /\ lastRc' \in Codes
           /\ interval' \in 0..2 * MaxInterval /\ delayOver' \in BOOLEAN
  <1>1. CASE autoConnect
    <2>1. Go("loop", "ATTEMPTING") /\ lastRc' = lastRc /\ RestartBackoff
      BY <1>1 DEF NoConn
    <2>2. stack' \in Seq(Frame)
      BY <2>1, GoStack DEF TypeOK, Places, Codes
    <2>3. interval' \in 0..2 * MaxInterval /\ delayOver' \in BOOLEAN
      BY <2>1, RestartBackoffType
    <2> QED
      BY <2>1, <2>2, <2>3 DEF TypeOK
  <1>2. CASE ~autoConnect
    <2>1. Return("NO_CONN") /\ UNCHANGED delayVars
      BY <1>2 DEF NoConn
    <2>2. stack' \in Seq(Frame) /\ lastRc' \in Codes
      BY <2>1, ReturnStack DEF TypeOK, Codes
    <2> QED
      BY <2>1, <2>2 DEF delayVars, TypeOK
  <1> QED
    BY <1>1, <1>2

(* The types are kept by every step. The calls that leave the stack alone, *)
(* push a frame, move the innermost frame or pop it are taken in turn.     *)
LEMMA NextType == TypeOK /\ [Next]_vars => TypeOK'
  <1> SUFFICES ASSUME TypeOK, [Next]_vars PROVE TypeOK'
    OBVIOUS
  <1> USE DEF connVars, pingVars, delayVars, netVars
  <1>1. stack \in Seq(Frame) /\ Len(stack) \in Nat
    BY DEF TypeOK
  <1>2. CASE YieldRefused \/ ReconnectRefused
    BY <1>2 DEF YieldRefused, ReconnectRefused, TypeOK, Codes
  <1>3. CASE YieldEnter
    <2>1. stack' \in Seq(Frame)
      BY <1>1, <1>3, EnterStack DEF YieldEnter, Ops, Places
    <2> QED
      BY <1>3, <2>1 DEF YieldEnter, TypeOK
  <1>4. CASE ReconnectEnter
    <2>1. stack' \in Seq(Frame)
      BY <1>1, <1>4, EnterStack DEF ReconnectEnter, Ops, Places, Callbacks
    <2>2. interval' \in 0..2 * MaxInterval /\ delayOver' \in BOOLEAN
      BY <1>4, RestartBackoffType DEF ReconnectEnter, TypeOK
    <2> QED
      BY <1>4, <2>1, <2>2 DEF ReconnectEnter, DropConnection, TypeOK
  <1>5. CASE YieldTimeIsUp
    <2>1. stack # <<>> /\ Top \in Frame
      BY <1>1, <1>5 DEF YieldTimeIsUp, At, Top, Depth
    <2>2. stack' \in Seq(Frame) /\ lastRc' \in Codes
      BY <1>1, <1>5, <2>1, ReturnStack DEF YieldTimeIsUp, Frame
    <2> QED
      BY <1>5, <2>2 DEF YieldTimeIsUp, TypeOK
  <1>6. CASE GiveUp \/ ReconnectDone \/ ReadError
    <2>1. stack # <<>> /\ \E code \in Codes : Return(code)
      BY <1>6 DEF GiveUp, ReconnectDone, ReadError, Reading, InLoop, At, Codes
    <2>2. stack' \in Seq(Frame) /\ lastRc' \in Codes
      BY <1>1, <2>1, ReturnStack
    <2> QED
      BY <1>6, <2>2 DEF GiveUp, ReconnectDone, ReadError, TypeOK
  <1>7. CASE \/ WaitDelay \/ UpReported \/ ReadNothing \/ PingNotDue
             \/ ReadPacket("ack") \/ ReadPacket("message")
    <2>1. stack # <<>> /\ \E p \in Places, code \in Codes : Go(p, code)
      BY <1>7 DEF WaitDelay, UpReported, ReadNothing, PingNotDue, ReadPacket, Reading,
                  InLoop, At, Places, Callbacks, Codes
    <2>2. stack' \in Seq(Frame)
      BY <1>1, <2>1, GoStack
    <2> QED
      BY <1>7, <2>2
      DEF WaitDelay, UpReported, ReadNothing, PingNotDue, ReadPacket, TypeOK
  <1>8. CASE ConnectFails \/ ConnectResubscribeFails
    <2>1. stack # <<>> /\ interval <= MaxInterval /\ Backoff
      BY <1>8 DEF ConnectFails, ConnectResubscribeFails, Attempting, InLoop, At
    <2>2. /\ stack' \in Seq(Frame)
          /\ interval' \in 0..2 * MaxInterval /\ delayOver' \in BOOLEAN
      BY <2>1, BackoffType
    <2>3. CASE ConnectFails
      BY <2>2, <2>3 DEF ConnectFails, TypeOK
    <2>4. CASE ConnectResubscribeFails
      BY <2>2, <2>4, ConnectedType DEF ConnectResubscribeFails, TypeOK
    <2> QED
      BY <1>8, <2>3, <2>4
  <1>9. CASE ConnectAndResubscribe
    <2>1. stack' \in Seq(Frame)
      BY <1>1, <1>9, GoStack
      DEF ConnectAndResubscribe, Attempting, InLoop, At, Places, Callbacks, Codes
    <2> QED
      BY <1>9, <2>1, ConnectedType DEF ConnectAndResubscribe, TypeOK
  <1>10. CASE ReadHandled
    <2>1. stack # <<>>
      BY <1>10 DEF ReadHandled, InYield
    <2>2. stack' \in Seq(Frame) /\ lastRc' \in Codes
      <3>1. CASE Go("scan", "SUCCESS") /\ UNCHANGED lastRc
        BY <1>1, <2>1, <3>1, GoStack DEF TypeOK, Places, Callbacks, Codes
      <3>2. CASE Return("ERROR")
        BY <1>1, <2>1, <3>2, ReturnStack DEF Codes
      <3> QED
        BY <1>10, <3>1, <3>2 DEF ReadHandled
    <2>3. pingOut' \in 0..PingRetry
      BY <1>10, PingRetryAssumption DEF ReadHandled
    <2>4. pingOver' \in BOOLEAN
      BY <1>10 DEF ReadHandled, TypeOK
    <2> QED
      BY <1>10, <2>2, <2>3, <2>4 DEF ReadHandled, TypeOK
  <1>11. CASE ReadFails \/ PingsUnanswered \/ PingFails
    <2>1. stack # <<>> /\ Go("down", "SUCCESS") /\ DropConnection
      BY <1>11 DEF ReadFails, PingsUnanswered, PingFails, Reading, InLoop, At
    <2>2. stack' \in Seq(Frame)
      BY <1>1, <2>1, GoStack DEF Places, Callbacks, Codes
    <2> QED
      BY <1>11, <2>1, <2>2 DEF ReadFails, PingsUnanswered, PingFails, DropConnection, TypeOK
  <1>12. CASE SendPing
    <2>1. stack' \in Seq(Frame)
      BY <1>1, <1>12, GoStack DEF SendPing, At, Places, Codes
    <2>2. pingOut' \in 0..PingRetry /\ pings' \in 0..PingRetry
      BY <1>12, PingRetryAssumption DEF SendPing, TypeOK
    <2> QED
      BY <1>12, <2>1, <2>2 DEF SendPing, TypeOK
  <1>13. CASE PingWithoutConnection
    BY <1>13, NoConnType DEF PingWithoutConnection, At, TypeOK
  <1>14. CASE DownReported
    <2>1. stack # <<>>
      BY <1>14 DEF DownReported, At
    <2>2. /\ stack' \in Seq(Frame) /\ lastRc' \in Codes
          /\ interval' \in 0..2 * MaxInterval /\ delayOver' \in BOOLEAN
      <3>1. CASE NoConn
        BY <2>1, <3>1, NoConnType
      <3>2. CASE RestartBackoff /\ Go("loop", "SUCCESS") /\ UNCHANGED lastRc
        <4>1. stack' \in Seq(Frame)
          BY <1>1, <2>1, <3>2, GoStack DEF Places, Codes
        <4> QED
          BY <3>2, <4>1, RestartBackoffType DEF TypeOK
      <3> QED
        BY <1>14, <3>1, <3>2 DEF DownReported
    <2> QED
      BY <1>14, <2>2 DEF DownReported, TypeOK
  <1>15. CASE DelayElapses \/ PingElapses \/ NetworkChanges \/ SocketBreaks
    BY <1>15 DEF DelayElapses, PingElapses, NetworkChanges, SocketBreaks, TypeOK
  <1>16. CASE UNCHANGED vars
    BY <1>16 DEF vars, TypeOK
  <1> QED
    BY <1>2, <1>3, <1>4, <1>5, <1>6, <1>7, <1>8, <1>9, <1>10, <1>11, <1>12, <1>13, <1>14,
       <1>15, <1>16 DEF Next, Loop, Callback

----------------------------------------------------------------------------
(* The callbacks of the event DISCONNECT that are under way stay so. *)
DownStays ==
    \A k \in 1..Len(stack) :
      stack[k].at = "down" => k \in 1..Len(stack') /\ stack'[k].at = "down"

(* A call made inside a callback keeps every DISCONNECT callback under way. *)
LEMMA EnterDown ==
    ASSUME TypeOK, NEW op \in Ops, NEW p \in Places, Enter(op, p)
    PROVE  /\ DownStays
           /\ p = "down" => \E k \in DOMAIN stack' : stack'[k].at = "down"
  <1>1. stack \in Seq(Frame) /\ Len(stack) \in Nat
    BY DEF TypeOK
  <1>2. /\ stack' \in Seq(Frame) /\ Len(stack') = Len(stack) + 1
        /\ \A k \in 1..Len(stack) : stack'[k] = stack[k]
        /\ stack'[Len(stack) + 1].at = p
    BY <1>1, EnterStack
  <1>3. DOMAIN stack' = 1..Len(stack) + 1
    BY <1>2
  <1> QED
    BY <1>1, <1>2, <1>3 DEF DownStays

(* A step of a call outside a DISCONNECT callback keeps every one under way. *)
LEMMA GoDown ==
    ASSUME TypeOK, stack # <<>>, Top.at # "down",
           NEW p \in Places, NEW code \in Codes, Go(p, code)
    PROVE  /\ DownStays
           /\ p = "down" => \E k \in DOMAIN stack' : stack'[k].at = "down"
  <1>1. stack \in Seq(Frame) /\ Len(stack) \in Nat
    BY DEF TypeOK
  <1>2. /\ stack' \in Seq(Frame) /\ Len(stack') = Len(stack) /\ Depth \in 1..Len(stack)
        /\ \A k \in 1..Len(stack) : k # Depth => stack'[k] = stack[k]
        /\ stack'[Depth].at = p
    BY <1>1, GoStack
  <1>3. DOMAIN stack' = 1..Len(stack)
    BY <1>2
  <1> QED
    BY <1>1, <1>2, <1>3 DEF DownStays, Top

(* The return of a call outside a DISCONNECT callback keeps them under way. *)
LEMMA ReturnDown ==
    ASSUME TypeOK, stack # <<>>, Top.at # "down", NEW code \in Codes, Return(code)
    PROVE  DownStays
  <1>1. stack \in Seq(Frame) /\ Len(stack) \in Nat
    BY DEF TypeOK
  <1>2. /\ Len(stack') = Len(stack) - 1
        /\ \A k \in 1..Len(stack) - 1 : stack'[k] = stack[k]
    BY <1>1, ReturnStack
  <1> QED
    BY <1>1, <1>2 DEF DownStays, Top, Depth

(* A step that keeps the callbacks and sets no mark keeps the invariant. *)
LEMMA ManualStays ==
    ASSUME TypeOK, TypeOK', ManualOnlyInCallback, DownStays, manual' => manual /\ ~isConnected'
    PROVE  ManualOnlyInCallback'
  <1>1. DOMAIN stack = 1..Len(stack) /\ DOMAIN stack' = 1..Len(stack')
    BY DEF TypeOK
  <1> QED
    BY <1>1 DEF ManualOnlyInCallback, DownStays

(* A step keeps what ManualOnlyInCallback says: the mark is set by steps   *)
(* that enter the callback and cleared by the one that leaves it.          *)
LEMMA NextManual ==
    TypeOK /\ TypeOK' /\ ManualOnlyInCallback /\ [Next]_vars => ManualOnlyInCallback'
  <1> SUFFICES ASSUME TypeOK, TypeOK', ManualOnlyInCallback, [Next]_vars
               PROVE  ManualOnlyInCallback'
    OBVIOUS
  <1> USE DEF connVars
  <1>0. manual => ~isConnected
    BY DEF ManualOnlyInCallback
  <1>1. CASE YieldRefused \/ ReconnectRefused \/ DelayElapses \/ PingElapses
             \/ NetworkChanges \/ SocketBreaks \/ UNCHANGED vars
    <2>1. stack' = stack /\ manual' = manual /\ isConnected' = isConnected
      BY <1>1 DEF YieldRefused, ReconnectRefused, DelayElapses, PingElapses, NetworkChanges,
                  SocketBreaks, vars
    <2> QED
      BY <2>1 DEF ManualOnlyInCallback
  <1>2. CASE YieldEnter
    <2>1. DownStays
      BY <1>2, EnterDown DEF YieldEnter, Ops, Places
    <2> QED
      BY <1>0, <1>2, <2>1, ManualStays DEF YieldEnter
  <1>3. CASE ReconnectEnter
    <2>1. CASE DropConnection /\ Enter("reconnect", "down")
      <3>1. \E k \in DOMAIN stack' : stack'[k].at = "down"
        BY <2>1, EnterDown DEF Ops, Places, Callbacks
      <3> QED
        BY <2>1, <3>1 DEF DropConnection, ManualOnlyInCallback
    <2>2. CASE Enter("reconnect", "start") /\ UNCHANGED connVars
      <3>1. DownStays
        BY <2>2, EnterDown DEF Ops, Places
      <3> QED
        BY <1>0, <2>2, <3>1, ManualStays
    <2> QED
      BY <1>3, <2>1, <2>2 DEF ReconnectEnter
  <1>4. CASE YieldTimeIsUp \/ GiveUp \/ ReconnectDone \/ ReadError
    <2>1. stack # <<>> /\ Top.at # "down" /\ UNCHANGED <<manual, isConnected>>
      BY <1>4 DEF YieldTimeIsUp, GiveUp, ReconnectDone, ReadError, Reading, InLoop, At
    <2>2. \E code \in Codes : Return(code)
      <3>1. Top \in Frame
        BY <2>1 DEF TypeOK, Top, Depth
      <3> QED
        BY <1>4, <3>1 DEF YieldTimeIsUp, GiveUp, ReconnectDone, ReadError, Codes, Frame
    <2> QED
      BY <1>0, <2>1, <2>2, ReturnDown, ManualStays
  <1>5. CASE \/ WaitDelay \/ UpReported \/ ReadNothing \/ PingNotDue \/ SendPing
             \/ ReadPacket("ack") \/ ReadPacket("message") \/ ConnectFails
    <2>1. stack # <<>> /\ Top.at # "down" /\ UNCHANGED <<manual, isConnected>>
      BY <1>5 DEF WaitDelay, UpReported, ReadNothing, PingNotDue, SendPing, ReadPacket,
                  ConnectFails, Attempting, Reading, InLoop, At
    <2>2. \E p \in Places, code \in Codes : Go(p, code)
      BY <1>5 DEF WaitDelay, UpReported, ReadNothing, PingNotDue, SendPing, ReadPacket,
                  ConnectFails, Backoff, Places, Callbacks, Codes
    <2> QED
      BY <1>0, <2>1, <2>2, GoDown, ManualStays
  <1>6. CASE ReadHandled
    <2>1. stack # <<>> /\ Top.at # "down" /\ UNCHANGED <<manual, isConnected>>
      BY <1>6 DEF ReadHandled, InYield
    <2>2. Go("scan", "SUCCESS") \/ Return("ERROR")
      BY <1>6 DEF ReadHandled
    <2>3. DownStays
      BY <2>1, <2>2, GoDown, ReturnDown DEF Places, Callbacks, Codes
    <2> QED
      BY <1>0, <2>1, <2>3, ManualStays
  <1>7. CASE ConnectAndResubscribe \/ ConnectResubscribeFails
    BY <1>7 DEF ConnectAndResubscribe, ConnectResubscribeFails, Connected, ManualOnlyInCallback
  <1>8. CASE ReadFails \/ PingsUnanswered \/ PingFails
    <2>1. stack # <<>> /\ Top.at # "down" /\ Go("down", "SUCCESS") /\ DropConnection
      BY <1>8 DEF ReadFails, PingsUnanswered, PingFails, Reading, InLoop, At
    <2>2. \E k \in DOMAIN stack' : stack'[k].at = "down"
      BY <2>1, GoDown DEF Places, Callbacks, Codes
    <2> QED
      BY <2>1, <2>2 DEF DropConnection, ManualOnlyInCallback
  <1>9. CASE PingWithoutConnection
    <2>1. stack # <<>> /\ Top.at # "down" /\ UNCHANGED <<manual, isConnected>>
      BY <1>9 DEF PingWithoutConnection, At
    <2>2. Go("loop", "ATTEMPTING") \/ Return("NO_CONN")
      BY <1>9 DEF PingWithoutConnection, NoConn
    <2>3. DownStays
      BY <2>1, <2>2, GoDown, ReturnDown DEF Places, Codes
    <2> QED
      BY <1>0, <2>1, <2>3, ManualStays
  <1>10. CASE DownReported
    BY <1>10 DEF DownReported, ManualOnlyInCallback
  <1> QED
    BY <1>1, <1>2, <1>3, <1>4, <1>5, <1>6, <1>7, <1>8, <1>9, <1>10 DEF Next, Loop, Callback

(* The count of unanswered pings never exceeds the pings written on the    *)
(* connection: both start from zero with it.                               *)
LEMMA NextPings == TypeOK /\ PingsWritten /\ [Next]_vars => PingsWritten'
  <1> SUFFICES ASSUME TypeOK, PingsWritten, [Next]_vars PROVE PingsWritten'
    OBVIOUS
  <1>1. pingOut \in 0..PingRetry /\ pings \in 0..PingRetry
    BY DEF TypeOK
  <1>2. CASE SendPing
    BY <1>1, <1>2, PingRetryAssumption DEF SendPing, PingsWritten
  <1>3. CASE ReadHandled
    BY <1>1, <1>3, PingRetryAssumption DEF ReadHandled, PingsWritten
  <1>4. CASE ConnectAndResubscribe \/ ConnectResubscribeFails
    BY <1>4 DEF ConnectAndResubscribe, ConnectResubscribeFails, Connected, PingsWritten
  <1>5. CASE UNCHANGED <<pingOut, pings>>
    BY <1>5 DEF PingsWritten
  <1>6. \/ SendPing \/ ReadHandled \/ ConnectAndResubscribe \/ ConnectResubscribeFails
        \/ UNCHANGED <<pingOut, pings>>
    BY DEF Next, Loop, Callback, pingVars, vars, YieldRefused, YieldEnter, ReconnectRefused,
           ReconnectEnter, YieldTimeIsUp, GiveUp, WaitDelay, ConnectFails, ReconnectDone,
           ReadNothing, ReadPacket, ReadError, ReadFails, UpReported, DownReported, PingNotDue,
           PingsUnanswered, PingFails, PingWithoutConnection, DelayElapses, PingElapses,
           NetworkChanges, SocketBreaks
  <1> QED
    BY <1>2, <1>3, <1>4, <1>5, <1>6

(* The strengthened invariant holds in every reachable state. *)
THEOREM InvariantHolds == Spec => []IInv
  <1>1. IInv /\ [Next]_vars => IInv'
    BY NextType, NextManual, NextPings DEF IInv
  <1> QED
    BY InitInv, <1>1, PTL DEF Spec

(* The types hold for every interval, retry count and depth of calls. *)
THEOREM TypeCorrect == Spec => []TypeOK
  BY InvariantHolds, PTL DEF IInv

(* A lost connection is never left marked as closed by the application. *)
THEOREM ManualIsTemporary == Spec => []ManualOnlyInCallback
  BY InvariantHolds, PTL DEF IInv

(* A connection is not given up before PingRetry pings were written on it. *)
THEOREM KeepAliveIsPatient == Spec => PatientKeepAlive
  <1> DEFINE Patient == At("scan") /\ At("down")' /\ Len(stack') = Depth /\ socket = "open"
                          => pings >= PingRetry
  <1>1. IInv /\ [Next]_vars => [Patient]_vars
    <2> SUFFICES ASSUME IInv, Next, At("scan"), At("down")', Len(stack') = Depth, socket = "open"
                 PROVE  pings >= PingRetry
      BY DEF Patient
    <2>1. TypeOK /\ pingOut <= pings
      BY DEF IInv, PingsWritten
    <2>2. stack \in Seq(Frame) /\ stack # <<>> /\ Top.at = "scan"
      BY <2>1 DEF TypeOK, At
    <2>3. stack' # stack /\ Len(stack') = Len(stack)
      BY <2>2 DEF At, Top, Depth
    <2>4. CASE PingsUnanswered
      BY <2>1, <2>4, PingRetryAssumption DEF PingsUnanswered, TypeOK
    <2>5. ASSUME NEW op \in Ops, NEW p \in Places, Enter(op, p) PROVE FALSE
      BY <2>2, <2>3, <2>5, EnterStack
    <2>6. ASSUME NEW code \in Codes, Return(code) PROVE FALSE
      BY <2>2, <2>3, <2>6, ReturnStack
    <2>7. ASSUME NEW p \in Places, p # "down", NEW code \in Codes, Go(p, code) PROVE FALSE
      <3>1. stack'[Depth].at = p
        BY <2>2, <2>7, GoStack
      <3>2. stack'[Depth].at = "down"
        BY DEF At, Top, Depth
      <3> QED
        BY <2>7, <3>1, <3>2
    <2>8. ~InLoop /\ ~At("down") /\ ~At("up") /\ ~At("ack") /\ ~At("message")
      BY <2>2 DEF InLoop, At
    <2>9. ~YieldEnter /\ ~ReconnectEnter
      BY <2>5 DEF YieldEnter, ReconnectEnter, Ops, Places, Callbacks
    <2>10. ~PingNotDue /\ ~SendPing /\ ~PingFails /\ ~PingWithoutConnection
      BY <2>6, <2>7 DEF PingNotDue, SendPing, PingFails, PingWithoutConnection, NoConn,
                        Places, Codes
    <2>11. ~Loop /\ ~YieldTimeIsUp /\ ~UpReported /\ ~DownReported /\ ~ReadHandled
      BY <2>2, <2>8 DEF Loop, YieldTimeIsUp, UpReported, DownReported, ReadHandled, GiveUp,
           WaitDelay, ConnectFails, ConnectAndResubscribe, ConnectResubscribeFails, Attempting,
           ReconnectDone, ReadNothing, ReadPacket, ReadError, ReadFails, Reading, At, InLoop
    <2>12. ~YieldRefused /\ ~ReconnectRefused /\ ~DelayElapses /\ ~PingElapses
           /\ ~NetworkChanges /\ ~SocketBreaks
      BY <2>3 DEF YieldRefused, ReconnectRefused, DelayElapses, PingElapses, NetworkChanges,
                  SocketBreaks
    <2> QED
      BY <2>4, <2>9, <2>10, <2>11, <2>12 DEF Next, Callback
  <1>2. PatientKeepAlive <=> [][Patient]_vars
    BY PTL DEF PatientKeepAlive
  <1> QED
    BY InvariantHolds, <1>1, <1>2, PTL DEF Spec

(* Once the delay has grown past its maximum no call connects again. *)
THEOREM GivingUpIsFinal == Spec => GiveUpIsFinal
  <1> DEFINE Quiet == [op: Ops, at: {"start", "loop"}, rc: Codes]
  <1>1. TypeOK /\ TypeOK' /\ [Next]_vars => [GivenUp => GivenUp']_vars
    <2> SUFFICES ASSUME TypeOK, TypeOK', Next, GivenUp PROVE GivenUp'
      OBVIOUS
    <2> USE DEF connVars, delayVars
    <2>1. /\ autoConnect /\ ~isConnected /\ interval > MaxInterval
          /\ \A k \in 1..Len(stack) : stack[k] \in Quiet
      BY DEF GivenUp, TypeOK
    <2>2. stack \in Seq(Frame) /\ Len(stack) \in Nat
      BY DEF TypeOK
    <2>3. stack # <<>> => Top.at \in {"start", "loop"} /\ Top \in Quiet
      <3>1. stack # <<>> => Depth \in 1..Len(stack)
        BY <2>2 DEF Depth
      <3> QED
        BY <2>1, <3>1 DEF Top
    <2>4. ~(interval <= MaxInterval)
      BY <2>1, MaxIntervalAssumption DEF TypeOK
    <2>5. ~(\E p \in Callbacks : At(p)) /\ ~(InYield /\ Top.at \in {"ack", "message"})
      BY <2>3 DEF At, Callbacks, InYield
    <2>6. ~Callback
      BY <2>5 DEF Callback, Callbacks, UpReported, ReadHandled, DownReported, PingNotDue,
                  SendPing, PingsUnanswered, PingFails, PingWithoutConnection
    <2>7. ~ReconnectEnter
      BY <2>1 DEF ReconnectEnter
    <2>8. Loop => GiveUp
      BY <2>1, <2>4 DEF Loop, WaitDelay, ConnectFails, ConnectAndResubscribe,
           ConnectResubscribeFails, Attempting, ReconnectDone, ReadNothing, ReadPacket,
           ReadError, ReadFails, Reading
    <2>9. UNCHANGED <<autoConnect, isConnected, interval>>
      BY <2>6, <2>7, <2>8 DEF Next, YieldRefused, YieldEnter, ReconnectRefused, YieldTimeIsUp,
           GiveUp, DelayElapses, PingElapses, NetworkChanges, SocketBreaks
    <2>10. \A k \in 1..Len(stack') : stack'[k] \in Quiet
      <3>1. CASE YieldEnter
        <4>1. stack' = Append(stack, [op |-> "yield", at |-> "start", rc |-> "SUCCESS"])
          BY <3>1 DEF YieldEnter, Enter
        <4>2. [op |-> "yield", at |-> "start", rc |-> "SUCCESS"] \in Quiet
          BY DEF Ops, Codes
        <4>3. /\ Len(stack') = Len(stack) + 1
              /\ \A k \in 1..Len(stack) : stack'[k] = stack[k]
              /\ stack'[Len(stack) + 1] \in Quiet
          BY <2>2, <4>1, <4>2
        <4>4. \A k \in 1..Len(stack) + 1 : k \in 1..Len(stack) \/ k = Len(stack) + 1
          BY <2>2
        <4> QED
          BY <2>1, <4>3, <4>4
      <3>2. CASE YieldTimeIsUp \/ GiveUp
        <4>1. stack # <<>> /\ \E code \in Codes : Return(code)
          BY <2>3, <3>2 DEF YieldTimeIsUp, GiveUp, At, InLoop, Codes
        <4>2. /\ Len(stack') = Len(stack) - 1
              /\ \A k \in 1..Len(stack) - 1 : stack'[k] = stack[k]
          BY <2>2, <4>1, ReturnStack
        <4> QED
          BY <2>1, <2>2, <4>2
      <3>3. CASE stack' = stack
        BY <2>1, <3>3
      <3>4. YieldEnter \/ YieldTimeIsUp \/ GiveUp \/ stack' = stack
        BY <2>6, <2>7, <2>8 DEF Next, YieldRefused, ReconnectRefused, DelayElapses,
             PingElapses, NetworkChanges, SocketBreaks
      <3> QED
        BY <3>1, <3>2, <3>3, <3>4
    <2> QED
      BY <2>1, <2>9, <2>10 DEF GivenUp, TypeOK
  <1> QED
    BY TypeCorrect, <1>1, PTL DEF Spec, GiveUpIsFinal
============================================================================
