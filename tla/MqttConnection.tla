--------------------------- MODULE MqttConnection --------------------------
(***************************************************************************)
(* The connection of the MQTT client: the loop of IOT_MQTT_Yield, the      *)
(* forced IOT_MQTT_Reconnect, the keep-alive pings, the handling of a lost *)
(* connection and the reconnect attempts with their growing delay.         *)
(*                                                                         *)
(* Both calls run callbacks of the application, and a callback may call    *)
(* either of them again: stack holds one frame per call under way, with    *)
(* the place it has reached and its local variable rc. Only the innermost  *)
(* call moves.                                                             *)
(***************************************************************************)
EXTENDS Naturals, Sequences

CONSTANTS
    KeepAlive,       \* options.keep_alive_interval # 0
    FirstIntervals,  \* values of _get_random_interval, in ms
    MaxInterval,     \* MAX_RECONNECT_WAIT_INTERVAL, in ms
    PingRetry,       \* MQTT_PING_RETRY_TIMES
    MaxDepth         \* bound: calls under way inside one another

ASSUME KeepAliveAssumption      == KeepAlive \in BOOLEAN
ASSUME MaxIntervalAssumption    == MaxInterval \in Nat
ASSUME FirstIntervalsAssumption == FirstIntervals \subseteq 1..MaxInterval
ASSUME PingRetryAssumption      == PingRetry \in Nat
ASSUME MaxDepthAssumption       == MaxDepth \in Nat \ {0}

VARIABLES
    autoConnect,  \* options.auto_connect_enable, chosen when the client is made
    isConnected,  \* is_connected
    manual,       \* was_manually_disconnected
    pingOut,      \* is_ping_outstanding
    pingOver,     \* ping_timer has expired
    interval,     \* current_reconnect_wait_interval
    delayOver,    \* reconnect_delay_timer has expired
    stack,        \* the calls under way, innermost last: [op, at, rc]
    lastRc,       \* code the last call returned
    socket,       \* the socket of the connection: "open" or "broken"
    netUp,        \* the network and the broker accept connections
    pings         \* PINGREQs written on this connection, up to PingRetry

vars == <<autoConnect, isConnected, manual, pingOut, pingOver, interval, delayOver, stack,
          lastRc, socket, netUp, pings>>

----------------------------------------------------------------------------
Codes == {"SUCCESS", "RECONNECTED", "MANUALLY_DISCONNECTED", "NO_CONN", "ATTEMPTING",
          "RECONNECT_TIMEOUT", "RECONNECTING", "ERROR"}
Ops   == {"yield", "reconnect"}

(* "start" and "loop": at the condition of the loop, which cannot have run *)
(* out of time yet at the start. The others are inside a callback: "ack"   *)
(* and "message" of a packet read, "scan" of the scan of the wait lists,   *)
(* "down" and "up" of the events DISCONNECT and RECONNECT.                 *)
Callbacks == {"ack", "message", "scan", "down", "up"}
Places    == Callbacks \cup {"start", "loop"}
Frame     == [op: Ops, at: Places, rc: Codes]

Depth    == Len(stack)
Top      == stack[Depth]
At(p)    == stack # <<>> /\ Top.at = p
InYield  == stack # <<>> /\ Top.op = "yield"
InLoop   == At("start") \/ At("loop")
CanCall  == IF stack = <<>> THEN TRUE ELSE Top.at \in Callbacks /\ Depth < MaxDepth

Enter(op, p)  == stack' = Append(stack, [op |-> op, at |-> p, rc |-> "SUCCESS"])
Go(p, code)   == stack' = [stack EXCEPT ![Depth].at = p, ![Depth].rc = code]
Return(code)  == stack' = SubSeq(stack, 1, Depth - 1) /\ lastRc' = code

netVars   == <<socket, netUp>>
pingVars  == <<pingOut, pingOver, pings>>
delayVars == <<interval, delayOver>>
connVars  == <<autoConnect, isConnected, manual>>

(* IOT_MQTT_Construct has connected; memset left the interval at zero. *)
Init ==
    /\ autoConnect \in BOOLEAN
    /\ isConnected = TRUE /\ manual = FALSE
    /\ pingOut = 0 /\ pingOver = FALSE /\ pings = 0
    /\ interval = 0 /\ delayOver = TRUE
    /\ stack = <<>> /\ lastRc = "SUCCESS"
    /\ socket = "open" /\ netUp = TRUE

----------------------------------------------------------------------------
(* qcloud_iot_mqtt_yield, before its loop *)
YieldRefused ==
    /\ CanCall /\ ~isConnected /\ (manual \/ ~autoConnect)
    /\ lastRc' = IF manual THEN "MANUALLY_DISCONNECTED" ELSE "NO_CONN"
    /\ UNCHANGED <<connVars, pingVars, delayVars, stack, netVars>>

YieldEnter ==
    /\ CanCall /\ (isConnected \/ (~manual /\ autoConnect))
    /\ Enter("yield", "start")
    /\ UNCHANGED <<connVars, pingVars, delayVars, lastRc, netVars>>

(* countdown_ms(reconnect_delay_timer, a new random interval) *)
RestartBackoff ==
    /\ interval' \in FirstIntervals
    /\ delayOver' = FALSE

(* _handle_disconnect up to its callback. Only when the DISCONNECT packet  *)
(* could be sent does qcloud_iot_mqtt_disconnect mark the disconnection as *)
(* a manual one.                                                           *)
DropConnection ==
    /\ isConnected' = FALSE
    /\ manual' \in {manual, TRUE}
    /\ UNCHANGED autoConnect

(* Mutant: a reconnect is not refused while the client is disconnected. *)
ReconnectEnterAnyway ==
    /\ CanCall
    /\ RestartBackoff
    /\ Enter("reconnect", "start")
    /\ UNCHANGED <<connVars, pingVars, lastRc, netVars>>

(* qcloud_iot_mqtt_reconnect, before its loop *)
ReconnectRefused ==
    /\ CanCall /\ ~isConnected /\ autoConnect
    /\ lastRc' = "RECONNECTING"
    /\ UNCHANGED <<connVars, pingVars, delayVars, stack, netVars>>

ReconnectEnter ==
    /\ CanCall
    /\ \/ /\ isConnected
          /\ DropConnection
          /\ Enter("reconnect", "down")
          /\ UNCHANGED delayVars
       \/ /\ ~isConnected /\ ~autoConnect
          /\ RestartBackoff
          /\ Enter("reconnect", "start")
          /\ UNCHANGED connVars
    /\ UNCHANGED <<pingVars, lastRc, netVars>>

----------------------------------------------------------------------------
(* The time of the yield is up: it returns the rc of its last round. *)
YieldTimeIsUp ==
    /\ At("loop") /\ InYield
    /\ Return(Top.rc)
    /\ UNCHANGED <<connVars, pingVars, delayVars, netVars>>

GiveUp ==
    /\ InLoop /\ ~isConnected /\ interval > MaxInterval
    /\ Return("RECONNECT_TIMEOUT")
    /\ UNCHANGED <<connVars, pingVars, delayVars, netVars>>

(* _handle_reconnect before the delay is over *)
WaitDelay ==
    /\ InLoop /\ ~isConnected /\ interval <= MaxInterval /\ ~delayOver
    /\ Top.rc # "ATTEMPTING"
    /\ Go("loop", "ATTEMPTING")
    /\ UNCHANGED <<connVars, pingVars, delayVars, lastRc, netVars>>

Attempting == InLoop /\ ~isConnected /\ interval <= MaxInterval /\ delayOver

(* Mutant: the delay does not grow. *)
BackoffConstant ==
    /\ Go("loop", "ATTEMPTING")
    /\ delayOver' = FALSE
    /\ UNCHANGED interval

(* The end of _handle_reconnect after an attempt that failed somewhere. *)
Backoff ==
    /\ interval' = 2 * interval
    /\ IF 2 * interval > MaxInterval
       THEN Go("loop", "RECONNECT_TIMEOUT") /\ UNCHANGED delayOver
       ELSE Go("loop", "ATTEMPTING") /\ delayOver' = FALSE

ConnectFails ==
    /\ Attempting
    /\ Backoff
    /\ UNCHANGED <<connVars, pingVars, lastRc, netVars>>

(* Mutant: a new connection inherits the count of unanswered pings. *)
ConnectedKeepsPings ==
    /\ netUp
    /\ isConnected' = TRUE /\ manual' = FALSE
    /\ pingOver' = FALSE /\ pings' = 0
    /\ socket' = "open"
    /\ UNCHANGED <<autoConnect, pingOut, lastRc, netUp>>

(* _mqtt_connect succeeds *)
Connected ==
    /\ netUp
    /\ isConnected' = TRUE /\ manual' = FALSE
    /\ pingOut' = 0 /\ pingOver' = FALSE /\ pings' = 0
    /\ socket' = "open"
    /\ UNCHANGED <<autoConnect, lastRc, netUp>>

ConnectAndResubscribe ==
    /\ Attempting /\ Connected
    /\ Go("up", "RECONNECTED")
    /\ UNCHANGED delayVars

(* qcloud_iot_mqtt_resubscribe fails after the connection is made: the     *)
(* client is connected, and the attempt counts as failed.                  *)
ConnectResubscribeFails ==
    /\ Attempting /\ Connected
    /\ Backoff

UpReported ==
    /\ At("up")
    /\ Go("loop", "RECONNECTED")
    /\ UNCHANGED <<connVars, pingVars, delayVars, lastRc, netVars>>

ReconnectDone ==
    /\ InLoop /\ ~InYield /\ isConnected
    /\ Return("RECONNECTED")
    /\ UNCHANGED <<connVars, pingVars, delayVars, netVars>>

----------------------------------------------------------------------------
(* cycle_for_read, in a round that finds the client connected *)
Reading == InLoop /\ InYield /\ isConnected

ReadNothing ==
    /\ Reading
    /\ Go("scan", "SUCCESS")
    /\ UNCHANGED <<connVars, pingVars, delayVars, lastRc, netVars>>

ReadPacket(kind) ==
    /\ Reading /\ socket = "open"
    /\ Go(kind, "SUCCESS")
    /\ UNCHANGED <<connVars, pingVars, delayVars, lastRc, netVars>>

(* After the handler: an acknowledgement restarts the ping timer, an       *)
(* incoming message only forgets the pings sent. A handler that returned   *)
(* an error ends the yield.                                                *)
ReadHandled ==
    /\ InYield /\ Top.at \in {"ack", "message"}
    /\ pingOut' = 0
    /\ pingOver' = IF Top.at = "ack" THEN FALSE ELSE pingOver
    /\ \/ Go("scan", "SUCCESS") /\ UNCHANGED lastRc
       \/ Return("ERROR")
    /\ UNCHANGED <<connVars, pings, delayVars, netVars>>

(* A packet that is truncated, too long or of an unknown type. *)
ReadError ==
    /\ Reading
    /\ Return("ERROR")
    /\ UNCHANGED <<connVars, pingVars, delayVars, netVars>>

(* The read reports the connection as lost. *)
ReadFails ==
    /\ Reading /\ socket = "broken"
    /\ DropConnection
    /\ Go("down", "SUCCESS")
    /\ UNCHANGED <<pingVars, delayVars, lastRc, netVars>>

----------------------------------------------------------------------------
(* _mqtt_keep_alive, after the scans of the wait lists *)
PingNotDue ==
    /\ At("scan") /\ ~(KeepAlive /\ pingOver)
    /\ Go("loop", "SUCCESS")
    /\ UNCHANGED <<connVars, pingVars, delayVars, lastRc, netVars>>

(* Mutant: one ping too many. *)
SendPingAgain ==
    /\ At("scan") /\ KeepAlive /\ pingOver /\ pingOut <= PingRetry
    /\ isConnected
    /\ pingOut' = pingOut + 1
    /\ pings' = IF pings < PingRetry THEN pings + 1 ELSE pings
    /\ pingOver' = FALSE
    /\ Go("loop", "SUCCESS")
    /\ UNCHANGED <<connVars, delayVars, lastRc, netVars>>

SendPing ==
    /\ At("scan") /\ KeepAlive /\ pingOver /\ pingOut < PingRetry
    /\ isConnected
    /\ pingOut' = pingOut + 1
    /\ pings' = IF pings < PingRetry THEN pings + 1 ELSE pings
    /\ pingOver' = FALSE
    /\ Go("loop", "SUCCESS")
    /\ UNCHANGED <<connVars, delayVars, lastRc, netVars>>

(* Too many pings unanswered. *)
PingsUnanswered ==
    /\ At("scan") /\ KeepAlive /\ pingOver /\ pingOut >= PingRetry
    /\ isConnected
    /\ DropConnection
    /\ Go("down", "SUCCESS")
    /\ UNCHANGED <<pingVars, delayVars, lastRc, netVars>>

(* The PINGREQ cannot be written. *)
PingFails ==
    /\ At("scan") /\ KeepAlive /\ pingOver /\ pingOut < PingRetry
    /\ isConnected /\ socket = "broken"
    /\ DropConnection
    /\ Go("down", "SUCCESS")
    /\ UNCHANGED <<pingVars, delayVars, lastRc, netVars>>

(* rc is QCLOUD_ERR_MQTT_NO_CONN after _handle_disconnect: the yield       *)
(* returns, or goes on to reconnect.                                       *)
NoConn ==
    IF autoConnect
    THEN /\ RestartBackoff
         /\ Go("loop", "ATTEMPTING")
         /\ UNCHANGED lastRc
    ELSE /\ Return("NO_CONN")
         /\ UNCHANGED delayVars

(* A callback has lost the connection already: _handle_disconnect does     *)
(* nothing but report that.                                                *)
PingWithoutConnection ==
    /\ At("scan") /\ KeepAlive /\ pingOver
    /\ ~isConnected
    /\ NoConn
    /\ UNCHANGED <<connVars, pingVars, netVars>>

(* Mutant: the mark of a manual disconnection is left after the callback. *)
DownReportedStaysManual ==
    /\ At("down")
    /\ \/ InYield /\ NoConn
       \/ /\ ~InYield
          /\ RestartBackoff
          /\ Go("loop", "SUCCESS")
          /\ UNCHANGED lastRc
    /\ UNCHANGED <<connVars, pingVars, netVars>>

(* The rest of _handle_disconnect and what its caller makes of the result. *)
DownReported ==
    /\ At("down")
    /\ manual' = FALSE
    /\ \/ InYield /\ NoConn
       \/ /\ ~InYield
          /\ RestartBackoff
          /\ Go("loop", "SUCCESS")
          /\ UNCHANGED lastRc
    /\ UNCHANGED <<autoConnect, isConnected, pingVars, netVars>>

----------------------------------------------------------------------------
(* Timers run out, the network comes and goes, the peer closes the socket. *)
DelayElapses ==
    /\ ~delayOver /\ delayOver' = TRUE
    /\ UNCHANGED <<connVars, pingVars, interval, stack, lastRc, netVars>>

PingElapses ==
    /\ ~pingOver /\ pingOver' = TRUE
    /\ UNCHANGED <<connVars, pingOut, pings, delayVars, stack, lastRc, netVars>>

NetworkChanges ==
    /\ netUp' = ~netUp
    /\ socket' = IF netUp THEN "broken" ELSE socket
    /\ UNCHANGED <<connVars, pingVars, delayVars, stack, lastRc>>

SocketBreaks ==
    /\ socket = "open" /\ socket' = "broken"
    /\ UNCHANGED <<connVars, pingVars, delayVars, stack, lastRc, netUp>>

Callback ==
    \/ UpReported \/ ReadHandled \/ DownReported
    \/ PingNotDue \/ SendPing \/ PingsUnanswered \/ PingFails \/ PingWithoutConnection

Loop ==
    \/ GiveUp \/ WaitDelay
    \/ ConnectFails \/ ConnectAndResubscribe \/ ConnectResubscribeFails
    \/ ReconnectDone
    \/ ReadNothing \/ ReadPacket("ack") \/ ReadPacket("message") \/ ReadError \/ ReadFails

Next ==
    \/ YieldRefused \/ YieldEnter \/ ReconnectRefused \/ ReconnectEnter
    \/ YieldTimeIsUp \/ Loop \/ Callback
    \/ DelayElapses \/ PingElapses \/ NetworkChanges \/ SocketBreaks

(* The application keeps calling IOT_MQTT_Yield and its callbacks return;  *)
(* timers run out; the loop makes its rounds.                              *)
Fairness ==
    /\ WF_vars(stack = <<>> /\ YieldEnter)
    /\ WF_vars(YieldTimeIsUp)
    /\ SF_vars(Callback)
    /\ WF_vars(Loop)
    /\ WF_vars(DelayElapses)

Spec == Init /\ [][Next]_vars /\ Fairness

----------------------------------------------------------------------------
(* Types of all state variables. A doubled interval fits 32 bits. *)
TypeOK ==
    /\ autoConnect \in BOOLEAN
    /\ isConnected \in BOOLEAN /\ manual \in BOOLEAN
    /\ pingOver \in BOOLEAN /\ delayOver \in BOOLEAN /\ netUp \in BOOLEAN
    /\ pingOut \in 0..PingRetry /\ pings \in 0..PingRetry
    /\ interval \in 0..2 * MaxInterval
    /\ stack \in Seq(Frame)
    /\ lastRc \in Codes
    /\ socket \in {"open", "broken"}

(* The manual mark, which makes a yield return instead of reconnecting, is *)
(* set by every disconnection that could be announced to the broker. It    *)
(* never outlives the callback of the event DISCONNECT, however calls are  *)
(* made inside callbacks: no lost connection is left to be taken for one   *)
(* the application has closed.                                             *)
ManualOnlyInCallback ==
    manual => ~isConnected /\ \E k \in DOMAIN stack : stack[k].at = "down"

(* A connection is given up for want of answers only after PingRetry pings *)
(* were written on that very connection: pings counted before a reconnect, *)
(* inside a callback or not, are not held against the new connection.      *)
PatientKeepAlive ==
    [][At("scan") /\ At("down")' /\ Len(stack') = Depth /\ socket = "open"
         => pings >= PingRetry]_vars

(* Once the delay has grown past its maximum nothing the application calls *)
(* makes the client connect again, even with the network back.             *)
GivenUp ==
    /\ autoConnect /\ ~isConnected /\ interval > MaxInterval
    /\ \A k \in DOMAIN stack : stack[k] \in [op: Ops, at: {"start", "loop"}, rc: Codes]
GiveUpIsFinal == [][GivenUp => GivenUp']_vars

(* A client that is to reconnect by itself does not stay in between: it    *)
(* becomes connected or gives up.                                          *)
Recovers == autoConnect => (~isConnected ~> (isConnected \/ GivenUp))
============================================================================
