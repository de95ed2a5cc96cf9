---------------------------- MODULE CloudServices ----------------------------
(* The clients of the SDK that keep a dialogue with the cloud over MQTT:       *)
(* firmware updates, the sub-devices of a gateway, the synchronous requests of *)
(* the smaller services, resources, and the controls and actions of the data   *)
(* template; the list in which clients keep what they wait for, and the requests *)
(* of HTTP.  Services adds the other clients, and says which of them runs.      *)
EXTENDS ServiceBounds, Integers, Sequences, FiniteSets

CONSTANTS
    Versions, Segments, MaxRetry, MaxDrops,         \* of OtaUpdate
    Devices, BeginningOf, MaxOrders,                \* of Gateway
    Requests,                                       \* of SyncRequests
    MaxTasks,                                       \* of ResourceClient
    Properties, Actions, MaxHandlers, MaxTokens,    \* of TemplateCommands
    ListNodes, Values,                              \* of LinkedList
    SendCap, HostCap, PathCap, Targets, HeaderLens, \* of HttpRequest
    MaxCalls                                        \* of Gateway and SyncRequests

ASSUME OtaAssumption ==
    Segments \in Nat \ {0} /\ MaxRetry \in Nat /\ MaxDrops \in Nat /\ Null \notin Versions
ASSUME GatewayAssumption == BeginningOf \subseteq Devices \X Devices
ASSUME BoundsAssumption == MaxCalls \in Nat /\ MaxTasks \in Nat /\ MaxTokens \in Nat
ASSUME CommandsAssumption == Properties \cap Actions = {}
ASSUME HttpAssumption ==
    /\ SendCap \in Nat /\ SendCap > 1
    /\ HeaderLens \subseteq Nat
    /\ Targets \subseteq Seq(STRING)
    /\ Null \notin {"unparsed", "closed", "sent"}

\* NULL is no node and not what one points to, no list and no iterator.
ASSUME ListAssumption ==
    LET Link == ListNodes \cup {Null}
    IN  /\ IsFiniteSet(ListNodes) /\ Null \notin ListNodes
        /\ Null \notin [prev : Link, next : Link, val : Values]
        /\ Null \notin [head : Link, tail : Link, len : Nat]
        /\ Null \notin [next : Link, direction : {"head", "tail"}]

VARIABLES
    client, ctx, pc, success, drops, downloading, running, disabling, flash, behind, boot,
    attempts, isConnected, inbox,
    gwPhase, gwSessions, gwBinds, gwSlots, gwCall, gwUp, gwDown, gwCalls, gwOrders,
    gwGivenUp, gwAccepted, gwLast,
    sqOk, sqAsked, sqGranted, sqResult, sqCall, sqUp, sqDown, sqCalls, sqGivenUp,
    sqTaken, sqLast,
    rsState, rsInfo, rsResult, rsChannel, rsSent, rsDigest, rsFile, rsReport, rsUp,
    rsDown, rsTasks, rsFaults, rsTaken, rsLast,
    tcProperties, tcActions, tcDown, tcValue, tcActed, tcToken, tcArrived, tcAsked,
    tcTokens, tcReceived, tcCalled, tcReplied, tcCleared, tcFaults,
    llNode, llList, llIter, llItems, llCurrent, llSeen, llMissed,
    hrTarget, hrAuth, hrHeader, hrPost, hrPieces, hrBuf, hrIdx, hrAt, hrWire, hrCut, hrResult

Ota       == INSTANCE OtaUpdate
Gw        == INSTANCE Gateway
Sync      == INSTANCE SyncRequests
Resource  == INSTANCE ResourceClient
Commands  == INSTANCE TemplateCommands
Lists     == INSTANCE LinkedList
Http      == INSTANCE HttpRequest

ASSUME RequestsAssumption == Requests \subseteq DOMAIN Sync!ServiceOf

\* NULL is no handle, no call, no answer and no checksum.
ASSUME NullAssumption ==
    /\ Null \notin Ota!Client
    /\ Null \notin [op : Gw!Operations \cup {"list"}, dev : Devices \cup {Null},
                   n : 1 .. MaxCalls, held : BOOLEAN]
ASSUME NoAnswerAssumption ==
    /\ Null \notin [r : Gw!Message, result : {0, Gw!Refused}]
    /\ Null \notin [req : Requests, n : 1 .. MaxCalls, tries : Nat,
                   phase : {"subscribe", "ask", "wait"}]
    /\ Null \notin [q : Sync!Asked, good : BOOLEAN]
    /\ Null \notin [type : {"answer"}, kind : Resource!Kinds, to : Resource!Reports,
                   code : {"ok", "error"}]
    /\ Null \notin Seq((Nat \cup {Null}) \X Nat) \cup {"open", "closed"}

otaVars == <<client, ctx, pc, success, drops, downloading, running, disabling, flash, behind,
    boot, attempts, isConnected, inbox>>
gwVars == <<gwPhase, gwSessions, gwBinds, gwSlots, gwCall, gwUp, gwDown, gwCalls,
    gwOrders, gwGivenUp, gwAccepted, gwLast>>
syncVars == <<sqOk, sqAsked, sqGranted, sqResult, sqCall, sqUp, sqDown, sqCalls,
    sqGivenUp, sqTaken, sqLast>>
resourceVars == <<rsState, rsInfo, rsResult, rsChannel, rsSent, rsDigest, rsFile,
    rsReport, rsUp, rsDown, rsTasks, rsFaults, rsTaken, rsLast>>
commandsVars == <<tcProperties, tcActions, tcDown, tcValue, tcActed, tcToken, tcArrived,
    tcAsked, tcTokens, tcReceived, tcCalled, tcReplied, tcCleared, tcFaults>>
listVars == <<llNode, llList, llIter, llItems, llCurrent, llSeen, llMissed>>
httpVars == <<hrTarget, hrAuth, hrHeader, hrPost, hrPieces, hrBuf, hrIdx, hrAt, hrWire, hrCut,
    hrResult>>
=============================================================================
