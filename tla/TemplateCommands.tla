--------------------------- MODULE TemplateCommands ---------------------------
(***************************************************************************)
(* What the cloud commands of a device (data_template_client.c,            *)
(* data_template_client_manager.c and _common.c, data_template_action.c):  *)
(* controls of its properties, controls that were kept for it and come     *)
(* with the answer to a get_status, and actions.  Properties and actions   *)
(* are registered with a callback in two lists.  The application is that   *)
(* of light_data_template_sample.c: its property callback raises a flag,   *)
(* and its loop acts on the values and replies, with the one token the     *)
(* library remembers, once for all controls of a yield.                    *)
(***************************************************************************)
EXTENDS Naturals, Sequences

CONSTANTS
    Properties,  \* the DevicePropertys of the application
    Actions,     \* its DeviceActions
    MaxHandlers, \* bound: entries in one list
    MaxTokens,   \* bound: controls, actions and get_status requests
    MaxFaults,   \* bound: messages lost and publishes that fail
    Null

VARIABLES
    tcProperties, \* property_handle_list: handlers, each with its address and its property
    tcActions,    \* action_handle_list
    tcDown,       \* messages of the cloud on their way
    tcValue,      \* per property: the token of the control that set its data last, or 0
    tcActed,      \* the same for what the hardware was set to
    tcToken,      \* sg_template_control_clientToken
    tcArrived,    \* sg_control_msg_arrived
    tcAsked,      \* the get_status that waits, and its ack_request
    tcTokens,     \* history: tokens so far
    tcReceived,   \* history: the controls received, and whether they reached a callback
    tcCalled,     \* history: per token, the handlers whose callbacks it has caused
    tcReplied,    \* history: tokens of the replies published
    tcCleared,    \* history: tokens of the clear_controls published
    tcFaults      \* history: faults so far

tcVars == <<tcProperties, tcActions, tcDown, tcValue, tcActed, tcToken, tcArrived, tcAsked,
            tcTokens, tcReceived, tcCalled, tcReplied, tcCleared, tcFaults>>

Tokens == 1 .. MaxTokens

Init ==
    /\ tcProperties = <<>> /\ tcActions = <<>>
    /\ tcDown = <<>>
    /\ tcValue = [p \in Properties |-> 0] /\ tcActed = [p \in Properties |-> 0]
    /\ tcToken = Null
    /\ tcArrived = FALSE
    /\ tcAsked = Null
    /\ tcTokens = 0 /\ tcReceived = <<>>
    /\ tcCalled = [t \in Tokens |-> {}]
    /\ tcReplied = {} /\ tcCleared = {}
    /\ tcFaults = 0

-----------------------------------------------------------------------------
\* Registering.

\* The lists have no match function: qcloud_list_find compares the address it is given,
\* that of a property or an action, with those of the handlers. So nothing is ever found: registering
\* again adds a handler, and unregistering returns that there is none.
Found(list, address) == \E i \in DOMAIN list : list[i].at = address

\* A handler is allocated for each registration.
Pushed(list, what) == Append(list, [at |-> Len(list) + 1, of |-> what])

Register(p) ==
    /\ Len(tcProperties) < MaxHandlers
    /\ ~Found(tcProperties, p)
    /\ tcProperties' = Pushed(tcProperties, p)
    /\ UNCHANGED <<tcActions, tcDown, tcValue, tcActed, tcToken, tcArrived, tcAsked,
                   tcTokens, tcReceived, tcCalled, tcReplied, tcCleared, tcFaults>>

RegisterAction(a) ==
    /\ Len(tcActions) < MaxHandlers
    /\ ~Found(tcActions, a)
    /\ tcActions' = Pushed(tcActions, a)
    /\ UNCHANGED <<tcProperties, tcDown, tcValue, tcActed, tcToken, tcArrived, tcAsked,
                   tcTokens, tcReceived, tcCalled, tcReplied, tcCleared, tcFaults>>

-----------------------------------------------------------------------------
\* The cloud.

CloudSends(m) ==
    /\ tcDown' = Append(tcDown, m)
    /\ UNCHANGED <<tcProperties, tcActions, tcValue, tcActed, tcToken, tcArrived, tcAsked,
                   tcReceived, tcCalled, tcReplied, tcCleared, tcFaults>>

CloudControls(sets) ==
    /\ tcTokens < MaxTokens
    /\ tcTokens' = tcTokens + 1
    /\ CloudSends([kind |-> "control", token |-> tcTokens', sets |-> sets])

CloudCallsAction(a, valid) ==
    /\ tcTokens < MaxTokens
    /\ tcTokens' = tcTokens + 1
    /\ CloudSends([kind |-> "action", token |-> tcTokens', of |-> a, valid |-> valid])

\* The answer to a get_status: rejected, or with the controls that were kept, if any.
CloudAnswers(accepted, sets) ==
    /\ tcAsked # Null /\ ~tcAsked.answered
    /\ tcDown' = Append(tcDown, [kind |-> "status", token |-> tcAsked.token,
                                 accepted |-> accepted, sets |-> sets])
    /\ tcAsked' = [tcAsked EXCEPT !.answered = TRUE]
    /\ UNCHANGED <<tcProperties, tcActions, tcValue, tcActed, tcToken, tcArrived, tcTokens,
                   tcReceived, tcCalled, tcReplied, tcCleared, tcFaults>>

MessageLost ==
    /\ tcDown # <<>> /\ tcFaults < MaxFaults
    /\ tcDown' = Tail(tcDown)
    /\ tcFaults' = tcFaults + 1
    /\ UNCHANGED <<tcProperties, tcActions, tcValue, tcActed, tcToken, tcArrived, tcAsked,
                   tcTokens, tcReceived, tcCalled, tcReplied, tcCleared>>

-----------------------------------------------------------------------------
\* The message callbacks, in a yield.

\* The handlers of a list whose callbacks are called. (They are tried from its tail; nothing
\* depends on the order.)
Called(list, whats) == {list[i] : i \in {j \in DOMAIN list : list[j].of \in whats}}

\* Mutant: the flag follows the last control.
ArrivedWithLast(called) == called # {}

\* The callback of the application raises its flag.
ArrivedWith(called) == tcArrived \/ called # {}

\* _handle_control: each handler whose property is in the message takes its value.
ApplyControl(m) ==
    LET called == Called(tcProperties, m.sets)
        set    == {h.of : h \in called}
    IN  /\ tcToken' = m.token
        /\ tcValue' = [p \in Properties |-> IF p \in set THEN m.token ELSE tcValue[p]]
        /\ tcCalled' = [tcCalled EXCEPT ![m.token] = @ \cup called]
        /\ tcArrived' = ArrivedWith(called)
        /\ tcReceived' = Append(tcReceived, [token |-> m.token, reached |-> called # {}])

HandleControl(m) ==
    /\ m.kind = "control"
    /\ ApplyControl(m)
    /\ tcDown' = Tail(tcDown)
    /\ UNCHANGED <<tcProperties, tcActions, tcActed, tcAsked, tcTokens, tcReplied,
                   tcCleared, tcFaults>>

\* An answer to no request in the list is dropped.
IsAwaited(m) == tcAsked # Null /\ tcAsked.token = m.token /\ tcAsked.ack = "none"

HandleStrayStatus(m) ==
    /\ m.kind = "status" /\ ~IsAwaited(m)
    /\ tcDown' = Tail(tcDown)
    /\ UNCHANGED <<tcProperties, tcActions, tcValue, tcActed, tcToken, tcArrived, tcAsked,
                   tcTokens, tcReceived, tcCalled, tcReplied, tcCleared, tcFaults>>

\* The callback of the request writes the status it is given.
HandleStatus(m) ==
    /\ m.kind = "status" /\ IsAwaited(m)
    /\ ~(m.accepted /\ m.sets # {})
    /\ tcAsked' = [tcAsked EXCEPT !.ack = IF m.accepted THEN "accepted" ELSE "rejected"]
    /\ tcDown' = Tail(tcDown)
    /\ UNCHANGED <<tcProperties, tcActions, tcValue, tcActed, tcToken, tcArrived, tcTokens,
                   tcReceived, tcCalled, tcReplied, tcCleared, tcFaults>>

\* With a control in the answer, the control is applied and the ack is written first; the
\* callback finds it accepted and clears the control at the cloud, whether the publish of
\* that succeeds or not.
HandleStatusControl(m, published) ==
    /\ m.kind = "status" /\ IsAwaited(m)
    /\ m.accepted /\ m.sets # {}
    /\ published \/ tcFaults < MaxFaults
    /\ ApplyControl(m)
    /\ tcAsked' = [tcAsked EXCEPT !.ack = "accepted"]
    /\ tcCleared' = IF published THEN tcCleared \cup {m.token} ELSE tcCleared
    /\ tcFaults' = IF published THEN tcFaults ELSE tcFaults + 1
    /\ tcDown' = Tail(tcDown)
    /\ UNCHANGED <<tcProperties, tcActions, tcActed, tcTokens, tcReplied>>

\* The callback of an action acts and replies with the token of the message.
HandleAction(m, published) ==
    LET called == IF m.valid THEN Called(tcActions, {m.of}) ELSE {}
    IN  /\ m.kind = "action"
        /\ published \/ (called # {} /\ tcFaults < MaxFaults)
        /\ tcCalled' = [tcCalled EXCEPT ![m.token] = @ \cup called]
        /\ tcReplied' = IF published /\ called # {} THEN tcReplied \cup {m.token}
                        ELSE tcReplied
        /\ tcFaults' = IF published THEN tcFaults ELSE tcFaults + 1
        /\ tcDown' = Tail(tcDown)
        /\ UNCHANGED <<tcProperties, tcActions, tcValue, tcActed, tcToken, tcArrived,
                       tcAsked, tcTokens, tcReceived, tcCleared>>

-----------------------------------------------------------------------------
\* The application.

\* The hardware is set to the values.
ActOnValues == tcActed' = tcValue

\* A reply carries the token that was remembered last.
ReplyToken == tcToken

\* The flag is taken back when the reply was published.
ArrivedAfter(published) == ~published

ControlReply(published) ==
    /\ tcAsked = Null /\ tcArrived
    /\ published \/ tcFaults < MaxFaults
    /\ ActOnValues
    /\ tcReplied' = IF published THEN tcReplied \cup {ReplyToken} ELSE tcReplied
    /\ tcArrived' = ArrivedAfter(published)
    /\ tcFaults' = IF published THEN tcFaults ELSE tcFaults + 1
    /\ UNCHANGED <<tcProperties, tcActions, tcDown, tcValue, tcToken, tcAsked, tcTokens,
                   tcReceived, tcCalled, tcCleared>>

\* IOT_Template_GetStatus_sync.
GetStatus ==
    /\ tcAsked = Null /\ tcTokens < MaxTokens
    /\ tcTokens' = tcTokens + 1
    /\ tcAsked' = [token |-> tcTokens', ack |-> "none", answered |-> FALSE]
    /\ UNCHANGED <<tcProperties, tcActions, tcDown, tcValue, tcActed, tcToken, tcArrived,
                   tcReceived, tcCalled, tcReplied, tcCleared, tcFaults>>

StatusExpires ==
    /\ tcAsked # Null /\ tcAsked.ack = "none"
    /\ tcAsked' = [tcAsked EXCEPT !.ack = "timeout"]
    /\ UNCHANGED <<tcProperties, tcActions, tcDown, tcValue, tcActed, tcToken, tcArrived,
                   tcTokens, tcReceived, tcCalled, tcReplied, tcCleared, tcFaults>>

\* The loop of the call ends, and the application acts on what it was given.
StatusReturns ==
    /\ tcAsked # Null /\ tcAsked.ack # "none"
    /\ ActOnValues
    /\ tcAsked' = Null
    /\ UNCHANGED <<tcProperties, tcActions, tcDown, tcValue, tcToken, tcArrived, tcTokens,
                   tcReceived, tcCalled, tcReplied, tcCleared, tcFaults>>

-----------------------------------------------------------------------------
Reply == \E published \in BOOLEAN : ControlReply(published)

Wait == StatusExpires \/ StatusReturns

Receive ==
    /\ tcDown # <<>>
    /\ LET m == Head(tcDown)
       IN  \/ HandleControl(m) \/ HandleStatus(m) \/ HandleStrayStatus(m)
           \/ \E published \in BOOLEAN : \/ HandleStatusControl(m, published)
                                         \/ HandleAction(m, published)

Next ==
    \/ \E p \in Properties : Register(p)
    \/ \E a \in Actions : RegisterAction(a)
    \/ \E sets \in SUBSET Properties : CloudControls(sets)
    \/ \E a \in Actions, valid \in BOOLEAN : CloudCallsAction(a, valid)
    \/ \E accepted \in BOOLEAN, sets \in SUBSET Properties : CloudAnswers(accepted, sets)
    \/ MessageLost
    \/ Receive
    \/ Reply \/ GetStatus \/ Wait

\* The loop of the application goes on, and a request expires by its timer.
Fairness == WF_tcVars(Reply) /\ WF_tcVars(Wait)

Spec == Init /\ [][Next]_tcVars /\ Fairness
-----------------------------------------------------------------------------
\* The ranges of the variables.
TypeOK ==
    /\ Len(tcProperties) <= MaxHandlers /\ Len(tcActions) <= MaxHandlers
    /\ tcValue \in [Properties -> 0 .. MaxTokens] /\ tcActed \in [Properties -> 0 .. MaxTokens]
    /\ tcToken \in Tokens \cup {Null}
    /\ tcReplied \subseteq Tokens /\ tcCleared \subseteq tcReplied \cup Tokens

\* When the application waits for nothing, the hardware is as the properties say, and each
\* control that reached a callback has a reply, however many came in one yield, with a
\* get_status in between, or before a reply that failed: its own when no other came before
\* the reply, otherwise that of a control which came later, even one that reached no
\* callback.  (Its own reply then never comes: the library keeps one token.)
LatestIsAnswered ==
    (tcAsked = Null /\ ~tcArrived) =>
        /\ tcActed = tcValue
        /\ \A i \in DOMAIN tcReceived : tcReceived[i].reached =>
               \E j \in i .. Len(tcReceived) : tcReceived[j].token \in tcReplied

\* A reply to a control comes after it was acted on: the hardware has taken its values, or
\* those of a later control.
AnsweredIsDone ==
    \A t \in tcReplied : \A h \in tcCalled[t] : h.of \in Properties => tcActed[h.of] >= t

\* "property already exist": what was registered is not registered a second time.
RegisteredOnce ==
    /\ \A i, j \in DOMAIN tcProperties : tcProperties[i].of = tcProperties[j].of => i = j
    /\ \A i, j \in DOMAIN tcActions : tcActions[i].of = tcActions[j].of => i = j
=============================================================================
