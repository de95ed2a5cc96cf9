--------------------------- MODULE ClientLifecycle ---------------------------
(***************************************************************************)
(* How an MQTT client is made, run by a thread and destroyed, in a build   *)
(* with MULTITHREAD_ENABLED (mqtt_client.c). The application is one task;   *)
(* it stops the loop it has started before it starts another or destroys   *)
(* the client.                                                             *)
(***************************************************************************)
EXTENDS Naturals, Sequences, SequencesExt

CONSTANTS
    Threads,   \* bound: yield threads that are ever created
    StopCap,   \* waits of IOT_MQTT_StopLoop, 180 in the code
    MaxMade,   \* bound: clients that are constructed
    Null

VARIABLES
    clHeld,      \* what is allocated for the client
    clMade,      \* the application holds a client
    clFailed,    \* where the last IOT_MQTT_Construct failed, or Null
    clMades,     \* number of calls of IOT_MQTT_Construct
    clRunning,   \* yield_thread_running
    clExit,      \* yield_thread_exit
    clThread,    \* where each thread is in its loop, or "none", "starting" or "ended"
    clApp,       \* the application: "idle", in "yield", or in IOT_MQTT_StopLoop, "stop"
    clCnt,       \* cnt of IOT_MQTT_StopLoop
    clLoop,      \* the application has a loop that it must stop
    clGaveUp,    \* history: IOT_MQTT_StopLoop gave up
    clLoops,     \* history: threads of this client
    clTwice      \* history: something was released that was not held

vars == <<clHeld, clMade, clFailed, clMades, clRunning, clExit, clThread, clApp, clCnt, clLoop,
          clGaveUp, clLoops, clTwice>>
clientVars == <<clHeld, clMade, clFailed, clMades, clTwice>>
-----------------------------------------------------------------------------
\* What qcloud_iot_mqtt_init allocates, in its order; the client itself comes first.
Parts  == <<"client", "lock_generic", "lock_write_buf", "lock_list_sub", "lock_list_pub",
            "list_pub", "list_sub">>
Before(part) == {Parts[i] : i \in {j \in DOMAIN Parts : \A k \in 1 .. j : Parts[k] # part}}
Inner  == ToSet(Parts) \ {"client"}

(* qcloud_iot_mqtt_init: what is left of it, where allocating the part fails, or the  *)
(* device info or the name of the host, which come before any part but the client.    *)
Cleaned(held) == held \ Inner          \* label error
InitFailed(at) ==
    CASE at \in {"device_info", "host_addr"} -> {"client"}
      [] at = "lock_generic"                 -> Before(at)
      [] OTHER                               -> Cleaned(Before(at))

(* qcloud_iot_mqtt_fini *)
Fini(held) == held \ Inner

(* IOT_MQTT_Construct: the allocations that are left; the client id is the last of them. *)
All == ToSet(Parts) \cup {"client_id"}
Left(at) ==
    CASE at = Null                                   -> All
      [] at = "client"                               -> {}
      [] at = "client_id"                            -> ToSet(Parts) \ {"client"}
      [] at \in {"device_secret", "connect"}         -> Fini(All) \ {"client", "client_id"}
      [] OTHER                                       -> InitFailed(at) \ {"client"}
Failures == ToSet(Parts) \cup {"device_info", "host_addr", "client_id", "device_secret", "connect"}

Alive(t) == clThread[t] \notin {"none", "ended"}

Construct(at) ==
    /\ clApp = "idle" /\ ~clMade /\ clMades < MaxMade
    /\ \A t \in Threads : ~Alive(t)   \* else memory that was freed is written
    /\ clHeld' = Left(at)
    /\ clMade' = (at = Null)
    /\ clFailed' = at
    /\ clMades' = clMades + 1
    \* the struct is cleared, so that both flags are false
    /\ clRunning' = FALSE /\ clExit' = FALSE
    /\ clGaveUp' = FALSE /\ clLoops' = 0
    /\ clThread' = [t \in Threads |-> "none"]
    /\ UNCHANGED <<clApp, clCnt, clLoop, clTwice>>

(* IOT_MQTT_Destroy *)
Destroy ==
    /\ clApp = "idle" /\ clMade /\ ~clLoop
    /\ clHeld' = clHeld \ All
    /\ clTwice' = (clTwice \/ ~(All \subseteq clHeld))
    /\ clMade' = FALSE
    /\ UNCHANGED <<clFailed, clMades, clRunning, clExit, clThread, clApp, clCnt, clLoop, clGaveUp,
                   clLoops>>

(* IOT_MQTT_Yield: while the flag is set it only sleeps, and changes nothing. *)
Yield ==
    /\ clApp = "idle" /\ clMade /\ ~clRunning
    /\ clApp' = "yield"
    /\ UNCHANGED <<clientVars, clRunning, clExit, clThread, clCnt, clLoop, clGaveUp, clLoops>>

YieldReturns ==
    /\ clApp = "yield"
    /\ clApp' = "idle"
    /\ UNCHANGED <<clientVars, clRunning, clExit, clThread, clCnt, clLoop, clGaveUp, clLoops>>

(* IOT_MQTT_StartLoop: the flag stays set when no thread can be created. *)
StartLoop ==
    /\ clApp = "idle" /\ clMade /\ ~clLoop
    /\ clRunning' = TRUE
    /\ \/ \E t \in Threads :
            /\ clThread[t] = "none"
            /\ clThread' = [clThread EXCEPT ![t] = "starting"]
            /\ clLoop' = TRUE
            /\ clLoops' = clLoops + 1
       \/ UNCHANGED <<clThread, clLoop, clLoops>>
    /\ UNCHANGED <<clientVars, clExit, clApp, clCnt, clGaveUp>>

(* IOT_MQTT_StopLoop: it waits at least once, and so often at most. *)
StopLoop ==
    /\ clApp = "idle" /\ clMade
    /\ clRunning' = FALSE
    /\ clApp' = "stop" /\ clCnt' = 0
    /\ UNCHANGED <<clientVars, clExit, clThread, clLoop, clGaveUp, clLoops>>

StopWaits ==
    /\ clApp = "stop"
    /\ LET more == ~clExit /\ clCnt + 1 < StopCap
       IN  IF more THEN clCnt' = clCnt + 1 /\ UNCHANGED <<clApp, clLoop, clGaveUp>>
           ELSE /\ clApp' = "idle" /\ clCnt' = 0
                /\ clLoop' = FALSE
                /\ clGaveUp' = (clGaveUp \/ ~clExit)
    /\ UNCHANGED <<clientVars, clRunning, clExit, clThread, clLoops>>
-----------------------------------------------------------------------------
\* A step of a thread, from one place of its loop to another.
Goes(t, from, to) ==
    /\ clThread[t] = from
    /\ clThread' = [clThread EXCEPT ![t] = to]
    /\ UNCHANGED <<clientVars, clApp, clCnt, clLoop, clGaveUp, clLoops>>

(* _mqtt_yield_thread *)
ThreadBegins(t) == Goes(t, "starting", "check") /\ clExit' = FALSE /\ UNCHANGED clRunning
ThreadChecks(t) == Goes(t, "check", IF clRunning THEN "yield" ELSE "ending")
                   /\ UNCHANGED <<clRunning, clExit>>
\* The yield returns with success or an error it goes on after, or with one that ends the loop.
ThreadYields(t) == (Goes(t, "yield", "sleep") \/ Goes(t, "yield", "ending"))
                   /\ UNCHANGED <<clRunning, clExit>>
ThreadSleeps(t) == Goes(t, "sleep", "check") /\ UNCHANGED <<clRunning, clExit>>
ThreadStops(t)  == Goes(t, "ending", "leaving") /\ clRunning' = FALSE /\ UNCHANGED clExit
ThreadEnds(t)   == Goes(t, "leaving", "ended") /\ clExit' = TRUE /\ UNCHANGED clRunning

ThreadStep(t) ==
    \/ ThreadBegins(t) \/ ThreadChecks(t) \/ ThreadYields(t) \/ ThreadSleeps(t)
    \/ ThreadStops(t) \/ ThreadEnds(t)

Init ==
    /\ clHeld = {} /\ clMade = FALSE /\ clFailed = Null /\ clMades = 0
    /\ clRunning = FALSE /\ clExit = FALSE
    /\ clThread = [t \in Threads |-> "none"]
    /\ clApp = "idle" /\ clCnt = 0 /\ clLoop = FALSE
    /\ clGaveUp = FALSE /\ clLoops = 0 /\ clTwice = FALSE

Next ==
    \/ \E at \in Failures \cup {Null} : Construct(at)
    \/ Destroy
    \/ Yield \/ YieldReturns
    \/ StartLoop \/ StopLoop \/ StopWaits
    \/ \E t \in Threads : ThreadStep(t)

Spec == Init /\ [][Next]_vars /\ WF_vars(StopWaits)
-----------------------------------------------------------------------------
TypeOK ==
    /\ clHeld \subseteq All
    /\ clCnt \in 0 .. StopCap - 1
    /\ clThread \in [Threads -> {"none", "starting", "check", "yield", "sleep", "ending", "leaving",
                                 "ended"}]

\* A client that could not be made, or that was destroyed, leaves nothing allocated, and
\* nothing is released that is not held, wherever the construction fails; only where the
\* client id cannot be allocated are the locks and lists left (IOT_MQTT_Construct).
AllReleased ==
    /\ ~clMade => clHeld = {} \/ clFailed = "client_id"
    /\ ~clTwice

\* One task at a time is inside the yield, and no thread outlives its client, as long as
\* IOT_MQTT_StopLoop did not give up and the client has had one loop: yield_thread_exit is
\* still set from the loop before while the next one runs (IOT_MQTT_Yield, IOT_MQTT_StopLoop).
OneYield ==
    ~clGaveUp /\ clLoops <= 1 =>
        /\ \A t \in Threads : clThread[t] = "yield" =>
               clApp # "yield" /\ \A u \in Threads : clThread[u] = "yield" => u = t
        /\ ~clMade => \A t \in Threads : ~Alive(t)

\* IOT_MQTT_StopLoop returns.
StopReturns == clApp = "stop" ~> clApp # "stop"
=============================================================================
