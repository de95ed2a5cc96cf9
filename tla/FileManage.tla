------------------------------- MODULE FileManage -------------------------------
(***************************************************************************)
(* The file client of file_manage_client.c: the cloud orders a file to be  *)
(* fetched or deleted, and the application asks to post files.  One state  *)
(* says what the client is busy with; as long as it is busy with a fetch   *)
(* or a deletion every message is dropped, the answer to a post included.  *)
(* A post waits in a list, which holds a few and loses its expired entries *)
(* only when an answer to another post is looked up.                       *)
(*                                                                         *)
(* A unit of a file is the pair of the order that named it and its offset. *)
(***************************************************************************)
EXTENDS Naturals, Sequences, FiniteSets

CONSTANTS
    Size,       \* units of every file
    WaitCap,    \* MAX_FILE_WAIT_POST
    MaxOrders,  \* bound: orders of the cloud
    MaxPosts,   \* bound: requests to post a file
    MaxFaults,  \* bound: connects and fetches that fail
    Null

VARIABLES
    fmState,    \* inited, fetching, fetched, deleting or disconnected
    fmInfo,     \* the order whose version, name and checksum, and whose URL, the handle holds
    fmLinked,   \* the HTTP handle is connected
    fmDigest,   \* what the checksum covers
    fmFile,     \* what the application has stored, with its order
    fmWaiting,  \* file_wait_post_list: request ids with their timers; ids grow to its tail
    fmUp,       \* requests for a URL and for the version on their way to the cloud
    fmDown,     \* messages on their way back
    fmOrders,   \* history: orders so far, the number of an order
    fmPosts,    \* history: requests so far, request_id
    fmFaults,   \* history: faults so far
    fmPosted    \* history: the posts that were sent to the store, in order

fmFetch == <<fmState, fmInfo, fmLinked, fmDigest, fmFile>>
fmHistory == <<fmOrders, fmPosts, fmFaults, fmPosted>>
fmVars == <<fmFetch, fmWaiting, fmUp, fmDown, fmHistory>>

Nothing == [name |-> Null, url |-> Null]

Init ==
    /\ fmState = "inited"
    /\ fmInfo = Nothing
    /\ fmLinked = FALSE
    /\ fmDigest = <<>>
    /\ fmFile = [order |-> Null, units |-> <<>>]
    /\ fmWaiting = {}
    /\ fmUp = {} /\ fmDown = {}
    /\ fmOrders = 0 /\ fmPosts = 0 /\ fmFaults = 0
    /\ fmPosted = <<>>

Units(order) == [i \in 1 .. Size |-> <<order, i - 1>>]

Fault == fmFaults < MaxFaults /\ fmFaults' = fmFaults + 1

-----------------------------------------------------------------------------
\* The cloud.

CloudOrders(order) ==
    /\ fmOrders < MaxOrders
    /\ fmOrders' = fmOrders + 1
    /\ fmDown' = fmDown \cup {[type |-> order, n |-> fmOrders + 1]}
    /\ UNCHANGED <<fmFetch, fmWaiting, fmUp, fmPosts, fmFaults, fmPosted>>

\* QoS 1: a URL may come again, so its request may stay. That the version was taken
\* changes nothing, and is no message here.
CloudAnswers(r, again) ==
    /\ again => r.type = "url"
    /\ fmUp' = IF again THEN fmUp ELSE fmUp \ {r}
    /\ \/ fmDown' = fmDown \cup {[type |-> IF r.type = "url" THEN "url" ELSE "noversion",
                                   n |-> r.n]}
       \/ r.type = "version" /\ UNCHANGED fmDown
    /\ UNCHANGED <<fmFetch, fmWaiting, fmHistory>>

-----------------------------------------------------------------------------
\* Reports, which end a transfer.

\* _reset_handle_status clears the fields and starts the checksum again.
Reset == fmState' = "inited" /\ fmInfo' = Nothing /\ fmDigest' = <<>>

\* Without a version the report returns before it resets anything.
ReportResult ==
    IF fmInfo.name = Null THEN UNCHANGED <<fmState, fmInfo, fmDigest>> ELSE Reset

-----------------------------------------------------------------------------
\* The message callback.

IsOpen == fmState = "inited"

HandleMessage(m) == m \in fmDown /\ fmDown' = fmDown \ {m}

HandleWhileBusy(m) ==
    /\ ~IsOpen
    /\ HandleMessage(m)
    /\ UNCHANGED <<fmFetch, fmWaiting, fmUp, fmHistory>>

\* An order to fetch, with all its fields.
HandleUpdate(m) ==
    /\ IsOpen /\ m.type = "update"
    /\ HandleMessage(m)
    /\ fmInfo' = [name |-> m.n, url |-> m.n]
    /\ fmState' = "fetching"
    /\ UNCHANGED <<fmLinked, fmDigest, fmFile, fmWaiting, fmUp, fmHistory>>

\* One that lacks a field: refused when it has a version, and kept as it came if not.
HandlePartial(m, version) ==
    /\ IsOpen /\ m.type = "update"
    /\ HandleMessage(m)
    /\ IF version THEN Reset
       ELSE fmInfo' = [name |-> Null, url |-> m.n] /\ UNCHANGED <<fmState, fmDigest>>
    /\ UNCHANGED <<fmLinked, fmFile, fmWaiting, fmUp, fmHistory>>

\* An order to delete is done and reported at once, but without a version the report
\* fails and the client stays in its state.
HandleDelete(m, version) ==
    /\ IsOpen /\ m.type = "delete"
    /\ HandleMessage(m)
    /\ IF version THEN Reset
       ELSE /\ fmState' = "deleting"
            /\ fmInfo' = [fmInfo EXCEPT !.name = Null]
            /\ UNCHANGED fmDigest
    /\ UNCHANGED <<fmLinked, fmFile, fmWaiting, fmUp, fmHistory>>

\* The cloud did not take the report of the version.
HandleNoVersion(m) ==
    /\ IsOpen /\ m.type = "noversion"
    /\ HandleMessage(m)
    /\ fmState' = "fetched"
    /\ UNCHANGED <<fmInfo, fmLinked, fmDigest, fmFile, fmWaiting, fmUp, fmHistory>>

Found(n) == \E e \in fmWaiting : e.n = n

\* The lookup goes from the tail to the entry, or to the head when there is none, and drops
\* the expired ones that it passes.
Kept(n) == {e \in fmWaiting : ~e.expired \/ (Found(n) /\ e.n <= n)}

\* Mutant: an entry stays in the list once its file was posted.
ListAfterKept(n) == Kept(n)

ListAfter(n) == {e \in Kept(n) : e.n # n}

\* The answer to a post that is in the list: the file goes to the store, well or not, that
\* is reported, the callback runs, and the post is taken out.
HandleUrl(m) ==
    /\ IsOpen /\ m.type = "url"
    /\ HandleMessage(m)
    /\ fmPosted' = IF Found(m.n) THEN Append(fmPosted, m.n) ELSE fmPosted
    /\ fmWaiting' = ListAfter(m.n)
    /\ UNCHANGED <<fmFetch, fmUp, fmOrders, fmPosts, fmFaults>>

\* A token or a URL is missing: the post stays in the list.
HandleBadUrl(m) ==
    /\ IsOpen /\ m.type = "url"
    /\ HandleMessage(m)
    /\ fmWaiting' = Kept(m.n)
    /\ UNCHANGED <<fmFetch, fmUp, fmHistory>>

-----------------------------------------------------------------------------
\* Calls of the application.

\* IOT_FileManage_ReportVersion drops whatever was running.
ReportVersion ==
    /\ [type |-> "version", n |-> 0] \notin fmUp
    /\ Reset
    /\ fmUp' = fmUp \cup {[type |-> "version", n |-> 0]}
    /\ UNCHANGED <<fmLinked, fmFile, fmWaiting, fmDown, fmHistory>>

\* The verdict of the application: upgraded, failed, or no space.
ReportUpgrade ==
    /\ fmState # "inited"
    /\ ReportResult
    /\ UNCHANGED <<fmLinked, fmFile, fmWaiting, fmUp, fmDown, fmHistory>>

\* When the list is full the request is refused; a publish that fails leaves its entry.
PostRequest(published) ==
    /\ fmPosts < MaxPosts
    /\ fmPosts' = fmPosts + 1
    /\ IF Cardinality(fmWaiting) < WaitCap
         THEN /\ fmWaiting' = fmWaiting \cup {[n |-> fmPosts + 1, expired |-> FALSE]}
              /\ fmUp' = IF published THEN fmUp \cup {[type |-> "url", n |-> fmPosts + 1]} ELSE fmUp
         ELSE UNCHANGED <<fmWaiting, fmUp>>
    /\ UNCHANGED <<fmFetch, fmDown, fmOrders, fmFaults, fmPosted>>

TimerExpires(e) ==
    /\ ~e.expired
    /\ fmWaiting' = (fmWaiting \ {e}) \cup {[e EXCEPT !.expired = TRUE]}
    /\ UNCHANGED <<fmFetch, fmUp, fmDown, fmHistory>>

\* Mutant: a fetch from the beginning goes on with the old checksum.
DigestKept(offset) == fmDigest

\* A download from the beginning starts its checksum again.
DigestAtStart(offset) == IF offset = 0 THEN <<>> ELSE fmDigest

\* From the beginning, or on from what was stored of this very file.
StartDownload(resume) ==
    LET offset == IF resume THEN Len(fmFile.units) ELSE 0
    IN  /\ fmState = "fetching" /\ ~fmLinked
        /\ resume => fmFile.order = fmInfo.url /\ fmFile.units # <<>>
        /\ fmDigest' = DigestAtStart(offset)
        /\ fmFile' = IF resume THEN fmFile ELSE [order |-> fmInfo.url, units |-> <<>>]
        /\ \/ fmLinked' = TRUE /\ UNCHANGED <<fmState, fmFaults>>
           \/ Fault /\ fmState' = "disconnected" /\ UNCHANGED fmLinked
        /\ UNCHANGED <<fmInfo, fmWaiting, fmUp, fmDown, fmOrders, fmPosts, fmPosted>>

FetchYield ==
    LET n == Len(fmFile.units)
        unit == <<fmInfo.url, n>>
    IN  /\ fmState = "fetching" /\ fmLinked /\ fmFile.order = fmInfo.url /\ n < Size
        /\ fmFile' = [fmFile EXCEPT !.units = Append(@, unit)]
        /\ fmDigest' = Append(fmDigest, unit)
        /\ fmState' = IF n + 1 = Size THEN "fetched" ELSE fmState
        /\ fmLinked' = (n + 1 < Size)
        /\ UNCHANGED <<fmInfo, fmWaiting, fmUp, fmDown, fmHistory>>

\* A fetch fails; when the URL is refused or unknown that is reported.
FetchFails(reported) ==
    /\ fmState = "fetching" /\ fmLinked
    /\ Fault
    /\ fmLinked' = FALSE
    /\ IF reported THEN ReportResult ELSE UNCHANGED <<fmState, fmInfo, fmDigest>>
    /\ UNCHANGED <<fmFile, fmWaiting, fmUp, fmDown, fmOrders, fmPosts, fmPosted>>

\* IOT_FILE_CMD_CHECK_FIRMWARE: a checksum that does not match is reported.
CheckFails ==
    /\ fmState = "fetched"
    /\ fmInfo.name # Null => fmDigest # Units(fmInfo.name)
    /\ ReportResult
    /\ UNCHANGED <<fmLinked, fmFile, fmWaiting, fmUp, fmDown, fmHistory>>

Next ==
    \/ \E order \in {"update", "delete"} : CloudOrders(order)
    \/ \E r \in fmUp, again \in BOOLEAN : CloudAnswers(r, again)
    \/ \E m \in fmDown : \/ HandleWhileBusy(m) \/ HandleUpdate(m)
                         \/ HandleNoVersion(m) \/ HandleUrl(m) \/ HandleBadUrl(m)
                         \/ \E version \in BOOLEAN : HandlePartial(m, version)
                                                     \/ HandleDelete(m, version)
    \/ ReportVersion \/ ReportUpgrade \/ CheckFails
    \/ \E published \in BOOLEAN : PostRequest(published)
    \/ \E e \in fmWaiting : TimerExpires(e)
    \/ \E resume \in BOOLEAN : StartDownload(resume)
    \/ FetchYield
    \/ \E reported \in BOOLEAN : FetchFails(reported)

Spec == Init /\ [][Next]_fmVars
-----------------------------------------------------------------------------
\* The ranges of the variables (FileManageHandle).
TypeOK ==
    /\ fmState \in {"inited", "fetching", "fetched", "deleting", "disconnected"}
    /\ fmLinked \in BOOLEAN
    /\ Cardinality(fmWaiting) <= WaitCap
    /\ Len(fmFile.units) <= Size /\ Len(fmDigest) <= Size

\* A file that was asked to be posted goes to the store once, however often the answer
\* comes and whatever expires meanwhile, where the callback for the URL does not yield.
PostedOnce == \A i, j \in 1 .. Len(fmPosted) : fmPosted[i] = fmPosted[j] => i = j

\* What is fetched and what it is reported and checked as are of one order.
OneOrder == fmState = "fetching" => fmInfo.name # Null /\ fmInfo.url = fmInfo.name

\* The checksum of a file that was fetched covers just what the application stored, which
\* is the whole file: neither a resumed fetch nor an earlier one spoils it.
ChecksumOfFile ==
    (fmState = "fetched" /\ fmInfo.name # Null) =>
        fmDigest = fmFile.units /\ fmFile.units = Units(fmInfo.name)
=============================================================================
