----------------------------- MODULE AsrRequests -----------------------------
(* The list of the requests of speech recognition (asr_client.c).  A request is *)
(* posted through the file client, which gives it an id and, once the audio is  *)
(* in the cloud, a token; the cloud is then asked to recognise what that token  *)
(* names, and its results carry the token.  A request that is late is dropped   *)
(* only when some other operation walks over it.  The slice of a stream         *)
(* ("realtime") lies in a file of its own until its token is there.             *)
(* The audio is uploaded, and the messages are sent, by the clients below.      *)
EXTENDS Integers, FiniteSets

CONSTANTS ReqCap,     \* MAX_ASR_REQUEST
          MaxAsks,    \* bound on what is posted to the file client
          Null

VARIABLES
    asList,       \* asr_req_list: [id, type, token, late]; ids grow to its tail
    asPosted,     \* request_id of the file client
    asFiles,      \* the files of slices, each named by the id of its request
    asStray,      \* those that the code has given up
    asUp,         \* the ids whose upload is still to be answered, each once
    asAsked,      \* the tokens for which the cloud was asked
    asNotify      \* the result callback that runs: [id, last], the ids given out before it
                  \* as since, and as history the token of the result and whether the list
                  \* had its request; or Null

vars == <<asList, asPosted, asFiles, asStray, asUp, asAsked, asNotify>>

Types == {"record", "realtime"}

\* The requests of the list with this id, or with this token: one at most.
ById(id) == {r \in asList : r.id = id}
ByToken(token) == {r \in asList : r.token = token}

\* The list after a walk from its tail, to the request that is found or else to the head,
\* that drops the requests of old before it.
Walked(found, old) == {r \in asList : r \notin old \/ \E to \in found : r.id <= to.id}

Late == {r \in asList : r.late}
LateUnasked == {r \in Late : r.token = Null}

\* The slices whose files wait to be uploaded.
Slices(list) == {r.id : r \in {q \in list : q.type = "realtime" /\ q.token = Null}}

Without(list, id) == {r \in list : r.id # id}

\* Dropping a request from the list frees it and leaves its file where it is.
Becomes(list) ==
    /\ asList' = list
    /\ asStray' = asStray \cup ((Slices(asList) \ Slices(list)) \cap asFiles')

Init ==
    /\ asList = {} /\ asPosted = 0 /\ asFiles = {} /\ asStray = {} /\ asUp = {}
    /\ asAsked = {} /\ asNotify = Null
-----------------------------------------------------------------------------
(* Requests of the application, from the result callback too.                 *)

\* IOT_FileManage_Post_Request: an id is used up whether or not it gets out.
Post == asPosted < MaxAsks /\ asPosted' = asPosted + 1

\* Where the list is full every late request leaves it with its file, and this one is given
\* up with its own; the file client goes on with it.
Added(type) ==
    /\ asUp' = asUp \cup {asPosted'}
    /\ \/ /\ Cardinality(asList) < ReqCap
          /\ asList' = asList \cup {[id |-> asPosted', type |-> type, token |-> Null,
                                     late |-> FALSE]}
          /\ asFiles' = asFiles \cup {id \in {asPosted'} : type = "realtime"}
       \/ /\ Cardinality(asList) >= ReqCap
          /\ asList' = Walked({}, Late)
          /\ asFiles' = asFiles \ {r.id : r \in {q \in Late : q.type = "realtime"}}

RecordRequest ==
    /\ Post
    /\ \/ Added("record")
       \/ UNCHANGED <<asList, asUp, asFiles>>       \* the post failed
    /\ UNCHANGED <<asStray, asAsked, asNotify>>

RealtimeRequest ==
    /\ Post
    /\ \/ Added("realtime") /\ UNCHANGED asStray
       \/ UNCHANGED <<asList, asUp, asFiles, asStray>>
       \/ \* the slice cannot be written, which leaves its file; no id is used, the name of
          \* the file being one that no other slice gets
          /\ UNCHANGED <<asList, asUp>>
          /\ asFiles' = asFiles \cup {asPosted'}
          /\ asStray' = asStray \cup {asPosted'}
    /\ UNCHANGED <<asAsked, asNotify>>

Expire ==
    /\ \E r \in asList : asList' = (asList \ {r}) \cup {[r EXCEPT !.late = TRUE]}
    /\ UNCHANGED <<asPosted, asFiles, asStray, asUp, asAsked, asNotify>>
-----------------------------------------------------------------------------
(* The file client has uploaded the audio of a request, or failed to.          *)

\* The message that asks the cloud for a result may be too long, or not get out.
Ask(id) == asAsked' \in {asAsked, asAsked \cup {id}}

UploadEnds(id) ==
    /\ asNotify = Null /\ id \in asUp
    /\ asUp' = asUp \ {id}
    /\ \/ /\ ById(id) = {}
          /\ UNCHANGED <<asFiles, asAsked>>
          /\ Becomes(Walked({}, Late))
       \/ \* the token cannot be copied
          /\ ById(id) # {}
          /\ UNCHANGED <<asFiles, asAsked>>
          /\ Becomes(Walked(ById(id), Late))
       \/ /\ ById(id) # {}
          /\ asFiles' = asFiles \ {id}
          /\ Ask(id)
          /\ Becomes({IF r.id = id THEN [r EXCEPT !.token = id] ELSE r : r \in Walked(ById(id), Late)})
    /\ UNCHANGED <<asPosted, asNotify>>
-----------------------------------------------------------------------------
(* A result of the cloud.                                                      *)

\* The request that _get_req_node_by_asr_token returns: where none has the token, that at
\* the head if it has some other one.
Taker(token) ==
    IF ByToken(token) # {} THEN ByToken(token)
    ELSE {r \in asList : r.token # Null /\ \A q \in asList : r.id <= q.id}

\* The result is good, and goes to the callback of the request.
Result(token, last) ==
    /\ asNotify = Null /\ token \in asAsked
    /\ UNCHANGED asFiles
    /\ Becomes(Walked(ByToken(token), LateUnasked))
    /\ \/ Taker(token) = {} /\ UNCHANGED asNotify
       \/ \E to \in Taker(token) :
             asNotify' = [id |-> to.id, last |-> last, since |-> asPosted,
                          token |-> token, listed |-> ByToken(token) # {}]
    /\ UNCHANGED <<asPosted, asUp, asAsked>>

\* Without its number the result is dropped; an error ends the request.
BadResult(token, error) ==
    /\ asNotify = Null /\ token \in asAsked
    /\ UNCHANGED asFiles
    /\ LET walked == Walked(ByToken(token), LateUnasked)
       IN  Becomes(IF error THEN {r \in walked : \A to \in Taker(token) : r.id # to.id}
                   ELSE walked)
    /\ UNCHANGED <<asPosted, asUp, asAsked, asNotify>>

\* After the last result the request is removed.  If a request that was refused in the
\* callback has freed it meanwhile, the program stops here, or takes for it one that was
\* allocated in its place.
NotifyReturns ==
    /\ asNotify # Null
    /\ UNCHANGED asFiles
    /\ \/ ~asNotify.last /\ UNCHANGED <<asList, asStray>>
       \/ asNotify.last /\ ById(asNotify.id) # {} /\ Becomes(Without(asList, asNotify.id))
       \/ /\ asNotify.last /\ ById(asNotify.id) = {}
          /\ \E id \in asNotify.since + 1..asPosted :
                 ById(id) # {} /\ Becomes(Without(asList, id))
    /\ asNotify' = Null
    /\ UNCHANGED <<asPosted, asUp, asAsked>>

Next ==
    \/ RecordRequest
    \/ RealtimeRequest
    \/ Expire
    \/ \E id \in asUp : UploadEnds(id)
    \/ \E t \in asAsked, b \in BOOLEAN : Result(t, b)
    \/ \E t \in asAsked, b \in BOOLEAN : BadResult(t, b)
    \/ NotifyReturns
-----------------------------------------------------------------------------
Ids == 1..MaxAsks

\* The ranges of the variables, and the list within its limit.
TypeOK ==
    /\ asList \subseteq [id : Ids, type : Types, token : Ids \cup {Null}, late : BOOLEAN]
    /\ Cardinality(asList) <= ReqCap
    /\ asPosted \in 0..MaxAsks
    /\ asFiles \subseteq Ids /\ asStray \subseteq Ids /\ asUp \subseteq Ids
    /\ asAsked \subseteq Ids
    /\ asNotify = Null \/ asNotify \in [id : Ids, last : BOOLEAN, since : 0..MaxAsks,
                                         token : Ids, listed : BOOLEAN]

\* A result goes to the request whose audio it is of, as long as that is in the list, however
\* the lookups, the results of others and the requests from callbacks have thinned the list
\* out (_asr_result_notify).  When it is not, another one may get it.
ResultReachesRequest ==
    asNotify # Null /\ asNotify.listed => asNotify.id = asNotify.token

\* A slice that waits to be uploaded has its file, and every other file left is one that the
\* code has lost: not the file of a request that it holds, nor one it was to remove.
FilesOwned ==
    /\ Slices(asList) \subseteq asFiles
    /\ asFiles \ Slices(asList) = asStray
=============================================================================
