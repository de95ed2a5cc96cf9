------------------------------ MODULE LogUpload ------------------------------
(***************************************************************************)
(* The log uploader of log_upload.c.  Every log line is appended to one    *)
(* buffer; now and then the buffer is posted to the log server, in several *)
(* pieces when it is large.  The buffer is not locked while a piece is on  *)
(* its way, and the post itself logs, so lines are appended behind the     *)
(* part that is being sent.  What could not be sent is saved in the flash, *)
(* when the application gave the functions for it, and posted before the   *)
(* buffer next time.                                                       *)
(*                                                                         *)
(* Lines have the same size; a cell of the buffer holds a line, or Zero    *)
(* where post_log_to_server cleared the part that has been sent.           *)
(***************************************************************************)
EXTENDS Naturals, Sequences

CONSTANTS
    LogCap,       \* lines the buffer holds (LOG_UPLOAD_BUFFER_SIZE)
    LowCap,       \* free lines below which an upload is due (LOG_LOW_BUFFER_THRESHOLD)
    PostCap,      \* lines of one POST (MAX_HTTP_LOG_POST_SIZE)
    SaveCap,      \* lines the flash may hold (MAX_LOG_SAVE_SIZE)
    SaveEnabled,  \* log_save_enabled: all four functions of the application are there
    MaxLogs,      \* bound: lines that are logged
    MaxClears,    \* bound: changes of the log level
    MaxFails,     \* bound: posts that fail
    Zero, Null

VARIABLES
    lgBuffer,   \* log_buffer behind its header; its length is log_index
    lgSaved,    \* the lines in the flash
    lgResend,   \* unhandle_saved_log
    lgErrOnly,  \* upload_only_in_comm_err
    lgUpload,   \* the running do_log_upload: stage, upload_log_size, lines sent
    lgServer,   \* the lines the server has got
    lgTwice,    \* history: lines the server got again
    lgLogged,   \* history: lines logged so far; the number of a line
    lgClears,   \* history: changes of the log level so far
    lgGone,     \* history: lines given up for a reason the code names
    lgFails     \* history: posts that failed so far

lgReceived == <<lgServer, lgTwice>>

lgVars == <<lgBuffer, lgSaved, lgResend, lgErrOnly, lgUpload, lgReceived, lgLogged,
            lgClears, lgGone, lgFails>>

Init ==
    /\ lgBuffer = <<>> /\ lgSaved = <<>>
    /\ lgResend = TRUE
    /\ lgErrOnly = FALSE
    /\ lgUpload = Null
    /\ lgServer = {} /\ lgTwice = {}
    /\ lgLogged = 0 /\ lgClears = 0
    /\ lgGone = {}
    /\ lgFails = 0

LinesOf(s) == {s[i] : i \in DOMAIN s} \ {Zero}

-----------------------------------------------------------------------------
\* Lines are appended at any time, unless the buffer is full.

AppendLine ==
    /\ lgLogged < MaxLogs
    /\ lgLogged' = lgLogged + 1
    /\ IF Len(lgBuffer) < LogCap
         THEN lgBuffer' = Append(lgBuffer, lgLogged + 1) /\ UNCHANGED lgGone
         ELSE lgGone' = lgGone \cup {lgLogged + 1} /\ UNCHANGED lgBuffer
    /\ UNCHANGED <<lgSaved, lgResend, lgErrOnly, lgUpload, lgReceived, lgClears, lgFails>>

\* _log_level_sub_cb: the cloud changes the level, clearing the buffer when it is lowered, or
\* turns the upload off. One task yields and uploads, so this is never within an upload.
LevelChanged(disable, clears) ==
    /\ lgClears < MaxClears
    /\ lgUpload = Null
    /\ disable => clears
    /\ lgClears' = lgClears + 1
    /\ lgErrOnly' = disable
    /\ IF clears
         THEN lgBuffer' = <<>> /\ lgGone' = lgGone \cup LinesOf(lgBuffer)
         ELSE UNCHANGED <<lgBuffer, lgGone>>
    /\ UNCHANGED <<lgSaved, lgResend, lgUpload, lgReceived, lgLogged, lgFails>>

-----------------------------------------------------------------------------
\* do_log_upload.

LowBuffer == LogCap - Len(lgBuffer) < LowCap

\* The upload begins with what was saved, or with the buffer when there is nothing.
StageFor(saved) == IF SaveEnabled /\ lgResend /\ saved # <<>> THEN "saved" ELSE "buffer"

\* Forced, or due: by the upload timer at any time, or at once when the buffer is low.
BeginUpload(forced) ==
    /\ lgUpload = Null
    /\ forced \/ ~lgErrOnly
    /\ lgBuffer # <<>> \/ StageFor(lgSaved) = "saved"
    /\ lgUpload' = [stage |-> StageFor(lgSaved), size |-> Len(lgBuffer), sent |-> 0]
    /\ lgResend' = IF SaveEnabled /\ lgSaved = <<>> THEN FALSE ELSE lgResend
    /\ UNCHANGED <<lgBuffer, lgSaved, lgErrOnly, lgReceived, lgLogged, lgClears, lgGone, lgFails>>

\* Not forced while logs go out only in case of an error: a low buffer is emptied.
DropLowBuffer ==
    /\ lgUpload = Null /\ lgErrOnly /\ LowBuffer
    /\ lgBuffer' = <<>>
    /\ lgGone' = lgGone \cup LinesOf(lgBuffer)
    /\ UNCHANGED <<lgSaved, lgResend, lgErrOnly, lgUpload, lgReceived, lgLogged, lgClears, lgFails>>

Lesser(a, b) == IF a < b THEN a ELSE b

\* The lines of one POST: from the front, up to a delimiter below the limit.
Piece(lines, left) == SubSeq(lines, 1, Lesser(PostCap, left))

\* The server has the piece, whether or not its answer comes back.
Sent(piece) ==
    /\ lgServer' = lgServer \cup LinesOf(piece)
    /\ lgTwice' = lgTwice \cup (lgServer \cap LinesOf(piece))

Failed == lgFails < MaxFails /\ lgFails' = lgFails + 1

\* A piece of the saved lines is posted from a copy in memory.
PostSaved ==
    LET left == SubSeq(lgSaved, lgUpload.sent + 1, Len(lgSaved))
        piece == Piece(left, Len(left))
        done == lgUpload.sent + Len(piece)
    IN  /\ lgUpload # Null /\ lgUpload.stage = "saved"
        /\ Sent(piece)
        /\ IF done < Len(lgSaved)
             THEN /\ lgUpload' = [lgUpload EXCEPT !.sent = done]
                  /\ UNCHANGED <<lgSaved, lgResend>>
             ELSE /\ lgSaved' = <<>> /\ lgResend' = FALSE
                  /\ lgUpload' = IF lgBuffer = <<>> THEN Null
                                 ELSE [stage |-> "buffer", size |-> Len(lgBuffer), sent |-> 0]
        /\ UNCHANGED <<lgBuffer, lgErrOnly, lgLogged, lgClears, lgGone, lgFails>>

\* A failure keeps them all in the flash, those that went out too, and goes on to the buffer.
PostSavedFails(reached) ==
    LET left == SubSeq(lgSaved, lgUpload.sent + 1, Len(lgSaved))
    IN  /\ lgUpload # Null /\ lgUpload.stage = "saved"
        /\ Failed
        /\ IF reached THEN Sent(Piece(left, Len(left))) ELSE UNCHANGED lgReceived
        /\ lgUpload' = IF lgBuffer = <<>> THEN Null
                       ELSE [stage |-> "buffer", size |-> Len(lgBuffer), sent |-> 0]
        /\ UNCHANGED <<lgBuffer, lgSaved, lgResend, lgErrOnly, lgLogged, lgClears, lgGone>>

Zeros(n) == [i \in 1 .. n |-> Zero]

\* The lines of the upload that are left move to the front, the room behind them is cleared.
Forward(sent) ==
    LET left == lgUpload.size - lgUpload.sent - sent
    IN  SubSeq(lgBuffer, sent + 1, sent + left) \o Zeros(lgUpload.sent + sent)
          \o SubSeq(lgBuffer, lgUpload.size + 1, Len(lgBuffer))

\* One shot when all fits: the buffer is left as it is. Otherwise piece by piece.
PostBuffer ==
    LET left == lgUpload.size - lgUpload.sent
        piece == Piece(lgBuffer, left)
        oneShot == lgUpload.sent = 0 /\ left <= PostCap
    IN  /\ lgUpload # Null /\ lgUpload.stage = "buffer"
        /\ Sent(piece)
        /\ lgBuffer' = IF oneShot THEN lgBuffer ELSE Forward(Len(piece))
        /\ lgUpload' = IF Len(piece) < left
                         THEN [lgUpload EXCEPT !.sent = @ + Len(piece)]
                         ELSE [lgUpload EXCEPT !.stage = "finish"]
        /\ UNCHANGED <<lgSaved, lgResend, lgErrOnly, lgLogged, lgClears, lgGone, lgFails>>

\* Mutant: the lines that are moved to the front begin one too late.
NewLinesCut(size) == SubSeq(lgBuffer, Lesser(size + 2, Len(lgBuffer) + 1), Len(lgBuffer))

\* The new lines, behind the part that was taken for the upload.
NewLines(size) == SubSeq(lgBuffer, size + 1, Len(lgBuffer))

\* Of a failed upload what was not sent is still in front, followed by the new lines.
Unsent(size) == SubSeq(lgBuffer, 1, size - lgUpload.sent) \o NewLines(size)

\* Without functions to save, the lines taken for the upload are given up at the end.
PostBufferFails(reached) ==
    LET left == lgUpload.size - lgUpload.sent
    IN  /\ lgUpload # Null /\ lgUpload.stage = "buffer"
        /\ Failed
        /\ IF reached THEN Sent(Piece(lgBuffer, left)) ELSE UNCHANGED lgReceived
        /\ IF SaveEnabled
             THEN /\ lgBuffer' = Unsent(lgUpload.size)
                  /\ lgUpload' = [stage |-> "save", size |-> Len(lgBuffer'), sent |-> 0]
                  /\ UNCHANGED lgGone
             ELSE /\ lgUpload' = [lgUpload EXCEPT !.stage = "finish"]
                  /\ lgGone' = lgGone \cup LinesOf(SubSeq(lgBuffer, 1, left))
                  /\ UNCHANGED lgBuffer
        /\ UNCHANGED <<lgSaved, lgResend, lgErrOnly, lgLogged, lgClears>>

\* _save_log, without the lock: what is in the flash is deleted when there is no room,
\* and the application's function may write less than it was given.
Save(complete) ==
    LET lines == SubSeq(lgBuffer, 1, lgUpload.size)
        full == Len(lgSaved) + lgUpload.size > SaveCap
        kept == IF full THEN <<>> ELSE lgSaved
    IN  /\ lgUpload # Null /\ lgUpload.stage = "save"
        /\ lgSaved' = IF complete THEN kept \o lines ELSE kept
        /\ lgGone' = lgGone \cup (IF full THEN LinesOf(lgSaved) ELSE {})
                            \cup (IF complete THEN {} ELSE LinesOf(lines))
        /\ lgResend' = TRUE
        /\ lgUpload' = [lgUpload EXCEPT !.stage = "finish"]
        /\ UNCHANGED <<lgBuffer, lgErrOnly, lgReceived, lgLogged, lgClears, lgFails>>

\* The new lines move to the front.
Finish ==
    /\ lgUpload # Null /\ lgUpload.stage = "finish"
    /\ lgBuffer' = NewLines(lgUpload.size)
    /\ lgUpload' = Null
    /\ UNCHANGED <<lgSaved, lgResend, lgErrOnly, lgReceived, lgLogged, lgClears, lgGone, lgFails>>

Upload ==
    \/ PostSaved \/ PostBuffer \/ Finish
    \/ \E reached \in BOOLEAN : PostSavedFails(reached) \/ PostBufferFails(reached)
    \/ \E complete \in BOOLEAN : Save(complete)

Next ==
    \/ AppendLine
    \/ \E disable, clears \in BOOLEAN : LevelChanged(disable, clears)
    \/ \E forced \in BOOLEAN : BeginUpload(forced)
    \/ DropLowBuffer
    \/ Upload

\* do_log_upload has no loop that waits: each post ends by an answer or a timeout.
Fairness == WF_lgVars(Upload)

Spec == Init /\ [][Next]_lgVars /\ Fairness
-----------------------------------------------------------------------------
\* What an upload does next (_log_uploader).
Stages == {"saved", "buffer", "save", "finish"}

\* The ranges of the variables (Qcloud_IoT_Log).
TypeOK ==
    /\ Len(lgBuffer) <= LogCap /\ LinesOf(lgBuffer) \subseteq 1 .. lgLogged
    /\ Len(lgSaved) <= SaveCap + LogCap
    /\ lgUpload = Null \/ /\ lgUpload.stage \in Stages
                          /\ lgUpload.sent \in 0 .. SaveCap + LogCap
    /\ lgTwice \subseteq lgServer /\ lgServer \subseteq 1 .. lgLogged

\* A line is in the buffer, in the flash or at the server, unless it was given up for one
\* of the reasons the code has: no room, a lower level, no functions to save, a flash that
\* is full or does not take it. Above all no line vanishes that was logged during a post.
NoLineVanishes ==
    1 .. lgLogged \subseteq
        lgGone \cup LinesOf(lgBuffer) \cup LinesOf(lgSaved) \cup lgServer

\* As long as no post has failed, the server gets no line twice and none before an older
\* one that is still to come.
ServerInOrder ==
    lgFails = 0 => /\ lgTwice = {}
                   /\ \A line \in lgServer : 1 .. line \subseteq lgServer \cup lgGone
=============================================================================
