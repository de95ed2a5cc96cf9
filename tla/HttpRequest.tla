----------------------------- MODULE HttpRequest -----------------------------
(* How the HTTP client sends a request (utils_httpc.c): the URL is taken apart, *)
(* the head of the request is collected piece by piece in a buffer that is      *)
(* written out where it is full and at the end, and the data of a POST follows. *)
(* A text is a sequence of the parts that matter; the network writes all, some  *)
(* or nothing of what it is given.                                              *)
EXTENDS Integers, Sequences

CONSTANTS SendCap,      \* HTTP_CLIENT_SEND_BUF_SIZE
          HostCap,      \* HTTP_CLIENT_MAX_HOST_LEN
          PathCap,      \* HTTP_CLIENT_MAX_URL_LEN
          Targets,      \* what may follow "://" in a URL
          HeaderLens,   \* lengths of the header fields of the application
          Null

VARIABLES
    hrTarget, hrAuth, hrHeader, hrPost,  \* the request that is sent
    hrPieces,   \* the pieces of the head that are still to be collected, the first in part
    hrBuf,      \* send_buf
    hrIdx,      \* send_idx, what the caller takes to be in the buffer
    hrAt,       \* idx of _http_client_get_info
    hrWire,     \* what the peer has got
    hrCut,      \* a write went out in part
    hrResult    \* what the call returned, Null before

vars == <<hrTarget, hrAuth, hrHeader, hrPost, hrPieces, hrBuf, hrIdx, hrAt, hrWire, hrCut,
          hrResult>>
hrAsked == <<hrTarget, hrAuth, hrHeader, hrPost>>

AtMost(a, b) == IF a < b THEN a ELSE b
Copies(c, n) == [i \in 1..n |-> c]

\* Where c is first in s, 0 if it is not (strchr).
First(c, s) ==
    CHOOSE i \in 0..Len(s) : /\ i > 0 => s[i] = c
                             /\ \A j \in 1..Len(s) : s[j] = c => i > 0 /\ i <= j

Slash == First("/", hrTarget)
Hash  == First("#", hrTarget)

\* A URL without a path has "/" for one, and its host is taken at any length.
Host == IF Slash = 0 THEN hrTarget ELSE SubSeq(hrTarget, 1, Slash - 1)
Path == IF Slash = 0 THEN <<"/">>
        ELSE SubSeq(hrTarget, Slash, IF Hash = 0 THEN Len(hrTarget) ELSE Hash - 1)

\* The length of a path that begins after the fragment would be negative, and is too large.
Parsed ==
    Slash > 0 => /\ Len(Host) < HostCap
                 /\ Hash = 0 \/ Hash > Slash
                 /\ Len(Path) < PathCap

RequestLine == <<"method">> \o Path \o <<"version", "eol", "host">> \o Host \o <<"eol">>

\* The user and the password, in base64, with a line feed.
Auth == <<<<"basic">>, <<"user", "eol">>>>

\* The request line is printed into a buffer of its own, where it may be cut short; an empty
\* piece takes part too.
Pieces ==
    <<SubSeq(RequestLine, 1, AtMost(Len(RequestLine), SendCap - 1))>>
      \o (IF hrAuth THEN Auth ELSE <<>>)
      \o <<Copies("field", hrHeader)>>
      \o (IF hrPost THEN <<<<"length", "eol">>, <<"type", "eol">>>> ELSE <<>>)
      \o << <<"eol">> >>

Data == IF hrPost THEN <<"data", "data">> ELSE <<>>

Init ==
    /\ hrTarget \in Targets /\ hrAuth \in BOOLEAN /\ hrHeader \in HeaderLens
    /\ hrPost \in BOOLEAN
    /\ hrPieces = Pieces
    /\ hrBuf = Copies("zero", SendCap) /\ hrIdx = 0 /\ hrAt = 0
    /\ hrWire = <<>> /\ hrCut = FALSE
    /\ hrResult = IF Parsed THEN Null ELSE "unparsed"

\* The network takes k of what is written.
Written(text, k) ==
    /\ hrWire' = hrWire \o SubSeq(text, 1, k)
    /\ hrCut' = (hrCut \/ k < Len(text))

\* The next piece begins where the caller thinks the buffer ends.
NextPiece(idx) == hrPieces' = Tail(hrPieces) /\ hrIdx' = idx /\ hrAt' = idx

\* One round of the loop of _http_client_get_info.  A full buffer is written; if any of it
\* got out the function returns there, the rest of the piece and the new index with it being
\* lost, and otherwise it writes the full buffer once more.
Collect ==
    /\ hrResult = Null /\ hrPieces # <<>>
    /\ LET piece == Head(hrPieces)
           n     == AtMost(SendCap - hrAt, Len(piece))
           rest  == SubSeq(piece, n + 1, Len(piece))
       IN
       /\ hrBuf' = [i \in 1..SendCap |->
                      IF i > hrAt /\ i <= hrAt + n THEN piece[i - hrAt] ELSE hrBuf[i]]
       /\ \/ /\ hrAt + n < SendCap
             /\ NextPiece(hrAt + n)
             /\ UNCHANGED <<hrWire, hrCut>>
          \/ /\ hrAt + n = SendCap
             /\ \E k \in {0, 1, SendCap} :
                  /\ Written(hrBuf', k)
                  /\ \/ k > 0 /\ NextPiece(hrIdx)
                     \/ k = 0 /\ rest = <<>> /\ NextPiece(SendCap)
                     \/ /\ k = 0 /\ rest # <<>>
                        /\ hrPieces' = <<rest>> \o Tail(hrPieces)
                        /\ hrAt' = SendCap
                        /\ UNCHANGED hrIdx
    /\ UNCHANGED <<hrAsked, hrResult>>

\* What is in the buffer is written, and for a POST the data after it.  A write that gets
\* anything out counts as complete.
Send ==
    /\ hrResult = Null /\ hrPieces = <<>>
    /\ LET head == SubSeq(hrBuf, 1, hrIdx) IN
       \/ Written(head, 0) /\ hrResult' = "closed"
       \/ \E k \in {1, Len(head)}, d \in 0..Len(Data) :
            /\ hrWire' = hrWire \o SubSeq(head, 1, k) \o SubSeq(Data, 1, d)
            /\ hrCut' = (hrCut \/ k < Len(head) \/ d < Len(Data))
            /\ hrResult' = IF hrPost /\ d = 0 THEN "closed" ELSE "sent"
    /\ UNCHANGED <<hrAsked, hrPieces, hrBuf, hrIdx, hrAt>>

Next == Collect \/ Send
-----------------------------------------------------------------------------
\* The ranges of the variables.
TypeOK ==
    /\ hrTarget \in Targets /\ hrAuth \in BOOLEAN /\ hrHeader \in HeaderLens
    /\ hrPost \in BOOLEAN /\ hrCut \in BOOLEAN
    /\ hrIdx \in 0..SendCap /\ hrAt \in 0..SendCap
    /\ Len(hrBuf) = SendCap
    /\ hrResult \in {Null, "unparsed", "closed", "sent"}

\* What the peer should read: the URL without scheme and fragment, the fields and the data.
Meant ==
    <<"method">> \o (IF Slash = 0 THEN <<"/">>
                     ELSE SubSeq(hrTarget, Slash, IF Hash > Slash THEN Hash - 1 ELSE Len(hrTarget)))
      \o <<"version", "eol", "host">>
      \o SubSeq(hrTarget, 1, IF Slash = 0 THEN Len(hrTarget) ELSE Slash - 1) \o <<"eol">>
      \o (IF hrAuth THEN <<"basic", "user", "eol">> ELSE <<>>) \o Copies("field", hrHeader)
      \o (IF hrPost THEN <<"length", "eol", "type", "eol">> ELSE <<>>) \o <<"eol">>

\* A request that is sent with no write cut short has reached the peer whole and once where
\* its head is shorter than the buffer; a longer one begins as it should, and is garbled
\* after that (_http_client_get_info, _http_client_send_header).
RequestWhole ==
    hrResult = "sent" /\ ~hrCut =>
        IF Len(Meant) < SendCap THEN hrWire = Meant \o Data
        ELSE Len(RequestLine) < SendCap => SubSeq(hrWire, 1, SendCap) = SubSeq(Meant, 1, SendCap)
=============================================================================
