----------------------------- MODULE UrlDownload -----------------------------
(***************************************************************************)
(* A download over HTTP as the OTA, resource and file clients make it: the *)
(* handle of utils_url_download.c asks for the file in segments over one   *)
(* connection that is kept, and utils_httpc.c reads the answers into the   *)
(* buffer of the caller.  What a fetch that fails had already read is      *)
(* dropped with the connection; the caller begins again with a new handle  *)
(* at the size it has saved.                                               *)
(*                                                                         *)
(* A unit of the file is its offset.  The server answers a range with that *)
(* range, or with a page of its own under a status that the client only    *)
(* warns about.                                                            *)
(***************************************************************************)
EXTENDS Naturals, Sequences

CONSTANTS
    FileSize, SegmentSize,  \* of the file and of one range
    BufCap,                 \* units the buffer of the caller takes in one fetch
    HeadCap,                \* units that are read along with the header of an answer
    PageSize,               \* units of an answer that is not the range asked for
    MaxFaults,              \* bound: connects, sends, reads that fail or find nothing
    Page, Null

VARIABLES
    udHandle,  \* HTTPUrlDownloadHandle: offset, fetch_size, fetched_size, connection,
               \* is_more, retrieve_len
    udWire,    \* what the server sends for the last request, as far as it is not read
    udSaved,   \* the units fetched so far, in the order the caller stored them
    udEmpty,   \* the last fetch returned no data or an error
    udFaults,  \* history: faults so far
    udPaged    \* history: the server has answered with a page

udVars == <<udHandle, udWire, udSaved, udEmpty, udFaults, udPaged>>

Init ==
    /\ udHandle = Null
    /\ udWire = Null
    /\ udSaved = <<>>
    /\ udEmpty = FALSE
    /\ udFaults = 0
    /\ udPaged = FALSE

Lesser(a, b) == IF a < b THEN a ELSE b

Fault == udFaults < MaxFaults /\ udFaults' = udFaults + 1

\* ofc_set_request_range: the next range, of which nothing has been fetched.
Ranged(h) ==
    LET n == Lesser(SegmentSize, FileSize - h.offset)
    IN  [h EXCEPT !.offset = @ + n, !.size = n, !.fetched = 0, !.more = FALSE, !.left = 0]

\* The server answers the range of handle h, or sends a page.
Answer(h, paged) ==
    [head |-> TRUE, garbled |-> FALSE,
     body |-> IF paged THEN [i \in 1 .. PageSize |-> Page]
              ELSE [i \in 1 .. h.size |-> h.offset - h.size + i - 1]]

-----------------------------------------------------------------------------
\* qcloud_url_download_init at the size the caller has saved.
Fresh == [offset |-> Len(udSaved), size |-> 0, fetched |-> 0, open |-> TRUE, more |-> FALSE, left |-> 0]

\* A new handle is connected and asks for its first range.
Connect(paged) ==
    /\ udHandle = Null /\ Len(udSaved) < FileSize
    /\ udHandle' = Ranged(Fresh)
    /\ udWire' = Answer(Ranged(Fresh), paged)
    /\ udPaged' = (udPaged \/ paged)
    /\ UNCHANGED <<udSaved, udEmpty, udFaults>>

ConnectFails ==
    /\ udHandle = Null /\ Len(udSaved) < FileSize
    /\ Fault
    /\ UNCHANGED <<udHandle, udWire, udSaved, udEmpty, udPaged>>

\* The caller stops with all the data, or begins again when a fetch brought nothing.
Disconnect ==
    /\ udHandle # Null
    /\ udEmpty \/ Len(udSaved) >= FileSize
    /\ udHandle' = Null /\ udWire' = Null
    /\ udEmpty' = FALSE
    /\ UNCHANGED <<udSaved, udFaults, udPaged>>

-----------------------------------------------------------------------------
\* qcloud_url_download_fetch.

Fetching == udHandle # Null /\ Len(udSaved) < FileSize

\* The range is done: ask for the next one, over the same connection or a new one. What is
\* left of the old answer would be read as the header of the new one. A request that cannot
\* be sent is only logged.
NextRange(h, rest, paged) ==
    LET asked == Ranged(h)
    IN  IF h.offset = FileSize
          THEN udHandle' = h /\ udWire' = rest /\ UNCHANGED <<udFaults, udPaged>>
          ELSE \/ /\ udHandle' = asked
                  /\ udWire' = [Answer(asked, paged) EXCEPT !.garbled = rest.body # <<>>]
                  /\ udPaged' = (udPaged \/ paged)
                  /\ UNCHANGED udFaults
               \/ /\ Fault
                  /\ udHandle' = [asked EXCEPT !.open = FALSE]
                  /\ udWire' = Null
                  /\ UNCHANGED udPaged

RangeDone(h) == h.fetched = h.size

\* count units of the answer go to the caller; read of them are off the wire.
Deliver(count, read, left, paged) ==
    LET h == [udHandle EXCEPT !.fetched = @ + count, !.left = left - count,
                              !.more = (left >= BufCap)]
        rest == [udWire EXCEPT !.head = FALSE, !.body = SubSeq(@, read + 1, Len(@))]
    IN  /\ udSaved' = udSaved \o SubSeq(udWire.body, 1, count)
        /\ udEmpty' = (count = 0)
        /\ IF RangeDone(h)
             THEN NextRange(h, rest, paged)
             ELSE udHandle' = h /\ udWire' = rest /\ UNCHANGED <<udFaults, udPaged>>

Greater(a, b) == IF a > b THEN a ELSE b

\* The first fetch of an answer reads its header and some units along with it, which are
\* lost as far as they do not fit the buffer.
FetchFirst(withHead, paged) ==
    LET left == Len(udWire.body)
        count == Lesser(BufCap, left)
    IN  /\ Fetching /\ udHandle.open /\ ~udHandle.more
        /\ udWire.head /\ ~udWire.garbled
        /\ withHead <= Lesser(HeadCap, left)
        /\ Deliver(count, Greater(withHead, count), left, paged)

\* The next fetch goes on where the buffer was full.
FetchMore(paged) ==
    LET count == Lesser(BufCap, udHandle.left)
    IN  /\ Fetching /\ udHandle.open /\ udHandle.more /\ ~udWire.head
        /\ count <= Len(udWire.body)
        /\ Deliver(count, count, udHandle.left, paged)

\* Nothing was there to read before the time was up: success without data, is_more is set.
FetchNothing ==
    /\ Fetching /\ udHandle.open /\ ~udHandle.more
    /\ IF udWire.head THEN Fault ELSE UNCHANGED udFaults
    /\ udHandle' = [udHandle EXCEPT !.more = TRUE, !.left = 0]
    /\ udEmpty' = TRUE
    /\ UNCHANGED <<udWire, udSaved, udPaged>>

\* With is_more set and nothing left of any answer, is_more is cleared.
FetchIdle ==
    /\ Fetching /\ udHandle.open /\ udHandle.more /\ udHandle.left = 0 /\ udWire.head
    /\ udHandle' = [udHandle EXCEPT !.more = FALSE]
    /\ udEmpty' = TRUE
    /\ UNCHANGED <<udWire, udSaved, udFaults, udPaged>>

\* No connection, no header where one is due, less data than announced, or a fault while
\* reading: the connection is closed and an error returned, without what had been read.
FetchFails ==
    LET missing == /\ udHandle.open /\ udHandle.more
                   /\ Len(udWire.body) < Lesser(BufCap, udHandle.left)
    IN  /\ Fetching
        /\ IF ~udHandle.open \/ missing \/ udWire.garbled THEN UNCHANGED udFaults ELSE Fault
        /\ udHandle' = [udHandle EXCEPT !.open = FALSE]
        /\ udEmpty' = TRUE
        /\ UNCHANGED <<udWire, udSaved, udPaged>>

Fetch ==
    \/ \E paged \in BOOLEAN : FetchMore(paged) \/ \E n \in 0 .. HeadCap : FetchFirst(n, paged)
    \/ FetchNothing \/ FetchIdle \/ FetchFails

Next ==
    \/ \E paged \in BOOLEAN : Connect(paged)
    \/ ConnectFails \/ Disconnect
    \/ Fetch

\* The caller fetches until it has everything, and begins again after an empty fetch.
Fairness == WF_udVars(Next)

Spec == Init /\ [][Next]_udVars /\ Fairness
-----------------------------------------------------------------------------
Units == (0 .. FileSize - 1) \cup {Page}

\* The ranges of the variables (HTTPSegmentInfo and HTTPClientData).
TypeOK ==
    /\ udHandle = Null \/ /\ udHandle.offset \in 0 .. FileSize
                          /\ udHandle.size \in 0 .. SegmentSize
                          /\ udHandle.fetched \in 0 .. FileSize + PageSize
    /\ udWire = Null \/ udWire.body \in Seq(Units)
    /\ udSaved \in Seq(Units)
    /\ udFaults \in 0 .. MaxFaults

\* Whatever reads fail and wherever the download begins again, the caller stores the file
\* from its first unit on without a gap or a repeat, unless the server sent a page.
ContentInOrder == ~udPaged => \A i \in DOMAIN udSaved : udSaved[i] = i - 1

\* The connection that is kept for the next range never holds a rest of the last one.
AnswersSeparate == ~udPaged /\ udWire # Null => ~udWire.garbled
=============================================================================
