--------------------------- MODULE MessageDigest ----------------------------
(***************************************************************************)
(* MD5 and SHA-1 of a message that arrives in pieces (utils_md5.c,         *)
(* utils_sha1.c), and the HMAC made of them (utils_hmac.c). Both keep a    *)
(* block that is partly filled and a count of bytes in two words. What a   *)
(* block does to the state is left open: the state is the sequence of the  *)
(* blocks processed so far, so that two digests are equal when the same    *)
(* blocks were processed in the same order.                                *)
(***************************************************************************)
EXTENDS Naturals, Sequences, SequencesExt

CONSTANTS
    Block,     \* bytes of a block, 64 in the code; a word of the length is one here
    WordSize,  \* values of a word of the count, 2^32 in the code
    Bits,      \* bits of a byte, 8 in the code
    MaxBytes,  \* bound: bytes of a message
    Null

VARIABLES
    dgOrder,   \* the word of the length that comes first: "low" (MD5) or "high" (SHA-1)
    dgCtx,     \* iot_md5_context, iot_sha1_context
    dgFed,     \* history: the bytes given to it
    dgOut,     \* the digest, or Null
    dgMac      \* the HMAC that was computed: [key, message, out], or Null

vars == <<dgOrder, dgCtx, dgFed, dgOut, dgMac>>
-----------------------------------------------------------------------------
\* A byte is told by what it is and a number.
Zeros(n) == [i \in 1 .. n |-> <<"zero", 0>>]
One == <<"one", 0>>
Words(order, low, high) ==
    IF order = "low" THEN <<<<"length", low>>, <<"length", high>>>>
    ELSE <<<<"length", high>>, <<"length", low>>>>
Parts(s) == [i \in 1 .. Len(s) \div Block |-> SubSeq(s, (i - 1) * Block + 1, i * Block)]

(* utils_md5_init, utils_md5_starts *)
Start == [lo |-> 0, hi |-> 0, buffer |-> Zeros(Block), blocks |-> <<>>]

\* The bytes in the buffer are those of the count modulo the block.
Left(c) == c.lo % Block

(* The count, with the carry into its second word. *)
Counted(c, n) ==
    LET lo == (c.lo + n) % WordSize
    IN  [c EXCEPT !.lo = lo, !.hi = IF lo < n THEN (@ + 1) % WordSize ELSE @]

(* The bytes behind the ones in the buffer; those beyond them stay. *)
Copied(buffer, at, s) ==
    [i \in 1 .. Block |-> IF i > at /\ i <= at + Len(s) THEN s[i - at] ELSE buffer[i]]

(* utils_md5_update, utils_sha1_update *)
Updated(c, s) ==
    LET left  == Left(c)
        fill  == Block - left
        first == IF left > 0 /\ Len(s) >= fill THEN fill ELSE 0
        full  == IF first > 0 THEN <<Copied(c.buffer, left, SubSeq(s, 1, fill))>> ELSE <<>>
        rest  == SubSeq(s, first + 1, Len(s))
        whole == Parts(rest)
        last  == SubSeq(rest, Len(whole) * Block + 1, Len(rest))
    IN  [Counted(c, Len(s)) EXCEPT
            !.blocks = @ \o full \o whole,
            !.buffer = Copied(IF first > 0 THEN full[1] ELSE @,
                              IF first > 0 THEN 0 ELSE left, last)]

(* utils_md5_finish, utils_sha1_finish: the padding, then the length. *)
Length(c, order) ==
    LET low  == (c.lo * Bits) % WordSize
        high == (c.lo \div (WordSize \div Bits) + c.hi * Bits) % WordSize
    IN  Words(order, low, high)

Padding(c) ==
    LET last == Left(c)
        room == Block - 2
    IN  <<One>> \o Zeros((IF last < room THEN room - last ELSE Block + room - last) - 1)

Finished(c, order) == Updated(Updated(c, Padding(c)), Length(c, order)).blocks

(* utils_hmac_md5, utils_hmac_sha1: the key is padded to a block; one that is *)
(* longer leaves the result untouched.                                        *)
Pad(key, pad) == [i \in 1 .. Block |-> <<pad, IF i <= Len(key) THEN key[i] ELSE 0>>]
Mac(key, s, order) ==
    LET inner == Finished(Updated(Updated(Start, Pad(key, "in")), s), order)
    IN  IF Len(key) > Block THEN Null
        ELSE Finished(Updated(Updated(Start, Pad(key, "out")), <<<<"digest", inner>>>>), order)

Init ==
    /\ dgOrder \in {"low", "high"}
    /\ dgCtx = Start
    /\ dgFed = <<>>
    /\ dgOut = Null /\ dgMac = Null

\* The n bytes of the message that come next; each byte is its position.
Piece(n) == [i \in 1 .. n |-> <<"byte", Len(dgFed) + i>>]

Update(n) ==
    /\ dgOut = Null /\ dgMac = Null /\ Len(dgFed) + n <= MaxBytes
    /\ dgCtx' = Updated(dgCtx, Piece(n))
    /\ dgFed' = dgFed \o Piece(n)
    /\ UNCHANGED <<dgOrder, dgOut, dgMac>>

Finish ==
    /\ dgOut = Null /\ dgMac = Null
    /\ dgOut' = Finished(dgCtx, dgOrder)
    /\ UNCHANGED <<dgOrder, dgCtx, dgFed, dgMac>>

(* utils_md5_reset: the same context for another message *)
Reset ==
    /\ dgOut # Null
    /\ dgCtx' = Start
    /\ dgFed' = <<>>
    /\ dgOut' = Null
    /\ UNCHANGED <<dgOrder, dgMac>>

\* A message of one piece, whose length is a word.
Sign(n) ==
    /\ dgOut = Null /\ dgMac = Null /\ Len(dgFed) < WordSize
    /\ LET key == [i \in 1 .. n |-> i]
       IN  dgMac' = [key |-> key, out |-> Mac(key, dgFed, dgOrder)]
    /\ UNCHANGED <<dgOrder, dgCtx, dgFed, dgOut>>

Next ==
    \/ \E n \in 0 .. WordSize - 1 : Update(n)
    \/ Finish
    \/ Reset
    \/ \E n \in 0 .. Block + 1 : Sign(n)

Spec == Init /\ [][Next]_vars
-----------------------------------------------------------------------------
\* The digest of a message as the standards define it: the message, a one, zeros up to
\* the last two words of a block, the length in bits.
Digest(s, order) ==
    LET bits  == Len(s) * Bits
        low   == bits % WordSize
        high  == (bits \div WordSize) % WordSize
        zeros == CHOOSE n \in 0 .. Block - 1 : (Len(s) + 1 + n + 2) % Block = 0
    IN  Parts(s \o <<One>> \o Zeros(zeros)
                \o Words(order, low, high))

\* The count is that of the bytes given so far.
TypeOK ==
    /\ dgCtx.lo + dgCtx.hi * WordSize = Len(dgFed)
    /\ Len(dgCtx.buffer) = Block
    /\ Len(dgCtx.blocks) = Len(dgFed) \div Block

\* However a message is cut into pieces, its digest is that of the whole, also when the
\* count passes the end of its first word (utils_md5_update, utils_sha1_update).
DigestOfWhole == dgOut # Null => dgOut = Digest(dgFed, dgOrder)

\* The HMAC of a key that fits into a block is the digest of the padded key and the
\* digest of the padded key and the message; a longer key gives none (utils_hmac.c).
MacOfKey ==
    dgMac # Null =>
        LET k == dgMac.key
        IN  dgMac.out = IF Len(k) > Block THEN Null
                        ELSE Digest(Append(Pad(k, "out"),
                                           <<"digest", Digest(Pad(k, "in") \o dgFed, dgOrder)>>), dgOrder)
=============================================================================
