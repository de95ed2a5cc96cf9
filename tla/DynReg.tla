-------------------------------- MODULE DynReg --------------------------------
(***************************************************************************)
(* Dynamic registration (dynreg.c): the device asks for its secret over    *)
(* HTTP and finds it in an answer that is encrypted with the secret of the *)
(* product and written in base64 (utils_aes.c, utils_base64.c).            *)
(* A byte and a digit of base64 have their real width. The block cipher is  *)
(* left open: any permutation of a block that depends on the key will do.  *)
(***************************************************************************)
EXTENDS Integers, Sequences, SequencesExt, FiniteSets

CONSTANTS
    CipherBlock,       \* bytes of a block of the cipher, 16 in the code
    DecodeCap,   \* bytes of decodeBuff, DECODE_BUFF_LEN
    SignCap,     \* bytes of the buffer for the signature, DYN_REG_SIGN_LEN
    SecretCap,   \* MAX_SIZE_OF_DEVICE_SECRET
    SecretBytes, \* bound: bytes of the secrets that are issued
    Products,    \* bound: secrets of the product
    MaxCalls,    \* bound: calls of IOT_DynReg_Device
    Null

VARIABLES
    drProduct,   \* product_secret
    drSecret,    \* device_secret
    drReply,     \* history: the answer of the last call, or Null
    drResult,    \* its result: "success", "failure", or Null
    drWritten,   \* history: the most bytes of decodeBuff that were written
    drCalls      \* number of calls

vars == <<drProduct, drSecret, drReply, drResult, drWritten, drCalls>>
-----------------------------------------------------------------------------
\* The characters of base64: its digits 0 .. 63, and
Pad == 64
Bad == 127
LF == 200
CR == 201
Space == 202
Digit(c) == c < 64

(* qcloud_iot_utils_base64encode: three bytes as four digits, the last group filled up. *)
\* Byte k behind position i, or 0 behind the end.
ByteAt(s, i, k) == IF i + k <= Len(s) THEN s[i + k] ELSE 0
Group(s, g) ==
    LET i  == 3 * (g - 1)
        c1 == ByteAt(s, i, 1)
        c2 == ByteAt(s, i, 2)
        c3 == ByteAt(s, i, 3)
    IN  <<c1 \div 4, (c1 % 4) * 16 + c2 \div 16,
          IF i + 1 < Len(s) THEN (c2 % 16) * 4 + c3 \div 64 ELSE Pad,
          IF i + 2 < Len(s) THEN c3 % 64 ELSE Pad>>
Groups(s) == (Len(s) + 2) \div 3
Encode(s, cap) ==
    IF cap < 4 * Groups(s) + 1 THEN Null ELSE FlattenSeq([g \in 1 .. Groups(s) |-> Group(s, g)])

(* qcloud_iot_utils_base64decode, the first pass. Spaces may only end a line.           *)
EndsLine(s, i) == i > Len(s) \/ s[i] = LF \/ (i < Len(s) /\ s[i] = CR /\ s[i + 1] = LF)
Valid(s) ==
    LET pads == {i \in DOMAIN s : s[i] = Pad}
    IN  /\ Cardinality(pads) <= 2
        /\ \A i \in DOMAIN s :
             /\ s[i] # Bad
             /\ s[i] = CR => EndsLine(s, i)
             /\ Digit(s[i]) => \A p \in pads : i < p
             /\ s[i] = Space =>
                  \E k \in i + 1 .. Len(s) + 1 : EndsLine(s, k) /\ \A j \in i + 1 .. k - 1 : s[j] = Space

(* the second pass: whole groups of four, less a byte for each pad so far.               *)
Decode(s, cap) ==
    LET t    == SelectSeq(s, LAMBDA c : c \notin {LF, CR, Space})
        pads == Len(SelectSeq(t, LAMBDA c : c = Pad))
        size == ((Len(t) * 6 + 7) \div 8) - pads
        Bytes(g) ==
            LET d(k) == t[4 * (g - 1) + k] % 64
                x    == ((d(1) * 64 + d(2)) * 64 + d(3)) * 64 + d(4)
                upto == Len(SelectSeq(SubSeq(t, 1, 4 * g), LAMBDA c : c = Pad))
            IN  SubSeq(<<x \div 65536, (x \div 256) % 256, x % 256>>, 1, 3 - upto)
    IN  IF ~Valid(s) \/ (t # <<>> /\ cap < size) THEN Null
        ELSE FlattenSeq([g \in 1 .. Len(t) \div 4 |-> Bytes(g)])
-----------------------------------------------------------------------------
(* utils_aes_crypt_ecb: a block, its bytes turned round and shifted by the key.         *)
Encipher(key, b) == [i \in 1 .. CipherBlock |-> (b[CipherBlock + 1 - i] + key[i]) % 256]
Decipher(key, c) == [i \in 1 .. CipherBlock |-> (c[CipherBlock + 1 - i] - key[CipherBlock + 1 - i]) % 256]

BlockOf(buf, k) == SubSeq(buf, CipherBlock * (k - 1) + 1, CipherBlock * k)
WithBlock(buf, k, b) ==
    [i \in DOMAIN buf |-> IF (i - 1) \div CipherBlock = k - 1 THEN b[i - CipherBlock * (k - 1)] ELSE buf[i]]

(* utils_aes_crypt_cbc over n blocks in place; the sum stands for the exclusive or.     *)
Plus(a, b)  == [i \in 1 .. CipherBlock |-> (a[i] + b[i]) % 256]
Minus(a, b) == [i \in 1 .. CipherBlock |-> (a[i] - b[i]) % 256]
Start(buf)  == [buf |-> buf, iv |-> [i \in 1 .. CipherBlock |-> 48]]

EncryptBlock(key, acc, k) ==
    LET out == Encipher(key, Plus(BlockOf(acc.buf, k), acc.iv))
    IN  [buf |-> WithBlock(acc.buf, k, out), iv |-> out]
DecryptBlock(key, acc, k) ==
    LET temp == BlockOf(acc.buf, k)
    IN  [buf |-> WithBlock(acc.buf, k, Minus(Decipher(key, temp), acc.iv)), iv |-> temp]
Blocks(n) == [k \in 1 .. n |-> k]

(* utils_aes_cbc, encryption: zeros up to a whole block, always one at least.           *)
Encrypt(key, s) ==
    LET padLen == CipherBlock - (Len(s) % CipherBlock)
        buf    == s \o [i \in 1 .. padLen |-> 0]
    IN  FoldLeft(LAMBDA a, k : EncryptBlock(key, a, k), Start(buf), Blocks(Len(buf) \div CipherBlock)).buf

\* decryption of datalen bytes
Decrypt(key, buf, datalen) ==
    FoldLeft(LAMBDA a, k : DecryptBlock(key, a, k), Start(buf), Blocks(datalen \div CipherBlock)).buf
-----------------------------------------------------------------------------
\* The answer: the text is the type of the encryption and the secret, of which a JSON
\* document has no more to tell; it ends with the first zero. A secret that is too long for
\* its field is copied whole.
Secrets == UNION {[1 .. n -> SecretBytes] : n \in 0 .. SecretCap + 1}
Texts   == {<<t>> \o s : t \in {1, 2}, s \in Secrets}
Key(product) == SubSeq(product, 1, CipherBlock)

\* What happens to the payload on its way: nothing, a line break or spaces, or a character
\* that is none of base64.
Noise(s, how) ==
    CASE how = "line"  -> SubSeq(s, 1, 4) \o <<Space, CR, LF>> \o SubSeq(s, 5, Len(s)) \o <<Space>>
      [] how = "space" -> SubSeq(s, 1, 3) \o <<Space>> \o SubSeq(s, 4, Len(s))
      [] how = "bad"   -> [s EXCEPT ![2] = Bad]
      [] OTHER         -> s

\* The cloud answers with a code and no payload, or with code 0 and a payload.
Replies == [code : {1}] \cup [code : {0}] \cup
           [code : {0}, text : Texts, how : {"none", "line", "space", "bad"}]
HasPayload(r) == "text" \in DOMAIN r
Payload(r) == Noise(Encode(Encrypt(Key(drProduct), r.text), 4 * DecodeCap), r.how)

(* _parse_devinfo: what it makes of an answer: [ok, secret], and what it writes.        *)
DataLen(len) == len + CipherBlock - (len % CipherBlock)
UpToZero(s) ==
    LET zeros == {i \in DOMAIN s : s[i] = 0}
    IN  IF zeros = {} THEN s ELSE SubSeq(s, 1, (CHOOSE i \in zeros : \A j \in zeros : i <= j) - 1)
Failed == [ok |-> FALSE, secret |-> Null, written |-> 0]
Parsed(r) ==
    IF r.code # 0 \/ ~HasPayload(r) THEN Failed
    ELSE LET data == Decode(Payload(r), DecodeCap)
             buf  == data \o [i \in 1 .. DecodeCap - Len(data) |-> 0]
             text == UpToZero(Decrypt(Key(drProduct), buf, DataLen(Len(data))))
         IN  IF data = Null THEN Failed
             ELSE [ok      |-> text # <<>> /\ text[1] = 2,
                   \* without a secret the old one stays, and so does the result
                   secret  |-> IF Len(text) > 1 /\ text[1] = 2 THEN Tail(text) ELSE Null,
                   written |-> DataLen(Len(data))]

(* _cal_dynreg_sign: the signature, forty characters of it, must fit.                   *)
SignFits == Encode([i \in 1 .. 40 |-> 1], SignCap) # Null

(* IOT_DynReg_Device, when it asks at all: an answer, or none                           *)
Asked == Len(drProduct) >= CipherBlock /\ SignFits

Registered(r) ==
    /\ drCalls < MaxCalls /\ Asked
    /\ LET p == Parsed(r)
       IN  /\ drResult' = IF p.ok THEN "success" ELSE "failure"
           /\ drSecret' = IF p.secret # Null THEN p.secret ELSE drSecret
           /\ drWritten' = IF p.written > drWritten THEN p.written ELSE drWritten
    /\ drReply' = r
    /\ drCalls' = drCalls + 1
    /\ UNCHANGED drProduct

Unregistered ==
    /\ drCalls < MaxCalls
    /\ drResult' = "failure"
    /\ drReply' = Null
    /\ drCalls' = drCalls + 1
    /\ UNCHANGED <<drProduct, drSecret, drWritten>>

Init ==
    /\ drProduct \in Products
    /\ drSecret = Null /\ drReply = Null /\ drResult = Null
    /\ drWritten = 0 /\ drCalls = 0

Next == (\E r \in Replies : Registered(r)) \/ Unregistered

Spec == Init /\ [][Next]_vars
-----------------------------------------------------------------------------
TypeOK == drResult \in {"success", "failure", Null} /\ drWritten >= 0

\* Whatever the length of the encrypted text and however the payload is broken into lines,
\* a registration that succeeds leaves the secret the cloud has issued; one that fails leaves
\* the secret as it was. An answer of this type without a secret alone succeeds and changes
\* nothing (_parse_devinfo).
SecretIsIssued ==
    drReply # Null /\ drResult = "success" =>
        /\ HasPayload(drReply) /\ drReply.how \in {"none", "line"} /\ drReply.text[1] = 2
        /\ Len(drReply.text) > 1 => drSecret = Tail(drReply.text)

\* An answer whose payload is whole and of this type succeeds.
IssuedSucceeds ==
    drReply # Null /\ HasPayload(drReply) /\ drReply.how \in {"none", "line"} /\ drReply.text[1] = 2
        => drResult = "success"

\* The block too many that is decrypted, as the length of the data is a multiple of a block
\* already, stays within decodeBuff (_parse_devinfo).
DecryptFits == drWritten <= DecodeCap
=============================================================================
