------------------------------- MODULE Crypter -------------------------------
(***************************************************************************)
(* crypter/crypter.go: Encrypt and Decrypt on tagged strings.  Concurrent  *)
(* Encrypt calls on one Crypter share its pool of nonce buffers and        *)
(* interleave between any two accesses to it.                              *)
(*                                                                         *)
(* A string is abstracted to what the code tells apart: plain text; the    *)
(* text of an encryption, with the key, nonce and text sealed in it; and   *)
(* strings that carry the start tag but are none of this package's.        *)
(***************************************************************************)
EXTENDS Naturals, FiniteSets

CONSTANTS Callers,  \* the goroutines that may call Encrypt, one call at a time
          Buffers,  \* nonce buffers the pool may hand out
          Nonces,   \* what crypto/rand may draw
          Key,      \* the key this Crypter was made with
          NoBuffer, NoNonce

ASSUME BufferForEach == NoBuffer \notin Buffers
ASSUME NonceReal == NoNonce \notin Nonces

(***************************************************************************)
(* Strings                                                                 *)
(***************************************************************************)
Plain(text) == [form |-> "plain", text |-> text]
Sealed(key, nonce, value) ==
    [form |-> "sealed", key |-> key, nonce |-> nonce, value |-> value]

\* The error Decrypt has for a tagged string that is not what Encrypt wrote: no
\* end tag; nothing between the tags; not base64; too short for a nonce, or for
\* the authentication tag after it; altered.
DamageError ==
    [unclosed |-> "ErrInvalidCipherText", empty |-> "ErrEmptyPayload",
     garbled |-> "ErrBase64Decode", short |-> "ErrInvalidCipherText",
     altered |-> "ErrOpen"]
Damaged(how) == [form |-> how]

\* Starts with StartTag and goes on.
IsEncrypted(s) == s.form # "plain"

\* Decrypt by a Crypter made with key: the plain string, or an error.
Decrypt(key, s) ==
    CASE ~IsEncrypted(s) -> [err |-> "nil", plain |-> s]
      [] s.form \in DOMAIN DamageError -> [err |-> DamageError[s.form]]
      [] s.form = "sealed" /\ s.key # key -> [err |-> "ErrOpen"]
      [] OTHER -> [err |-> "nil", plain |-> s.value]

(***************************************************************************)
(* Encrypt(data)                                                           *)
(***************************************************************************)
VARIABLES
    pool,   \* the buffers in noncePool
    bytes,  \* what each buffer holds
    drawn,  \* the nonces crypto/rand has drawn (history)
    spent,  \* the nonces Seal has been given (history)
    enc     \* each caller's Encrypt: its place, argument or result, buffer, nonce

cryptVars == <<pool, bytes, drawn, spent, enc>>

Enc(pc, text, buf, nonce) == [pc |-> pc, text |-> text, buf |-> buf, nonce |-> nonce]

\* A caller between two Encrypts.
Idle == Enc("idle", Plain("none"), NoBuffer, NoNonce)

\* New leaves an empty pool.
CrypterInit ==
    /\ pool = {}
    /\ bytes = [b \in Buffers |-> NoNonce]
    /\ drawn = {} /\ spent = {}
    /\ enc = [c \in Callers |-> Idle]

\* c's call goes from one place to another, with this buffer and nonce.
Goes(c, from, to, buf, nonce) ==
    /\ enc[c].pc = from
    /\ enc' = [enc EXCEPT ![c] = Enc(to, enc[c].text, buf, nonce)]

InUse == {enc[c].buf : c \in Callers} \ {NoBuffer}

\* A tagged string is returned as it is, everything else goes on to the pool.
Encrypt(c, data) ==
    /\ enc[c].pc = "idle"
    /\ enc' = [enc EXCEPT ![c] =
                 Enc(IF IsEncrypted(data) THEN "done" ELSE "get",
                     data, NoBuffer, NoNonce)]
    /\ UNCHANGED <<pool, bytes, drawn, spent>>

\* noncePool.Get(): some buffer of the pool, or a new one.
Get(c) ==
    /\ \E b \in Buffers \ (InUse \ pool) :
         /\ pool' = pool \ {b}
         /\ bytes' = [bytes EXCEPT ![b] = IF b \in pool THEN @ ELSE NoNonce]
         /\ Goes(c, "get", "read", b, NoNonce)
    /\ UNCHANGED <<drawn, spent>>

\* io.ReadFull(rand.Reader, *noncep): 96 random bits, taken never to
\* repeat; which ones does not matter.
Read(c) ==
    /\ Nonces \ drawn # {}
    /\ LET n == CHOOSE x \in Nonces \ drawn : TRUE
       IN  bytes' = [bytes EXCEPT ![enc[c].buf] = n] /\ drawn' = drawn \cup {n}
    /\ Goes(c, "read", "copy", enc[c].buf, NoNonce)
    /\ UNCHANGED <<pool, spent>>

\* It fails, perhaps midway: the buffer goes back and Encrypt returns the error.
ReadFails(c) ==
    /\ bytes' = [bytes EXCEPT ![enc[c].buf] = NoNonce]
    /\ pool' = pool \cup {enc[c].buf}
    /\ Goes(c, "read", "ErrReadNonce", NoBuffer, NoNonce)
    /\ UNCHANGED <<drawn, spent>>

\* copy(nonce, *noncep)
Copy(c) ==
    /\ Goes(c, "copy", "put", enc[c].buf, bytes[enc[c].buf])
    /\ UNCHANGED <<pool, bytes, drawn, spent>>

\* Mutant of Put: the buffer goes back and the nonce is read from it afterwards.
PutEarly(c) ==
    /\ pool' = pool \cup {enc[c].buf}
    /\ \/ Goes(c, "copy", "put", enc[c].buf, bytes[enc[c].buf])
       \/ Goes(c, "put", "seal", enc[c].buf, bytes[enc[c].buf])
    /\ UNCHANGED <<bytes, drawn, spent>>

\* noncePool.Put(noncep)
Put(c) ==
    /\ pool' = pool \cup {enc[c].buf}
    /\ Goes(c, "put", "seal", NoBuffer, enc[c].nonce)
    /\ UNCHANGED <<bytes, drawn, spent>>

\* aead.Seal under the owned nonce, the encoding and the tags.
Seal(c) ==
    /\ enc[c].pc = "seal"
    /\ spent' = spent \cup {enc[c].nonce}
    /\ enc' = [enc EXCEPT ![c] = Enc("done", Sealed(Key, enc[c].nonce, enc[c].text),
                                     NoBuffer, NoNonce)]
    /\ UNCHANGED <<pool, bytes, drawn>>

\* Encrypt returns, with its output or its error.
EncryptReturns(c) ==
    /\ enc[c].pc \in {"done", "ErrReadNonce"}
    /\ enc' = [enc EXCEPT ![c] = Idle]
    /\ UNCHANGED <<pool, bytes, drawn, spent>>

\* The garbage collector may empty a pool whenever it likes.
Collect ==
    /\ \E b \in pool : pool' = pool \ {b}
    /\ UNCHANGED <<bytes, drawn, spent, enc>>

EncryptStep(c) ==
    Get(c) \/ Read(c) \/ ReadFails(c) \/ Copy(c) \/ Put(c) \/ Seal(c)

\* Any callers, with strings of Data to encrypt.
CrypterNext(Data) ==
    \/ \E c \in Callers :
          (\E data \in Data : Encrypt(c, data)) \/ EncryptStep(c) \/ EncryptReturns(c)
    \/ Collect

CrypterSpec(Data) == CrypterInit /\ [][CrypterNext(Data)]_cryptVars

\* No nonce is used for two encryptions: what a call is about to seal with has
\* not been sealed with and is nobody else's, however Encrypt calls share buffers.
\* Under one key a repeated nonce gives both texts away.
NonceUnique ==
    \A c \in Callers :
        enc[c].pc \in {"put", "seal"} =>
            /\ enc[c].nonce \in drawn \ spent
            /\ \A d \in Callers \ {c} :
                  enc[d].pc \in {"put", "seal"} => enc[d].nonce # enc[c].nonce

(***************************************************************************)
(* The inductive invariant behind it.                                      *)
(***************************************************************************)
TypeOK ==
    /\ pool \subseteq Buffers
    /\ bytes \in [Buffers -> Nonces \cup {NoNonce}]
    /\ drawn \subseteq Nonces /\ spent \subseteq drawn
    /\ enc = [c \in Callers |-> enc[c]]

\* A buffer is held from Get to Put, by one caller, and is not in the pool.
BuffersHeld ==
    \A c \in Callers :
        IF enc[c].pc \in {"read", "copy", "put"}
        THEN /\ enc[c].buf \in Buffers \ pool
             /\ \A d \in Callers \ {c} : enc[d].buf # enc[c].buf
        ELSE enc[c].buf = NoBuffer

\* The nonce a caller has drawn and not sealed with yet, wherever it is.
Fresh(c) == IF enc[c].pc = "copy" THEN bytes[enc[c].buf] ELSE enc[c].nonce
HasFresh(c) == enc[c].pc \in {"copy", "put", "seal"}

FreshOwned ==
    \A c \in Callers :
        HasFresh(c) =>
            /\ Fresh(c) \in drawn \ spent
            /\ \A d \in Callers \ {c} : HasFresh(d) => Fresh(d) # Fresh(c)

CrypterInv == TypeOK /\ BuffersHeld /\ FreshOwned
==============================================================================
