--------------------------- MODULE CrypterProofs -----------------------------
(***************************************************************************)
(* Encrypt never seals two texts with one nonce, for any callers, any      *)
(* buffers and any strings; and for any files, any trees and any number of *)
(* concurrent calls, EncryptBytes encrypts exactly what it should,         *)
(* DecryptBytes is strict, and no value ever comes to mean something else. *)
(***************************************************************************)
EXTENDS CrypterYAML, FiniteSetTheorems, TLAPS

USE DEF cryptVars, Enc, Goes

\* New establishes the invariant.
LEMMA CrypterStarts == CrypterInit => CrypterInv
  BY BufferForEach DEF CrypterInit, CrypterInv, TypeOK, BuffersHeld, FreshOwned,
     HasFresh, Idle

\* Every step of Encrypt, and every step of the pool, keeps it.
LEMMA CrypterStep ==
  ASSUME NEW Data, CrypterInv, [CrypterNext(Data)]_cryptVars
  PROVE  CrypterInv'
  <1> USE BufferForEach, NonceReal
  <1>1. ASSUME NEW c \in Callers, NEW data \in Data, Encrypt(c, data)
        PROVE  CrypterInv'
    <2>1. TypeOK'
      BY <1>1 DEF CrypterInv, TypeOK, Encrypt, Idle
    <2>2. BuffersHeld'
      BY <1>1 DEF CrypterInv, TypeOK, Encrypt, Idle, BuffersHeld
    <2>3. FreshOwned'
      BY <1>1 DEF CrypterInv, TypeOK, Encrypt, Idle, FreshOwned, Fresh, HasFresh
    <2>4. QED
      BY <2>1, <2>2, <2>3 DEF CrypterInv
  <1>2. ASSUME NEW c \in Callers, Get(c)
        PROVE  CrypterInv'
    <2>1. TypeOK'
      BY <1>2 DEF CrypterInv, TypeOK, Get
    <2>2. BuffersHeld'
      BY <1>2 DEF CrypterInv, TypeOK, Get, BuffersHeld, InUse
    <2>3. FreshOwned'
      BY <1>2 DEF CrypterInv, TypeOK, Get, FreshOwned, Fresh, HasFresh, BuffersHeld, InUse
    <2>4. QED
      BY <2>1, <2>2, <2>3 DEF CrypterInv
  <1>3. ASSUME NEW c \in Callers, Read(c)
        PROVE  CrypterInv'
    <2>1. PICK n \in Nonces \ drawn :
            /\ bytes' = [bytes EXCEPT ![enc[c].buf] = n]
            /\ drawn' = drawn \cup {n}
            /\ Goes(c, "read", "copy", enc[c].buf, NoNonce)
            /\ UNCHANGED <<pool, spent>>
      BY <1>3 DEF Read
    <2>2. TypeOK'
      BY <2>1 DEF CrypterInv, TypeOK
    <2>3. BuffersHeld'
      BY <1>3 DEF CrypterInv, TypeOK, Read, BuffersHeld
    <2>4. FreshOwned'
      <3>1. enc[c].pc = "read" /\ enc[c].buf \in Buffers
        BY <1>3 DEF CrypterInv, BuffersHeld, Read
      <3>2. HasFresh(c)' /\ Fresh(c)' = n
        BY <1>3, <2>1, <3>1 DEF CrypterInv, TypeOK, Read, Fresh, HasFresh
      <3>3. \A d \in Callers \ {c} :
               HasFresh(d)' => HasFresh(d) /\ Fresh(d)' = Fresh(d)
        BY <1>3, <2>1, <3>1 DEF CrypterInv, TypeOK, BuffersHeld, Read, Fresh, HasFresh
      <3>4. \A d \in Callers \ {c} :
               HasFresh(d)' => /\ Fresh(d)' \in drawn \ spent
                               /\ \A e \in Callers \ {c, d} :
                                     HasFresh(e)' => Fresh(e)' # Fresh(d)'
        BY <3>3 DEF CrypterInv, FreshOwned
      <3>5. n \in drawn' \ spent' /\ drawn \subseteq drawn' /\ spent' = spent
        BY <1>3, <2>1 DEF CrypterInv, TypeOK, Read
      <3>6. QED
        BY <2>1, <3>2, <3>4, <3>5 DEF FreshOwned
    <2>5. QED
      BY <2>2, <2>3, <2>4 DEF CrypterInv
  <1>4. ASSUME NEW c \in Callers, ReadFails(c)
        PROVE  CrypterInv'
    <2>1. TypeOK'
      BY <1>4 DEF CrypterInv, TypeOK, ReadFails, BuffersHeld
    <2>2. BuffersHeld'
      BY <1>4 DEF CrypterInv, TypeOK, ReadFails, BuffersHeld
    <2>3. FreshOwned'
      BY <1>4 DEF CrypterInv, TypeOK, ReadFails, FreshOwned, Fresh, HasFresh, BuffersHeld
    <2>4. QED
      BY <2>1, <2>2, <2>3 DEF CrypterInv
  <1>5. ASSUME NEW c \in Callers, Copy(c)
        PROVE  CrypterInv'
    <2>1. TypeOK'
      BY <1>5 DEF CrypterInv, TypeOK, Copy
    <2>2. BuffersHeld'
      BY <1>5 DEF CrypterInv, TypeOK, Copy, BuffersHeld
    <2>3. FreshOwned'
      BY <1>5 DEF CrypterInv, TypeOK, Copy, FreshOwned, Fresh, HasFresh
    <2>4. QED
      BY <2>1, <2>2, <2>3 DEF CrypterInv
  <1>6. ASSUME NEW c \in Callers, Put(c)
        PROVE  CrypterInv'
    <2>1. TypeOK'
      BY <1>6 DEF CrypterInv, TypeOK, Put, BuffersHeld
    <2>2. BuffersHeld'
      BY <1>6 DEF CrypterInv, TypeOK, Put, BuffersHeld
    <2>3. FreshOwned'
      BY <1>6 DEF CrypterInv, TypeOK, Put, FreshOwned, Fresh, HasFresh
    <2>4. QED
      BY <2>1, <2>2, <2>3 DEF CrypterInv
  <1>7. ASSUME NEW c \in Callers, Seal(c)
        PROVE  CrypterInv'
    <2>1. TypeOK'
      BY <1>7 DEF CrypterInv, TypeOK, Seal, FreshOwned, Fresh, HasFresh
    <2>2. BuffersHeld'
      BY <1>7 DEF CrypterInv, TypeOK, Seal, BuffersHeld
    <2>3. FreshOwned'
      BY <1>7 DEF CrypterInv, TypeOK, Seal, FreshOwned, Fresh, HasFresh
    <2>4. QED
      BY <2>1, <2>2, <2>3 DEF CrypterInv
  <1>8. ASSUME NEW c \in Callers, EncryptReturns(c)
        PROVE  CrypterInv'
    <2>1. TypeOK'
      BY <1>8 DEF CrypterInv, TypeOK, EncryptReturns, Idle
    <2>2. BuffersHeld'
      BY <1>8 DEF CrypterInv, TypeOK, EncryptReturns, Idle, BuffersHeld
    <2>3. FreshOwned'
      BY <1>8 DEF CrypterInv, TypeOK, EncryptReturns, Idle, FreshOwned, Fresh, HasFresh
    <2>4. QED
      BY <2>1, <2>2, <2>3 DEF CrypterInv
  <1>9. ASSUME Collect
        PROVE  CrypterInv'
    BY <1>9 DEF CrypterInv, TypeOK, BuffersHeld, FreshOwned, Fresh, HasFresh, Collect
  <1>10. ASSUME UNCHANGED cryptVars
         PROVE  CrypterInv'
    BY <1>10 DEF CrypterInv, TypeOK, BuffersHeld, FreshOwned, Fresh, HasFresh
  <1>11. QED
    BY <1>1, <1>2, <1>3, <1>4, <1>5, <1>6, <1>7, <1>8, <1>9, <1>10
    DEF CrypterNext, EncryptStep

\* Concurrent Encrypt calls that share the nonce pool never seal two texts with one
\* nonce, however many callers, buffers and strings there are: a buffer is nobody
\* else's from Get to Put, and the nonce is copied out of it before Put.
THEOREM CrypterNonceUnique ==
  ASSUME NEW Data
  PROVE  CrypterSpec(Data) => []NonceUnique
  <1>1. CrypterInv => NonceUnique
    BY DEF CrypterInv, FreshOwned, Fresh, HasFresh, NonceUnique
  <1>2. QED
    BY <1>1, CrypterStarts, CrypterStep, PTL DEF CrypterSpec


(***************************************************************************)
(* Trees and strings                                                       *)
(***************************************************************************)
\* What the walks need of the tree of a parsed document.
LEMMA TreeFacts ==
  ASSUME NEW t \in DOMAIN Trees
  PROVE  /\ IsFiniteSet(DOMAIN Trees[t]) /\ DOMAIN Trees[t] \subseteq Nat \ {0}
         /\ 1 \in DOMAIN Trees[t]
         /\ \A n \in DOMAIN Trees[t] :
              /\ Trees[t][n].kind \in {"scalar", "alias"} => Kids(Trees[t], n) = {}
              /\ Trees[t][n].kind = "map" => DOMAIN Trees[t][n].keys = DOMAIN Trees[t][n].kids
              /\ Trees[t][n].kind # "map" => DOMAIN Trees[t][n].keys = {}
         /\ \A n \in DOMAIN Trees[t] : \A k \in Kids(Trees[t], n) : k \in DOMAIN Trees[t] /\ k > n
         /\ \A n, m \in DOMAIN Trees[t] :
              \A i \in DOMAIN Trees[t][n].kids, j \in DOMAIN Trees[t][m].kids :
                Trees[t][n].kids[i] = Trees[t][m].kids[j] => n = m /\ i = j
         /\ \A S \in SUBSET DOMAIN Trees[t] :
              1 \in S /\ (\A n \in S : Kids(Trees[t], n) \subseteq S) => S = DOMAIN Trees[t]
  BY TreesTyped, TreesRooted

\* A node below another is not the document node, and has no other parent.
LEMMA OneParent ==
  ASSUME NEW t \in DOMAIN Trees, NEW n \in DOMAIN Trees[t], NEW k \in Kids(Trees[t], n)
  PROVE  /\ k \in DOMAIN Trees[t] /\ k # 1 /\ k # n
         /\ \A m \in DOMAIN Trees[t] : k \in Kids(Trees[t], m) => m = n
  <1>1. k \in DOMAIN Trees[t] /\ k > n /\ n \in Nat \ {0} /\ k \in Nat
    BY TreeFacts
  <1>2. ASSUME NEW m \in DOMAIN Trees[t], k \in Kids(Trees[t], m)
        PROVE  m = n
    <2>1. PICK i \in DOMAIN Trees[t][n].kids : k = Trees[t][n].kids[i]
      BY DEF Kids
    <2>2. PICK j \in DOMAIN Trees[t][m].kids : k = Trees[t][m].kids[j]
      BY <1>2 DEF Kids
    <2>3. \A a, b \in DOMAIN Trees[t] :
            \A x \in DOMAIN Trees[t][a].kids, y \in DOMAIN Trees[t][b].kids :
              Trees[t][a].kids[x] = Trees[t][b].kids[y] => a = b
      BY TreeFacts
    <2>4. QED
      BY <2>1, <2>2, <2>3
  <1>3. QED
    BY <1>1, <1>2

\* A string that Decrypt turns into a plain one is an encryption of that one: no
\* damaged string, and no string of another form.
LEMMA OpensSealed ==
  ASSUME NEW key, NEW s, s.form \in Forms, IsEncrypted(s), Opens(key, s)
  PROVE  /\ s.form = "sealed" /\ Decrypt(key, s).plain = s.value
         /\ s.value.form = "plain"
  <1>1. s.form \notin DOMAIN DamageError
    <2>1. SUFFICES ASSUME s.form \in DOMAIN DamageError PROVE FALSE
      OBVIOUS
    <2>2. Decrypt(key, s) = [err |-> DamageError[s.form]]
      BY <2>1 DEF Decrypt, IsEncrypted, DamageError
    <2>3. DamageError[s.form] # "nil"
      BY <2>1 DEF DamageError
    <2>4. QED
      BY <2>2, <2>3 DEF Opens
  <1>2. s.form = "sealed"
    BY <1>1 DEF Forms, IsEncrypted
  <1>3. s.key = key
    <2>1. SUFFICES ASSUME s.key # key PROVE FALSE
      OBVIOUS
    <2>2. Decrypt(key, s) = [err |-> "ErrOpen"]
      BY <1>1, <1>2, <2>1 DEF Decrypt, IsEncrypted, DamageError
    <2>3. QED
      BY <2>2 DEF Opens
  <1>4. Decrypt(key, s) = [err |-> "nil", plain |-> s.value]
    BY <1>1, <1>2, <1>3 DEF Decrypt, IsEncrypted, DamageError
  <1>5. QED
    BY <1>2, <1>4 DEF Opens, IsEncrypted

\* The secret nodes are themselves a set that has the values of secret keys and,
\* with a sequence, its elements.
LEMMA SecretsClosed ==
  ASSUME NEW t \in DOMAIN Trees
  PROVE  SecretNodes[t] \in SUBSET DOMAIN Trees[t] /\ SecretsIn(Trees[t], SecretNodes[t])
  <1>1. ASSUME NEW n \in DOMAIN Trees[t], NEW i \in DOMAIN Trees[t][n].keys,
               Trees[t][n].keys[i] \in SecretKeys
        PROVE  Trees[t][n].kids[i] \in SecretNodes[t]
    <2>1. Trees[t][n].kids[i] \in Kids(Trees[t], n)
      BY TreeFacts DEF Kids
    <2>2. Trees[t][n].kids[i] \in DOMAIN Trees[t]
      BY <2>1, TreeFacts
    <2>3. QED
      BY <1>1, <2>2 DEF SecretNodes, SecretsIn
  <1>2. ASSUME NEW n \in SecretNodes[t], Trees[t][n].kind = "seq", NEW k \in Kids(Trees[t], n)
        PROVE  k \in SecretNodes[t]
    <2>1. n \in DOMAIN Trees[t]
      BY DEF SecretNodes
    <2>2. k \in DOMAIN Trees[t]
      BY <2>1, TreeFacts
    <2>3. QED
      BY <1>2, <2>2 DEF SecretNodes, SecretsIn
  <1>3. QED
    BY <1>1, <1>2 DEF SecretNodes, SecretsIn

\* A set of nodes that has what the secret nodes must have has all of them.
LEMMA SecretsLeast ==
  ASSUME NEW t \in DOMAIN Trees, NEW S \in SUBSET DOMAIN Trees[t], SecretsIn(Trees[t], S)
  PROVE  SecretNodes[t] \subseteq S
  BY DEF SecretNodes

\* The document itself is not secret.
LEMMA DocumentNotSecret ==
  ASSUME NEW t \in DOMAIN Trees
  PROVE  1 \notin SecretNodes[t]
  <1> DEFINE S == SecretNodes[t] \ {1}
  <1>1. \A n \in DOMAIN Trees[t] : 1 \notin Kids(Trees[t], n)
    BY OneParent
  <1>2. \A n \in DOMAIN Trees[t] : \A i \in DOMAIN Trees[t][n].keys :
           Trees[t][n].kids[i] \in Kids(Trees[t], n)
    BY TreeFacts DEF Kids
  <1>3. SecretsIn(Trees[t], S)
    BY <1>1, <1>2, SecretsClosed DEF SecretsIn
  <1>4. S \in SUBSET DOMAIN Trees[t]
    BY SecretsClosed
  <1>5. QED
    BY <1>3, <1>4, SecretsLeast

\* encryptWalk hands a node to encryptSecret exactly when it is secret, if it did
\* so with its parent.
LEMMA SecretKid ==
  ASSUME NEW t \in DOMAIN Trees, NEW n \in DOMAIN Trees[t], NEW i \in DOMAIN Trees[t][n].kids
  PROVE  Trees[t][n].kids[i] \in SecretNodes[t]
            <=> SecretBelow(Trees[t][n], i, n \in SecretNodes[t])
  <1> DEFINE k == Trees[t][n].kids[i]
             S == SecretNodes[t] \ {k}
  <1>1. ASSUME SecretBelow(Trees[t][n], i, n \in SecretNodes[t])
        PROVE  k \in SecretNodes[t]
    <2>1. CASE Trees[t][n].kind = "map"
      BY <1>1, <2>1, TreeFacts, SecretsClosed DEF SecretBelow, SecretsIn
    <2>2. CASE Trees[t][n].kind # "map"
      BY <1>1, <2>2, SecretsClosed DEF SecretBelow, SecretsIn, Kids
    <2>3. QED
      BY <2>1, <2>2
  <1>2. ASSUME ~SecretBelow(Trees[t][n], i, n \in SecretNodes[t])
        PROVE  k \notin SecretNodes[t]
    <2>1. ASSUME NEW m \in DOMAIN Trees[t], NEW j \in DOMAIN Trees[t][m].keys,
                 Trees[t][m].keys[j] \in SecretKeys
          PROVE  Trees[t][m].kids[j] \in S
      <3>1. Trees[t][m].kind = "map" /\ j \in DOMAIN Trees[t][m].kids
        BY TreeFacts
      <3>2. Trees[t][m].kids[j] \in SecretNodes[t]
        BY <2>1, SecretsClosed DEF SecretsIn
      <3>3. Trees[t][m].kids[j] # k
        BY <1>2, <2>1, <3>1, TreeFacts DEF SecretBelow
      <3>4. QED
        BY <3>2, <3>3
    <2>2. ASSUME NEW m \in S, Trees[t][m].kind = "seq", NEW j \in DOMAIN Trees[t][m].kids
          PROVE  Trees[t][m].kids[j] \in S
      <3>1. m \in DOMAIN Trees[t]
        BY SecretsClosed
      <3>2. Trees[t][m].kids[j] \in SecretNodes[t]
        BY <2>2, SecretsClosed DEF SecretsIn, Kids
      <3>3. Trees[t][m].kids[j] # k
        BY <1>2, <2>2, <3>1, TreeFacts DEF SecretBelow
      <3>4. QED
        BY <3>2, <3>3
    <2>3. SecretsIn(Trees[t], S)
      BY <2>1, <2>2 DEF SecretsIn, Kids
    <2>4. S \in SUBSET DOMAIN Trees[t]
      BY SecretsClosed
    <2>5. QED
      BY <2>3, <2>4, SecretsLeast
  <1>3. QED
    BY <1>1, <1>2 DEF SecretBelow


(***************************************************************************)
(* What a step leaves alone                                                *)
(***************************************************************************)
\* The step changes nothing of caller d's.
Kept(d) ==
    /\ file'[d] = file[d] /\ first'[d] = first[d] /\ call'[d] = call[d]
    /\ result'[d] = result[d] /\ todo'[d] = todo[d] /\ seen'[d] = seen[d]
    /\ secret'[d] = secret[d] /\ value'[d] = value[d] /\ in'[d] = in[d]
    /\ stats'[d] = stats[d] /\ enc'[d] = enc[d]

\* The step is caller c's: it changes nothing of the others', and c's first file
\* stays what it was.
StepOf(c) ==
    /\ Typed' /\ spent \subseteq spent' /\ first'[c] = first[c]
    /\ \A d \in Callers \ {c} : Kept(d)

\* A step of others leaves what is true of a caller true.
LEMMA KeptInv ==
  ASSUME NEW d \in Callers, CallInv(d), Kept(d), spent \subseteq spent'
  PROVE  CallInv(d)'
  <1> USE DEF Kept
  <1>1. FileTyped(d)'
    BY DEF CallInv, FileTyped, IsDoc
  <1>2. Walks(d)'
    BY DEF CallInv, Walks, IsDoc, Tree
  <1>3. SecretsFound(d)'
    BY DEF CallInv, SecretsFound, Walking
  <1>4. ToEncrypt(d)' = ToEncrypt(d) /\ ToSkip(d)' = ToSkip(d)
    BY DEF ToEncrypt, ToSkip, Candidates
  <1>5. EncryptsTurn(d)'
    BY <1>4 DEF CallInv, EncryptsTurn, Walking
  <1>6. EncryptedSoFar(d)'
    BY <1>4 DEF CallInv, EncryptedSoFar, Walking, ExactlyEncrypted
  <1>7. DecryptedSoFar(d)'
    BY DEF CallInv, DecryptedSoFar, Walking
  <1>8. EncryptedRight(d)'
    BY <1>4 DEF CallInv, EncryptedRight, Succeeded, ExactlyEncrypted, IsDoc
  <1>9. DecryptedRight(d)'
    BY DEF CallInv, DecryptedRight, Succeeded, IsDoc
  <1>10. MeansTheSame(d)'
    BY DEF CallInv, MeansTheSame, IsDoc
  <1>11. QED
    BY <1>1, <1>2, <1>3, <1>5, <1>6, <1>7, <1>8, <1>9, <1>10 DEF CallInv

\* EncryptBytes up to its walk is a step of its caller's own.
LEMMA EncryptBytesOwn ==
  ASSUME NEW c \in Callers, Typed, EncryptBytes(c)
  PROVE  StepOf(c)
  <1> USE DEF StepOf, Kept, EncryptBytes, Return, ReturnEarly, Walk, walkVars, Typed
  <1>1. CASE \E op, err : ReturnEarly(c, op, err)
    BY <1>1
  <1>2. CASE Walk(c, "encrypt", Key)
    BY <1>2
  <1>3. QED
    BY <1>1, <1>2

\* DecryptBytes up to its walk is a step of its caller's own.
LEMMA DecryptBytesOwn ==
  ASSUME NEW c \in Callers, Typed, DecryptBytes(c)
  PROVE  StepOf(c)
  <1> USE DEF StepOf, Kept, DecryptBytes, Return, ReturnEarly, Walk, walkVars, Typed
  <1>1. CASE \E op, err : ReturnEarly(c, op, err)
    BY <1>1
  <1>2. CASE \E key : Walk(c, "decrypt", key)
    BY <1>2
  <1>3. QED
    BY <1>1, <1>2

\* So is going past a node, in either walk.
LEMMA NodeOwn ==
  ASSUME NEW c \in Callers, Typed, EncryptNode(c) \/ DecryptNode(c)
  PROVE  StepOf(c)
  <1> USE DEF StepOf, Kept, Past, Typed
  <1>1. CASE EncryptNode(c)
    BY <1>1 DEF EncryptNode
  <1>2. CASE DecryptNode(c)
    BY <1>2 DEF DecryptNode
  <1>3. QED
    BY <1>1, <1>2

\* So is what encryptWalk.scalar does before Encrypt runs.
LEMMA EncryptScalarOwn ==
  ASSUME NEW c \in Callers, Typed, TypeOK, EncryptScalar(c)
  PROVE  StepOf(c)
  <1> USE DEF StepOf, Kept, Past, Typed
  <1>1. CASE \E n \in todo[c] : Past(c, n) /\ UNCHANGED <<cryptVars, stats>>
    BY <1>1 DEF EncryptScalar
  <1>2. CASE \E n \in todo[c] :
               /\ stats' = [stats EXCEPT ![c] = Stats(stats[c].encrypted, stats[c].skipped + 1)]
               /\ Past(c, n) /\ UNCHANGED cryptVars
    BY <1>2 DEF EncryptScalar
  <1>3. CASE \E v : Encrypt(c, v) /\ UNCHANGED <<todo, seen, stats>>
    BY <1>3 DEF EncryptScalar, Encrypt, TypeOK
  <1>4. QED
    BY <1>1, <1>2, <1>3 DEF EncryptScalar

\* So is the return of a call that walked.
LEMMA ReturnOwn ==
  ASSUME NEW c \in Callers, Typed, NEW err, NEW out, ReturnWalked(c, err, out),
         spent \subseteq spent', \A d \in Callers \ {c} : enc'[d] = enc[d], UNCHANGED first
  PROVE  StepOf(c)
  BY DEF StepOf, Kept, Typed, ReturnWalked, Return

\* So is what encryptWalk.scalar does once Encrypt has returned.
LEMMA EncryptedOwn ==
  ASSUME NEW c \in Callers, Typed, TypeOK, Encrypted(c)
  PROVE  StepOf(c)
  <1>1. spent \subseteq spent' /\ (\A d \in Callers \ {c} : enc'[d] = enc[d]) /\ UNCHANGED first
    BY DEF Encrypted, EncryptReturns, TypeOK
  <1>2. CASE enc[c].pc = "done"
    BY <1>1, <1>2 DEF StepOf, Kept, Typed, Encrypted, Past, Set
  <1>3. CASE enc[c].pc = "ErrReadNonce"
    BY <1>1, <1>3, ReturnOwn DEF Encrypted
  <1>4. QED
    BY <1>2, <1>3 DEF Encrypted, EncryptReturns

\* So is decryptWalk.scalar.
LEMMA DecryptScalarOwn ==
  ASSUME NEW c \in Callers, Typed, DecryptScalar(c)
  PROVE  StepOf(c)
  <1>1. UNCHANGED <<spent, enc, first>>
    BY DEF DecryptScalar
  <1>2. CASE \E n \in todo[c] : /\ UNCHANGED value \/ \E v : Set(c, n, v)
                                /\ Past(c, n)
                                /\ UNCHANGED <<file, call, result, secret, in, stats>>
    BY <1>1, <1>2 DEF StepOf, Kept, Typed, Past, Set
  <1>3. CASE ReturnWalked(c, "ErrYAMLDecrypt", file[c])
    BY <1>1, <1>3, ReturnOwn
  <1>4. QED
    BY <1>2, <1>3 DEF DecryptScalar

\* So is marshalling.
LEMMA MarshalOwn ==
  ASSUME NEW c \in Callers, Typed, Marshal(c)
  PROVE  StepOf(c)
  <1>1. UNCHANGED <<spent, enc, first>>
    BY DEF Marshal
  <1>2. QED
    BY <1>1, ReturnOwn DEF Marshal

\* A step inside Encrypt is its caller's: it keeps the text until Seal, and then
\* has its encryption under a nonce that is spent now.
LEMMA EncryptStepOwn ==
  ASSUME NEW c \in Callers, Typed, TypeOK, EncryptStep(c),
         UNCHANGED <<file, call, walkVars, in, stats, result, calls, first>>
  PROVE  /\ StepOf(c)
         /\ enc[c].pc \notin {"idle", "done"} /\ enc'[c].pc # "idle"
         /\ IF enc'[c].pc = "done"
            THEN \E k \in spent' : enc'[c].text = Sealed(Key, k, enc[c].text)
            ELSE enc'[c].text = enc[c].text
  <1>1. ASSUME NEW from, NEW to, NEW buf, NEW nonce, Goes(c, from, to, buf, nonce),
               from \notin {"idle", "done"}, to \notin {"idle", "done"}, UNCHANGED spent
        PROVE  /\ \A d \in Callers \ {c} : enc'[d] = enc[d]
               /\ enc[c].pc \notin {"idle", "done"} /\ enc'[c].pc \notin {"idle", "done"}
               /\ enc'[c].text = enc[c].text /\ spent \subseteq spent'
    BY <1>1 DEF TypeOK
  <1>2. CASE Seal(c)
    BY <1>2 DEF Seal, TypeOK, StepOf, Kept, walkVars, Typed
  <1>3. CASE ~Seal(c)
    <2>1. /\ \A d \in Callers \ {c} : enc'[d] = enc[d]
          /\ enc[c].pc \notin {"idle", "done"} /\ enc'[c].pc \notin {"idle", "done"}
          /\ enc'[c].text = enc[c].text /\ spent \subseteq spent'
      <3> HIDE DEF Goes
      <3>1. CASE Get(c)
        BY <1>1, <3>1 DEF Get
      <3>2. CASE Read(c)
        BY <1>1, <3>2 DEF Read
      <3>3. CASE ReadFails(c)
        BY <1>1, <3>3 DEF ReadFails
      <3>4. CASE Copy(c)
        BY <1>1, <3>4 DEF Copy
      <3>5. CASE Put(c)
        BY <1>1, <3>5 DEF Put
      <3>6. QED
        BY <1>3, <3>1, <3>2, <3>3, <3>4, <3>5 DEF EncryptStep
    <2>2. QED
      BY <2>1 DEF StepOf, Kept, walkVars, Typed
  <1>4. QED
    BY <1>2, <1>3


(***************************************************************************)
(* What a caller's own steps keep                                          *)
(***************************************************************************)
\* Between two calls no Encrypt is in progress.
LEMMA NoneBetween ==
  ASSUME NEW c \in Callers, CallInv(c), call[c].pc = "none"
  PROVE  enc[c].pc = "idle" /\ todo[c] = {} /\ seen[c] = {} /\ secret[c] = {}
  BY DEF CallInv, EncryptsTurn, Walks, Walking

\* A call that is over before any walk.
LEMMA EarlyStep ==
  ASSUME NEW c \in Callers, Typed, CallInv(c), call[c].pc = "none", NEW op, NEW err,
         ReturnEarly(c, op, err), UNCHANGED <<enc, first>>, err # "ErrYAMLDecrypt",
         op = "encrypt" => err # "nil" \/ ~IsDoc(file[c]),
         op = "decrypt" /\ err = "nil" => ~IsDoc(file[c]) \/ ~ContainsTag(file[c])
  PROVE  CallInv(c)'
  <1>1. /\ call'[c] = Call("none", op, Key) /\ result'[c] = err /\ file'[c] = file[c]
        /\ todo'[c] = {} /\ seen'[c] = {} /\ secret'[c] = {}
        /\ enc'[c].pc = "idle" /\ first'[c] = first[c]
    BY NoneBetween DEF ReturnEarly, Return, walkVars, Typed
  <1>2. call'[c].pc = "none" /\ call'[c].op = op
    BY <1>1 DEF Call
  <1>3. FileTyped(c)' /\ MeansTheSame(c)'
    BY <1>1 DEF CallInv, FileTyped, MeansTheSame, IsDoc
  <1>4. Walks(c)' /\ SecretsFound(c)' /\ EncryptsTurn(c)' /\ EncryptedSoFar(c)' /\ DecryptedSoFar(c)'
    BY <1>1, <1>2 DEF Walks, SecretsFound, EncryptsTurn, EncryptedSoFar, DecryptedSoFar, Walking
  <1>5. EncryptedRight(c)'
    BY <1>1, <1>2 DEF EncryptedRight, Succeeded, IsDoc
  <1>6. DecryptedRight(c)'
    <2>1. SUFFICES ASSUME IsDoc(file[c]), op = "decrypt", err = "nil",
                          NEW m \in Strings(file[c].tree)
                   PROVE  ~IsEncrypted(file[c].value[m])
      BY <1>1, <1>2 DEF DecryptedRight, Succeeded, IsDoc
    <2>2. m \in DOMAIN file[c].value
      BY <2>1 DEF CallInv, FileTyped, ValuesTyped, Strings
    <2>3. QED
      BY <2>1, <2>2 DEF ContainsTag
  <1>7. QED
    BY <1>3, <1>4, <1>5, <1>6 DEF CallInv

\* A call whose walk begins.
LEMMA BeginStep ==
  ASSUME NEW c \in Callers, Typed, CallInv(c), call[c].pc = "none", IsDoc(file[c]),
         NEW op \in {"encrypt", "decrypt"}, NEW key, Walk(c, op, key), UNCHANGED <<enc, first>>
  PROVE  CallInv(c)'
  <1> DEFINE t == file[c].tree
  <1>1. /\ call'[c] = Call("walk", op, key) /\ result'[c] = "none" /\ file'[c] = file[c]
        /\ todo'[c] = {1} /\ seen'[c] = {} /\ secret'[c] = {}
        /\ value'[c] = file[c].value /\ in'[c] = file[c].value /\ stats'[c] = Stats(0, 0)
        /\ enc'[c].pc = "idle" /\ first'[c] = first[c]
    BY NoneBetween DEF Walk, Typed
  <1>2. call'[c].pc = "walk" /\ call'[c].op = op
    BY <1>1 DEF Call
  <1>3. t \in DOMAIN Trees /\ ValuesTyped(t, file[c].value)
    BY DEF CallInv, FileTyped
  <1>4. FileTyped(c)' /\ MeansTheSame(c)'
    BY <1>1 DEF CallInv, FileTyped, MeansTheSame, IsDoc
  <1>5. Walks(c)'
    BY <1>1, <1>2, <1>3, TreeFacts DEF Walks, IsDoc, Tree
  <1>6. SecretsFound(c)'
    BY <1>1, <1>3, DocumentNotSecret DEF SecretsFound
  <1>7. EncryptsTurn(c)' /\ EncryptedRight(c)' /\ DecryptedRight(c)'
    BY <1>1, <1>2 DEF EncryptsTurn, EncryptedRight, DecryptedRight, Succeeded
  <1>8. EncryptedSoFar(c)'
    <2>1. /\ (ToEncrypt(c) \cap seen[c])' = {} /\ (ToSkip(c) \cap seen[c])' = {}
          /\ Cardinality({}) = 0
      BY <1>1, FS_EmptySet
    <2>2. stats'[c].encrypted = 0 /\ stats'[c].skipped = 0
      BY <1>1 DEF Stats
    <2>3. ExactlyEncrypted(c, ToEncrypt(c) \cap seen[c], value[c])'
      BY <1>1 DEF ExactlyEncrypted
    <2>4. QED
      BY <2>1, <2>2, <2>3 DEF EncryptedSoFar
  <1>9. DecryptedSoFar(c)'
    BY <1>1 DEF DecryptedSoFar
  <1>10. QED
    BY <1>4, <1>5, <1>6, <1>7, <1>8, <1>9 DEF CallInv

\* EncryptBytes up to its walk.
LEMMA EncryptBytesStep ==
  ASSUME NEW c \in Callers, Typed, CallInv(c), EncryptBytes(c)
  PROVE  CallInv(c)'
  <1>1. call[c].pc = "none" /\ UNCHANGED <<enc, first>>
    BY DEF EncryptBytes, NewCall
  <1>2. CASE ReturnEarly(c, "nil predicate", "ErrNilPredicate")
    BY <1>1, <1>2, EarlyStep
  <1>3. CASE file[c].form \in {"empty", "blank"} /\ ReturnEarly(c, "encrypt", "nil")
    <2>1. ~IsDoc(file[c])
      BY <1>3 DEF IsDoc
    <2>2. QED
      BY <1>1, <1>3, <2>1, EarlyStep
  <1>4. CASE ReturnEarly(c, "encrypt", "ErrYAMLDecode")
    BY <1>1, <1>4, EarlyStep
  <1>5. CASE IsDoc(file[c]) /\ Walk(c, "encrypt", Key)
    BY <1>1, <1>5, BeginStep
  <1>6. QED
    BY <1>2, <1>3, <1>4, <1>5 DEF EncryptBytes

\* DecryptBytes up to its walk.
LEMMA DecryptBytesStep ==
  ASSUME NEW c \in Callers, Typed, CallInv(c), DecryptBytes(c)
  PROVE  CallInv(c)'
  <1>1. call[c].pc = "none" /\ UNCHANGED <<enc, first>>
    BY DEF DecryptBytes, NewCall
  <1>2. CASE /\ file[c].form \in {"empty", "blank"} \/ ~ContainsTag(file[c])
             /\ ReturnEarly(c, "decrypt", "nil")
    <2>1. ~IsDoc(file[c]) \/ ~ContainsTag(file[c])
      BY <1>2 DEF IsDoc
    <2>2. QED
      BY <1>1, <1>2, <2>1, EarlyStep
  <1>3. CASE ReturnEarly(c, "decrypt", "ErrYAMLDecode")
    BY <1>1, <1>3, EarlyStep
  <1>4. CASE IsDoc(file[c]) /\ \E key : Walk(c, "decrypt", key)
    BY <1>1, <1>4, BeginStep
  <1>5. QED
    BY <1>2, <1>3, <1>4 DEF DecryptBytes

\* A call whose walk is over without an output: nothing has happened to the file.
LEMMA FailStep ==
  ASSUME NEW c \in Callers, Typed, CallInv(c), call[c].pc = "walk", NEW err, err # "nil",
         ReturnWalked(c, err, file[c]), enc'[c].pc = "idle", UNCHANGED first,
         err = "ErrYAMLDecrypt" =>
             \E m \in Strings(file[c].tree) :
                IsEncrypted(file[c].value[m]) /\ ~Opens(call[c].key, file[c].value[m])
  PROVE  CallInv(c)'
  <1>1. /\ call'[c] = Call("none", call[c].op, call[c].key) /\ result'[c] = err
        /\ file'[c] = file[c] /\ todo'[c] = {} /\ seen'[c] = {} /\ secret'[c] = {}
        /\ first'[c] = first[c]
    BY DEF ReturnWalked, Return, Typed
  <1>2. call'[c].pc = "none" /\ call'[c].key = call[c].key
    BY <1>1 DEF Call
  <1>3. FileTyped(c)' /\ MeansTheSame(c)'
    BY <1>1 DEF CallInv, FileTyped, MeansTheSame, IsDoc
  <1>4. Walks(c)' /\ SecretsFound(c)' /\ EncryptsTurn(c)' /\ EncryptedSoFar(c)' /\ DecryptedSoFar(c)'
    BY <1>1, <1>2 DEF Walks, SecretsFound, EncryptsTurn, EncryptedSoFar, DecryptedSoFar, Walking
  <1>5. EncryptedRight(c)' /\ DecryptedRight(c)'
    BY <1>1, <1>2 DEF EncryptedRight, DecryptedRight, Succeeded
  <1>6. QED
    BY <1>3, <1>4, <1>5 DEF CallInv


\* The walk goes past a node: it has not been there, nor at what is below.
LEMMA PastWalks ==
  ASSUME NEW c \in Callers, Typed, FileTyped(c), Walks(c), call[c].pc = "walk",
         NEW n \in todo[c], Past(c, n), ValuesTyped(file[c].tree, value'[c]),
         file'[c] = file[c], call'[c] = call[c], result'[c] = result[c], in'[c] = in[c]
  PROVE  /\ Walks(c)' /\ n \notin seen[c]
         /\ todo'[c] = (todo[c] \ {n}) \cup Kids(Tree(c), n) /\ seen'[c] = seen[c] \cup {n}
         /\ n \in DOMAIN Tree(c) /\ file[c].tree \in DOMAIN Trees
         /\ \A k \in Kids(Tree(c), n) : k \notin todo[c] \cup seen[c]
  <1> DEFINE t == file[c].tree
  <1>1. t \in DOMAIN Trees /\ Tree(c) = Trees[t] /\ Tree(c)' = Trees[t] /\ IsDoc(file[c])
    BY DEF Walks, FileTyped, Tree
  <1>2. todo'[c] = (todo[c] \ {n}) \cup Kids(Trees[t], n) /\ seen'[c] = seen[c] \cup {n}
    BY <1>1 DEF Past, Typed
  <1>3. /\ todo[c] \cup seen[c] \subseteq DOMAIN Trees[t] /\ todo[c] \cap seen[c] = {}
        /\ 1 \in todo[c] \cup seen[c]
        /\ \A m \in seen[c] : Kids(Trees[t], m) \subseteq todo[c] \cup seen[c]
        /\ \A k \in todo[c] \cup seen[c] : k = 1 \/ \E p \in seen[c] : k \in Kids(Trees[t], p)
    BY <1>1 DEF Walks
  <1>4. n \in DOMAIN Trees[t] /\ n \notin seen[c]
    BY <1>3
  <1>5. ASSUME NEW k \in Kids(Trees[t], n)
        PROVE  k \in DOMAIN Trees[t] /\ k # n /\ k \notin todo[c] \cup seen[c]
    <2>1. /\ k \in DOMAIN Trees[t] /\ k # 1 /\ k # n
          /\ \A m \in DOMAIN Trees[t] : k \in Kids(Trees[t], m) => m = n
      BY <1>1, <1>4, OneParent
    <2>2. QED
      BY <1>3, <1>4, <2>1
  <1>6. /\ todo'[c] \cup seen'[c] \subseteq DOMAIN Trees[t] /\ todo'[c] \cap seen'[c] = {}
        /\ 1 \in todo'[c] \cup seen'[c]
    BY <1>2, <1>3, <1>4, <1>5
  <1>7. \A m \in seen'[c] : Kids(Trees[t], m) \subseteq todo'[c] \cup seen'[c]
    BY <1>2, <1>3
  <1>8. \A k \in todo'[c] \cup seen'[c] : k = 1 \/ \E p \in seen'[c] : k \in Kids(Trees[t], p)
    BY <1>2, <1>3
  <1>9. Walks(c)'
    BY <1>1, <1>6, <1>7, <1>8 DEF Walks, IsDoc
  <1>10. QED
    BY <1>1, <1>2, <1>4, <1>5, <1>9

\* A step of a walk that leaves the file and the result alone cannot make what is
\* said of finished calls, and of the file, wrong.
LEMMA StillWalking ==
  ASSUME NEW c \in Callers, CallInv(c), call[c].pc = "walk", file'[c] = file[c],
         call'[c] = call[c], result'[c] = result[c], first'[c] = first[c]
  PROVE  /\ FileTyped(c)' /\ EncryptedRight(c)' /\ DecryptedRight(c)' /\ MeansTheSame(c)'
         /\ result[c] = "none" /\ call[c].op \in {"encrypt", "decrypt"}
  <1>1. result[c] = "none" /\ call[c].op \in {"encrypt", "decrypt"}
    BY DEF CallInv, Walks
  <1>2. FileTyped(c)' /\ MeansTheSame(c)'
    BY DEF CallInv, FileTyped, MeansTheSame, IsDoc
  <1>3. EncryptedRight(c)' /\ DecryptedRight(c)'
    BY <1>1 DEF EncryptedRight, DecryptedRight, Succeeded
  <1>4. QED
    BY <1>1, <1>2, <1>3

\* The nodes to encrypt and to skip are secret strings of the document, and
\* finitely many.
LEMMA CandidateFacts ==
  ASSUME NEW c \in Callers, file[c].tree \in DOMAIN Trees
  PROVE  /\ ToEncrypt(c) \subseteq Candidates(c) /\ ToSkip(c) \subseteq Candidates(c)
         /\ Candidates(c) \subseteq SecretNodes[file[c].tree]
         /\ Candidates(c) \subseteq Scalars(file[c].tree)
         /\ Candidates(c) \subseteq DOMAIN Tree(c)
         /\ \A m \in Candidates(c) : Tree(c)[m].kind = "scalar"
         /\ \A S : IsFiniteSet(ToEncrypt(c) \cap S) /\ IsFiniteSet(ToSkip(c) \cap S)
  <1>1. ToEncrypt(c) \subseteq Candidates(c) /\ ToSkip(c) \subseteq Candidates(c)
    BY DEF ToEncrypt, ToSkip
  <1>2. /\ Candidates(c) \subseteq SecretNodes[file[c].tree]
        /\ Candidates(c) \subseteq Scalars(file[c].tree)
        /\ Candidates(c) \subseteq DOMAIN Tree(c)
        /\ \A m \in Candidates(c) : Tree(c)[m].kind = "scalar"
    BY DEF Candidates, Strings, Scalars, Tree
  <1>3. IsFiniteSet(DOMAIN Tree(c))
    BY TreeFacts DEF Tree
  <1>4. \A S : IsFiniteSet(ToEncrypt(c) \cap S) /\ IsFiniteSet(ToSkip(c) \cap S)
    BY <1>1, <1>2, <1>3, FS_Subset
  <1>5. QED
    BY <1>1, <1>2, <1>4

\* A scalar is a leaf, and its turn is nobody else's.
LEMMA TurnFacts ==
  ASSUME NEW c \in Callers, FileTyped(c), Walks(c), NEW op, NEW n \in todo[c], AtNode(c, op, n)
  PROVE  /\ file[c].tree \in DOMAIN Trees /\ n \in DOMAIN Tree(c)
         /\ Walking(c, op) /\ call[c].pc = "walk"
         /\ IsScalar(c, n) => Kids(Tree(c), n) = {} /\ n \in Scalars(file[c].tree)
         /\ \A m \in todo[c] : (\A k \in todo[c] : m <= k) => m = n
  <1>1. call[c].pc = "walk" /\ call[c].op = op /\ \A m \in todo[c] : n <= m
    BY DEF AtNode
  <1>2. /\ file[c].tree \in DOMAIN Trees /\ Tree(c) = Trees[file[c].tree]
        /\ todo[c] \subseteq DOMAIN Tree(c)
    BY <1>1 DEF Walks, FileTyped, Tree
  <1>3. DOMAIN Tree(c) \subseteq Nat
    BY <1>2, TreeFacts
  <1>4. IsScalar(c, n) => Kids(Tree(c), n) = {} /\ n \in Scalars(file[c].tree)
    BY <1>2, TreeFacts DEF IsScalar, Scalars
  <1>5. \A m \in todo[c] : (\A k \in todo[c] : m <= k) => m = n
    BY <1>1, <1>2, <1>3
  <1>6. QED
    BY <1>1, <1>2, <1>4, <1>5 DEF Walking


\* encryptWalk at a node that is not a secret scalar.
LEMMA EncryptNodeStep ==
  ASSUME NEW c \in Callers, Typed, TypeOK, CallInv(c), EncryptNode(c)
  PROVE  CallInv(c)'
  <1>1. PICK n \in todo[c] :
          /\ AtNode(c, "encrypt", n) /\ ~(IsScalar(c, n) /\ n \in secret[c])
          /\ Past(c, n)
          /\ secret' = [secret EXCEPT ![c] =
                           secret[c] \cup SecretKids(Tree(c)[n], n \in secret[c])]
    BY DEF EncryptNode
  <1>2. /\ file'[c] = file[c] /\ call'[c] = call[c] /\ value'[c] = value[c] /\ in'[c] = in[c]
        /\ stats'[c] = stats[c] /\ result'[c] = result[c] /\ first'[c] = first[c]
        /\ enc'[c] = enc[c] /\ spent' = spent
        /\ secret'[c] = secret[c] \cup SecretKids(Tree(c)[n], n \in secret[c])
    BY <1>1 DEF EncryptNode, Typed
  <1> DEFINE t == file[c].tree
  <1>3. FileTyped(c) /\ Walks(c) /\ SecretsFound(c) /\ EncryptedSoFar(c) /\ EncryptsTurn(c)
    BY DEF CallInv
  <1>4. /\ t \in DOMAIN Trees /\ n \in DOMAIN Trees[t] /\ Walking(c, "encrypt")
        /\ call[c].pc = "walk" /\ Tree(c) = Trees[t]
        /\ \A m \in todo[c] : (\A k \in todo[c] : m <= k) => m = n
    BY <1>1, <1>3, TurnFacts DEF Tree
  <1>5. ValuesTyped(t, value'[c])
    BY <1>2, <1>3, <1>4 DEF Walks
  <1>6. /\ Walks(c)' /\ n \notin seen[c]
        /\ todo'[c] = (todo[c] \ {n}) \cup Kids(Tree(c), n) /\ seen'[c] = seen[c] \cup {n}
        /\ \A k \in Kids(Tree(c), n) : k \notin todo[c] \cup seen[c]
    BY <1>1, <1>2, <1>3, <1>4, <1>5, PastWalks
  <1>7. FileTyped(c)' /\ EncryptedRight(c)' /\ DecryptedRight(c)' /\ MeansTheSame(c)'
    BY <1>2, <1>4, StillWalking
  <1>8. \A m \in todo[c] \cup seen[c] : m \in secret[c] <=> m \in SecretNodes[t]
    BY <1>3, <1>4 DEF SecretsFound
  <1>9. SecretsFound(c)'
    <2> DEFINE new == SecretKids(Trees[t][n], n \in secret[c])
    <2>1. new \subseteq Kids(Trees[t], n)
      BY DEF SecretKids, Kids
    <2>2. ASSUME NEW i \in DOMAIN Trees[t][n].kids
          PROVE  Trees[t][n].kids[i] \in new <=> Trees[t][n].kids[i] \in SecretNodes[t]
      <3>1. SecretBelow(Trees[t][n], i, n \in secret[c])
              <=> SecretBelow(Trees[t][n], i, n \in SecretNodes[t])
        BY <1>8 DEF SecretBelow
      <3>2. Trees[t][n].kids[i] \in new <=> SecretBelow(Trees[t][n], i, n \in secret[c])
        <4>1. \A j \in DOMAIN Trees[t][n].kids : Trees[t][n].kids[i] = Trees[t][n].kids[j] => i = j
          BY <1>4, TreeFacts
        <4>2. QED
          BY <4>1 DEF SecretKids
      <3>3. QED
        BY <1>4, <3>1, <3>2, SecretKid
    <2>3. \A k \in Kids(Trees[t], n) : k \in new <=> k \in SecretNodes[t]
      BY <2>2 DEF Kids
    <2>4. ASSUME NEW k \in todo'[c] \cup seen'[c]
          PROVE  k \in secret'[c] <=> k \in SecretNodes[t]
      <3>1. secret'[c] = secret[c] \cup new
        BY <1>2, <1>4
      <3>2. CASE k \in Kids(Trees[t], n)
        <4>1. ASSUME k \in secret[c] PROVE k \in SecretNodes[t]
          <5>1. k \notin todo[c] \cup seen[c]
            BY <1>4, <1>6, <3>2
          <5>2. QED
            BY <1>3, <1>4, <4>1, <5>1 DEF SecretsFound
        <4>2. QED
          BY <2>3, <3>1, <3>2, <4>1
      <3>3. CASE k \notin Kids(Trees[t], n)
        BY <1>4, <1>6, <1>8, <2>1, <3>1, <3>3
      <3>4. QED
        BY <3>2, <3>3
    <2>5. secret'[c] \subseteq todo'[c] \cup seen'[c]
      <3>1. secret[c] \subseteq todo[c] \cup seen[c]
        BY <1>3, <1>4 DEF SecretsFound
      <3>2. QED
        BY <1>2, <1>4, <1>6, <2>1, <3>1
    <2>6. QED
      BY <1>2, <2>4, <2>5 DEF SecretsFound
  <1>10. ToEncrypt(c)' = ToEncrypt(c) /\ ToSkip(c)' = ToSkip(c)
    BY <1>2 DEF ToEncrypt, ToSkip, Candidates
  <1>11. n \notin Candidates(c)
    BY <1>1, <1>4, <1>8, CandidateFacts DEF IsScalar
  <1>12. n \notin ToEncrypt(c) /\ n \notin ToSkip(c)
    BY <1>4, <1>11, CandidateFacts
  <1>13. EncryptsTurn(c)'
    BY <1>2, <1>3, <1>4, <1>12 DEF EncryptsTurn
  <1>14. EncryptedSoFar(c)'
    <2>1. (ToEncrypt(c) \cap seen[c])' = ToEncrypt(c) \cap seen[c]
      BY <1>6, <1>10, <1>12
    <2>2. (ToSkip(c) \cap seen[c])' = ToSkip(c) \cap seen[c]
      BY <1>6, <1>10, <1>12
    <2>3. QED
      BY <1>2, <1>3, <1>4, <2>1, <2>2 DEF EncryptedSoFar, ExactlyEncrypted
  <1>15. DecryptedSoFar(c)'
    BY <1>2, <1>4 DEF DecryptedSoFar, Walking
  <1>16. QED
    BY <1>6, <1>7, <1>9, <1>13, <1>14, <1>15 DEF CallInv


\* encryptWalk.scalar goes past a secret scalar, encrypted now or left as it was.
LEMMA PastScalar ==
  ASSUME NEW c \in Callers, Typed, CallInv(c), NEW n \in todo[c], AtNode(c, "encrypt", n),
         IsScalar(c, n), Past(c, n), ValuesTyped(file[c].tree, value'[c]),
         enc'[c].pc = "idle", spent' = spent,
         UNCHANGED <<file, call, secret, in, result, first>>,
         EncryptedSoFar(c)'
  PROVE  CallInv(c)'
  <1>1. /\ FileTyped(c) /\ Walks(c) /\ SecretsFound(c)
    BY DEF CallInv
  <1>2. /\ Walking(c, "encrypt") /\ call[c].pc = "walk" /\ Kids(Tree(c), n) = {}
    BY <1>1, TurnFacts
  <1>3. /\ Walks(c)' /\ todo'[c] = (todo[c] \ {n}) \cup Kids(Tree(c), n)
        /\ seen'[c] = seen[c] \cup {n}
    BY <1>1, <1>2, PastWalks
  <1>4. SecretsFound(c)'
    BY <1>1, <1>2, <1>3 DEF SecretsFound
  <1>5. FileTyped(c)' /\ EncryptedRight(c)' /\ DecryptedRight(c)' /\ MeansTheSame(c)'
    BY <1>2, StillWalking
  <1>6. EncryptsTurn(c)' /\ DecryptedSoFar(c)'
    BY <1>2 DEF EncryptsTurn, DecryptedSoFar, Walking
  <1>7. QED
    BY <1>3, <1>4, <1>5, <1>6 DEF CallInv

\* The value of the scalar whose turn it is is still the input's.
LEMMA TurnUntouched ==
  ASSUME NEW c \in Callers, CallInv(c), NEW n \in todo[c], call[c].pc = "walk",
         n \in Scalars(file[c].tree)
  PROVE  value[c][n] = in[c][n] /\ in[c] = file[c].value /\ n \notin seen[c]
  <1>1. n \notin seen[c] /\ in[c] = file[c].value /\ call[c].op \in {"encrypt", "decrypt"}
    BY DEF CallInv, Walks
  <1>2. CASE call[c].op = "encrypt"
    BY <1>1, <1>2 DEF CallInv, EncryptedSoFar, Walking, ExactlyEncrypted
  <1>3. CASE call[c].op = "decrypt"
    BY <1>1, <1>3 DEF CallInv, DecryptedSoFar, Walking
  <1>4. QED
    BY <1>1, <1>2, <1>3

\* encryptWalk.scalar up to the call of Encrypt.
LEMMA EncryptScalarStep ==
  ASSUME NEW c \in Callers, Typed, TypeOK, CallInv(c), EncryptScalar(c)
  PROVE  CallInv(c)'
  <1>1. PICK n \in todo[c] :
          /\ AtNode(c, "encrypt", n) /\ IsScalar(c, n) /\ n \in secret[c]
          /\ \/ /\ Exempt(file[c].tree, n, value[c][n])
                /\ Past(c, n)
                /\ UNCHANGED <<cryptVars, stats>>
             \/ /\ ~Exempt(file[c].tree, n, value[c][n]) /\ IsEncrypted(value[c][n])
                /\ stats' = [stats EXCEPT ![c] = Stats(stats[c].encrypted, stats[c].skipped + 1)]
                /\ Past(c, n)
                /\ UNCHANGED cryptVars
             \/ /\ ~Exempt(file[c].tree, n, value[c][n]) /\ ~IsEncrypted(value[c][n])
                /\ Encrypt(c, value[c][n])
                /\ UNCHANGED <<todo, seen, stats>>
    BY DEF EncryptScalar
  <1>2. enc[c].pc = "idle" /\ UNCHANGED <<file, call, secret, value, in, result, calls, first>>
    BY DEF EncryptScalar
  <1> DEFINE t == file[c].tree
             v == in[c][n]
  <1>3. FileTyped(c) /\ Walks(c) /\ SecretsFound(c) /\ EncryptedSoFar(c)
    BY DEF CallInv
  <1>4. /\ t \in DOMAIN Trees /\ n \in Scalars(t) /\ Walking(c, "encrypt")
        /\ call[c].pc = "walk" /\ \A m \in todo[c] : n <= m
    BY <1>1, <1>3, TurnFacts DEF AtNode
  <1>5. value[c][n] = v /\ n \notin seen[c]
    BY <1>4, TurnUntouched
  <1>6. ValuesTyped(t, value'[c])
    BY <1>2, <1>3, <1>4 DEF Walks
  <1>7. n \in SecretNodes[t]
    BY <1>1, <1>3, <1>4 DEF SecretsFound
  <1>8. n \in Candidates(c) <=> ~Exempt(t, n, v)
    BY <1>7 DEF Candidates, Exempt
  <1>9. ToEncrypt(c)' = ToEncrypt(c) /\ ToSkip(c)' = ToSkip(c)
    BY <1>2 DEF ToEncrypt, ToSkip, Candidates
  <1>10. ASSUME Past(c, n)
         PROVE  seen'[c] = seen[c] \cup {n}
    BY <1>10 DEF Past, Typed
  <1>11. CASE Exempt(t, n, v) /\ Past(c, n) /\ UNCHANGED <<cryptVars, stats>>
    <2>1. n \notin ToEncrypt(c) /\ n \notin ToSkip(c)
      BY <1>8, <1>11 DEF ToEncrypt, ToSkip
    <2>2. (ToEncrypt(c) \cap seen[c])' = ToEncrypt(c) \cap seen[c]
      BY <1>9, <1>10, <1>11, <2>1
    <2>3. (ToSkip(c) \cap seen[c])' = ToSkip(c) \cap seen[c]
      BY <1>9, <1>10, <1>11, <2>1
    <2>4. EncryptedSoFar(c)'
      BY <1>2, <1>3, <1>4, <1>11, <2>2, <2>3 DEF EncryptedSoFar, ExactlyEncrypted
    <2>5. QED
      BY <1>1, <1>2, <1>6, <1>11, <2>4, PastScalar
  <1>12. CASE /\ ~Exempt(t, n, v) /\ IsEncrypted(v)
              /\ stats' = [stats EXCEPT ![c] = Stats(stats[c].encrypted, stats[c].skipped + 1)]
              /\ Past(c, n)
              /\ UNCHANGED cryptVars
    <2>1. n \notin ToEncrypt(c) /\ n \in ToSkip(c)
      BY <1>8, <1>12 DEF ToEncrypt, ToSkip
    <2>2. (ToEncrypt(c) \cap seen[c])' = ToEncrypt(c) \cap seen[c]
      BY <1>9, <1>10, <1>12, <2>1
    <2>3. (ToSkip(c) \cap seen[c])' = (ToSkip(c) \cap seen[c]) \cup {n}
      BY <1>9, <1>10, <1>12, <2>1
    <2>4. Cardinality((ToSkip(c) \cap seen[c])') = Cardinality(ToSkip(c) \cap seen[c]) + 1
      <3>1. IsFiniteSet(ToSkip(c) \cap seen[c])
        BY <1>4, CandidateFacts
      <3>2. QED
        BY <1>5, <2>3, <3>1, FS_AddElement
    <2>5. stats'[c].encrypted = stats[c].encrypted /\ stats'[c].skipped = stats[c].skipped + 1
      BY <1>12 DEF Typed, Stats
    <2>6. EncryptedSoFar(c)'
      BY <1>2, <1>3, <1>4, <1>12, <2>2, <2>4, <2>5 DEF EncryptedSoFar, ExactlyEncrypted
    <2>7. QED
      BY <1>1, <1>2, <1>6, <1>12, <2>6, PastScalar
  <1>13. CASE /\ ~Exempt(t, n, v) /\ ~IsEncrypted(v)
              /\ Encrypt(c, v)
              /\ UNCHANGED <<todo, seen, stats>>
    <2>1. enc'[c] = Enc("get", v, NoBuffer, NoNonce) /\ spent' = spent
      BY <1>13 DEF Encrypt, TypeOK
    <2>2. n \in ToEncrypt(c)
      BY <1>8, <1>13 DEF ToEncrypt
    <2>3. EncryptsTurn(c)'
      <3>1. enc'[c].pc = "get" /\ enc'[c].text = v
        BY <2>1
      <3>2. Walking(c, "encrypt")' /\ n \in (todo[c] \cap ToEncrypt(c))'
        BY <1>2, <1>4, <1>9, <1>13, <2>2 DEF Walking
      <3>3. \A m \in todo'[c] : n <= m
        BY <1>4, <1>13
      <3>4. enc'[c].text = in'[c][n]
        BY <1>2, <3>1
      <3>5. QED
        BY <3>1, <3>2, <3>3, <3>4 DEF EncryptsTurn
    <2>4. FileTyped(c)' /\ EncryptedRight(c)' /\ DecryptedRight(c)' /\ MeansTheSame(c)'
      BY <1>2, <1>4, StillWalking
    <2>5. Walks(c)'
      BY <1>2, <1>3, <1>13 DEF Walks, Tree, IsDoc
    <2>6. SecretsFound(c)'
      BY <1>2, <1>3, <1>13 DEF SecretsFound, Walking
    <2>7. EncryptedSoFar(c)'
      BY <1>2, <1>3, <1>9, <1>13, <2>1 DEF EncryptedSoFar, ExactlyEncrypted, Walking
    <2>8. DecryptedSoFar(c)'
      BY <1>2, <1>4 DEF DecryptedSoFar, Walking
    <2>9. QED
      BY <2>3, <2>4, <2>5, <2>6, <2>7, <2>8 DEF CallInv
  <1>14. QED
    BY <1>1, <1>5, <1>11, <1>12, <1>13


\* A step inside Encrypt.
LEMMA EncryptStepStep ==
  ASSUME NEW c \in Callers, Typed, TypeOK, CallInv(c), EncryptStep(c),
         UNCHANGED <<file, call, walkVars, in, stats, result, calls, first>>
  PROVE  CallInv(c)'
  <1>1. /\ spent \subseteq spent' /\ enc[c].pc \notin {"idle", "done"} /\ enc'[c].pc # "idle"
        /\ IF enc'[c].pc = "done"
           THEN \E k \in spent' : enc'[c].text = Sealed(Key, k, enc[c].text)
           ELSE enc'[c].text = enc[c].text
    BY EncryptStepOwn DEF StepOf
  <1>2. UNCHANGED <<file, call, todo, seen, secret, value, in, stats, result, first>>
    BY DEF walkVars
  <1>3. PICK n \in todo[c] \cap ToEncrypt(c) :
          (\A m \in todo[c] : n <= m) /\ enc[c].text = in[c][n]
    BY <1>1 DEF CallInv, EncryptsTurn
  <1>4. Walking(c, "encrypt") /\ call[c].pc = "walk"
    BY <1>1 DEF CallInv, EncryptsTurn, Walking
  <1>5. ToEncrypt(c)' = ToEncrypt(c) /\ ToSkip(c)' = ToSkip(c)
    BY <1>2 DEF ToEncrypt, ToSkip, Candidates
  <1>6. EncryptsTurn(c)'
    <2>1. Walking(c, "encrypt")' /\ n \in (todo[c] \cap ToEncrypt(c))'
      BY <1>2, <1>4, <1>5 DEF Walking
    <2>2. \A m \in todo'[c] : n <= m
      BY <1>2, <1>3
    <2>3. IF enc'[c].pc = "done" THEN \E k \in spent' : enc'[c].text = Sealed(Key, k, in'[c][n])
                                 ELSE enc'[c].text = in'[c][n]
      BY <1>1, <1>2, <1>3
    <2>4. QED
      BY <2>1, <2>2, <2>3 DEF EncryptsTurn
  <1>7. FileTyped(c)' /\ EncryptedRight(c)' /\ DecryptedRight(c)' /\ MeansTheSame(c)'
    BY <1>2, <1>4, StillWalking
  <1>8. Walks(c)' /\ SecretsFound(c)' /\ DecryptedSoFar(c)'
    BY <1>2 DEF CallInv, Walks, SecretsFound, DecryptedSoFar, Walking, Tree, IsDoc
  <1>9. EncryptedSoFar(c)'
    BY <1>1, <1>2, <1>5 DEF CallInv, EncryptedSoFar, ExactlyEncrypted, Walking
  <1>10. QED
    BY <1>6, <1>7, <1>8, <1>9 DEF CallInv

\* encryptWalk.scalar once Encrypt has returned.
LEMMA EncryptedStep ==
  ASSUME NEW c \in Callers, Typed, TypeOK, CallInv(c), Encrypted(c)
  PROVE  CallInv(c)'
  <1>1. /\ enc[c].pc \in {"done", "ErrReadNonce"} /\ enc'[c].pc = "idle" /\ spent' = spent
        /\ UNCHANGED first
    BY DEF Encrypted, EncryptReturns, TypeOK, Idle
  <1>2. Walking(c, "encrypt") /\ call[c].pc = "walk"
    BY <1>1 DEF CallInv, EncryptsTurn, Walking
  <1>3. CASE enc[c].pc = "ErrReadNonce"
    <2>1. ReturnWalked(c, "ErrReadNonce", file[c])
      BY <1>3 DEF Encrypted
    <2>2. QED
      BY <1>1, <1>2, <2>1, FailStep
  <1>4. CASE enc[c].pc = "done"
    <2>1. PICK n \in todo[c] :
            AtNode(c, "encrypt", n) /\ Set(c, n, enc[c].text) /\ Past(c, n)
      BY <1>4 DEF Encrypted
    <2>2. /\ stats' = [stats EXCEPT ![c] = Stats(stats[c].encrypted + 1, stats[c].skipped)]
          /\ UNCHANGED <<file, call, result, secret, in>>
      BY <1>4 DEF Encrypted
    <2> DEFINE t == file[c].tree
    <2>3. FileTyped(c) /\ Walks(c) /\ EncryptedSoFar(c)
      BY DEF CallInv
    <2>4. PICK m \in todo[c] \cap ToEncrypt(c) :
            /\ \A k \in todo[c] : m <= k
            /\ \E k \in spent : enc[c].text = Sealed(Key, k, in[c][m])
      BY <1>4 DEF CallInv, EncryptsTurn
    <2>5. m = n /\ t \in DOMAIN Trees
      BY <2>1, <2>3, <2>4, TurnFacts
    <2>6. PICK k \in spent : enc[c].text = Sealed(Key, k, in[c][n])
      BY <2>4, <2>5
    <2>7. n \in ToEncrypt(c) /\ n \in Scalars(t) /\ IsScalar(c, n) /\ n \notin ToSkip(c)
      <3>1. n \in ToEncrypt(c)
        BY <2>4, <2>5
      <3>2. n \in Scalars(t) /\ IsScalar(c, n)
        BY <2>5, <3>1, CandidateFacts DEF IsScalar
      <3>3. n \notin ToSkip(c)
        BY <3>1 DEF ToEncrypt, ToSkip
      <3>4. QED
        BY <3>1, <3>2, <3>3
    <2>8. n \notin seen[c] /\ seen'[c] = seen[c] \cup {n}
      BY <1>2, <2>1, <2>7, TurnUntouched DEF Past, Typed
    <2>9. ValuesTyped(t, value[c])
      BY <1>2, <2>3 DEF Walks
    <2>10. value'[c] = [value[c] EXCEPT ![n] = enc[c].text]
      BY <2>1 DEF Set, Typed
    <2>11. /\ value'[c] = [j \in Scalars(t) |-> value'[c][j]] /\ value'[c][n] = enc[c].text
           /\ \A j \in Scalars(t) : j # n => value'[c][j] = value[c][j]
      BY <2>7, <2>9, <2>10 DEF ValuesTyped
    <2>12. enc[c].text.form \in Forms
      BY <2>6 DEF Sealed, Forms
    <2>13. ValuesTyped(t, value'[c])
      BY <2>9, <2>11, <2>12 DEF ValuesTyped
    <2>14. ToEncrypt(c)' = ToEncrypt(c) /\ ToSkip(c)' = ToSkip(c)
      BY <2>2 DEF ToEncrypt, ToSkip, Candidates
    <2>15. (ToEncrypt(c) \cap seen[c])' = (ToEncrypt(c) \cap seen[c]) \cup {n}
      BY <2>7, <2>8, <2>14
    <2>16. (ToSkip(c) \cap seen[c])' = ToSkip(c) \cap seen[c]
      BY <2>7, <2>8, <2>14
    <2>17. Cardinality((ToEncrypt(c) \cap seen[c])') = Cardinality(ToEncrypt(c) \cap seen[c]) + 1
      <3>1. IsFiniteSet(ToEncrypt(c) \cap seen[c])
        BY <2>5, CandidateFacts
      <3>2. QED
        BY <2>8, <2>15, <3>1, FS_AddElement
    <2>18. stats'[c].encrypted = stats[c].encrypted + 1 /\ stats'[c].skipped = stats[c].skipped
      BY <2>2 DEF Typed, Stats
    <2>19. ExactlyEncrypted(c, ToEncrypt(c) \cap seen[c], value[c])'
      <3>1. ASSUME NEW j \in Scalars(t)
            PROVE  IF j \in (ToEncrypt(c) \cap seen[c]) \cup {n}
                   THEN \E x \in spent : value'[c][j] = Sealed(Key, x, in[c][j])
                   ELSE value'[c][j] = in[c][j]
        <4>1. CASE j = n
          BY <2>6, <2>11, <4>1
        <4>2. CASE j # n
          BY <1>2, <2>3, <2>11, <4>2 DEF EncryptedSoFar, ExactlyEncrypted
        <4>3. QED
          BY <4>1, <4>2
      <3>2. QED
        BY <1>1, <2>2, <2>15, <3>1 DEF ExactlyEncrypted
    <2>20. EncryptedSoFar(c)'
      BY <1>2, <2>3, <2>16, <2>17, <2>18, <2>19 DEF EncryptedSoFar
    <2>21. QED
      BY <1>1, <2>1, <2>2, <2>7, <2>13, <2>20, PastScalar
  <1>5. QED
    BY <1>1, <1>3, <1>4

\* decryptWalk goes past a node.
LEMMA PastDecrypting ==
  ASSUME NEW c \in Callers, Typed, CallInv(c), NEW n \in todo[c], AtNode(c, "decrypt", n),
         Past(c, n), ValuesTyped(file[c].tree, value'[c]),
         UNCHANGED <<enc, spent, file, call, in, result, first>>,
         DecryptedSoFar(c)'
  PROVE  CallInv(c)'
  <1>1. FileTyped(c) /\ Walks(c)
    BY DEF CallInv
  <1>2. Walking(c, "decrypt") /\ call[c].pc = "walk" /\ ~Walking(c, "encrypt")
    BY <1>1, TurnFacts DEF Walking
  <1>3. Walks(c)'
    BY <1>1, <1>2, PastWalks
  <1>4. SecretsFound(c)' /\ EncryptsTurn(c)' /\ EncryptedSoFar(c)'
    BY <1>2 DEF CallInv, SecretsFound, EncryptsTurn, EncryptedSoFar, Walking
  <1>5. FileTyped(c)' /\ EncryptedRight(c)' /\ DecryptedRight(c)' /\ MeansTheSame(c)'
    BY <1>2, StillWalking
  <1>6. QED
    BY <1>3, <1>4, <1>5 DEF CallInv

\* decryptWalk at a node that is no scalar.
LEMMA DecryptNodeStep ==
  ASSUME NEW c \in Callers, Typed, CallInv(c), DecryptNode(c)
  PROVE  CallInv(c)'
  <1>1. PICK n \in todo[c] : AtNode(c, "decrypt", n) /\ ~IsScalar(c, n) /\ Past(c, n)
    BY DEF DecryptNode
  <1>2. UNCHANGED <<enc, spent, file, call, value, in, result, first>>
    BY DEF DecryptNode
  <1>3. FileTyped(c) /\ Walks(c) /\ DecryptedSoFar(c)
    BY DEF CallInv
  <1>4. Walking(c, "decrypt") /\ call[c].pc = "walk" /\ ValuesTyped(file[c].tree, value'[c])
    BY <1>1, <1>2, <1>3, TurnFacts DEF Walks
  <1>5. n \notin Scalars(file[c].tree) /\ seen'[c] = seen[c] \cup {n}
    BY <1>1 DEF IsScalar, Scalars, Tree, Past, Typed
  <1>6. DecryptedSoFar(c)'
    BY <1>2, <1>3, <1>4, <1>5 DEF DecryptedSoFar, Strings
  <1>7. QED
    BY <1>1, <1>2, <1>4, <1>6, PastDecrypting

\* decryptWalk.scalar
LEMMA DecryptScalarStep ==
  ASSUME NEW c \in Callers, Typed, CallInv(c), DecryptScalar(c)
  PROVE  CallInv(c)'
  <1> DEFINE t == file[c].tree
  <1>1. PICK n \in todo[c] :
          /\ AtNode(c, "decrypt", n) /\ IsScalar(c, n)
          /\ \/ /\ ~(n \in Strings(t) /\ IsEncrypted(value[c][n]))
                /\ Past(c, n)
                /\ UNCHANGED <<file, call, result, secret, value, in, stats>>
             \/ /\ n \in Strings(t) /\ IsEncrypted(value[c][n]) /\ Opens(call[c].key, value[c][n])
                /\ Set(c, n, Decrypt(call[c].key, value[c][n]).plain)
                /\ Past(c, n)
                /\ UNCHANGED <<file, call, result, secret, in, stats>>
             \/ /\ n \in Strings(t) /\ IsEncrypted(value[c][n]) /\ ~Opens(call[c].key, value[c][n])
                /\ ReturnWalked(c, "ErrYAMLDecrypt", file[c])
    BY DEF DecryptScalar
  <1>2. UNCHANGED <<enc, spent, first>>
    BY DEF DecryptScalar
  <1>3. FileTyped(c) /\ Walks(c) /\ DecryptedSoFar(c)
    BY DEF CallInv
  <1>4. Walking(c, "decrypt") /\ call[c].pc = "walk" /\ n \in Scalars(t)
    BY <1>1, <1>3, TurnFacts
  <1>5. value[c][n] = in[c][n] /\ in[c] = file[c].value /\ n \notin seen[c]
    BY <1>4, TurnUntouched
  <1>6. ValuesTyped(t, value[c])
    BY <1>3, <1>4 DEF Walks
  <1>7. ASSUME Past(c, n)
        PROVE  seen'[c] = seen[c] \cup {n}
    BY <1>7 DEF Past, Typed
  <1>8. CASE /\ ~(n \in Strings(t) /\ IsEncrypted(value[c][n]))
             /\ Past(c, n)
             /\ UNCHANGED <<file, call, result, secret, value, in, stats>>
    <2>1. DecryptedSoFar(c)'
      BY <1>3, <1>4, <1>5, <1>7, <1>8 DEF DecryptedSoFar
    <2>2. ValuesTyped(t, value'[c])
      BY <1>6, <1>8
    <2>3. QED
      BY <1>1, <1>2, <1>8, <2>1, <2>2, PastDecrypting
  <1>9. CASE /\ n \in Strings(t) /\ IsEncrypted(value[c][n]) /\ Opens(call[c].key, value[c][n])
             /\ Set(c, n, Decrypt(call[c].key, value[c][n]).plain)
             /\ Past(c, n)
             /\ UNCHANGED <<file, call, result, secret, in, stats>>
    <2> DEFINE p == in[c][n].value
    <2>1. /\ in[c][n].form = "sealed" /\ Decrypt(call[c].key, value[c][n]).plain = p
          /\ p.form = "plain"
      BY <1>4, <1>5, <1>6, <1>9, OpensSealed DEF ValuesTyped
    <2>2. value'[c] = [value[c] EXCEPT ![n] = p]
      BY <1>9, <2>1 DEF Set, Typed
    <2> HIDE DEF p
    <2>3. /\ value'[c] = [j \in Scalars(t) |-> value'[c][j]] /\ value'[c][n] = p
          /\ \A j \in Scalars(t) : j # n => value'[c][j] = value[c][j]
      BY <1>4, <1>6, <2>2 DEF ValuesTyped
    <2>4. p.form \in Forms /\ ~IsEncrypted(p)
      BY <2>1 DEF Forms, IsEncrypted
    <2>5. ValuesTyped(t, value'[c])
      BY <1>6, <2>3, <2>4 DEF ValuesTyped
    <2>6. ASSUME NEW j \in Scalars(t)
          PROVE  IF j \in seen'[c] \cap Strings(t) /\ IsEncrypted(in[c][j])
                 THEN /\ in[c][j].form = "sealed" /\ value'[c][j] = in[c][j].value
                      /\ ~IsEncrypted(value'[c][j])
                 ELSE value'[c][j] = in[c][j]
      <3>1. CASE j = n
        <4>1. j \in seen'[c] \cap Strings(t) /\ IsEncrypted(in[c][j])
          BY <1>5, <1>7, <1>9, <3>1
        <4>2. QED
          BY <2>1, <2>3, <2>4, <3>1, <4>1 DEF p
      <3>2. CASE j # n
        BY <1>3, <1>4, <1>7, <1>9, <2>3, <3>2 DEF DecryptedSoFar
      <3>3. QED
        BY <3>1, <3>2
    <2>7. DecryptedSoFar(c)'
      BY <1>9, <2>6 DEF DecryptedSoFar
    <2>8. QED
      BY <1>1, <1>2, <1>9, <2>5, <2>7, PastDecrypting
  <1>10. CASE /\ n \in Strings(t) /\ IsEncrypted(value[c][n]) /\ ~Opens(call[c].key, value[c][n])
              /\ ReturnWalked(c, "ErrYAMLDecrypt", file[c])
    <2>1. enc'[c].pc = "idle"
      BY <1>2, <1>4 DEF CallInv, EncryptsTurn, Walking
    <2>2. IsEncrypted(file[c].value[n]) /\ ~Opens(call[c].key, file[c].value[n])
      BY <1>5, <1>10
    <2>3. QED
      BY <1>2, <1>4, <1>10, <2>1, <2>2, FailStep
  <1>11. QED
    BY <1>1, <1>8, <1>9, <1>10


\* A walk with nothing left to come to has been at every node of the document.
LEMMA AllSeen ==
  ASSUME NEW c \in Callers, FileTyped(c), Walks(c), call[c].pc = "walk", todo[c] = {}
  PROVE  /\ seen[c] = DOMAIN Tree(c) /\ file[c].tree \in DOMAIN Trees
         /\ Scalars(file[c].tree) \subseteq seen[c]
  <1>1. file[c].tree \in DOMAIN Trees /\ Tree(c) = Trees[file[c].tree]
    BY DEF Walks, FileTyped, Tree
  <1>2. /\ seen[c] \subseteq DOMAIN Tree(c) /\ 1 \in seen[c]
        /\ \A n \in seen[c] : Kids(Tree(c), n) \subseteq seen[c]
    BY DEF Walks
  <1>3. seen[c] = DOMAIN Tree(c)
    BY <1>1, <1>2, TreeFacts
  <1>4. QED
    BY <1>1, <1>3 DEF Scalars

\* A call whose walk is over and whose output becomes the file.
LEMMA MarshalStep ==
  ASSUME NEW c \in Callers, Typed, CallInv(c), Marshal(c)
  PROVE  CallInv(c)'
  <1> DEFINE t == file[c].tree
             out == [form |-> "doc", mention |-> file[c].mention, tree |-> t, value |-> value[c]]
  <1>1. call[c].pc = "walk" /\ todo[c] = {} /\ UNCHANGED <<enc, spent, first>>
    BY DEF Marshal
  <1>2. enc[c].pc = "idle"
    BY <1>1 DEF CallInv, EncryptsTurn
  <1>3. CASE ReturnWalked(c, "ErrYAMLEncode", file[c])
    BY <1>1, <1>2, <1>3, FailStep
  <1>4. CASE ReturnWalked(c, "nil", out)
    <2>1. /\ call'[c] = Call("none", call[c].op, call[c].key) /\ result'[c] = "nil"
          /\ file'[c] = out /\ todo'[c] = {} /\ seen'[c] = {} /\ secret'[c] = {}
          /\ in'[c] = in[c] /\ stats'[c] = stats[c] /\ first'[c] = first[c]
      BY <1>1, <1>4 DEF ReturnWalked, Return, Typed
    <2>2. call'[c].pc = "none" /\ call'[c].op = call[c].op
      BY <2>1 DEF Call
    <2>3. file'[c].form = "doc" /\ file'[c].tree = t /\ file'[c].value = value[c]
      BY <2>1
    <2>4. FileTyped(c) /\ Walks(c) /\ EncryptedSoFar(c) /\ DecryptedSoFar(c) /\ MeansTheSame(c)
      BY DEF CallInv
    <2>5. /\ IsDoc(file[c]) /\ IsDoc(first[c]) /\ in[c] = file[c].value /\ ValuesTyped(t, value[c])
          /\ t \in DOMAIN Trees /\ first[c].tree = t /\ call[c].op \in {"encrypt", "decrypt"}
          /\ ValuesTyped(t, in[c])
      BY <1>1, <2>4 DEF Walks, FileTyped, MeansTheSame
    <2>6. seen[c] = DOMAIN Tree(c) /\ Scalars(t) \subseteq seen[c]
      BY <1>1, <2>4, AllSeen
    <2>7. FileTyped(c)'
      BY <2>1, <2>3, <2>5 DEF FileTyped, IsDoc
    <2>8. Walks(c)' /\ SecretsFound(c)' /\ EncryptsTurn(c)' /\ EncryptedSoFar(c)' /\ DecryptedSoFar(c)'
      BY <1>1, <1>2, <2>1, <2>2
      DEF Walks, SecretsFound, EncryptsTurn, EncryptedSoFar, DecryptedSoFar, Walking
    <2>9. EncryptedRight(c)'
      <3>1. SUFFICES ASSUME call[c].op = "encrypt" PROVE EncryptedRight(c)'
        BY <2>2 DEF EncryptedRight, Succeeded
      <3>2. ToEncrypt(c)' = ToEncrypt(c) /\ ToSkip(c)' = ToSkip(c)
        BY <2>1, <2>3 DEF ToEncrypt, ToSkip, Candidates
      <3>3. ToEncrypt(c) \cap seen[c] = ToEncrypt(c) /\ ToSkip(c) \cap seen[c] = ToSkip(c)
        BY <2>5, <2>6, CandidateFacts
      <3>4. /\ ExactlyEncrypted(c, ToEncrypt(c), value[c])
            /\ stats[c].encrypted = Cardinality(ToEncrypt(c))
            /\ stats[c].skipped = Cardinality(ToSkip(c))
        BY <1>1, <2>4, <3>1, <3>3 DEF EncryptedSoFar, Walking
      <3>5. ExactlyEncrypted(c, ToEncrypt(c), file[c].value)'
        BY <1>1, <2>1, <2>3, <3>2, <3>4 DEF ExactlyEncrypted
      <3>6. QED
        BY <2>1, <3>2, <3>4, <3>5 DEF EncryptedRight
    <2>10. DecryptedRight(c)'
      <3>1. SUFFICES ASSUME call[c].op = "decrypt", NEW m \in Strings(t)
                     PROVE  ~IsEncrypted(value[c][m])
        BY <2>1, <2>2, <2>3 DEF DecryptedRight, Succeeded
      <3>2. m \in Scalars(t) /\ m \in seen[c]
        BY <2>6 DEF Strings
      <3>3. QED
        BY <1>1, <2>4, <3>1, <3>2 DEF DecryptedSoFar, Walking
    <2>11. MeansTheSame(c)'
      <3>1. ASSUME NEW m \in Scalars(t)
            PROVE  Reveal(value[c][m]) = Reveal(in[c][m])
        <4>1. CASE call[c].op = "encrypt"
          <5>1. CASE m \in ToEncrypt(c)
            <6>1. PICK k \in spent : value[c][m] = Sealed(Key, k, in[c][m])
              BY <1>1, <2>4, <2>6, <4>1, <5>1 DEF EncryptedSoFar, Walking, ExactlyEncrypted
            <6>2. in[c][m].form = "plain"
              BY <5>1 DEF ToEncrypt, IsEncrypted
            <6>3. QED
              BY <6>1, <6>2 DEF Reveal, Sealed
          <5>2. CASE m \notin ToEncrypt(c)
            BY <1>1, <2>4, <4>1, <5>2 DEF EncryptedSoFar, Walking, ExactlyEncrypted
          <5>3. QED
            BY <5>1, <5>2
        <4>2. CASE call[c].op = "decrypt"
          <5>1. \/ value[c][m] = in[c][m]
                \/ /\ in[c][m].form = "sealed" /\ value[c][m] = in[c][m].value
                   /\ ~IsEncrypted(value[c][m])
            BY <1>1, <2>4, <4>2 DEF DecryptedSoFar, Walking
          <5>2. QED
            BY <5>1 DEF Reveal, IsEncrypted
        <4>3. QED
          BY <2>5, <4>1, <4>2
      <3>2. QED
        BY <2>1, <2>3, <2>4, <2>5, <3>1 DEF MeansTheSame, IsDoc
    <2>12. QED
      BY <2>7, <2>8, <2>9, <2>10, <2>11 DEF CallInv
  <1>5. QED
    BY <1>3, <1>4 DEF Marshal

(***************************************************************************)
(* The invariant of the whole, and the theorems                            *)
(***************************************************************************)
\* Before any call the invariant holds.
LEMMA YAMLStarts == Init => YAMLInv
  <1> SUFFICES ASSUME Init PROVE YAMLInv
    OBVIOUS
  <1>1. CrypterInv
    BY CrypterStarts DEF Init
  <1>2. Typed
    BY FilesTyped DEF Init, Typed
  <1>3. ASSUME NEW c \in Callers PROVE CallInv(c)
    <2>1. /\ call[c].pc = "none" /\ call[c].op = "none" /\ result[c] = "none"
          /\ todo[c] = {} /\ seen[c] = {} /\ secret[c] = {} /\ first[c] = file[c]
          /\ enc[c].pc = "idle"
      BY DEF Init, Call, CrypterInit, Idle
    <2>2. IsDoc(file[c]) => file[c].tree \in DOMAIN Trees /\ ValuesTyped(file[c].tree, file[c].value)
      BY FilesTyped DEF Init
    <2>3. FileTyped(c) /\ MeansTheSame(c)
      BY <2>1, <2>2 DEF FileTyped, MeansTheSame
    <2>4. Walks(c) /\ SecretsFound(c) /\ EncryptsTurn(c) /\ EncryptedSoFar(c) /\ DecryptedSoFar(c)
      BY <2>1 DEF Walks, SecretsFound, EncryptsTurn, EncryptedSoFar, DecryptedSoFar, Walking
    <2>5. EncryptedRight(c) /\ DecryptedRight(c)
      BY <2>1 DEF EncryptedRight, DecryptedRight, Succeeded
    <2>6. QED
      BY <2>3, <2>4, <2>5 DEF CallInv
  <1>4. QED
    BY <1>1, <1>2, <1>3 DEF YAMLInv

\* What a step of EncryptBytes or DecryptBytes does to the Crypter is one of the
\* Crypter's own steps, or nothing.
LEMMA UsesCrypter ==
  ASSUME [Next]_vars
  PROVE  \E Data : [CrypterNext(Data)]_cryptVars
  <1>1. CASE UNCHANGED cryptVars
    BY <1>1
  <1>2. ASSUME NEW c \in Callers, NEW v, Encrypt(c, v)
        PROVE  \E Data : CrypterNext(Data)
    <2>1. CrypterNext({v})
      BY <1>2 DEF CrypterNext
    <2>2. QED
      BY <2>1
  <1>3. ASSUME NEW c \in Callers, EncryptStep(c) \/ EncryptReturns(c)
        PROVE  \E Data : CrypterNext(Data)
    <2>1. CrypterNext({})
      BY <1>3 DEF CrypterNext
    <2>2. QED
      BY <2>1
  <1>4. CASE Collect
    <2>1. CrypterNext({})
      BY <1>4 DEF CrypterNext
    <2>2. QED
      BY <2>1
  <1>5. ASSUME NEW c \in Callers, WalkStep(c)
        PROVE  \/ UNCHANGED cryptVars \/ EncryptStep(c) \/ EncryptReturns(c)
               \/ \E v : Encrypt(c, v)
    <2> HIDE DEF cryptVars
    <2>1. CASE EncryptScalar(c)
      BY <2>1 DEF EncryptScalar
    <2>2. CASE Encrypted(c)
      BY <2>2 DEF Encrypted
    <2>3. CASE EncryptNode(c) \/ DecryptNode(c) \/ DecryptScalar(c) \/ Marshal(c)
      BY <2>3 DEF EncryptNode, DecryptNode, DecryptScalar, Marshal
    <2>4. QED
      BY <1>5, <2>1, <2>2, <2>3 DEF WalkStep
  <1>6. CASE \E c \in Callers : EncryptBytes(c) \/ DecryptBytes(c)
    BY <1>1, <1>6 DEF EncryptBytes, DecryptBytes
  <1>7. CASE \E c \in Callers : WalkStep(c)
    <2> HIDE DEF cryptVars
    <2>1. PICK c \in Callers : WalkStep(c)
      BY <1>7
    <2>2. QED
      BY <1>1, <1>2, <1>3, <1>5, <2>1
  <1>8. CASE UNCHANGED vars
    BY <1>1, <1>8 DEF vars
  <1>9. QED
    BY <1>4, <1>6, <1>7, <1>8 DEF Next

\* Each action of a caller keeps what is true of that caller, and is a step of
\* nobody else.
LEMMA CallerStep ==
  ASSUME NEW c \in Callers, Typed, TypeOK, CallInv(c),
         EncryptBytes(c) \/ DecryptBytes(c) \/ WalkStep(c)
  PROVE  StepOf(c) /\ CallInv(c)'
  <1>1. CASE EncryptBytes(c)
    BY <1>1, EncryptBytesOwn, EncryptBytesStep
  <1>2. CASE DecryptBytes(c)
    BY <1>2, DecryptBytesOwn, DecryptBytesStep
  <1>3. CASE EncryptNode(c)
    BY <1>3, NodeOwn, EncryptNodeStep
  <1>4. CASE EncryptScalar(c)
    BY <1>4, EncryptScalarOwn, EncryptScalarStep
  <1>5. CASE Encrypted(c)
    BY <1>5, EncryptedOwn, EncryptedStep
  <1>6. CASE DecryptNode(c)
    BY <1>6, NodeOwn, DecryptNodeStep
  <1>7. CASE DecryptScalar(c)
    BY <1>7, DecryptScalarOwn, DecryptScalarStep
  <1>8. CASE Marshal(c)
    BY <1>8, MarshalOwn, MarshalStep
  <1>9. CASE EncryptStep(c) /\ UNCHANGED <<file, call, walkVars, in, stats, result, calls, first>>
    BY <1>9, EncryptStepOwn, EncryptStepStep
  <1>10. QED
    BY <1>1, <1>2, <1>3, <1>4, <1>5, <1>6, <1>7, <1>8, <1>9 DEF WalkStep

\* Every step of every caller, and of the garbage collector, keeps the invariant.
LEMMA YAMLStep ==
  ASSUME YAMLInv, [Next]_vars
  PROVE  YAMLInv'
  <1>1. CrypterInv'
    BY UsesCrypter, CrypterStep DEF YAMLInv
  <1>2. TypeOK /\ Typed
    BY DEF YAMLInv, CrypterInv
  <1>3. ASSUME NEW c \in Callers, EncryptBytes(c) \/ DecryptBytes(c) \/ WalkStep(c)
        PROVE  YAMLInv'
    <2>1. StepOf(c) /\ CallInv(c)'
      BY <1>2, <1>3, CallerStep DEF YAMLInv
    <2>2. ASSUME NEW d \in Callers, d # c PROVE CallInv(d)'
      BY <2>1, <2>2, KeptInv DEF YAMLInv, StepOf
    <2>3. QED
      BY <1>1, <2>1, <2>2 DEF YAMLInv, StepOf
  <1>4. ASSUME UNCHANGED <<spent, enc, file, call, walkVars, in, stats, result, first>>
        PROVE  YAMLInv'
    <2>1. Typed'
      BY <1>2, <1>4 DEF Typed, walkVars
    <2>2. ASSUME NEW d \in Callers PROVE CallInv(d)'
      <3>1. Kept(d) /\ spent \subseteq spent'
        BY <1>4 DEF Kept, walkVars
      <3>2. QED
        BY <3>1, KeptInv DEF YAMLInv
    <2>3. QED
      BY <1>1, <2>1, <2>2 DEF YAMLInv
  <1>5. CASE Collect /\ UNCHANGED <<file, call, walkVars, in, stats, result, calls, first>>
    BY <1>4, <1>5 DEF Collect
  <1>6. CASE UNCHANGED vars
    BY <1>4, <1>6 DEF vars
  <1>7. QED
    BY <1>3, <1>5, <1>6 DEF Next

\* The invariant holds throughout, for any files, any trees, any callers and any
\* number of calls: above all, a walk under way has been at the nodes it was to be
\* at, has handed the secret ones and no others to encryptSecret, and has left every
\* value as it was or as it should be.
THEOREM YAMLInvariant == Spec => []YAMLInv
  BY YAMLStarts, YAMLStep, PTL DEF Spec

\* Calls of EncryptBytes that share a Crypter never seal two values with one nonce.
THEOREM SharedNonceUnique == Spec => []NonceUnique
  <1>1. YAMLInv => NonceUnique
    BY DEF YAMLInv, CrypterInv, FreshOwned, Fresh, HasFresh, NonceUnique
  <1>2. QED
    BY <1>1, YAMLInvariant, PTL

\* A successful EncryptBytes has encrypted exactly the secret strings that were not
\* encrypted yet, wherever in the document they are, and has counted them right.
THEOREM EncryptsExactly == Spec => []EncryptExact
  <1>1. YAMLInv => EncryptExact
    BY DEF YAMLInv, CallInv, EncryptExact
  <1>2. QED
    BY <1>1, YAMLInvariant, PTL

\* A successful DecryptBytes leaves no string that looks encrypted, and a failed one
\* met a string it cannot turn into a plain one.
THEOREM DecryptsStrictly == Spec => []DecryptStrict
  <1>1. YAMLInv => DecryptStrict
    BY DEF YAMLInv, CallInv, DecryptStrict
  <1>2. QED
    BY <1>1, YAMLInvariant, PTL

\* No sequence of calls, failed ones and ones with another Crypter's key included,
\* changes what a value of a file reveals.
THEOREM MeaningIsKept == Spec => []MeaningKept
  <1>1. YAMLInv => MeaningKept
    BY DEF YAMLInv, CallInv, MeaningKept
  <1>2. QED
    BY <1>1, YAMLInvariant, PTL
=============================================================================
