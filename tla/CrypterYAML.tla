----------------------------- MODULE CrypterYAML -----------------------------
(***************************************************************************)
(* crypter/yaml/yaml.go: EncryptBytes and DecryptBytes over files, with    *)
(* one Crypter shared by concurrent calls.  Each caller has a file and     *)
(* calls either function on it as often as it likes; what a call returns   *)
(* becomes the file.                                                       *)
(*                                                                         *)
(* The walks change nothing but the values of scalars, so a parsed         *)
(* document is a tree that never changes and a value for each scalar.      *)
(* Parsing and marshalling are yaml.v3's.                                  *)
(***************************************************************************)
EXTENDS Crypter

CONSTANTS Files,       \* what the callers' files may be at first
          Trees,       \* the trees of documents by name, node 1 the document node
          SecretKeys,  \* the mapping keys isSecret answers true for
          OtherKey,    \* the key of another Crypter
          MaxCalls     \* the calls in all

\* A node is [kind, kids, keys, tag]: keys are a mapping's, one for each kid; tag
\* is a scalar's.  An alias is a leaf.  Nodes have their numbers in document order.
Kids(tree, n) == {tree[n].kids[i] : i \in DOMAIN tree[n].kids}
Scalars(t) == {n \in DOMAIN Trees[t] : Trees[t][n].kind = "scalar"}
Strings(t) == {n \in Scalars(t) : Trees[t][n].tag = "!!str"}

ASSUME TreesTyped ==
    \A t \in DOMAIN Trees : LET tree == Trees[t] IN
        /\ IsFiniteSet(DOMAIN tree) /\ DOMAIN tree \subseteq Nat \ {0}
        /\ 1 \in DOMAIN tree /\ tree[1].kind = "doc"
        /\ \A n \in DOMAIN tree :
             /\ tree[n].kind \in {"doc", "map", "seq", "scalar", "alias"}
             /\ tree[n].kind \in {"scalar", "alias"} => Kids(tree, n) = {}
             /\ tree[n].kind = "map" => DOMAIN tree[n].keys = DOMAIN tree[n].kids
             /\ tree[n].kind # "map" => DOMAIN tree[n].keys = {}

\* Each node has one place, and all are below node 1.
ASSUME TreesRooted ==
    \A t \in DOMAIN Trees : LET tree == Trees[t] IN
        /\ \A n \in DOMAIN tree : \A k \in Kids(tree, n) : k \in DOMAIN tree /\ k > n
        /\ \A n, m \in DOMAIN tree : \A i \in DOMAIN tree[n].kids, j \in DOMAIN tree[m].kids :
              tree[n].kids[i] = tree[m].kids[j] => n = m /\ i = j
        /\ \A S \in SUBSET DOMAIN tree :
              1 \in S /\ (\A n \in S : Kids(tree, n) \subseteq S) => S = DOMAIN tree

\* A file is a document, or empty, or without one (blank), or not YAML (broken).
\* mention: StartTag occurs elsewhere than in the values: in a key, a comment.
IsDoc(f) == f.form = "doc"
Forms == {"plain", "sealed"} \cup DOMAIN DamageError

\* Each scalar of a document has a string for its value.
ValuesTyped(t, values) ==
    /\ values = [m \in Scalars(t) |-> values[m]]
    /\ \A m \in Scalars(t) : values[m].form \in Forms

ASSUME FilesTyped ==
    \A fs \in Files :
        /\ fs = [c \in Callers |-> fs[c]]
        /\ \A c \in Callers :
             IsDoc(fs[c]) => fs[c].tree \in DOMAIN Trees /\ ValuesTyped(fs[c].tree, fs[c].value)

\* bytes.Contains(b, StartTag)
ContainsTag(f) ==
    f.mention \/ (IsDoc(f) /\ \E n \in DOMAIN f.value : IsEncrypted(f.value[n]))

VARIABLES
    file,   \* each caller's file
    call,   \* its call: place, function, key
    todo,   \* the nodes its walk comes to next
    seen,   \* the nodes it has been at (history)
    secret, \* the nodes its walk came or comes to through encryptSecret
    value,  \* the values of the scalars in the parsed tree
    in,     \* those its latest walk began with (history)
    stats,  \* its Stats
    result, \* what its latest call returned: an error, "nil", or "none" yet
    calls,  \* how many calls there have been
    first   \* its file at first (history)

walkVars == <<todo, seen, secret, value>>
vars == <<cryptVars, file, call, walkVars, in, stats, result, calls, first>>

Call(pc, op, key) == [pc |-> pc, op |-> op, key |-> key]
Stats(encrypted, skipped) == [encrypted |-> encrypted, skipped |-> skipped]

Init ==
    /\ CrypterInit
    /\ file \in Files
    /\ call = [c \in Callers |-> Call("none", "none", Key)]
    /\ todo = [c \in Callers |-> {}] /\ seen = [c \in Callers |-> {}]
    /\ secret = [c \in Callers |-> {}]
    /\ value = [c \in Callers |-> <<>>] /\ in = [c \in Callers |-> <<>>]
    /\ stats = [c \in Callers |-> Stats(0, 0)]
    /\ result = [c \in Callers |-> "none"]
    /\ calls = 0
    /\ first = file

(***************************************************************************)
(* EncryptBytes and DecryptBytes                                           *)
(***************************************************************************)
\* A call returns: with an output, which becomes the file, or with an error.
Return(c, op, key, err, out) ==
    /\ call' = [call EXCEPT ![c] = Call("none", op, key)]
    /\ result' = [result EXCEPT ![c] = err]
    /\ file' = [file EXCEPT ![c] = IF err = "nil" THEN out ELSE file[c]]

\* The call is over before any walk: with the file as it is, or with an error.
ReturnEarly(c, op, err) ==
    /\ Return(c, op, Key, err, file[c])
    /\ UNCHANGED <<walkVars, in, stats>>

\* The document is parsed and the walk begins.
Walk(c, op, key) ==
    /\ call' = [call EXCEPT ![c] = Call("walk", op, key)]
    /\ todo' = [todo EXCEPT ![c] = {1}]
    /\ value' = [value EXCEPT ![c] = file[c].value]
    /\ in' = [in EXCEPT ![c] = file[c].value]
    /\ stats' = [stats EXCEPT ![c] = Stats(0, 0)]
    /\ result' = [result EXCEPT ![c] = "none"]
    /\ UNCHANGED <<file, seen, secret>>

\* The walk is over, and the call returns.
ReturnWalked(c, err, out) ==
    /\ Return(c, call[c].op, call[c].key, err, out)
    /\ todo' = [todo EXCEPT ![c] = {}] /\ seen' = [seen EXCEPT ![c] = {}]
    /\ secret' = [secret EXCEPT ![c] = {}] /\ value' = [value EXCEPT ![c] = <<>>]
    /\ UNCHANGED <<in, stats>>

NewCall(c) ==
    /\ call[c].pc = "none" /\ calls < MaxCalls
    /\ calls' = calls + 1

EncryptBytes(c) ==
    /\ NewCall(c)
    /\ \/ ReturnEarly(c, "nil predicate", "ErrNilPredicate")
       \/ file[c].form \in {"empty", "blank"} /\ ReturnEarly(c, "encrypt", "nil")
       \/ file[c].form = "broken" /\ ReturnEarly(c, "encrypt", "ErrYAMLDecode")
       \/ IsDoc(file[c]) /\ Walk(c, "encrypt", Key)
    /\ UNCHANGED <<cryptVars, first>>

DecryptBytes(c) ==
    /\ NewCall(c)
    /\ \/ /\ file[c].form \in {"empty", "blank"} \/ ~ContainsTag(file[c])
          /\ ReturnEarly(c, "decrypt", "nil")
       \/ /\ file[c].form = "broken" /\ ContainsTag(file[c])
          /\ ReturnEarly(c, "decrypt", "ErrYAMLDecode")
       \/ /\ IsDoc(file[c]) /\ ContainsTag(file[c])
          /\ \E key \in {Key, OtherKey} : Walk(c, "decrypt", key)
    /\ UNCHANGED <<cryptVars, first>>

(***************************************************************************)
(* The walks, a node at a time in document order                           *)
(***************************************************************************)
Tree(c) == Trees[file[c].tree]
IsScalar(c, n) == Tree(c)[n].kind = "scalar"

\* It is node n's turn in a walk of EncryptBytes or of DecryptBytes.
AtNode(c, op, n) ==
    /\ call[c].pc = "walk" /\ call[c].op = op
    /\ n \in todo[c] /\ \A m \in todo[c] : n <= m

\* On to what is below n.
Past(c, n) ==
    /\ todo' = [todo EXCEPT ![c] = (todo[c] \ {n}) \cup Kids(Tree(c), n)]
    /\ seen' = [seen EXCEPT ![c] = seen[c] \cup {n}]

\* Scalar n's value is v now.
Set(c, n, v) == value' = [value EXCEPT ![c] = [value[c] EXCEPT ![n] = v]]

\* Mutant of SecretBelow: a secret key makes all below its mapping secret.
SecretBelowMaps(node, i, isSecret) ==
    IF node.kind = "map" THEN isSecret \/ node.keys[i] \in SecretKeys ELSE isSecret

\* Is kid i of a node handed to encryptSecret rather than to walk?  A mapping's
\* kids by their own keys, a sequence's if the sequence itself was.
SecretBelow(node, i, isSecret) ==
    IF node.kind = "map" THEN node.keys[i] \in SecretKeys
                         ELSE node.kind = "seq" /\ isSecret

SecretKids(node, isSecret) ==
    {node.kids[i] : i \in {j \in DOMAIN node.kids : SecretBelow(node, j, isSecret)}}

\* encryptWalk: walk, mappingValues and encryptSecret, at all but a secret scalar.
EncryptNode(c) ==
    /\ \E n \in todo[c] :
         /\ AtNode(c, "encrypt", n) /\ ~(IsScalar(c, n) /\ n \in secret[c])
         /\ Past(c, n)
         /\ secret' = [secret EXCEPT ![c] =
                          secret[c] \cup SecretKids(Tree(c)[n], n \in secret[c])]
    /\ UNCHANGED <<cryptVars, file, call, value, in, stats, result, calls, first>>

\* Values encryptWalk.scalar leaves alone and does not count: not strings, the
\* YAML 1.1 booleans, template expressions.
Exempt(t, n, v) == n \notin Strings(t) \/ v \in {Plain("yes"), Plain("{{ }}")}

\* encryptWalk.scalar up to the call of Encrypt.
EncryptScalar(c) ==
    /\ enc[c].pc = "idle"
    /\ \E n \in todo[c] :
         LET v == value[c][n] exempt == Exempt(file[c].tree, n, v) IN
         /\ AtNode(c, "encrypt", n) /\ IsScalar(c, n) /\ n \in secret[c]
         /\ \/ /\ exempt
               /\ Past(c, n)
               /\ UNCHANGED <<cryptVars, stats>>
            \/ /\ ~exempt /\ IsEncrypted(v)
               /\ stats' = [stats EXCEPT ![c] = Stats(stats[c].encrypted, stats[c].skipped + 1)]
               /\ Past(c, n)
               /\ UNCHANGED cryptVars
            \/ /\ ~exempt /\ ~IsEncrypted(v)
               /\ Encrypt(c, v)
               /\ UNCHANGED <<todo, seen, stats>>
    /\ UNCHANGED <<file, call, secret, value, in, result, calls, first>>

\* Encrypt has returned to encryptWalk.scalar: its value is set and counted, its
\* error ends the call.
Encrypted(c) ==
    /\ EncryptReturns(c)
    /\ \/ /\ enc[c].pc = "done"
          /\ \E n \in todo[c] :
               /\ AtNode(c, "encrypt", n)
               /\ Set(c, n, enc[c].text)
               /\ Past(c, n)
          /\ stats' = [stats EXCEPT ![c] = Stats(stats[c].encrypted + 1, stats[c].skipped)]
          /\ UNCHANGED <<file, call, result, secret, in>>
       \/ /\ enc[c].pc = "ErrReadNonce"
          /\ ReturnWalked(c, "ErrReadNonce", file[c])
    /\ UNCHANGED <<calls, first>>

\* Mutant of DecryptNode: sequences are not entered.
DecryptNodeMaps(c) ==
    /\ \E n \in todo[c] :
         /\ AtNode(c, "decrypt", n) /\ ~IsScalar(c, n)
         /\ IF Tree(c)[n].kind = "seq"
            THEN todo' = [todo EXCEPT ![c] = @ \ {n}] /\ UNCHANGED seen
            ELSE Past(c, n)
    /\ UNCHANGED <<cryptVars, file, call, secret, value, in, stats, result, calls, first>>

\* decryptWalk: walk, children and mappingValues, at all but a scalar.
DecryptNode(c) ==
    /\ \E n \in todo[c] :
         /\ AtNode(c, "decrypt", n) /\ ~IsScalar(c, n)
         /\ Past(c, n)
    /\ UNCHANGED <<cryptVars, file, call, secret, value, in, stats, result, calls, first>>

\* Mutant of Opens: a value that decrypts to an encrypted one is accepted.
OpensAny(key, s) == Decrypt(key, s).err = "nil"

\* Decrypt gives a plain value that does not look encrypted itself.
Opens(key, s) == Decrypt(key, s).err = "nil" /\ ~IsEncrypted(Decrypt(key, s).plain)

\* decryptWalk.scalar
DecryptScalar(c) ==
    /\ \E n \in todo[c] :
         LET v == value[c][n] tagged == n \in Strings(file[c].tree) /\ IsEncrypted(v) IN
         /\ AtNode(c, "decrypt", n) /\ IsScalar(c, n)
         /\ \/ /\ ~tagged
               /\ Past(c, n)
               /\ UNCHANGED <<file, call, result, secret, value, in, stats>>
            \/ /\ tagged /\ Opens(call[c].key, v)
               /\ Set(c, n, Decrypt(call[c].key, v).plain)
               /\ Past(c, n)
               /\ UNCHANGED <<file, call, result, secret, in, stats>>
            \/ /\ tagged /\ ~Opens(call[c].key, v)
               /\ ReturnWalked(c, "ErrYAMLDecrypt", file[c])
    /\ UNCHANGED <<cryptVars, calls, first>>

\* yamlv3.Marshal of the tree, and the call returns.
Marshal(c) ==
    /\ call[c].pc = "walk" /\ todo[c] = {}
    /\ \/ ReturnWalked(c, "nil", [form |-> "doc", mention |-> file[c].mention,
                                  tree |-> file[c].tree, value |-> value[c]])
       \/ ReturnWalked(c, "ErrYAMLEncode", file[c])
    /\ UNCHANGED <<cryptVars, calls, first>>

WalkStep(c) ==
    \/ EncryptNode(c) \/ EncryptScalar(c) \/ Encrypted(c)
    \/ DecryptNode(c) \/ DecryptScalar(c) \/ Marshal(c)
    \/ EncryptStep(c) /\ UNCHANGED <<file, call, walkVars, in, stats, result, calls, first>>

Next ==
    \/ \E c \in Callers : EncryptBytes(c) \/ DecryptBytes(c) \/ WalkStep(c)
    \/ Collect /\ UNCHANGED <<file, call, walkVars, in, stats, result, calls, first>>

Spec == Init /\ [][Next]_vars

(***************************************************************************)
(* Properties                                                              *)
(***************************************************************************)
\* The nodes the documentation calls secret: what is in every set of nodes that
\* has the values of the secret keys and, with a sequence, all its elements.
SecretsIn(tree, S) ==
    /\ \A n \in DOMAIN tree : \A i \in DOMAIN tree[n].keys :
          tree[n].keys[i] \in SecretKeys => tree[n].kids[i] \in S
    /\ \A n \in S : tree[n].kind = "seq" => Kids(tree, n) \subseteq S
SecretNodes ==
    [t \in DOMAIN Trees |->
       {n \in DOMAIN Trees[t] : \A S \in SUBSET DOMAIN Trees[t] : SecretsIn(Trees[t], S) => n \in S}]

\* The secret strings of a call's input that EncryptBytes may encrypt: it has
\* those to do that are plain, and skips those that are encrypted.
Candidates(c) ==
    {m \in SecretNodes[file[c].tree] \cap Strings(file[c].tree) :
       in[c][m] \notin {Plain("yes"), Plain("{{ }}")}}
ToEncrypt(c) == {m \in Candidates(c) : ~IsEncrypted(in[c][m])}
ToSkip(c) == {m \in Candidates(c) : IsEncrypted(in[c][m])}

Succeeded(c, op) ==
    call[c].pc = "none" /\ call[c].op = op /\ result[c] = "nil" /\ IsDoc(file[c])

\* In values exactly the scalars of nodes are encrypted, each its own text, and
\* all others are as they were.
ExactlyEncrypted(c, nodes, values) ==
    \A m \in Scalars(file[c].tree) :
        IF m \in nodes THEN \E n \in spent : values[m] = Sealed(Key, n, in[c][m])
                       ELSE values[m] = in[c][m]

EncryptedRight(c) ==
    Succeeded(c, "encrypt") =>
        /\ ExactlyEncrypted(c, ToEncrypt(c), file[c].value)
        /\ stats[c].encrypted = Cardinality(ToEncrypt(c))
        /\ stats[c].skipped = Cardinality(ToSkip(c))

\* A successful EncryptBytes has encrypted exactly the secret strings that were
\* not encrypted yet, each into an encryption of its own text, has changed nothing
\* else.  Its Stats say how many there were and, as the comment of Stats has it, how
\* many secrets were skipped because they were encrypted already.
EncryptExact == \A c \in Callers : EncryptedRight(c)

DecryptedRight(c) ==
    IsDoc(file[c]) =>
        /\ Succeeded(c, "decrypt") =>
             \A m \in Strings(file[c].tree) : ~IsEncrypted(file[c].value[m])
        /\ result[c] = "ErrYAMLDecrypt" =>
             \E m \in Strings(file[c].tree) :
                IsEncrypted(file[c].value[m]) /\ ~Opens(call[c].key, file[c].value[m])

\* DecryptBytes is strict: a document it returns has no string left that looks
\* encrypted, whether it walked it or not, and it fails only for a string it
\* cannot turn into a plain one.
DecryptStrict == \A c \in Callers : DecryptedRight(c)

\* What a reader with the keys makes of a value.
Reveal(s) == IF s.form = "sealed" THEN s.value ELSE s

MeansTheSame(c) ==
    IF IsDoc(first[c])
    THEN /\ IsDoc(file[c]) /\ file[c].tree = first[c].tree
         /\ \A m \in Scalars(first[c].tree) :
               Reveal(file[c].value[m]) = Reveal(first[c].value[m])
    ELSE file[c] = first[c]

\* Whatever calls are made on a file, in any order, failed ones and ones with the
\* wrong key included, every value still reveals what it did at first: nothing is
\* encrypted twice, lost, or moved to another place.
MeaningKept == \A c \in Callers : MeansTheSame(c)

(***************************************************************************)
(* The inductive invariant behind them.                                    *)
(***************************************************************************)
Typed ==
    /\ file = [c \in Callers |-> file[c]] /\ first = [c \in Callers |-> first[c]]
    /\ call = [c \in Callers |-> call[c]] /\ result = [c \in Callers |-> result[c]]
    /\ todo = [c \in Callers |-> todo[c]] /\ seen = [c \in Callers |-> seen[c]]
    /\ secret = [c \in Callers |-> secret[c]] /\ value = [c \in Callers |-> value[c]]
    /\ in = [c \in Callers |-> in[c]] /\ stats = [c \in Callers |-> stats[c]]

Walking(c, op) == call[c].pc = "walk" /\ call[c].op = op

\* A file stays the document it was, or stays what else it was.
FileTyped(c) ==
    /\ IsDoc(file[c]) => file[c].tree \in DOMAIN Trees /\ ValuesTyped(file[c].tree, file[c].value)
    /\ IsDoc(first[c]) <=> IsDoc(file[c])

\* A walk is at a document, has come to a node by way of its parent, and to all
\* below the nodes it has been at.
Walks(c) ==
    /\ call[c].pc \in {"none", "walk"}
    /\ call[c].pc = "none" => todo[c] = {} /\ seen[c] = {} /\ secret[c] = {}
    /\ call[c].pc = "walk" =>
         /\ IsDoc(file[c]) /\ call[c].op \in {"encrypt", "decrypt"} /\ result[c] = "none"
         /\ in[c] = file[c].value /\ ValuesTyped(file[c].tree, value[c])
         /\ todo[c] \cup seen[c] \subseteq DOMAIN Tree(c) /\ todo[c] \cap seen[c] = {}
         /\ 1 \in todo[c] \cup seen[c]
         /\ \A n \in seen[c] : Kids(Tree(c), n) \subseteq todo[c] \cup seen[c]
         /\ \A k \in todo[c] \cup seen[c] : k = 1 \/ \E p \in seen[c] : k \in Kids(Tree(c), p)

\* encryptSecret is called for the secret nodes and no others.
SecretsFound(c) ==
    Walking(c, "encrypt") =>
        /\ secret[c] \subseteq todo[c] \cup seen[c]
        /\ \A n \in todo[c] \cup seen[c] : n \in secret[c] <=> n \in SecretNodes[file[c].tree]

\* An Encrypt in progress has the text of the scalar whose turn it is, or its
\* encryption.
EncryptsTurn(c) ==
    enc[c].pc # "idle" =>
        /\ Walking(c, "encrypt")
        /\ \E n \in todo[c] \cap ToEncrypt(c) :
             /\ \A m \in todo[c] : n <= m
             /\ IF enc[c].pc = "done" THEN \E k \in spent : enc[c].text = Sealed(Key, k, in[c][n])
                                      ELSE enc[c].text = in[c][n]

\* What EncryptBytes has done so far.
EncryptedSoFar(c) ==
    Walking(c, "encrypt") =>
        /\ ExactlyEncrypted(c, ToEncrypt(c) \cap seen[c], value[c])
        /\ stats[c].encrypted = Cardinality(ToEncrypt(c) \cap seen[c])
        /\ stats[c].skipped = Cardinality(ToSkip(c) \cap seen[c])

\* What DecryptBytes has done so far.
DecryptedSoFar(c) ==
    Walking(c, "decrypt") =>
        \A m \in Scalars(file[c].tree) :
            IF m \in seen[c] \cap Strings(file[c].tree) /\ IsEncrypted(in[c][m])
            THEN /\ in[c][m].form = "sealed" /\ value[c][m] = in[c][m].value
                 /\ ~IsEncrypted(value[c][m])
            ELSE value[c][m] = in[c][m]

CallInv(c) ==
    /\ FileTyped(c) /\ Walks(c) /\ SecretsFound(c)
    /\ EncryptsTurn(c) /\ EncryptedSoFar(c) /\ DecryptedSoFar(c)
    /\ EncryptedRight(c) /\ DecryptedRight(c) /\ MeansTheSame(c)

YAMLInv == CrypterInv /\ Typed /\ \A c \in Callers : CallInv(c)
==============================================================================
