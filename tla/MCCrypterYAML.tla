---------------------------- MODULE MCCrypterYAML ----------------------------
(* Small files for CrypterYAML. *)
EXTENDS CrypterYAML, TLC

Node(kind, kids, keys) == [kind |-> kind, kids |-> kids, keys |-> keys, tag |-> ""]
Leaf(tag) == [kind |-> "scalar", kids |-> <<>>, keys |-> <<>>, tag |-> tag]
Alias == Node("alias", <<>>, <<>>)

\* A document with secret strings in a list, in a list in it and in a mapping in it,
\* a secret number, and secrets and others below a plain key.
\*   pw: [x, [y, 12], {pw: z, user: u}]
\*   user: {pw: *a, list: [v]}
Nested == << Node("doc", <<2>>, <<>>),
             Node("map", <<3, 11>>, <<"pw", "user">>),
             Node("seq", <<4, 5, 8>>, <<>>),
             Leaf("!!str"),
             Node("seq", <<6, 7>>, <<>>), Leaf("!!str"), Leaf("!!int"),
             Node("map", <<9, 10>>, <<"pw", "user">>), Leaf("!!str"), Leaf("!!str"),
             Node("map", <<12, 13>>, <<"pw", "list">>),
             Alias,
             Node("seq", <<14>>, <<>>), Leaf("!!str") >>

\* pw: x
Single == << Node("doc", <<2>>, <<>>), Node("map", <<3>>, <<"pw">>), Leaf("!!str") >>

AllTrees == [nested |-> Nested, single |-> Single]

File(form, mention) == [form |-> form, mention |-> mention, tree |-> "single", value |-> <<>>]
Doc(tree, values) == [form |-> "doc", mention |-> FALSE, tree |-> tree, value |-> values]

\* Strings sealed earlier, by this Crypter, by another, and by both in turn.
Ours == Sealed("key", "n0", Plain("old"))
Theirs == Sealed("other", "n0", Plain("old"))
Twice == Sealed("key", "n0", Theirs)

SomeStrings == {Plain("x"), Plain("yes"), Plain("{{ }}"), Ours, Theirs, Twice}
             \cup {Damaged(how) : how \in DOMAIN DamageError}

\* Values for Nested: all its string secrets to encrypt, or one to skip, one to
\* encrypt and one exempt.
NestedValues ==
    {(4 :> v[1]) @@ (6 :> v[2]) @@ (7 :> Plain("12")) @@ (9 :> v[3]) @@ (10 :> Plain("u"))
       @@ (14 :> Plain("w")) :
        v \in {<<Plain("x"), Plain("y"), Plain("z")>>, <<Ours, Plain("y"), Plain("yes")>>}}

Others == {Doc("single", 3 :> s) : s \in SomeStrings}
            \cup {File(f, m) : f \in {"blank", "broken"}, m \in BOOLEAN}
            \cup {File("empty", FALSE)}

\* One caller has a plain secret; the other has any of the above.
SomeFiles == {<<f, Doc("single", 3 :> Plain("x"))>> :
                f \in Others \cup {Doc("nested", v) : v \in NestedValues}}
==============================================================================
