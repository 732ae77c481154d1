------------------------------ MODULE MCSession ------------------------------
(***************************************************************************)
(* Small servers: who connects, and what each client may send.             *)
(***************************************************************************)
EXTENDS Session, TLC

CONSTANTS c1, c2, c3, c4, c5

MsgLogIn(nicks) == {[kind |-> "LogIn", nick |-> n] : n \in nicks}
Msg(kinds) == {[kind |-> k] : k \in kinds}
MsgSetPos == {[kind |-> "SetPos", to |-> d] : d \in Data \ {Default}}
MsgEdit(kinds, keys) ==
    {[kind |-> k, key |-> key, to |-> d] : k \in kinds, key \in keys, d \in Data \ {Default}}

Silent(cs) == [c \in cs |-> << >>]

\* Log in: two spellings of one nick, an invalid nick, clients that know the
\* password and one that does not, proofs and hashes out of order.
LoginScript ==
    (c1 :> <<MsgLogIn({"bob", "Bob"}), Msg({"SendHash", "SendM1"})>>)
    @@ (c2 :> <<MsgLogIn({"bob", "!"}), Msg({"SendHash", "SendM1", "Chat"})>>)
    @@ (c3 :> <<MsgLogIn({"bob"}), Msg({"SendHash", "SendM1"})>>)
    @@ Silent({c4, c5})

\* Play: two players that send every kind of message, over connections that
\* may end.
PlayScript ==
    (c4 :> <<MsgLogIn({"ann"}), Msg({"SendM1"}),
             MsgEdit(EditKinds, {"inventory"}) \cup Msg(GameKinds)
               \cup MsgSetPos \cup Msg({"SendHash"})>>)
    @@ (c5 :> <<MsgLogIn({"bob"}), Msg({"SendM1"}), Msg({"Chat"})>>)
    @@ Silent({c1, c2, c3})

AllLower == [n \in {"ann", "bob", "Bob"} |-> IF n = "Bob" THEN "bob" ELSE n]
AllPasswords == (c4 :> "ann") @@ (c3 :> None) @@ [c \in {c1, c2, c5} |-> "bob"]
PlaySituation == [registered |-> {"ann", "bob"}, hashless |-> {}, script |-> PlayScript]
AllSituations ==
    {PlaySituation}
    \cup {[registered |-> s[1], hashless |-> s[2], script |-> LoginScript] :
            s \in {{}, {"bob"}, {"Bob"}} \X {{}, {"bob"}}}
PlaySituations == {PlaySituation}

\* Return: one player who plays, leaves and logs in again from another
\* connection, possibly before the first one has joined.
ReturnLower == [n \in {"bob"} |-> n]
ReturnPassword == (c1 :> "bob") @@ (c2 :> "bob")
ReturnKeys == {"inventory", "craft_inventory"}
ReturnEdit ==
    {[kind |-> "Edit", key |-> k, to |-> d] : k \in ReturnKeys, d \in Data}
ReturnScript ==
    (c1 :> <<MsgLogIn({"bob"}), Msg({"SendM1"}), ReturnEdit, ReturnEdit>>)
    @@ (c2 :> <<MsgLogIn({"bob"}), Msg({"SendM1"})>>)
ReturnSituations ==
    {[registered |-> {"bob"}, hashless |-> {}, script |-> ReturnScript]}

=============================================================================
