----------------------------- MODULE MCDatabases -----------------------------
(***************************************************************************)
(* Two connections, three spellings of two nicks and two passwords.        *)
(***************************************************************************)
EXTENDS Databases, TLC

MCLower == "ann" :> "ann" @@ "Ann" :> "ann" @@ "bob" :> "bob"
=============================================================================
