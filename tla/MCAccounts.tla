----------------------------- MODULE MCAccounts -----------------------------
(***************************************************************************)
(* A small instance of Accounts: tables with no user, with one the program *)
(* can read and with one it cannot, who may have the id or the name of the *)
(* default account.                                                        *)
(***************************************************************************)
EXTENDS Accounts, TLC

CONSTANTS c1, c2, nil, u1, admin, bob, mail

MCClients == {c1, c2}
MCIds == {nil, u1}
MCUsernames == {admin, bob}
MCPasswords == {"admin", "new"}

Row(name, role) ==
    [username |-> name, passwd |-> Hash("new"), email |-> Null, role |-> role]

MCTables ==
    {<<>>, u1 :> Row(bob, "SuperUser"), u1 :> Row(bob, "Other"), u1 :> Row(admin, "SuperUser"),
     nil :> Row(bob, "Other")}

MCSelfChanges ==
    {<<>>, "email" :> mail, "email" :> mail @@ "passwd" :> Plain("new"), "passwd" :> Null}

MCUserChanges ==
    {"username" :> bob, "username" :> Null, "username" :> admin @@ "email" :> mail,
     "role" :> "Other", "resources" :> "x"}

Symmetry == Permutations(MCClients)
=============================================================================
