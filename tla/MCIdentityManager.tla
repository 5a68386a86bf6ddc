--------------------------- MODULE MCIdentityManager ---------------------------
(***************************************************************************)
(* IdentityManager for TLC.  The file found has no account, one with its   *)
(* password hashed or not, or two that clash in nickname or certificate,   *)
(* with a plain password and one that looks hashed.  Handlers are          *)
(* interchangeable, and so are certificates and tokens: no definition      *)
(* names one, and every property checked is a safety property, so states   *)
(* that differ by a renaming of them behave alike.                         *)
(***************************************************************************)
EXTENDS IdentityManager, TLC

Accounts(id, forms) == [userID : {id}, nickname : Nicknames, cert : Certs \cup {NoCert},
                        password : [form : forms, word : Passwords]]

MCFound == {{}}
           \cup {{u} : u \in Accounts(1, {"plain", "hash"})}
           \cup {{u, v} : <<u, v>> \in
                    {p \in Accounts(0, {"plain"}) \X Accounts(1, {"plain"}) :
                        /\ EqualFold(p[1].nickname, p[2].nickname) # (p[1].cert = p[2].cert)
                        /\ p[1].password.word \notin LooksHashed
                        /\ p[2].password.word \in LooksHashed}}

Renamings == Permutations(Handlers) \cup Permutations(Certs) \cup Permutations(Tokens)
===============================================================================
