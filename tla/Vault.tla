------------------------------- MODULE Vault -------------------------------
(***************************************************************************)
(* What the wallet manager and the session promise, without files, daemon  *)
(* and threads: a wallet keeps a seed behind a password, it opens for that *)
(* password and no other, one is open at a time, and what is open is what  *)
(* was stored.                                                             *)
(***************************************************************************)
CONSTANTS Names, Passwords, Seeds, NoWallet, Nobody

VARIABLES
    wallets,    \* what is stored under a name
    opened      \* the wallet that is open

vars == <<wallets, opened>>

Wallet == [pass : Passwords, secret : Seeds]
Opened == [name : Names, pass : Passwords, secret : Seeds]

Init ==
    /\ wallets = [n \in Names |-> NoWallet]
    /\ opened = Nobody

Create(n, pass, secret) ==
    /\ wallets[n] = NoWallet
    /\ wallets' = [wallets EXCEPT ![n] = [pass |-> pass, secret |-> secret]]
    /\ UNCHANGED opened

Delete(n) ==
    /\ wallets[n] # NoWallet
    /\ wallets' = [wallets EXCEPT ![n] = NoWallet]
    /\ UNCHANGED opened

Open(n, pass) ==
    /\ opened = Nobody
    /\ wallets[n] # NoWallet /\ wallets[n].pass = pass
    /\ opened' = [name |-> n, pass |-> pass, secret |-> wallets[n].secret]
    /\ UNCHANGED wallets

Close ==
    /\ opened # Nobody
    /\ opened' = Nobody
    /\ UNCHANGED wallets

Next ==
    \/ \E n \in Names : Delete(n)
    \/ \E n \in Names, pass \in Passwords :
         Open(n, pass) \/ \E secret \in Seeds : Create(n, pass, secret)
    \/ Close

Spec == Init /\ [][Next]_vars
=============================================================================
