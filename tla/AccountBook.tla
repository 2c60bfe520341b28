----------------------------- MODULE AccountBook -----------------------------
(***************************************************************************)
(* What package store promises about the accounts (src/store/account.go):  *)
(* a book of accounts changed by one whole operation at a time, with IDs   *)
(* and API keys (UUIDs) that are never given out twice.  A mishap - a write*)
(* that fails, or a crash - may cost the whole book, never a part of it.   *)
(* AccountFile.tla is the implementation.                                  *)
(***************************************************************************)

CONSTANTS Ids, Keys, NoAccount

VARIABLES
    book,      \* the account with each ID, or NoAccount
    issued,    \* the IDs and API keys given out so far
    mishap     \* whether a write has ever failed

vars == <<book, issued, mishap>>

Account == [key : Keys, enabled : BOOLEAN]
Books == [Ids -> Account \cup {NoAccount}]
Empty == [i \in Ids |-> NoAccount]

Init == book = Empty /\ issued = {} /\ mishap = FALSE

AddAccount(i, k) ==
    /\ {i, k} \cap issued = {}
    /\ book' = [book EXCEPT ![i] = [key |-> k, enabled |-> TRUE]]
    /\ issued' = issued \cup {i, k}

UpdateAccount(i, e) ==
    /\ book[i] # NoAccount
    /\ book' = [book EXCEPT ![i] = [key |-> book[i].key, enabled |-> e]]
    /\ UNCHANGED issued

DeleteAccount(i) == book' = [book EXCEPT ![i] = NoAccount] /\ UNCHANGED issued

RegenerateApiKey(i, k) ==
    /\ book[i] # NoAccount
    /\ k \notin issued
    /\ book' = [book EXCEPT ![i] = [key |-> k, enabled |-> book[i].enabled]]
    /\ issued' = issued \cup {k}

Operation ==
    \E i \in Ids :
       \/ \E k \in Keys : AddAccount(i, k) \/ RegenerateApiKey(i, k)
       \/ \E e \in BOOLEAN : UpdateAccount(i, e)
       \/ DeleteAccount(i)

Lose == book' = Empty /\ mishap' = TRUE /\ UNCHANGED issued

Next == (Operation /\ UNCHANGED mishap) \/ Lose

Spec == Init /\ [][Next]_vars
=============================================================================
