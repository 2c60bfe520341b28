----------------------------- MODULE AccountFile -----------------------------
(***************************************************************************)
(* src/store/account.go: the accounts in accounts.json.                    *)
(*                                                                         *)
(* Every change reads the whole file, edits the list and writes the whole  *)
(* file back, with accountMu held.  os.WriteFile first truncates the file  *)
(* and then writes it: a failed write or a crash in between leaves a file  *)
(* that is empty or cut off, and readAccounts takes either for no accounts.*)
(* Reads hold accountMu for reading.                                       *)
(*                                                                         *)
(* A list of accounts is a function from IDs; of an account the model keeps*)
(* the API key and `enabled`, which stands for every field UpdateAccount   *)
(* may set.  Reads of the file that fail, and operations that find no      *)
(* account with the ID, change nothing and are left out, but for           *)
(* DeleteAccount, which writes the file all the same.                      *)
(***************************************************************************)

CONSTANTS
    AccountIds, ApiKeys,   \* UUIDs; in TLC, the bound on those given out
    Workers,               \* goroutines of console and proxy handlers
    NoAccount, NoWorker, TornAccounts

Records == [key : ApiKeys, enabled : BOOLEAN]
Lists == [AccountIds -> Records \cup {NoAccount}]
NoAccounts == [i \in AccountIds |-> NoAccount]

ASSUME AccountFileAssumption ==
    /\ NoWorker \notin Workers
    /\ TornAccounts \notin Lists
    /\ NoAccount \notin Records

VARIABLES
    accountsFile,   \* accounts.json: a list, or TornAccounts
    holder,         \* who holds accountMu for writing
    pc,             \* where a worker is
    op,             \* the operation it is in
    list,           \* the accounts it has read
    issued,         \* IDs and keys that uuid.New has produced (history)
    mishap          \* whether a write has ever failed or been cut short (history)

workerVars == <<holder, pc, op, list>>
accountsVars == <<accountsFile, workerVars, issued, mishap>>

Ops ==
    [kind : {"none"}] \cup [kind : {"add"}] \cup [kind : {"delete"}, id : AccountIds]
    \cup [kind : {"rekey"}, id : AccountIds]
    \cup [kind : {"update"}, id : AccountIds, enabled : BOOLEAN]

NoOp == [kind |-> "none"]

AccountsTypeOK ==
    /\ accountsFile \in Lists \cup {TornAccounts}
    /\ holder \in Workers \cup {NoWorker}
    /\ pc \in [Workers -> {"idle", "read", "edited", "truncated"}]
    /\ op \in [Workers -> Ops]
    /\ list \in [Workers -> Lists]
    /\ issued \in SUBSET (AccountIds \cup ApiKeys)
    /\ mishap \in BOOLEAN

\* EnsurePaths has written "{}".
AccountsInit ==
    /\ accountsFile = NoAccounts
    /\ holder = NoWorker
    /\ pc = [w \in Workers |-> "idle"]
    /\ op = [w \in Workers |-> NoOp]
    /\ list = [w \in Workers |-> NoAccounts]
    /\ issued = {}
    /\ mishap = FALSE

-----------------------------------------------------------------------------
\* A file that is empty or cannot be parsed is a file without accounts.
readAccounts == IF accountsFile = TornAccounts THEN NoAccounts ELSE accountsFile

(* Mutant: the file is read without accountMu.                             *)
GetAccounts_NoLock(w) ==
    /\ pc[w] = "idle"
    /\ pc' = [pc EXCEPT ![w] = "read"]
    /\ list' = [list EXCEPT ![w] = readAccounts]
    /\ UNCHANGED <<accountsFile, holder, op, issued, mishap>>

(* GetAccounts, and the functions that look for something in its result.   *)
GetAccounts(w) ==
    /\ pc[w] = "idle"
    /\ holder = NoWorker
    /\ pc' = [pc EXCEPT ![w] = "read"]
    /\ list' = [list EXCEPT ![w] = readAccounts]
    /\ UNCHANGED <<accountsFile, holder, op, issued, mishap>>

Return(w) ==
    /\ pc' = [pc EXCEPT ![w] = "idle"]
    /\ list' = [list EXCEPT ![w] = NoAccounts]
    /\ op' = [op EXCEPT ![w] = NoOp]

HasRead(w) ==
    /\ pc[w] = "read"
    /\ Return(w)
    /\ UNCHANGED <<accountsFile, holder, issued, mishap>>

Finds(o, l) == o.kind \in {"update", "rekey"} => l[o.id] # NoAccount

(* AddAccount, UpdateAccount, DeleteAccount and RegenerateApiKey up to     *)
(* their call of writeAccounts.                                            *)
LockAndRead(w, o) ==
    /\ pc[w] = "idle"
    /\ holder = NoWorker
    /\ Finds(o, readAccounts)
    /\ holder' = w
    /\ pc' = [pc EXCEPT ![w] = "edited"]
    /\ op' = [op EXCEPT ![w] = o]
    /\ list' = [list EXCEPT ![w] = readAccounts]
    /\ UNCHANGED <<accountsFile, issued, mishap>>

(* os.WriteFile cannot open the file.                                      *)
OpenFails(w) ==
    /\ pc[w] = "edited"
    /\ Return(w)
    /\ holder' = NoWorker
    /\ UNCHANGED <<accountsFile, issued, mishap>>

(* It opens it with O_TRUNC.                                               *)
Truncate(w) ==
    /\ pc[w] = "edited"
    /\ accountsFile' = TornAccounts
    /\ pc' = [pc EXCEPT ![w] = "truncated"]
    /\ UNCHANGED <<holder, op, list, issued, mishap>>

\* Mutant: an account gets its new key with all else as in a new account.
Edited_Enables(o, l, i, k) ==
    CASE o.kind = "add" -> [l EXCEPT ![i] = [key |-> k, enabled |-> TRUE]]
      [] o.kind = "update" -> [l EXCEPT ![o.id] = [key |-> l[o.id].key, enabled |-> o.enabled]]
      [] o.kind = "delete" -> [l EXCEPT ![o.id] = NoAccount]
      [] o.kind = "rekey" -> [l EXCEPT ![o.id] = [key |-> k, enabled |-> TRUE]]

\* What the operation makes of the list; a new ID i and key k where needed.
Edited(o, l, i, k) ==
    CASE o.kind = "add" -> [l EXCEPT ![i] = [key |-> k, enabled |-> TRUE]]
      [] o.kind = "update" -> [l EXCEPT ![o.id] = [key |-> l[o.id].key, enabled |-> o.enabled]]
      [] o.kind = "delete" -> [l EXCEPT ![o.id] = NoAccount]
      [] o.kind = "rekey" -> [l EXCEPT ![o.id] = [key |-> k, enabled |-> l[o.id].enabled]]

Issues(o, i, k) ==
    CASE o.kind = "add" -> {i, k} [] o.kind = "rekey" -> {k} [] OTHER -> {}

(* The rest of os.WriteFile, and the return that releases accountMu.       *)
Write(w, i, k) ==
    /\ pc[w] = "truncated"
    /\ Issues(op[w], i, k) \cap issued = {}
    /\ accountsFile' = Edited(op[w], list[w], i, k)
    /\ issued' = issued \cup Issues(op[w], i, k)
    /\ holder' = NoWorker
    /\ Return(w)
    /\ UNCHANGED mishap

(* It fails, on a full disk for instance; nobody repairs the file.         *)
WriteFails(w) ==
    /\ pc[w] = "truncated"
    /\ mishap' = TRUE
    /\ holder' = NoWorker
    /\ Return(w)
    /\ UNCHANGED <<accountsFile, issued>>

(* The process dies and comes up again.  EnsurePaths leaves a file that is *)
(* there as it is, whatever it holds.                                      *)
Crash ==
    /\ holder' = NoWorker
    /\ pc' = [w \in Workers |-> "idle"]
    /\ op' = [w \in Workers |-> NoOp]
    /\ list' = [w \in Workers |-> NoAccounts]
    /\ mishap' = (mishap \/ \E w \in Workers : pc[w] = "truncated")
    /\ UNCHANGED <<accountsFile, issued>>

AccountsNext ==
    \/ \E w \in Workers :
          \/ GetAccounts(w) \/ HasRead(w)
          \/ \E o \in Ops \ {NoOp} : LockAndRead(w, o)
          \/ OpenFails(w) \/ Truncate(w) \/ WriteFails(w)
          \/ \E i \in AccountIds, k \in ApiKeys : Write(w, i, k)
    \/ Crash

AccountsSpec == AccountsInit /\ [][AccountsNext]_accountsVars

-----------------------------------------------------------------------------
(* Properties *)

(* The accounts there are: during a write, those from before it.           *)
Book ==
    IF holder # NoWorker /\ pc[holder] = "truncated" THEN list[holder] ELSE readAccounts

(* However handlers interleave, accounts change by one whole operation at a*)
(* time, and are lost only all together and only in a write that failed.   *)
Abs == INSTANCE AccountBook WITH book <- Book, Ids <- AccountIds, Keys <- ApiKeys

ImplementsAccountBook == Abs!Spec

(* Whoever reads the accounts sees all of them, and none that is gone: no  *)
(* valid key is refused because another handler is writing.                *)
ReadsAreWhole ==
    [][\A w \in Workers : pc[w] = "idle" /\ pc'[w] # "idle" => list'[w] = Book]_accountsVars

(* An account that was deleted, and an API key that was replaced or deleted*)
(* with its account, never comes back.                                     *)
Present(l) == {i \in AccountIds : l[i] # NoAccount}
InUse(l) == Present(l) \cup {l[i].key : i \in Present(l)}

NothingComesBack ==
    [][\A x \in issued : x \notin InUse(Book) => x \notin InUse(Book')]_accountsVars

(* "Run with persistent data" (README.md:48): an account stays until it is *)
(* deleted, whatever becomes of other operations.                          *)
AccountsPersist ==
    [][\A i \in AccountIds :
          Book[i] # NoAccount /\ Book'[i] = NoAccount
              => holder # NoWorker /\ op[holder] = [kind |-> "delete", id |-> i]]_accountsVars
=============================================================================
