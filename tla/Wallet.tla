------------------------------- MODULE Wallet --------------------------------
(***************************************************************************)
(* core/wallet/wallet.go and the wallet endpoints of explorer.go.  Every   *)
(* HTTP request runs in a goroutine of its own.  A call looks the wallet up *)
(* under the manager's mutex, releases it, and goes on with the pointer    *)
(* under the wallet's own mutex, so a wallet may be replaced or removed    *)
(* from the map between the two.  A file is opened and emptied, and        *)
(* written after that, both without a mutex; the process may stop at any   *)
(* point, and opening, writing, removing and reading a file may fail.      *)
(*                                                                         *)
(* A private key is abstracted to the password that decrypts it.  A file   *)
(* is named by the first 16 digits of an address; addresses that agree in  *)
(* them are left out.                                                      *)
(***************************************************************************)
EXTENDS Integers

CONSTANTS
  Address,      \* the addresses
  Pass,         \* the passwords
  Requests,     \* the requests that are served at the same time
  Slot,         \* the wallet objects of an address, 1 .. n
  NoPass,       \* no file, and no password in a request
  Torn,         \* a file that is not a whole JSON document
  MaxCalls,     \* bound: calls
  MaxReloads    \* bound: restarts

ASSUME WalletAssumption ==
  /\ Address # {}
  /\ Slot \subseteq Nat \ {0}
  /\ NoPass \notin Pass /\ Torn \notin Pass /\ NoPass # Torn
  /\ MaxCalls \in Nat /\ MaxReloads \in Nat

VARIABLES
  wallets,      \* Manager.wallets: the object of each address, 0 if there is none
  heap,         \* the objects: the password that decrypts the key, and unlocked
  file,         \* wallet_*.json
  call,         \* what each request is doing
  promised,     \* history: what the last call that reported success said is stored
  damaged,      \* history: the addresses whose file failed its last change
  adrift,       \* history: the addresses whose object in memory is not the file's
  lockedSince,  \* history: a Lock returned and nothing since asked for the key
  calls, reloads

report == <<promised, damaged, adrift>>
walletVars == <<wallets, heap, file, call, report, lockedSince, calls, reloads>>

\* A request: the operation, where it is, its arguments, the object it found,
\* whether the file it opened was removed since, and (history) whether another
\* request changed the map where that matters to this one.
NoCall == [op |-> "none", pc |-> "idle", addr |-> CHOOSE x \in Address : TRUE, pass |-> NoPass,
           slot |-> 0, unlinked |-> FALSE, disturbed |-> FALSE]

\* Create and Import store a wallet; send and export unlock it and use its key;
\* sign uses the key of a wallet that is unlocked.
Opens == {"put", "delete", "unlock", "send"}
Ops == Opens \cup {"lock", "sign"}

Active(r) == call[r].pc # "idle"
CallAt(r, step) == call[r].pc = step
On(r, a) == Active(r) /\ call[r].addr = a

\* A request that has changed the map and not yet the file; one that has opened
\* the file; one that will put a key into memory; one that relies on the key it
\* put there.
Saving(r, a) == On(r, a) /\ call[r].pc \in {"open", "write", "unlink"}
Writing(r, a) == On(r, a) /\ call[r].pc = "write"
Opening(r, a) == On(r, a) /\ call[r].op \in Opens /\ call[r].pc \in {"find", "decrypt", "put"}
Sending(r, a) == On(r, a) /\ call[r].op = "send" /\ call[r].pc \in {"decrypt", "again", "use"}

\* The object of an address is dropped once nothing points to it.
Free(a, s) == wallets[a] # s /\ \A r \in Requests : On(r, a) => call[r].slot # s

NewWallet == [pass |-> NoPass, unlocked |-> FALSE]

\* NewManager on an empty directory.
WalletInit ==
  /\ wallets = [x \in Address |-> 0]
  /\ heap = [x \in Address |-> [s \in Slot |-> NewWallet]]
  /\ file = [x \in Address |-> NoPass]
  /\ call = [r \in Requests |-> NoCall]
  /\ promised = [x \in Address |-> NoPass]
  /\ damaged = {}
  /\ adrift = {}
  /\ lockedSince = [x \in Address |-> TRUE]
  /\ calls = 0
  /\ reloads = 0

-----------------------------------------------------------------------------

Begin(r, op, a, p, step) ==
  /\ CallAt(r, "idle")
  /\ calls < MaxCalls
  /\ calls' = calls + 1
  /\ call' = [call EXCEPT ![r] = [NoCall EXCEPT !.op = op, !.pc = step, !.addr = a, !.pass = p]]
  /\ lockedSince' = [lockedSince EXCEPT ![a] = @ /\ op \notin Opens]
  /\ UNCHANGED <<wallets, heap, file, report, reloads>>

\* The mnemonic is new, so nothing is known of its address.
Create(r, a, p) ==
  /\ wallets[a] = 0 /\ file[a] = NoPass
  /\ \A q \in Requests : ~ On(q, a)
  /\ Begin(r, "put", a, p, "put")

Import(r, a, p) == Begin(r, "put", a, p, "put")

Unlock(r, a, p) == Begin(r, "unlock", a, p, "find")
Lock(r, a) == Begin(r, "lock", a, NoPass, "find")
Sign(r, a) == Begin(r, "sign", a, NoPass, "again")
Send(r, a, p) == Begin(r, "send", a, p, "find")
Delete(r, a, p) == Begin(r, "delete", a, p, "find")

CallGoto(r, step) == call' = [call EXCEPT ![r].pc = step]
Return(r) == call' = [call EXCEPT ![r] = NoCall]

\* The step of r to s, of which the requests others take notice.
Noticed(r, s, others) ==
  call' = [q \in Requests |-> IF q = r THEN s
                             ELSE IF q \in others THEN [call[q] EXCEPT !.disturbed = TRUE]
                             ELSE call[q]]

\* A call that changed an address reports success.  What is stored is known only
\* if no other request changed the map between this one's map and file.
Report(r, what, fileOK) ==
  LET a == call[r].addr
  IN  /\ promised' = [promised EXCEPT ![a] = what]
      /\ adrift' = IF call[r].disturbed THEN adrift \cup {a} ELSE adrift \ {a}
      /\ damaged' = IF call[r].disturbed \/ ~ fileOK THEN damaged \cup {a} ELSE damaged \ {a}

\* saveWallet failed, and Create and Import report that; the object stays in the
\* map.
ReportError(r, harmed) ==
  /\ adrift' = adrift \cup {call[r].addr}
  /\ damaged' = IF harmed THEN damaged \cup {call[r].addr} ELSE damaged
  /\ UNCHANGED promised

\* The lookup under the manager's mutex: ErrWalletNotFound, or the pointer.
Lookup(r, step) ==
  LET s == wallets[call[r].addr]
  IN  /\ IF s = 0 THEN Return(r) ELSE call' = [call EXCEPT ![r].slot = s, ![r].pc = step]
      /\ UNCHANGED <<wallets, heap, file, report, lockedSince, calls, reloads>>

Find(r) == CallAt(r, "find") /\ Lookup(r, IF call[r].op = "lock" THEN "clear" ELSE "decrypt")
FindAgain(r) == CallAt(r, "again") /\ Lookup(r, "use")

\* The mutated form: Delete and send only verify the password.
DecryptMutant(r) ==
  LET c == call[r]
  IN  /\ CallAt(r, "decrypt")
      /\ IF heap[c.addr][c.slot].pass = c.pass
         THEN \/ /\ c.op = "unlock" /\ Return(r)
                 /\ heap' = [heap EXCEPT ![c.addr][c.slot].unlocked = TRUE]
              \/ c.op = "delete" /\ CallGoto(r, "remove") /\ UNCHANGED heap
              \/ /\ c.op = "send" /\ UNCHANGED heap
                 /\ call' = [call EXCEPT ![r].slot = 0, ![r].pc = "again"]
         ELSE Return(r) /\ UNCHANGED heap
      /\ UNCHANGED <<wallets, file, report, lockedSince, calls, reloads>>

\* The part of Unlock under the wallet's mutex; ErrInvalidPassword ends the
\* request, Delete and send go on.
Decrypt(r) ==
  LET c == call[r]
  IN  /\ CallAt(r, "decrypt")
      /\ IF heap[c.addr][c.slot].pass = c.pass
         THEN /\ heap' = [heap EXCEPT ![c.addr][c.slot].unlocked = TRUE]
              /\ \/ c.op = "unlock" /\ Return(r)
                 \/ c.op = "delete" /\ CallGoto(r, "remove")
                 \/ c.op = "send" /\ call' = [call EXCEPT ![r].slot = 0, ![r].pc = "again"]
         ELSE Return(r) /\ UNCHANGED heap
      /\ UNCHANGED <<wallets, file, report, lockedSince, calls, reloads>>

\* The mutated form: the wallet is left alone while another request has it.
ClearMutant(r) ==
  LET c == call[r]
  IN  /\ CallAt(r, "clear")
      /\ heap' = IF \E q \in Requests \ {r} : On(q, c.addr) /\ call[q].slot = c.slot
                 THEN heap ELSE [heap EXCEPT ![c.addr][c.slot].unlocked = FALSE]
      /\ lockedSince' = [lockedSince EXCEPT ![c.addr] =
           @ \/ (wallets[c.addr] = c.slot /\ \A q \in Requests : ~ Opening(q, c.addr))]
      /\ Noticed(r, NoCall, {q \in Requests : Sending(q, c.addr)})
      /\ UNCHANGED <<wallets, file, report, calls, reloads>>

\* The part of Lock under the wallet's mutex.  The wallet may have been replaced
\* since the lookup, and requests that are about to decrypt it go on.
Clear(r) ==
  LET c == call[r]
  IN  /\ CallAt(r, "clear")
      /\ heap' = [heap EXCEPT ![c.addr][c.slot].unlocked = FALSE]
      /\ lockedSince' = [lockedSince EXCEPT ![c.addr] =
           @ \/ (wallets[c.addr] = c.slot /\ \A q \in Requests : ~ Opening(q, c.addr))]
      /\ Noticed(r, NoCall, {q \in Requests : Sending(q, c.addr)})
      /\ UNCHANGED <<wallets, file, report, calls, reloads>>

\* Sign, CreateTransaction or ExportPrivateKey under the wallet's mutex; with
\* ErrWalletLocked the request ends too.
Use(r) ==
  /\ CallAt(r, "use")
  /\ Return(r)
  /\ UNCHANGED <<wallets, heap, file, report, lockedSince, calls, reloads>>

\* Create and Import put a new, unlocked object into the map.
Put(r) ==
  LET c == call[r]
      saving == {q \in Requests : Saving(q, c.addr)}
  IN  /\ CallAt(r, "put")
      /\ \E s \in Slot :
           /\ Free(c.addr, s) /\ \A u \in Slot : Free(c.addr, u) => s <= u
           /\ heap' = [heap EXCEPT ![c.addr][s] = [pass |-> c.pass, unlocked |-> TRUE]]
           /\ wallets' = [wallets EXCEPT ![c.addr] = s]
           /\ Noticed(r, [c EXCEPT !.slot = s, !.pc = "open", !.disturbed = saving # {}], saving)
      /\ UNCHANGED <<file, report, lockedSince, calls, reloads>>

\* The mutated form: a file that exists is left as it is.
OpenFileMutant(r) ==
  /\ CallAt(r, "open")
  /\ \/ /\ file[call[r].addr] = NoPass
        /\ file' = [file EXCEPT ![call[r].addr] = Torn]
        /\ CallGoto(r, "write")
        /\ UNCHANGED report
     \/ /\ file[call[r].addr] # NoPass
        /\ Return(r) /\ Report(r, call[r].pass, TRUE) /\ UNCHANGED file
     \/ Return(r) /\ ReportError(r, FALSE) /\ UNCHANGED file
  /\ UNCHANGED <<wallets, heap, lockedSince, calls, reloads>>

\* saveWallet: os.WriteFile opens the file and empties it, or fails.
OpenFile(r) ==
  /\ CallAt(r, "open")
  /\ \/ /\ file' = [file EXCEPT ![call[r].addr] = Torn]
        /\ CallGoto(r, "write")
        /\ UNCHANGED report
     \/ Return(r) /\ ReportError(r, FALSE) /\ UNCHANGED file
  /\ UNCHANGED <<wallets, heap, lockedSince, calls, reloads>>

\* What a write leaves in a file: nothing once the file is removed, and a mixture
\* when another request has written the same file and what it wrote is longer.
Written(c) ==
  IF c.unlinked THEN {file[c.addr]}
  ELSE {c.pass} \cup (IF file[c.addr] # Torn THEN {Torn} ELSE {})

\* saveWallet writes the document, or fails and leaves the file empty.
WriteFile(r) ==
  LET c == call[r]
  IN  /\ CallAt(r, "write")
      /\ \/ \E f \in Written(c) : file' = [file EXCEPT ![c.addr] = f] /\ Report(r, c.pass, TRUE)
         \/ ReportError(r, TRUE) /\ UNCHANGED file
      /\ Return(r)
      /\ UNCHANGED <<wallets, heap, lockedSince, calls, reloads>>

\* Delete takes the address out of the map, whatever object is there now.
Remove(r) ==
  LET c == call[r]
      saving == {q \in Requests : Saving(q, c.addr)}
  IN  /\ CallAt(r, "remove")
      /\ wallets' = [wallets EXCEPT ![c.addr] = 0]
      /\ Noticed(r, [c EXCEPT !.pc = "unlink", !.disturbed = saving # {}],
                 saving \cup {q \in Requests : Sending(q, c.addr)})
      /\ UNCHANGED <<heap, file, report, lockedSince, calls, reloads>>

\* Delete removes the file; an error is ignored and success reported.
Unlink(r) ==
  LET a == call[r].addr
  IN  /\ CallAt(r, "unlink")
      /\ \/ /\ file' = [file EXCEPT ![a] = NoPass]
            /\ call' = [q \in Requests |-> IF q = r THEN NoCall
                          ELSE [call[q] EXCEPT !.unlinked = @ \/ Writing(q, a)]]
            /\ Report(r, NoPass, TRUE)
         \/ Return(r) /\ Report(r, NoPass, FALSE) /\ UNCHANGED file
      /\ UNCHANGED <<wallets, heap, lockedSince, calls, reloads>>

\* loadWallets skips what is not a whole document.
Decoded(f) == f \in Pass

\* The process stops anywhere; loadWallets loads the wallets, which are locked,
\* and skips the files it cannot read, all of them if it cannot list the directory.
Reload(skipped) ==
  LET loaded == {x \in Address \ skipped : Decoded(file[x])}
      cut == {x \in Address : \E r \in Requests : Writing(r, x)}
  IN  /\ reloads < MaxReloads
      /\ reloads' = reloads + 1
      /\ \E s \in Slot :
           /\ wallets' = [x \in Address |-> IF x \in loaded THEN s ELSE 0]
           /\ heap' = [x \in Address |-> [u \in Slot |->
                         IF u = s /\ x \in loaded THEN [pass |-> file[x], unlocked |-> FALSE]
                         ELSE NewWallet]]
           /\ \A u \in Slot : s <= u
      /\ call' = [r \in Requests |-> NoCall]
      /\ damaged' = damaged \cup cut
      /\ adrift' = damaged \cup cut \cup skipped
      /\ lockedSince' = [x \in Address |-> TRUE]
      /\ UNCHANGED <<file, promised, calls>>

Step(r) ==
  \/ Find(r) \/ FindAgain(r) \/ Decrypt(r) \/ Clear(r) \/ Use(r)
  \/ Put(r) \/ OpenFile(r) \/ WriteFile(r) \/ Remove(r) \/ Unlink(r)

WalletNext ==
  \/ \E r \in Requests, a \in Address, p \in Pass :
       Create(r, a, p) \/ Import(r, a, p) \/ Unlock(r, a, p) \/ Send(r, a, p) \/ Delete(r, a, p)
  \/ \E r \in Requests, a \in Address : Lock(r, a) \/ Sign(r, a)
  \/ \E r \in Requests : Step(r)
  \/ \E skipped \in SUBSET Address : Reload(skipped)

WalletSpec == WalletInit /\ [][WalletNext]_walletVars

-----------------------------------------------------------------------------

Steps == {"idle", "find", "again", "decrypt", "clear", "use", "put", "open", "write",
          "remove", "unlink"}

CallState ==
  [op : Ops \cup {"none"}, pc : Steps, addr : Address, pass : Pass \cup {NoPass},
   slot : Slot \cup {0}, unlinked : BOOLEAN, disturbed : BOOLEAN]

Stored(a) == IF wallets[a] = 0 THEN NoPass ELSE heap[a][wallets[a]].pass

\* The type invariant: an address maps to an object that is in use, and the step
\* of a request fits its operation.
WalletTypeOK ==
  /\ wallets \in [Address -> Slot \cup {0}]
  /\ heap \in [Address -> [Slot -> [pass : Pass \cup {NoPass}, unlocked : BOOLEAN]]]
  /\ file \in [Address -> Pass \cup {NoPass, Torn}]
  /\ call \in [Requests -> CallState]
  /\ promised \in [Address -> Pass \cup {NoPass}]
  /\ damaged \subseteq Address /\ adrift \subseteq Address
  /\ lockedSince \in [Address -> BOOLEAN]
  /\ calls \in Nat /\ reloads \in Nat

\* What the last Create, Import or Delete of an address that reported success
\* said is stored is in the file whenever none is writing it, also in the middle
\* of the next call, after a crash there and after a call that failed before it
\* opened the file; and it is what the manager has whenever no request is between
\* the map and the file.  The exceptions: two such requests changed the map
\* between each other's map and file; a write was cut short or failed; the file of
\* a deleted wallet could not be removed, which Delete reports as success; and,
\* for the manager, a call that reported an error, or a restart that could not
\* read the file (saveWallet, Delete, loadWallets).
KeepsPromise ==
  \A a \in Address :
    /\ \/ a \in damaged
       \/ \E r \in Requests : Writing(r, a)
       \/ file[a] = promised[a]
    /\ \/ a \in adrift
       \/ \E r \in Requests : Saving(r, a)
       \/ Stored(a) = promised[a]

\* Once Lock returned, the wallet of the address has no key in memory until a
\* call that unlocks or replaces it begins: not from requests that unlocked it
\* before and go on with it after.  The exceptions: a request that had begun and
\* was still to decrypt the wallet does so after Lock returned, and a wallet that
\* replaced the one Lock had looked up is not locked (Lock, Unlock).
LockHolds ==
  \A a \in Address : lockedSince[a] /\ wallets[a] # 0 => ~ heap[a][wallets[a]].unlocked

\* A send or an export that gave the right password finds the wallet, and finds
\* it unlocked, although it looks it up a second time and an Import may have
\* replaced it in between, unless a Lock cleared or a Delete removed a wallet of
\* the address since the first lookup.
SendFindsKey ==
  \A r \in Requests : call[r].op = "send" /\ ~ call[r].disturbed =>
    LET a == call[r].addr
    IN  /\ CallAt(r, "again") => wallets[a] # 0 /\ heap[a][wallets[a]].unlocked
        /\ CallAt(r, "use") => heap[a][call[r].slot].unlocked
=============================================================================
