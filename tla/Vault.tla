------------------------------- MODULE Vault -------------------------------
(***************************************************************************)
(* e2ee.Vaults: one account's wrapped root key, read and written by the    *)
(* account's devices while its password changes underneath.                *)
(*                                                                         *)
(* The client half (docs/e2ee-client.md) is what src uses it for: it asks  *)
(* Params for the KDF parameters, derives a master key from the password   *)
(* under them, signs in with one half of it and wraps the root key with    *)
(* the other.  A master key is therefore a password and a KDF; the salt is *)
(* a function of the address and never moves.  kal stores a hash of the    *)
(* first half in auth_users and cannot tell what the second half wraps.    *)
(*                                                                         *)
(* A request acts for the principal it arrived with, so a write runs with  *)
(* what its device knew before, whatever has happened since.               *)
(***************************************************************************)
EXTENDS Naturals, Sequences

CONSTANTS
    Devices,     \* the account's clients
    Passwords,
    KDFs,        \* parameter sets at or above Options.Floor
    Ops,         \* the optional operations this instance includes
    MaxHashes,   \* bound on how often the stored hash changes
    MaxVersion,  \* bound on key_version
    MaxRoots     \* bound on how many root keys clients generate

OptionalOps == {"rewrap", "discard", "redeploy", "rehash", "close"}

ASSUME VaultAssumption ==
    /\ Ops \subseteq OptionalOps
    /\ {MaxHashes, MaxVersion, MaxRoots} \subseteq Nat
    /\ Passwords # {} /\ KDFs # {}

VARIABLES
    account,  \* the auth_users row
    vault,    \* the auth_e2ee_vaults row
    default,  \* Options.Default of the running deployment
    dev,      \* what each device holds
    roots     \* how many root keys have been generated: numbers them

vvars == <<account, vault, default, dev, roots>>

MasterKey == [pw: Passwords, kdf: KDFs]
NoKey == [pw |-> "none", kdf |-> "none"]

(* hash numbers the values password_hash has had; past is history: the     *)
(* password behind each of them.                                           *)
AccountRow == [mk: MasterKey, hash: Nat, open: BOOLEAN, past: Seq(Passwords)]

(* key is the master key root is wrapped under; wrappedFor the fingerprint *)
(* of the hash; late is history: the writer was behind.                    *)
VaultRow == [exists: BOOLEAN, version: Nat, kdf: KDFs \cup {"none"},
             key: MasterKey \cup {NoKey}, root: Nat, wrappedFor: Nat,
             late: BOOLEAN]
NoVault == [exists |-> FALSE, version |-> 0, kdf |-> "none", key |-> NoKey,
            root |-> 0, wrappedFor |-> 0, late |-> FALSE]

(* version and root are what the last Get returned, 0 before; next is the  *)
(* key a request in flight carries, asked its KeyVersion and carried its   *)
(* root key; conflict that the last write was answered CONFLICT.  Two are  *)
(* history: orphan, the row it read has been discarded since; behind, the  *)
(* password has been set by somebody else since the device knew it.        *)
Device == [pc: {"idle", "derived", "reading", "putting", "discarding",
                "changing", "resetting", "revoking"},
           signed: BOOLEAN, conflict: BOOLEAN, orphan: BOOLEAN,
           behind: BOOLEAN, mk: MasterKey \cup {NoKey},
           version: Nat, root: Nat,
           next: MasterKey \cup {NoKey}, asked: Nat, carried: Nat]
NewDevice == [pc |-> "idle", signed |-> FALSE, conflict |-> FALSE,
              orphan |-> FALSE, behind |-> FALSE, mk |-> NoKey,
              version |-> 0, root |-> 0, next |-> NoKey, asked |-> 0,
              carried |-> 0]

VTypeOK ==
    /\ account \in AccountRow
    /\ vault \in VaultRow
    /\ default \in KDFs
    /\ dev \in [Devices -> Device]
    /\ roots \in Nat

(* A registered account, its secret derived under the default of the day.  *)
VInit ==
    /\ default \in KDFs
    /\ \E pw \in Passwords :
          account = [mk |-> [pw |-> pw, kdf |-> default], hash |-> 1,
                     open |-> TRUE, past |-> <<pw>>]
    /\ vault = NoVault
    /\ dev = [d \in Devices |-> NewDevice]
    /\ roots = 0

-----------------------------------------------------------------------------
(* Defect: the stored parameters, whether there are any or not. *)
ParamsStored == vault.kdf

(* Params: the stored parameters, or the default and the decoy salt. *)
ParamsKDF == IF vault.exists /\ account.open THEN vault.kdf ELSE default

(* wrapped_for is distinct from the fingerprint of the hash as it is now.  *)
Stale == vault.wrappedFor # account.hash

At(d, pc) == dev[d].pc = pc

-----------------------------------------------------------------------------
(* Signing in: ask for the parameters, derive, log in. *)

Derive(d, pw) ==
    /\ At(d, "idle") /\ ~dev[d].signed
    /\ dev' = [dev EXCEPT ![d].pc = "derived",
                          ![d].mk = [pw |-> pw, kdf |-> ParamsKDF]]
    /\ UNCHANGED <<account, vault, default, roots>>

(* The hash may be upgraded in passing (rehashStored): same secret, new    *)
(* hash.                                                                   *)
Login(d) ==
    /\ At(d, "derived")
    /\ IF account.open /\ account.mk = dev[d].mk
       THEN /\ dev' = [dev EXCEPT ![d].pc = "idle", ![d].signed = TRUE,
                                  ![d].behind = FALSE]
            /\ \/ UNCHANGED account
               \/ /\ "rehash" \in Ops
                  /\ account.hash < MaxHashes
                  /\ account' = [account EXCEPT !.hash = @ + 1,
                                    !.past = Append(@, account.mk.pw)]
       ELSE /\ dev' = [dev EXCEPT ![d] = NewDevice]
            /\ UNCHANGED account
    /\ UNCHANGED <<vault, default, roots>>

-----------------------------------------------------------------------------
(* Get, Put, Discard. *)

(* A request that carries nothing but its principal. *)
Ask(d, what) ==
    /\ At(d, "idle") /\ dev[d].signed
    /\ what = "discarding" => "discard" \in Ops
    /\ dev' = [dev EXCEPT ![d].pc = what]
    /\ UNCHANGED <<account, vault, default, roots>>

(* The device can open what it reads: with its key, the old password or    *)
(* the recovery code.  Get answers nil when there is no row.               *)
Get(d) ==
    /\ At(d, "reading")
    /\ dev' = [dev EXCEPT ![d].pc = "idle", ![d].version = vault.version,
                          ![d].root = vault.root, ![d].conflict = FALSE,
                          ![d].orphan = FALSE]
    /\ UNCHANGED <<account, vault, default, roots>>

(* A client wraps the root key it read, or a new one if it read none, and  *)
(* sends it with the version it read.  Moving the user to another KDF is a *)
(* re-wrap under parameters other than the ones it signed in with.         *)
BeginPut(d, kdf) ==
    /\ At(d, "idle") /\ dev[d].signed
    /\ kdf = dev[d].mk.kdf \/ "rewrap" \in Ops
    /\ IF dev[d].version = 0
       THEN roots < MaxRoots /\ roots' = roots + 1
       ELSE UNCHANGED roots
    /\ dev' = [dev EXCEPT ![d].pc = "putting", ![d].conflict = FALSE,
                  ![d].next = [pw |-> dev[d].mk.pw, kdf |-> kdf],
                  ![d].asked = dev[d].version,
                  ![d].carried = IF dev[d].version = 0 THEN roots + 1
                                                       ELSE dev[d].root]
    /\ UNCHANGED <<account, vault, default>>

(* Two defects: the update is by user id alone; the version sent is taken  *)
(* for the one being written.                                              *)
MatchesAny(d) == TRUE
MatchesNext(d) == vault.exists => vault.version + 1 = dev[d].asked

(* putVaultSQL: there is no row, whatever version is asked for, or the row *)
(* has exactly that version.                                               *)
Matches(d) == vault.exists => vault.version = dev[d].asked

(* Defect: the update leaves wrapped_for as the insert wrote it. *)
StoreKeepingFingerprint(d) ==
    /\ account.open /\ Matches(d)
    /\ vault.version < MaxVersion
    /\ vault' = [exists |-> TRUE, version |-> vault.version + 1,
                 kdf |-> dev[d].next.kdf, key |-> dev[d].next,
                 root |-> dev[d].carried, late |-> dev[d].behind,
                 wrappedFor |-> IF vault.exists THEN vault.wrappedFor
                                                ELSE account.hash]

(* Insert at version 1, or replace and count up. *)
Store(d) ==
    /\ account.open /\ Matches(d)
    /\ vault.version < MaxVersion
    /\ vault' = [exists |-> TRUE, version |-> vault.version + 1,
                 kdf |-> dev[d].next.kdf, key |-> dev[d].next,
                 root |-> dev[d].carried, wrappedFor |-> account.hash,
                 late |-> dev[d].behind]

(* The request is over; the device keeps what it had read, and its master  *)
(* key while it is signed in.                                              *)
Done(d) == [dev[d] EXCEPT !.pc = "idle", !.next = NoKey, !.asked = 0,
                          !.carried = 0, !.conflict = FALSE,
                          !.mk = IF dev[d].signed THEN @ ELSE NoKey,
                          !.behind = @ /\ dev[d].signed]

(* Zero rows is CONFLICT, for a lost race and for a closed account alike.  *)
Put(d) ==
    /\ At(d, "putting")
    /\ \/ Store(d) /\ dev' = [dev EXCEPT ![d] = Done(d)]
       \/ /\ ~(account.open /\ Matches(d))
          /\ dev' = [dev EXCEPT ![d] = [Done(d) EXCEPT !.conflict = TRUE]]
          /\ UNCHANGED vault
    /\ UNCHANGED <<account, default, roots>>

Discard(d) ==
    /\ At(d, "discarding")
    /\ vault' = NoVault
    /\ dev' = [x \in Devices |->
                  [dev[x] EXCEPT !.orphan = @ \/ dev[x].version # 0,
                                 !.pc = IF x = d THEN "idle" ELSE @]]
    /\ UNCHANGED <<account, default, roots>>

-----------------------------------------------------------------------------
(* The password moves: authn knows nothing of the vault. *)

(* The client derives the new secret under the parameters of the account.  *)
BeginChange(d, pw) ==
    /\ At(d, "idle") /\ dev[d].signed
    /\ dev' = [dev EXCEPT ![d].pc = "changing",
                          ![d].next = [pw |-> pw, kdf |-> ParamsKDF]]
    /\ UNCHANGED <<account, vault, default, roots>>

(* The statement that writes the hash. *)
SetPassword(d) ==
    /\ account.hash < MaxHashes
    /\ account' = [account EXCEPT !.mk = dev[d].next, !.hash = @ + 1,
                                  !.past = Append(@, dev[d].next.pw)]

(* Another device is left with a password of the past. *)
Behind(x) == [dev[x] EXCEPT !.behind = dev[x].signed \/ At(x, "putting")]

(* ChangePassword verifies the current secret; other devices stay in.      *)
ChangePassword(d) ==
    /\ At(d, "changing")
    /\ IF account.open /\ account.mk = dev[d].mk
       THEN /\ SetPassword(d)
            /\ dev' = [x \in Devices |->
                          IF x = d THEN [Done(d) EXCEPT !.mk = dev[d].next,
                                                        !.behind = FALSE]
                                   ELSE Behind(x)]
       ELSE dev' = [dev EXCEPT ![d] = Done(d)] /\ UNCHANGED account
    /\ UNCHANGED <<vault, default, roots>>

BeginReset(d, pw) ==
    /\ At(d, "idle") /\ ~dev[d].signed
    /\ dev' = [dev EXCEPT ![d].pc = "resetting",
                          ![d].next = [pw |-> pw, kdf |-> ParamsKDF]]
    /\ UNCHANGED <<account, vault, default, roots>>

(* ResetPassword sets the password, and only then ends every session; the  *)
(* vault row is left as it was.                                            *)
ResetPassword(d) ==
    /\ At(d, "resetting")
    /\ SetPassword(d)
    /\ dev' = [x \in Devices |->
                  IF x = d THEN [dev[d] EXCEPT !.pc = "revoking"]
                           ELSE Behind(x)]
    /\ UNCHANGED <<vault, default, roots>>

(* A session ends; a request that carries its own keys goes on. *)
Out(x) == [dev[x] EXCEPT !.signed = FALSE,
              !.behind = @ /\ At(x, "putting"),
              !.mk = IF At(x, "derived") \/ At(x, "changing")
                     THEN @ ELSE NoKey]

RevokeAll(d) ==
    /\ At(d, "revoking")
    /\ dev' = [x \in Devices |->
                  IF x = d THEN NewDevice ELSE Out(x)]
    /\ UNCHANGED <<account, vault, default, roots>>

-----------------------------------------------------------------------------
(* A driver failure, a refusal by the hasher, or the client gives up. *)
Fail(d) ==
    /\ ~At(d, "idle")
    /\ dev' = [dev EXCEPT ![d] = Done(d)]
    /\ UNCHANGED <<account, vault, default, roots>>

(* A deployment with another Options.Default; the account is closed. *)

Redeploy(kdf) ==
    /\ "redeploy" \in Ops
    /\ default' = kdf
    /\ UNCHANGED <<account, vault, dev, roots>>

Close ==
    /\ "close" \in Ops
    /\ account' = [account EXCEPT !.open = FALSE]
    /\ dev' = [x \in Devices |-> Out(x)]
    /\ UNCHANGED <<vault, default, roots>>

VNext ==
    \/ \E d \in Devices :
          \/ \E what \in {"reading", "discarding"} : Ask(d, what)
          \/ Login(d) \/ Get(d) \/ Put(d) \/ Discard(d)
          \/ ChangePassword(d) \/ ResetPassword(d) \/ RevokeAll(d) \/ Fail(d)
          \/ \E kdf \in KDFs : BeginPut(d, kdf)
          \/ \E pw \in Passwords :
                Derive(d, pw) \/ BeginChange(d, pw) \/ BeginReset(d, pw)
    \/ \E kdf \in KDFs : Redeploy(kdf)
    \/ Close

VSpec == VInit /\ [][VNext]_vvars

-----------------------------------------------------------------------------
(* Properties. *)

Writes(d) == At(d, "putting") /\ dev'[d].pc = "idle" /\ vault' # vault

(* The root key under the wrapping is the account's for good: no write     *)
(* replaces it with another device's, or everything encrypted under it is  *)
(* lost, however reads, writes, password changes and closure interleave    *)
(* (Put's compare-and-swap).  One case escapes: a device that read a row   *)
(* discarded since.                                                        *)
RootKeyStable ==
    [][vault.exists /\ vault'.exists /\ vault'.root # vault.root
          => \E d \in Devices : Writes(d) /\ dev[d].orphan]_vvars

(* What Put says without that exception: of two devices, "the loser has to *)
(* learn that it lost rather than silently clobber the winner".            *)
LoserLearns ==
    [][vault.exists /\ vault'.exists => vault'.root = vault.root]_vvars

(* CONFLICT means what its message says, "the vault changed since it was   *)
(* read": a later version is there, so a refused device that reads again   *)
(* has made progress (the account being open and the row the same).        *)
ConflictMeansAnotherWrote ==
    [][\A d \in Devices :
          /\ At(d, "putting") /\ dev'[d].conflict
          /\ account.open /\ ~dev[d].orphan
          => vault.version > dev[d].asked]_vvars

(* The key derived from today's password opens the stored one. *)
Opens == vault.key = [pw |-> account.mk.pw, kdf |-> vault.kdf]

(* What a device is told of the vault's staleness is what it needs to know *)
(* (Vault.Stale: "the key derived from the current password cannot open    *)
(* it"): a fresh vault opens, and one that opens reads as stale only where *)
(* the same password has been hashed again, whatever writes, re-wraps,     *)
(* changes, resets and logins made of the row and of the hash.  One case   *)
(* escapes: the write of a device that was itself behind, whose key is     *)
(* stored beside a fingerprint of the hash that has just replaced its own. *)
StaleTells ==
    vault.exists /\ ~vault.late
        => /\ ~Stale => Opens
           /\ Stale /\ Opens => account.past[vault.wrappedFor] = account.mk.pw
=============================================================================
