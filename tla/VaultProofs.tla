---------------------------- MODULE VaultProofs ----------------------------
(***************************************************************************)
(* Theorems of Vault, for every set of devices, passwords and parameters   *)
(* and whatever the bounds on hashes, versions and root keys.              *)
(*                                                                         *)
(* A compare-and-swap protects the root key because the version a request  *)
(* carries pins the root it was read with: VersionInv says so, for every   *)
(* device whose row has not been discarded under it.  Staleness tells what *)
(* it should because a device that is not behind has the password of today *)
(* (Knows), and the row says which password that was (RowInv).             *)
(***************************************************************************)
EXTENDS Vault, TLAPS

(* The keys that are used are real ones, not the absence of one, and the   *)
(* history of the hash is as long as the hash is old.                      *)
KeyInv ==
    /\ Len(account.past) = account.hash
    /\ vault.exists => vault.kdf \in KDFs
    /\ \A d \in Devices :
          /\ dev[d].signed => dev[d].mk \in MasterKey
          /\ dev[d].pc \in {"resetting", "revoking"} => ~dev[d].signed
          /\ dev[d].pc \in {"putting", "changing", "resetting"}
                => dev[d].next \in MasterKey

(* A device that is not behind has the password of today, and so has the   *)
(* write it has in flight.                                                 *)
Knows(v) ==
    /\ v.signed /\ ~v.behind => v.mk.pw = account.mk.pw
    /\ v.pc = "putting" /\ ~v.behind => v.next.pw = account.mk.pw

(* The row is empty or at some version from 1 up, beside a hash the account*)
(* has had, under a key of the password behind that hash if the writer was *)
(* not behind.                                                             *)
Row(v, past) ==
    /\ ~v.exists => v = NoVault
    /\ v.exists => /\ v.version > 0
                   /\ v.wrappedFor \in 1 .. Len(past)
                   /\ v.key \in MasterKey /\ v.key.kdf = v.kdf
                   /\ ~v.late => v.key.pw = past[v.wrappedFor]

RowInv ==
    /\ account.hash > 0 /\ account.past[account.hash] = account.mk.pw
    /\ Row(vault, account.past)
    /\ \A d \in Devices : Knows(dev[d])

(* What a device has read is the past of the row, and the present only     *)
(* with its root; a request in flight carries what its device read.        *)
Tracks(v, row) ==
    /\ v.version # 0 /\ ~v.orphan
          => /\ row.exists /\ v.version <= row.version
             /\ v.version = row.version => v.root = row.root
    /\ v.pc = "putting"
          => /\ v.asked = v.version /\ ~v.conflict
             /\ v.asked # 0 => v.carried = v.root

VersionInv == \A d \in Devices : Tracks(dev[d], vault)

VInv == VTypeOK /\ KeyInv /\ RowInv /\ VersionInv

-----------------------------------------------------------------------------
(* Types. *)

LEMMA NewIsDevice == NewDevice \in Device
  BY DEF NewDevice, Device, NoKey

(* A request that is over leaves a device, and its request, in order. *)
LEMMA DoneIsDevice ==
    ASSUME VTypeOK, NEW d \in Devices
    PROVE  /\ Done(d) \in Device
           /\ Done(d).pc = "idle" /\ ~Done(d).conflict
           /\ Done(d).signed = dev[d].signed
           /\ dev[d].signed => /\ Done(d).mk = dev[d].mk
                               /\ Done(d).behind = dev[d].behind
           /\ Done(d).version = dev[d].version /\ Done(d).root = dev[d].root
           /\ Done(d).orphan = dev[d].orphan
<1>1. dev[d] \in Device /\ NoKey \in MasterKey \cup {NoKey}
  BY DEF VTypeOK
<1> QED BY <1>1 DEF Device, Done

(* A history with a password more. *)
LEMMA PastGrows ==
    ASSUME NEW past \in Seq(Passwords), NEW pw \in Passwords
    PROVE  /\ Append(past, pw) \in Seq(Passwords)
           /\ Len(Append(past, pw)) = Len(past) + 1 /\ Len(past) \in Nat
           /\ Append(past, pw)[Len(past) + 1] = pw
           /\ \A i \in 1 .. Len(past) : Append(past, pw)[i] = past[i]
  OBVIOUS

(* The hash counts the passwords: one more, of a key that may be the same. *)
Counted(k) ==
    /\ account'.hash = account.hash + 1 /\ account'.mk = k
    /\ account'.past = Append(account.past, k.pw)

LEMMA PasswordSet ==
    ASSUME VTypeOK, KeyInv, NEW d \in Devices, dev[d].next \in MasterKey,
           SetPassword(d)
    PROVE  /\ account' \in AccountRow /\ Len(account'.past) = account'.hash
           /\ Counted(dev[d].next)
<1> DEFINE k == dev[d].next
           past == Append(account.past, k.pw)
<1>1. /\ account \in AccountRow /\ account.hash + 1 \in Nat
      /\ account.past \in Seq(Passwords) /\ k.pw \in Passwords
  BY DEF VTypeOK, AccountRow, MasterKey
<1>2. account' = [account EXCEPT !.mk = k, !.hash = account.hash + 1,
                                 !.past = past]
  BY <1>1 DEF AccountRow, SetPassword
<1>3. past \in Seq(Passwords) /\ Len(past) = account.hash + 1
  BY <1>1, PastGrows DEF KeyInv
<1> HIDE DEF past
<1>4. /\ account' \in AccountRow /\ Len(account'.past) = account'.hash
      /\ account'.mk = k /\ account'.hash = account.hash + 1
      /\ account'.past = past
  BY <1>1, <1>2, <1>3 DEF AccountRow
<1> QED BY <1>4 DEF past, Counted

(* A device whose password, or whose session, others ended. *)
LEMMA BehindIsDevice ==
    ASSUME VTypeOK, NEW x \in Devices
    PROVE  /\ Behind(x) \in Device
           /\ Behind(x).pc = dev[x].pc /\ Behind(x).signed = dev[x].signed
           /\ Behind(x).mk = dev[x].mk /\ Behind(x).next = dev[x].next
           /\ Behind(x).behind = (dev[x].signed \/ dev[x].pc = "putting")
           /\ Behind(x).version = dev[x].version
           /\ Behind(x).root = dev[x].root
           /\ Behind(x).orphan = dev[x].orphan
           /\ Behind(x).asked = dev[x].asked
           /\ Behind(x).carried = dev[x].carried
           /\ Behind(x).conflict = dev[x].conflict
<1>1. dev[x] \in Device
  BY DEF VTypeOK
<1> QED BY <1>1 DEF Device, Behind, At

LEMMA OutIsDevice ==
    ASSUME VTypeOK, NEW x \in Devices
    PROVE  /\ Out(x) \in Device
           /\ Out(x).pc = dev[x].pc /\ ~Out(x).signed
           /\ Out(x).next = dev[x].next
           /\ dev[x].pc = "putting" => Out(x).behind = dev[x].behind
           /\ Out(x).version = dev[x].version /\ Out(x).root = dev[x].root
           /\ Out(x).orphan = dev[x].orphan /\ Out(x).asked = dev[x].asked
           /\ Out(x).carried = dev[x].carried
           /\ Out(x).conflict = dev[x].conflict
<1>1. dev[x] \in Device /\ NoKey \in MasterKey \cup {NoKey}
  BY DEF VTypeOK
<1> QED BY <1>1 DEF Device, Out, At

(* The parameters a client is told are acceptable ones. *)
LEMMA ParamsAreKDF ==
    VTypeOK /\ KeyInv => ParamsKDF \in KDFs
  BY DEF VTypeOK, KeyInv, ParamsKDF

LEMMA TypeInit == VInit => VTypeOK /\ KeyInv
<1> SUFFICES ASSUME VInit PROVE VTypeOK /\ KeyInv
  OBVIOUS
<1>1. account \in AccountRow /\ Len(account.past) = account.hash
  <2>1. PICK pw \in Passwords :
           account = [mk |-> [pw |-> pw, kdf |-> default], hash |-> 1,
                      open |-> TRUE, past |-> <<pw>>]
    BY DEF VInit
  <2>2. <<pw>> \in Seq(Passwords) /\ Len(<<pw>>) = 1 /\ default \in KDFs
    BY DEF VInit
  <2> QED BY <2>1, <2>2 DEF AccountRow, MasterKey
<1>2. vault \in VaultRow /\ ~vault.exists
  BY DEF VInit, VaultRow, NoVault, NoKey
<1>3. dev \in [Devices -> Device]
  BY NewIsDevice DEF VInit
<1>4. \A d \in Devices : ~dev[d].signed /\ dev[d].pc = "idle"
  BY DEF VInit, NewDevice
<1> QED BY <1>1, <1>2, <1>3, <1>4 DEF VInit, VTypeOK, KeyInv

(* One device moves on, to a state whose keys are in order. *)
LEMMA DeviceMoves ==
    ASSUME VTypeOK, KeyInv, NEW d \in Devices, NEW v \in Device,
           dev' = [dev EXCEPT ![d] = v],
           v.signed => v.mk \in MasterKey,
           v.pc \in {"resetting", "revoking"} => ~v.signed,
           Len(account'.past) = account'.hash,
           v.pc \in {"putting", "changing", "resetting"} => v.next \in MasterKey,
           account' \in AccountRow, vault' \in VaultRow, default' \in KDFs,
           roots' \in Nat, vault'.exists => vault'.kdf \in KDFs
    PROVE  VTypeOK' /\ KeyInv'
<1>1. dev' \in [Devices -> Device]
  BY DEF VTypeOK
<1>2. dev'[d] = v /\ \A x \in Devices \ {d} : dev'[x] = dev[x]
  BY DEF VTypeOK
<1> QED BY <1>1, <1>2 DEF VTypeOK, KeyInv

(* A login leaves the account, or hashes its password again. *)
LEMMA LoginCounts ==
    ASSUME VTypeOK, KeyInv, NEW d \in Devices, Login(d)
    PROVE  /\ account' \in AccountRow /\ Len(account'.past) = account'.hash
           /\ account' = account \/ Counted(account.mk)
<1>1. /\ account \in AccountRow /\ account.hash + 1 \in Nat
      /\ account.past \in Seq(Passwords) /\ account.mk.pw \in Passwords
      /\ Len(account.past) = account.hash
  BY DEF VTypeOK, AccountRow, MasterKey, KeyInv
<1>2. CASE account' = account
  BY <1>1, <1>2
<1>3. CASE account' = [account EXCEPT !.hash = @ + 1,
                                      !.past = Append(@, account.mk.pw)]
  <2> DEFINE past == Append(account.past, account.mk.pw)
  <2>1. account' = [account EXCEPT !.hash = account.hash + 1, !.past = past]
    BY <1>1, <1>3 DEF AccountRow
  <2>2. past \in Seq(Passwords) /\ Len(past) = account.hash + 1
    BY <1>1, PastGrows
  <2> HIDE DEF past
  <2>3. /\ account' \in AccountRow /\ Len(account'.past) = account'.hash
        /\ account'.mk = account.mk /\ account'.hash = account.hash + 1
        /\ account'.past = past
    BY <1>1, <2>1, <2>2 DEF AccountRow
  <2> QED BY <2>3 DEF past, Counted
<1> QED BY <1>2, <1>3 DEF Login

LEMMA TypeStep == VTypeOK /\ KeyInv /\ [VNext]_vvars => VTypeOK' /\ KeyInv'
<1> SUFFICES ASSUME VTypeOK, KeyInv, [VNext]_vvars
             PROVE  VTypeOK' /\ KeyInv'
  OBVIOUS
<1>0. /\ account \in AccountRow /\ vault \in VaultRow /\ default \in KDFs
      /\ dev \in [Devices -> Device] /\ roots \in Nat
      /\ vault.exists => vault.kdf \in KDFs
      /\ Len(account.past) = account.hash
  BY DEF VTypeOK, KeyInv
<1>1. ASSUME NEW d \in Devices, NEW pw \in Passwords, Derive(d, pw)
      PROVE  VTypeOK' /\ KeyInv'
  <2> DEFINE v == [dev[d] EXCEPT !.pc = "derived",
                                 !.mk = [pw |-> pw, kdf |-> ParamsKDF]]
  <2>3. [pw |-> pw, kdf |-> ParamsKDF] \in MasterKey
    BY ParamsAreKDF DEF MasterKey
  <2>4. v \in Device
    BY <1>0, <2>3 DEF Device
  <2>1. v.pc = "derived" /\ ~v.signed
    BY <1>0, <1>1 DEF Derive, Device
  <2>2. dev' = [dev EXCEPT ![d] = v]
    BY <1>0, <1>1 DEF Derive
  <2> HIDE DEF v
  <2> QED BY <1>0, <1>1, <2>1, <2>2, <2>4, DeviceMoves DEF Derive
<1>2. ASSUME NEW d \in Devices, Login(d)
      PROVE  VTypeOK' /\ KeyInv'
  <2>1. account' \in AccountRow /\ Len(account'.past) = account'.hash
    BY <1>0, <1>2, LoginCounts
  <2>2. CASE account.open /\ account.mk = dev[d].mk
    <3> DEFINE v == [dev[d] EXCEPT !.pc = "idle", !.signed = TRUE,
                                   !.behind = FALSE]
    <3>1. v \in Device /\ v.pc = "idle" /\ v.mk = dev[d].mk
      BY <1>0 DEF Device
    <3>2. dev' = [dev EXCEPT ![d] = v]
      BY <1>0, <1>2, <2>2 DEF Login
    <3>3. v.mk \in MasterKey
      BY <1>0, <2>2, <3>1 DEF AccountRow
    <3> HIDE DEF v
    <3> QED BY <1>0, <1>2, <2>1, <3>1, <3>2, <3>3, DeviceMoves DEF Login
  <2>3. CASE ~(account.open /\ account.mk = dev[d].mk)
    <3>1. ~NewDevice.signed /\ NewDevice.pc = "idle"
      BY DEF NewDevice
    <3>2. dev' = [dev EXCEPT ![d] = NewDevice]
      BY <1>2, <2>3 DEF Login
    <3> QED BY <1>0, <1>2, <2>1, <3>1, <3>2, NewIsDevice, DeviceMoves
            DEF Login
  <2> QED BY <2>2, <2>3
<1>3. ASSUME NEW d \in Devices, Get(d)
      PROVE  VTypeOK' /\ KeyInv'
  <2> DEFINE v == [dev[d] EXCEPT !.pc = "idle", !.version = vault.version,
                      !.root = vault.root, !.conflict = FALSE,
                      !.orphan = FALSE]
  <2>0. vault.version \in Nat /\ vault.root \in Nat
    BY <1>0 DEF VaultRow
  <2> DEFINE w == [dev[d] EXCEPT !.pc = "idle"]
  <2>5. w \in Device
    BY <1>0 DEF Device
  <2>6. v = [w EXCEPT !.version = vault.version, !.root = vault.root,
                      !.conflict = FALSE, !.orphan = FALSE]
    BY <1>0 DEF Device
  <2>4. v \in Device
    BY <2>0, <2>5, <2>6 DEF Device
  <2>1. v.pc = "idle" /\ v.mk = dev[d].mk /\ v.signed = dev[d].signed
    BY <1>0 DEF Device
  <2>2. dev' = [dev EXCEPT ![d] = v]
    BY <1>0, <1>3 DEF Get
  <2>3. v.signed => v.mk \in MasterKey
    BY <2>1 DEF KeyInv
  <2> HIDE DEF v
  <2> QED BY <1>0, <1>3, <2>1, <2>2, <2>3, <2>4, DeviceMoves DEF Get
<1>4. ASSUME NEW d \in Devices, NEW kdf \in KDFs, BeginPut(d, kdf)
      PROVE  VTypeOK' /\ KeyInv'
  <2> DEFINE key == [pw |-> dev[d].mk.pw, kdf |-> kdf]
             root == IF dev[d].version = 0 THEN roots + 1 ELSE dev[d].root
             v == [dev[d] EXCEPT !.pc = "putting", !.conflict = FALSE,
                      !.next = key, !.asked = dev[d].version,
                      !.carried = root]
  <2>1. dev[d].mk \in MasterKey
    BY <1>4 DEF BeginPut, KeyInv
  <2>2. key \in MasterKey /\ root \in Nat /\ dev[d].version \in Nat
    BY <1>0, <2>1 DEF MasterKey, Device
  <2>4. dev' = [dev EXCEPT ![d] = v]
    BY <1>0, <1>4 DEF BeginPut
  <2>5. roots' \in Nat
    BY <1>0, <1>4 DEF BeginPut
  <2> HIDE DEF key, root
  <2> DEFINE w == [dev[d] EXCEPT !.pc = "putting", !.conflict = FALSE]
  <2>6. w \in Device
    BY <1>0 DEF Device
  <2>7. v = [w EXCEPT !.next = key, !.asked = dev[d].version,
                      !.carried = root]
    BY <1>0 DEF Device
  <2>8. v \in Device
    BY <2>2, <2>6, <2>7 DEF Device
  <2>3. v.mk = dev[d].mk /\ v.next \in MasterKey /\ v.pc = "putting"
    BY <1>0, <2>2 DEF Device
  <2> HIDE DEF v
  <2>9. UNCHANGED <<account, vault, default>>
    BY <1>4 DEF BeginPut
  <2>10. v.pc \notin {"resetting", "revoking"}
    BY <2>3
  <2> HIDE DEF w
  <2> QED BY <1>0, <2>1, <2>3, <2>4, <2>5, <2>8, <2>9, <2>10, DeviceMoves
<1>5. ASSUME NEW d \in Devices, Put(d)
      PROVE  VTypeOK' /\ KeyInv'
  <2>1. CASE Store(d) /\ dev' = [dev EXCEPT ![d] = Done(d)]
    <3>1. dev[d].next \in MasterKey /\ dev[d] \in Device
      BY <1>0, <1>5 DEF Put, At, KeyInv
    <3>2. vault' \in VaultRow /\ vault'.kdf \in KDFs
      BY <1>0, <2>1, <3>1
      DEF Store, VaultRow, AccountRow, MasterKey, Device
    <3> QED BY <1>0, <1>5, <2>1, <3>2, DoneIsDevice, DeviceMoves
            DEF Put, KeyInv
  <2>2. CASE /\ dev' = [dev EXCEPT ![d] = [Done(d) EXCEPT !.conflict = TRUE]]
             /\ UNCHANGED vault
    <3> DEFINE v == [Done(d) EXCEPT !.conflict = TRUE]
    <3>1. /\ v \in Device /\ v.pc = "idle" /\ v.mk = Done(d).mk
          /\ v.signed = dev[d].signed
      BY DoneIsDevice DEF Device
    <3>2. dev' = [dev EXCEPT ![d] = v]
      BY <2>2
    <3> HIDE DEF v
    <3>3. v.signed => v.mk \in MasterKey
      BY <3>1, DoneIsDevice DEF KeyInv
    <3> QED BY <1>0, <1>5, <2>2, <3>1, <3>2, <3>3, DeviceMoves DEF Put
  <2> QED BY <1>5, <2>1, <2>2 DEF Put
<1>6. ASSUME NEW d \in Devices, Discard(d)
      PROVE  VTypeOK' /\ KeyInv'
  <2>1. vault' \in VaultRow /\ ~vault'.exists
    BY <1>6 DEF Discard, NoVault, VaultRow, NoKey
  <2> DEFINE v(x) == [dev[x] EXCEPT !.orphan = @ \/ dev[x].version # 0,
                                    !.pc = IF x = d THEN "idle" ELSE @]
  <2>6. ASSUME NEW x \in Devices, NEW o \in BOOLEAN, NEW p \in {"idle", dev[x].pc}
        PROVE  [dev[x] EXCEPT !.orphan = o, !.pc = p] \in Device
    <3> DEFINE w == [dev[x] EXCEPT !.pc = p]
    <3>1. w \in Device /\ w.pc = p
      BY <1>0, <2>6 DEF Device
    <3>2. [dev[x] EXCEPT !.orphan = o, !.pc = p] = [w EXCEPT !.orphan = o]
      BY <1>0 DEF Device
    <3> HIDE DEF w
    <3>3. [w EXCEPT !.orphan = o] \in Device
      BY <3>1 DEF Device
    <3> QED BY <3>2, <3>3
  <2>7. \A x \in Devices :
           (dev[x].orphan \/ dev[x].version # 0) \in BOOLEAN
    OBVIOUS
  <2>3. \A x \in Devices : v(x) \in Device
    BY <2>6, <2>7
  <2>4. \A x \in Devices : /\ v(x).pc = dev[x].pc \/ v(x).pc = "idle"
                           /\ v(x).signed = dev[x].signed
                           /\ v(x).mk = dev[x].mk
                           /\ v(x).next = dev[x].next
    BY <1>0 DEF Device
  <2>5. dev' = [x \in Devices |-> v(x)]
    BY <1>6 DEF Discard
  <2> HIDE DEF v
  <2>2. /\ dev' \in [Devices -> Device]
        /\ \A x \in Devices : /\ dev'[x].pc = dev[x].pc \/ dev'[x].pc = "idle"
                              /\ dev'[x].signed = dev[x].signed
                              /\ dev'[x].mk = dev[x].mk
                              /\ dev'[x].next = dev[x].next
    BY <2>3, <2>4, <2>5
  <2> QED BY <1>0, <1>6, <2>1, <2>2 DEF Discard, VTypeOK, KeyInv
<1>7. ASSUME NEW d \in Devices, NEW pw \in Passwords,
             BeginChange(d, pw) \/ BeginReset(d, pw)
      PROVE  VTypeOK' /\ KeyInv'
  <2>1. [pw |-> pw, kdf |-> ParamsKDF] \in MasterKey
    BY ParamsAreKDF DEF MasterKey
  <2> DEFINE v(p) == [dev[d] EXCEPT !.pc = p,
                         !.next = [pw |-> pw, kdf |-> ParamsKDF]]
  <2>2. \A p \in {"changing", "resetting"} :
           v(p) \in Device /\ v(p).mk = dev[d].mk /\ v(p).pc = p
           /\ v(p).signed = dev[d].signed /\ v(p).next \in MasterKey
    BY <1>0, <2>1 DEF Device
  <2>3. PICK p \in {"changing", "resetting"} :
           /\ dev' = [dev EXCEPT ![d] = v(p)]
           /\ p = "resetting" => ~dev[d].signed
    BY <1>0, <1>7 DEF BeginChange, BeginReset
  <2>4. UNCHANGED <<account, vault, default, roots>>
    BY <1>7 DEF BeginChange, BeginReset
  <2> HIDE DEF v
  <2> QED BY <1>0, <2>2, <2>3, <2>4, DeviceMoves DEF KeyInv
<1>8. ASSUME NEW d \in Devices, ChangePassword(d)
      PROVE  VTypeOK' /\ KeyInv'
  <2>1. dev[d].next \in MasterKey
    BY <1>8 DEF ChangePassword, At, KeyInv
  <2>2. CASE account.open /\ account.mk = dev[d].mk
    <3> DEFINE v == [Done(d) EXCEPT !.mk = dev[d].next, !.behind = FALSE]
    <3>1. v \in Device /\ v.pc = "idle" /\ v.mk = dev[d].next
      BY <2>1, DoneIsDevice DEF Device
    <3>2. /\ dev' = [x \in Devices |-> IF x = d THEN v ELSE Behind(x)]
          /\ SetPassword(d)
      BY <1>8, <2>2 DEF ChangePassword
    <3>3. account' \in AccountRow /\ Len(account'.past) = account'.hash
      BY <2>1, <3>2, PasswordSet
    <3> HIDE DEF v
    <3>4. /\ dev' \in [Devices -> Device]
          /\ dev'[d] = v /\ \A x \in Devices \ {d} : dev'[x] = Behind(x)
      BY <3>1, <3>2, BehindIsDevice
    <3> QED BY <1>0, <1>8, <2>1, <3>1, <3>3, <3>4, BehindIsDevice
            DEF ChangePassword, VTypeOK, KeyInv
  <2>3. CASE ~(account.open /\ account.mk = dev[d].mk)
    <3>1. dev' = [dev EXCEPT ![d] = Done(d)] /\ UNCHANGED account
      BY <1>8, <2>3 DEF ChangePassword
    <3> QED BY <1>0, <1>8, <3>1, DoneIsDevice, DeviceMoves
            DEF ChangePassword, KeyInv
  <2> QED BY <2>2, <2>3
<1>9. ASSUME NEW d \in Devices, ResetPassword(d)
      PROVE  VTypeOK' /\ KeyInv'
  <2>1. dev[d].next \in MasterKey /\ ~dev[d].signed
    BY <1>9 DEF ResetPassword, At, KeyInv
  <2>2. account' \in AccountRow /\ Len(account'.past) = account'.hash
    BY <1>9, <2>1, PasswordSet DEF ResetPassword
  <2> DEFINE v == [dev[d] EXCEPT !.pc = "revoking"]
  <2>3. v \in Device /\ v.pc = "revoking" /\ ~v.signed
    BY <1>0, <2>1 DEF Device
  <2>4. dev' = [x \in Devices |-> IF x = d THEN v ELSE Behind(x)]
    BY <1>9 DEF ResetPassword
  <2> HIDE DEF v
  <2>5. /\ dev' \in [Devices -> Device]
        /\ dev'[d] = v /\ \A x \in Devices \ {d} : dev'[x] = Behind(x)
    BY <2>3, <2>4, BehindIsDevice
  <2> QED BY <1>0, <1>9, <2>2, <2>3, <2>5, BehindIsDevice
          DEF ResetPassword, VTypeOK, KeyInv
<1>10. ASSUME NEW d \in Devices, Fail(d)
       PROVE  VTypeOK' /\ KeyInv'
  BY <1>0, <1>10, DoneIsDevice, DeviceMoves DEF Fail, KeyInv
<1>11. ASSUME NEW kdf \in KDFs, Redeploy(kdf)
       PROVE  VTypeOK' /\ KeyInv'
  BY <1>11 DEF Redeploy, VTypeOK, KeyInv
<1>12. ASSUME Close
       PROVE  VTypeOK' /\ KeyInv'
  <2>1. account' \in AccountRow /\ Len(account'.past) = account'.hash
    BY <1>0, <1>12 DEF Close, AccountRow
  <2>2. dev' = [x \in Devices |-> Out(x)]
    BY <1>12 DEF Close
  <2>3. /\ dev' \in [Devices -> Device]
        /\ \A x \in Devices : /\ dev'[x].pc = dev[x].pc
                              /\ ~dev'[x].signed
                              /\ dev'[x].next = dev[x].next
    BY <2>2, OutIsDevice
  <2> QED BY <1>0, <1>12, <2>1, <2>3 DEF Close, VTypeOK, KeyInv
<1>13. ASSUME NEW d \in Devices, NEW what \in {"reading", "discarding"},
              Ask(d, what)
       PROVE  VTypeOK' /\ KeyInv'
  <2> DEFINE v == [dev[d] EXCEPT !.pc = what]
  <2>1. v \in Device /\ v.pc = what /\ v.mk = dev[d].mk
    BY <1>0 DEF Device
  <2>3. dev' = [dev EXCEPT ![d] = v]
    BY <1>0, <1>13 DEF Ask
  <2>4. dev[d].mk \in MasterKey
    BY <1>13 DEF Ask, KeyInv
  <2> HIDE DEF v
  <2> QED BY <1>0, <1>13, <2>1, <2>3, <2>4, DeviceMoves DEF Ask
<1>14. ASSUME NEW d \in Devices, RevokeAll(d)
       PROVE  VTypeOK' /\ KeyInv'
  <2>1. \A x \in Devices : dev'[x] = NewDevice \/ dev'[x] = Out(x)
    BY <1>14 DEF RevokeAll
  <2>2. DOMAIN dev' = Devices /\ dev' = [x \in Devices |-> dev'[x]]
    BY <1>14 DEF RevokeAll
  <2>3. /\ ~NewDevice.signed /\ NewDevice.pc = "idle"
    BY DEF NewDevice
  <2>4. /\ dev' \in [Devices -> Device]
        /\ \A x \in Devices :
              /\ ~dev'[x].signed
              /\ \/ dev'[x].pc = "idle"
                 \/ dev'[x].pc = dev[x].pc /\ dev'[x].next = dev[x].next
    BY <2>1, <2>2, <2>3, NewIsDevice, OutIsDevice
  <2> QED BY <1>0, <1>14, <2>4 DEF RevokeAll, VTypeOK, KeyInv
<1>15. CASE UNCHANGED vvars
  BY <1>15 DEF vvars, VTypeOK, KeyInv
<1> QED
  BY <1>1, <1>2, <1>3, <1>4, <1>5, <1>6, <1>7, <1>8, <1>9, <1>10, <1>11,
     <1>12, <1>13, <1>14, <1>15 DEF VNext

(* The shape of the rows and of the devices holds of every state. *)
THEOREM VaultTyped == VSpec => []VTypeOK
<1> QED BY TypeInit, TypeStep, PTL DEF VSpec

-----------------------------------------------------------------------------
(* The row and the hash it was written beside. *)

(* The hash moves on to a password that every device without it is behind. *)
LEMMA CountedRow ==
    ASSUME VTypeOK, KeyInv, RowInv, vault' = vault,
           NEW k \in MasterKey, Counted(k),
           \A x \in Devices : Knows(dev[x])'
    PROVE  RowInv'
<1>1. /\ account.past \in Seq(Passwords) /\ k.pw \in Passwords
      /\ Len(account.past) = account.hash
  BY DEF VTypeOK, AccountRow, MasterKey, KeyInv
<1>2. /\ Len(account'.past) = account.hash + 1 /\ account.hash \in Nat
      /\ account'.past[account.hash + 1] = k.pw
      /\ \A i \in 1 .. account.hash : account'.past[i] = account.past[i]
      /\ account'.hash = account.hash + 1 /\ account'.mk = k
  BY <1>1, PastGrows DEF Counted
<1>3. Row(vault, account'.past)
  BY <1>1, <1>2 DEF RowInv, Row
<1> QED BY <1>2, <1>3 DEF RowInv

(* Devices move on under the same password. *)
LEMMA SameRow ==
    ASSUME RowInv, vault' = vault, account'.hash = account.hash,
           account'.past = account.past, account'.mk = account.mk,
           \A x \in Devices : Knows(dev'[x])
    PROVE  RowInv'
<1>1. \A x \in Devices : Knows(dev[x])'
  BY DEF Knows
<1> QED BY <1>1 DEF RowInv

LEMMA DoneKnows ==
    ASSUME VTypeOK, RowInv, NEW d \in Devices
    PROVE  Knows(Done(d))
<1>1. Knows(dev[d])
  BY DEF RowInv
<1> QED BY <1>1, DoneIsDevice DEF Knows

LEMMA RowStep ==
    VTypeOK /\ KeyInv /\ RowInv /\ [VNext]_vvars => RowInv'
<1> SUFFICES ASSUME VTypeOK, KeyInv, RowInv, [VNext]_vvars
             PROVE  RowInv'
  OBVIOUS
<1>0. /\ account \in AccountRow /\ account.mk \in MasterKey
      /\ account.hash \in Nat /\ Len(account.past) = account.hash
      /\ dev \in [Devices -> Device] /\ vault \in VaultRow
      /\ \A x \in Devices : Knows(dev[x]) /\ dev[x] \in Device
  BY DEF VTypeOK, AccountRow, KeyInv, RowInv
<1>1. ASSUME NEW d \in Devices, NEW v, dev' = [dev EXCEPT ![d] = v],
             Knows(v), UNCHANGED <<account, vault>>
      PROVE  RowInv'
  <2>1. \A x \in Devices : Knows(dev'[x])
    BY <1>0, <1>1
  <2> QED BY <1>1, <2>1, SameRow
<1>2. ASSUME NEW d \in Devices, NEW pw \in Passwords, Derive(d, pw)
      PROVE  RowInv'
  <2> DEFINE v == [dev[d] EXCEPT !.pc = "derived",
                                 !.mk = [pw |-> pw, kdf |-> ParamsKDF]]
  <2>1. ~v.signed /\ v.pc = "derived"
    BY <1>0, <1>2 DEF Derive, Device
  <2>2. dev' = [dev EXCEPT ![d] = v] /\ UNCHANGED <<account, vault>>
    BY <1>0, <1>2 DEF Derive
  <2> HIDE DEF v
  <2>3. Knows(v)
    BY <2>1 DEF Knows
  <2> QED BY <1>1, <2>2, <2>3
<1>3. ASSUME NEW d \in Devices, Login(d)
      PROVE  RowInv'
  <2> DEFINE v == [dev[d] EXCEPT !.pc = "idle", !.signed = TRUE,
                                 !.behind = FALSE]
  <2>1. v.pc = "idle" /\ v.mk = dev[d].mk
    BY <1>0 DEF Device
  <2>2. /\ vault' = vault
        /\ \/ dev' = [dev EXCEPT ![d] = v] /\ account.mk = dev[d].mk
           \/ dev' = [dev EXCEPT ![d] = NewDevice]
    BY <1>0, <1>3 DEF Login
  <2>3. ~NewDevice.signed /\ NewDevice.pc = "idle"
    BY DEF NewDevice
  <2> HIDE DEF v
  <2>4. \A x \in Devices : Knows(dev'[x])
    BY <1>0, <2>1, <2>2, <2>3 DEF Knows
  <2>5. CASE account' = account
    BY <2>2, <2>4, <2>5, SameRow
  <2>6. CASE Counted(account.mk)
    <3>1. account'.mk = account.mk
      BY <2>6 DEF Counted
    <3>2. \A x \in Devices : Knows(dev[x])'
      BY <2>4, <3>1 DEF Knows
    <3> QED BY <1>0, <2>2, <2>6, <3>2, CountedRow
  <2> QED BY <1>3, <2>5, <2>6, LoginCounts
<1>4. ASSUME NEW d \in Devices, NEW what \in {"reading", "discarding"},
             Ask(d, what)
      PROVE  RowInv'
  <2> DEFINE v == [dev[d] EXCEPT !.pc = what]
  <2>1. /\ v.pc = what /\ v.mk = dev[d].mk
        /\ v.signed = dev[d].signed /\ v.behind = dev[d].behind
    BY <1>0 DEF Device
  <2>2. dev' = [dev EXCEPT ![d] = v] /\ UNCHANGED <<account, vault>>
    BY <1>0, <1>4 DEF Ask
  <2> HIDE DEF v
  <2>3. Knows(v)
    BY <1>0, <2>1 DEF Knows
  <2> QED BY <1>1, <2>2, <2>3
<1>5. ASSUME NEW d \in Devices, Get(d)
      PROVE  RowInv'
  <2> DEFINE v == [dev[d] EXCEPT !.pc = "idle", !.version = vault.version,
                      !.root = vault.root, !.conflict = FALSE,
                      !.orphan = FALSE]
  <2>1. /\ v.pc = "idle" /\ v.mk = dev[d].mk
        /\ v.signed = dev[d].signed /\ v.behind = dev[d].behind
    BY <1>0 DEF Device
  <2>2. dev' = [dev EXCEPT ![d] = v] /\ UNCHANGED <<account, vault>>
    BY <1>0, <1>5 DEF Get
  <2> HIDE DEF v
  <2>3. Knows(v)
    BY <1>0, <2>1 DEF Knows
  <2> QED BY <1>1, <2>2, <2>3
<1>6. ASSUME NEW d \in Devices, NEW kdf \in KDFs, BeginPut(d, kdf)
      PROVE  RowInv'
  <2> DEFINE key == [pw |-> dev[d].mk.pw, kdf |-> kdf]
             root == IF dev[d].version = 0 THEN roots + 1 ELSE dev[d].root
             v == [dev[d] EXCEPT !.pc = "putting", !.conflict = FALSE,
                      !.next = key, !.asked = dev[d].version,
                      !.carried = root]
  <2>1. dev' = [dev EXCEPT ![d] = v] /\ UNCHANGED <<account, vault>>
        /\ dev[d].signed
    BY <1>0, <1>6 DEF BeginPut
  <2>2. key.pw = dev[d].mk.pw
    OBVIOUS
  <2> HIDE DEF root, key
  <2>3. /\ v.signed = dev[d].signed /\ v.behind = dev[d].behind
        /\ v.mk = dev[d].mk /\ v.next = key
    BY <1>0 DEF Device
  <2> HIDE DEF v
  <2>4. Knows(v)
    BY <1>0, <2>1, <2>2, <2>3 DEF Knows
  <2> QED BY <1>1, <2>1, <2>4
<1>7. ASSUME NEW d \in Devices, Put(d), Store(d),
             dev' = [dev EXCEPT ![d] = Done(d)]
      PROVE  RowInv'
  <2>1. dev[d].next \in MasterKey /\ dev[d].pc = "putting" /\ account' = account
    BY <1>7 DEF Put, At, KeyInv
  <2>2. /\ vault'.exists /\ vault'.version = vault.version + 1
        /\ vault'.wrappedFor = account.hash /\ vault'.late = dev[d].behind
        /\ vault'.key = dev[d].next /\ vault'.kdf = dev[d].next.kdf
    BY <1>7 DEF Store
  <2>3. vault'.version > 0 /\ account.hash \in 1 .. Len(account.past)
    BY <1>0, <2>2 DEF VaultRow, RowInv
  <2>4. ~dev[d].behind => dev[d].next.pw = account.past[account.hash]
    BY <1>0, <2>1 DEF Knows, RowInv
  <2>5. Row(vault', account.past)
    BY <2>1, <2>2, <2>3, <2>4 DEF Row
  <2>6. \A x \in Devices : Knows(dev'[x])
    BY <1>0, <1>7, DoneKnows
  <2>7. \A x \in Devices : Knows(dev[x])'
    BY <2>1, <2>6 DEF Knows
  <2> QED BY <2>1, <2>5, <2>7 DEF RowInv
<1>8. ASSUME NEW d \in Devices, Put(d)
      PROVE  RowInv'
  <2>1. CASE /\ dev' = [dev EXCEPT ![d] = [Done(d) EXCEPT !.conflict = TRUE]]
             /\ UNCHANGED vault
    <3> DEFINE v == [Done(d) EXCEPT !.conflict = TRUE]
    <3>1. /\ v.pc = Done(d).pc /\ v.mk = Done(d).mk /\ v.next = Done(d).next
          /\ v.signed = Done(d).signed /\ v.behind = Done(d).behind
      BY DoneIsDevice DEF Device
    <3>2. dev' = [dev EXCEPT ![d] = v] /\ UNCHANGED <<account, vault>>
      BY <1>8, <2>1 DEF Put
    <3> HIDE DEF v
    <3>3. Knows(v)
      BY <3>1, DoneKnows DEF Knows
    <3> QED BY <1>1, <3>2, <3>3
  <2> QED BY <1>7, <1>8, <2>1 DEF Put
<1>9. ASSUME NEW d \in Devices, Discard(d)
      PROVE  RowInv'
  <2> DEFINE v(x) == [dev[x] EXCEPT !.orphan = @ \/ dev[x].version # 0,
                                    !.pc = IF x = d THEN "idle" ELSE @]
  <2>1. \A x \in Devices :
           /\ v(x).mk = dev[x].mk /\ v(x).next = dev[x].next
           /\ v(x).signed = dev[x].signed /\ v(x).behind = dev[x].behind
           /\ v(x).pc = "idle" \/ v(x).pc = dev[x].pc
    BY <1>0 DEF Device
  <2>2. dev' = [x \in Devices |-> v(x)] /\ vault' = NoVault
        /\ account' = account
    BY <1>9 DEF Discard
  <2> HIDE DEF v
  <2>3. \A x \in Devices : Knows(v(x))
    BY <1>0, <2>1 DEF Knows
  <2>4. \A x \in Devices : Knows(dev[x])'
    BY <2>2, <2>3 DEF Knows
  <2>5. Row(vault', account.past)
    BY <2>2 DEF Row, NoVault
  <2> QED BY <2>2, <2>4, <2>5 DEF RowInv
<1>10. ASSUME NEW d \in Devices, NEW pw \in Passwords,
              BeginChange(d, pw) \/ BeginReset(d, pw)
       PROVE  RowInv'
  <2> DEFINE v(p) == [dev[d] EXCEPT !.pc = p,
                         !.next = [pw |-> pw, kdf |-> ParamsKDF]]
  <2>1. \A p \in {"changing", "resetting"} :
           /\ v(p).mk = dev[d].mk /\ v(p).pc = p
           /\ v(p).signed = dev[d].signed /\ v(p).behind = dev[d].behind
    BY <1>0 DEF Device
  <2>2. PICK p \in {"changing", "resetting"} : dev' = [dev EXCEPT ![d] = v(p)]
    BY <1>0, <1>10 DEF BeginChange, BeginReset
  <2>3. UNCHANGED <<account, vault>>
    BY <1>10 DEF BeginChange, BeginReset
  <2> HIDE DEF v
  <2>4. Knows(v(p))
    BY <1>0, <2>1 DEF Knows
  <2> QED BY <1>1, <2>2, <2>3, <2>4
<1>11. ASSUME NEW d \in Devices, NEW v, SetPassword(d),
              dev[d].next \in MasterKey, vault' = vault,
              dev' = [x \in Devices |-> IF x = d THEN v ELSE Behind(x)],
              v.pc # "putting", v.signed => v.mk = dev[d].next
       PROVE  RowInv'
  <2>1. Counted(dev[d].next)
    BY <1>11, PasswordSet
  <2>2. account'.mk = dev[d].next
    BY <2>1 DEF Counted
  <2>3. \A x \in Devices : Knows(dev[x])'
    BY <1>11, <2>2, BehindIsDevice DEF Knows
  <2> QED BY <1>11, <2>1, <2>3, CountedRow
<1>12. ASSUME NEW d \in Devices, ChangePassword(d)
       PROVE  RowInv'
  <2>1. dev[d].next \in MasterKey /\ vault' = vault
    BY <1>12 DEF ChangePassword, At, KeyInv
  <2>2. CASE account.open /\ account.mk = dev[d].mk
    <3> DEFINE v == [Done(d) EXCEPT !.mk = dev[d].next, !.behind = FALSE]
    <3>1. v.pc = "idle" /\ v.mk = dev[d].next
      BY DoneIsDevice DEF Device
    <3>2. /\ dev' = [x \in Devices |-> IF x = d THEN v ELSE Behind(x)]
          /\ SetPassword(d)
      BY <1>12, <2>2 DEF ChangePassword
    <3> HIDE DEF v
    <3> QED BY <1>11, <2>1, <3>1, <3>2
  <2>3. CASE ~(account.open /\ account.mk = dev[d].mk)
    <3>1. dev' = [dev EXCEPT ![d] = Done(d)] /\ UNCHANGED account
      BY <1>12, <2>3 DEF ChangePassword
    <3> QED BY <1>1, <2>1, <3>1, DoneKnows
  <2> QED BY <2>2, <2>3
<1>13. ASSUME NEW d \in Devices, ResetPassword(d)
       PROVE  RowInv'
  <2>1. dev[d].next \in MasterKey /\ ~dev[d].signed
    BY <1>13 DEF ResetPassword, At, KeyInv
  <2> DEFINE v == [dev[d] EXCEPT !.pc = "revoking"]
  <2>2. v.pc = "revoking" /\ ~v.signed
    BY <1>0, <2>1 DEF Device
  <2>3. /\ dev' = [x \in Devices |-> IF x = d THEN v ELSE Behind(x)]
        /\ SetPassword(d) /\ vault' = vault
    BY <1>13 DEF ResetPassword
  <2> HIDE DEF v
  <2> QED BY <1>11, <2>1, <2>2, <2>3
<1>14. ASSUME UNCHANGED vault, account'.hash = account.hash,
              account'.past = account.past, account'.mk = account.mk,
              \A x \in Devices : dev'[x] = NewDevice \/ dev'[x] = Out(x)
       PROVE  RowInv'
  <2>1. ~NewDevice.signed /\ NewDevice.pc = "idle"
    BY DEF NewDevice
  <2>2. \A x \in Devices : Knows(dev'[x])
    BY <1>0, <1>14, <2>1, OutIsDevice DEF Knows
  <2> QED BY <1>14, <2>2, SameRow
<1>15. ASSUME NEW d \in Devices, RevokeAll(d)
       PROVE  RowInv'
  BY <1>14, <1>15 DEF RevokeAll
<1>16. ASSUME NEW d \in Devices, Fail(d)
       PROVE  RowInv'
  BY <1>1, <1>16, DoneKnows DEF Fail
<1>17. ASSUME Close
       PROVE  RowInv'
  <2>1. account' = [account EXCEPT !.open = FALSE] /\ vault' = vault
        /\ \A x \in Devices : dev'[x] = Out(x)
    BY <1>17 DEF Close
  <2>2. /\ account'.hash = account.hash /\ account'.past = account.past
        /\ account'.mk = account.mk
    BY <1>0, <2>1 DEF AccountRow
  <2> QED BY <1>14, <2>1, <2>2
<1>18. CASE UNCHANGED <<account, vault, dev>>
  BY <1>0, <1>18, SameRow
<1> QED
  BY <1>2, <1>3, <1>4, <1>5, <1>6, <1>8, <1>9, <1>10, <1>12, <1>13, <1>15,
     <1>16, <1>17, <1>18 DEF VNext, vvars, Redeploy

LEMMA RowInit == VInit => RowInv
<1> SUFFICES ASSUME VInit PROVE RowInv
  OBVIOUS
<1>1. account.hash = 1 /\ account.past[1] = account.mk.pw
  BY DEF VInit
<1>2. Row(vault, account.past)
  BY DEF VInit, Row, NoVault
<1>3. \A d \in Devices : Knows(dev[d])
  BY DEF VInit, Knows, NewDevice
<1> QED BY <1>1, <1>2, <1>3 DEF RowInv

(* What a device is told of the vault's staleness is right, but of a row   *)
(* written by a device that was behind.                                    *)
THEOREM StalenessHolds == VSpec => []StaleTells
<1>1. ASSUME RowInv PROVE StaleTells
  <2> SUFFICES ASSUME vault.exists, ~vault.late
               PROVE  /\ ~Stale => Opens
                      /\ Stale /\ Opens
                            => account.past[vault.wrappedFor] = account.mk.pw
    BY DEF StaleTells
  <2>1. /\ vault.key \in MasterKey /\ vault.key.kdf = vault.kdf
        /\ vault.key.pw = account.past[vault.wrappedFor]
        /\ account.past[account.hash] = account.mk.pw
    BY <1>1 DEF RowInv, Row
  <2>2. vault.key = [pw |-> vault.key.pw, kdf |-> vault.key.kdf]
    BY <2>1 DEF MasterKey
  <2>3. Opens <=> vault.key.pw = account.mk.pw
    BY <2>1, <2>2 DEF Opens
  <2> QED BY <2>1, <2>3 DEF Stale
<1> QED BY <1>1, RowInit, TypeInit, RowStep, TypeStep, PTL DEF VSpec

-----------------------------------------------------------------------------
(* Versions. *)

LEMMA NewTracks == \A row : Tracks(NewDevice, row)
  BY DEF Tracks, NewDevice

LEMMA DoneTracks ==
    ASSUME VTypeOK, NEW d \in Devices, Tracks(dev[d], vault)
    PROVE  Tracks(Done(d), vault)
  BY DoneIsDevice DEF Tracks

(* A later version makes what was read the past. *)
LEMMA PastTracks ==
    ASSUME VTypeOK, NEW v \in Device, Tracks(v, vault),
           vault'.exists, vault'.version = vault.version + 1
    PROVE  Tracks(v, vault')
<1>1. vault.version \in Nat /\ v.version \in Nat
  BY DEF VTypeOK, VaultRow, Device
<1> QED BY <1>1 DEF Tracks

(* What a device's signing in or out and its master key do not touch. *)
LEMMA SameTracks ==
    ASSUME NEW v, NEW w, NEW row, Tracks(v, row),
           w.version = v.version, w.root = v.root, w.orphan = v.orphan,
           w.pc # "putting"
    PROVE  Tracks(w, row)
  BY DEF Tracks

LEMMA VersionStep ==
    /\ VTypeOK /\ KeyInv /\ RowInv /\ VersionInv /\ [VNext]_vvars
    => VersionInv'
<1> SUFFICES ASSUME VTypeOK, KeyInv, RowInv, VersionInv, [VNext]_vvars
             PROVE  VersionInv'
  OBVIOUS
<1>0. dev \in [Devices -> Device] /\ vault \in VaultRow
  BY DEF VTypeOK
<1>1. ASSUME NEW d \in Devices, NEW v, dev' = [dev EXCEPT ![d] = v],
             vault' = vault, Tracks(v, vault)
      PROVE  VersionInv'
  BY <1>0, <1>1 DEF VersionInv
<1>2. \A d \in Devices : Tracks(dev[d], vault) /\ Tracks(Done(d), vault)
  BY DoneTracks DEF VersionInv
<1>3. ASSUME NEW d \in Devices, NEW pw \in Passwords, Derive(d, pw)
      PROVE  VersionInv'
  <2> DEFINE v == [dev[d] EXCEPT !.pc = "derived",
                                 !.mk = [pw |-> pw, kdf |-> ParamsKDF]]
  <2>1. /\ v.version = dev[d].version /\ v.root = dev[d].root
        /\ v.orphan = dev[d].orphan /\ v.pc # "putting"
    BY <1>0 DEF Device
  <2>2. dev' = [dev EXCEPT ![d] = v] /\ vault' = vault
    BY <1>0, <1>3 DEF Derive
  <2> HIDE DEF v
  <2> QED BY <1>1, <1>2, <2>1, <2>2, SameTracks
<1>4. ASSUME NEW d \in Devices, Login(d)
      PROVE  VersionInv'
  <2> DEFINE v == [dev[d] EXCEPT !.pc = "idle", !.signed = TRUE,
                                 !.behind = FALSE]
  <2>1. /\ v.version = dev[d].version /\ v.root = dev[d].root
        /\ v.orphan = dev[d].orphan /\ v.pc # "putting"
    BY <1>0 DEF Device
  <2>2. vault' = vault /\ \/ dev' = [dev EXCEPT ![d] = v]
                          \/ dev' = [dev EXCEPT ![d] = NewDevice]
    BY <1>0, <1>4 DEF Login
  <2> HIDE DEF v
  <2> QED BY <1>1, <1>2, <2>1, <2>2, SameTracks, NewTracks
<1>5. ASSUME NEW d \in Devices, Get(d)
      PROVE  VersionInv'
  <2> DEFINE v == [dev[d] EXCEPT !.pc = "idle", !.version = vault.version,
                      !.root = vault.root, !.conflict = FALSE,
                      !.orphan = FALSE]
  <2>1. /\ v.version = vault.version /\ v.root = vault.root
        /\ v.pc = "idle" /\ vault.version \in Nat
    BY <1>0 DEF Device, VaultRow
  <2>2. dev' = [dev EXCEPT ![d] = v] /\ vault' = vault
    BY <1>0, <1>5 DEF Get
  <2>3. ~vault.exists => vault.version = 0
    BY DEF RowInv, Row, NoVault
  <2> HIDE DEF v
  <2>4. Tracks(v, vault)
    BY <2>1, <2>3 DEF Tracks
  <2> QED BY <1>1, <2>2, <2>4
<1>6. ASSUME NEW d \in Devices, NEW kdf \in KDFs, BeginPut(d, kdf)
      PROVE  VersionInv'
  <2> DEFINE key == [pw |-> dev[d].mk.pw, kdf |-> kdf]
             root == IF dev[d].version = 0 THEN roots + 1 ELSE dev[d].root
             v == [dev[d] EXCEPT !.pc = "putting", !.conflict = FALSE,
                      !.next = key, !.asked = dev[d].version,
                      !.carried = root]
  <2>1. dev' = [dev EXCEPT ![d] = v] /\ vault' = vault
    BY <1>0, <1>6 DEF BeginPut
  <2>2. dev[d].version # 0 => root = dev[d].root
    OBVIOUS
  <2> HIDE DEF root, key
  <2>3. /\ v.version = dev[d].version /\ v.root = dev[d].root
        /\ v.orphan = dev[d].orphan /\ v.asked = dev[d].version
        /\ ~v.conflict /\ v.carried = root
    BY <1>0 DEF Device
  <2> HIDE DEF v
  <2>4. Tracks(v, vault)
    BY <1>2, <2>2, <2>3 DEF Tracks
  <2> QED BY <1>1, <2>1, <2>4
<1>7. ASSUME NEW d \in Devices, Put(d)
      PROVE  VersionInv'
  <2>1. CASE Store(d) /\ dev' = [dev EXCEPT ![d] = Done(d)]
    <3>1. vault'.exists /\ vault'.version = vault.version + 1
      BY <2>1 DEF Store
    <3>2. \A x \in Devices : dev'[x] \in Device /\ Tracks(dev'[x], vault)
      BY <1>0, <1>2, <2>1, DoneIsDevice
    <3> QED BY <3>1, <3>2, PastTracks DEF VersionInv
  <2>2. CASE /\ dev' = [dev EXCEPT ![d] = [Done(d) EXCEPT !.conflict = TRUE]]
             /\ UNCHANGED vault
    <3> DEFINE v == [Done(d) EXCEPT !.conflict = TRUE]
    <3>1. /\ v.version = Done(d).version /\ v.root = Done(d).root
          /\ v.orphan = Done(d).orphan /\ v.pc # "putting"
      BY DoneIsDevice DEF Device
    <3>2. dev' = [dev EXCEPT ![d] = v] /\ vault' = vault
      BY <2>2
    <3> HIDE DEF v
    <3> QED BY <1>1, <1>2, <3>1, <3>2, SameTracks
  <2> QED BY <1>7, <2>1, <2>2 DEF Put
<1>8. ASSUME NEW d \in Devices, Discard(d)
      PROVE  VersionInv'
  <2> DEFINE v(x) == [dev[x] EXCEPT !.orphan = @ \/ dev[x].version # 0,
                                    !.pc = IF x = d THEN "idle" ELSE @]
  <2>1. \A x \in Devices :
           /\ v(x).pc = dev[x].pc \/ v(x).pc = "idle"
           /\ v(x).asked = dev[x].asked
           /\ v(x).version = dev[x].version /\ v(x).conflict = dev[x].conflict
           /\ v(x).carried = dev[x].carried /\ v(x).root = dev[x].root
    BY <1>0 DEF Device
  <2>4. \A x \in Devices : v(x).orphan = (dev[x].orphan \/ dev[x].version # 0)
    BY <1>0 DEF Device
  <2>5. \A x \in Devices : v(x).version # 0 => v(x).orphan
    BY <2>1, <2>4
  <2>2. dev' = [x \in Devices |-> v(x)]
    BY <1>8 DEF Discard
  <2> HIDE DEF v
  <2>3. \A x \in Devices : Tracks(v(x), vault')
    BY <1>2, <2>1, <2>5 DEF Tracks
  <2> QED BY <2>2, <2>3 DEF VersionInv
<1>9. ASSUME NEW d \in Devices, NEW pw \in Passwords,
             BeginChange(d, pw) \/ BeginReset(d, pw)
      PROVE  VersionInv'
  <2> DEFINE v(p) == [dev[d] EXCEPT !.pc = p,
                         !.next = [pw |-> pw, kdf |-> ParamsKDF]]
  <2>1. \A p \in {"changing", "resetting"} :
           /\ v(p).version = dev[d].version /\ v(p).root = dev[d].root
           /\ v(p).orphan = dev[d].orphan /\ v(p).pc # "putting"
    BY <1>0 DEF Device
  <2>2. PICK p \in {"changing", "resetting"} : dev' = [dev EXCEPT ![d] = v(p)]
    BY <1>0, <1>9 DEF BeginChange, BeginReset
  <2>3. vault' = vault
    BY <1>9 DEF BeginChange, BeginReset
  <2> HIDE DEF v
  <2>4. Tracks(v(p), vault)
    BY <1>2, <2>1, SameTracks
  <2> QED BY <1>1, <2>2, <2>3, <2>4
<1>10. ASSUME NEW d \in Devices, NEW v, UNCHANGED vault,
              dev' = [x \in Devices |-> IF x = d THEN v ELSE Behind(x)],
              Tracks(v, vault)
       PROVE  VersionInv'
  <2>1. \A x \in Devices : Tracks(Behind(x), vault)
    BY <1>2, BehindIsDevice DEF Tracks
  <2> QED BY <1>10, <2>1 DEF VersionInv
<1>15. ASSUME NEW d \in Devices, ChangePassword(d)
       PROVE  VersionInv'
  <2>1. vault' = vault
    BY <1>15 DEF ChangePassword
  <2>2. CASE dev' = [dev EXCEPT ![d] = Done(d)]
    BY <1>1, <1>2, <2>1, <2>2
  <2>3. CASE dev' = [x \in Devices |->
                       IF x = d THEN [Done(d) EXCEPT !.mk = dev[d].next,
                                                     !.behind = FALSE]
                                ELSE Behind(x)]
    <3> DEFINE v == [Done(d) EXCEPT !.mk = dev[d].next, !.behind = FALSE]
    <3>1. /\ v.version = Done(d).version /\ v.root = Done(d).root
          /\ v.orphan = Done(d).orphan /\ v.pc # "putting"
      BY DoneIsDevice DEF Device
    <3>2. dev' = [x \in Devices |-> IF x = d THEN v ELSE Behind(x)]
      BY <2>3
    <3> HIDE DEF v
    <3>3. Tracks(v, vault)
      BY <1>2, <3>1, SameTracks
    <3> QED BY <1>10, <2>1, <3>2, <3>3
  <2> QED BY <1>15, <2>2, <2>3 DEF ChangePassword
<1>16. ASSUME NEW d \in Devices, ResetPassword(d)
       PROVE  VersionInv'
  <2> DEFINE v == [dev[d] EXCEPT !.pc = "revoking"]
  <2>1. /\ v.version = dev[d].version /\ v.root = dev[d].root
        /\ v.orphan = dev[d].orphan /\ v.pc # "putting"
    BY <1>0 DEF Device
  <2>2. dev' = [x \in Devices |-> IF x = d THEN v ELSE Behind(x)]
        /\ vault' = vault
    BY <1>16 DEF ResetPassword
  <2> HIDE DEF v
  <2>3. Tracks(v, vault)
    BY <1>2, <2>1, SameTracks
  <2> QED BY <1>10, <2>2, <2>3
<1>11. ASSUME UNCHANGED vault,
              \A x \in Devices : dev'[x] = NewDevice \/ dev'[x] = Out(x)
       PROVE  VersionInv'
  <2>1. \A x \in Devices : Tracks(Out(x), vault)
    BY <1>2, OutIsDevice DEF Tracks
  <2> QED BY <1>11, <2>1, NewTracks DEF VersionInv
<1>17. ASSUME NEW d \in Devices, RevokeAll(d)
       PROVE  VersionInv'
  BY <1>11, <1>17 DEF RevokeAll
<1>18. ASSUME NEW d \in Devices, NEW what \in {"reading", "discarding"},
              Ask(d, what)
       PROVE  VersionInv'
  <2> DEFINE v == [dev[d] EXCEPT !.pc = what]
  <2>1. /\ v.version = dev[d].version /\ v.root = dev[d].root
        /\ v.orphan = dev[d].orphan /\ v.pc # "putting"
    BY <1>0 DEF Device
  <2>2. dev' = [dev EXCEPT ![d] = v] /\ vault' = vault
    BY <1>0, <1>18 DEF Ask
  <2> HIDE DEF v
  <2> QED BY <1>1, <1>2, <2>1, <2>2, SameTracks
<1>12. ASSUME NEW d \in Devices, Fail(d)
       PROVE  VersionInv'
  BY <1>1, <1>2, <1>12 DEF Fail
<1>13. ASSUME Close
       PROVE  VersionInv'
  BY <1>11, <1>13 DEF Close
<1>14. CASE UNCHANGED <<dev, vault>>
  BY <1>14 DEF VersionInv
<1> QED
  BY <1>3, <1>4, <1>5, <1>6, <1>7, <1>8, <1>9, <1>12, <1>13, <1>14, <1>15,
     <1>16, <1>17, <1>18 DEF VNext, vvars, Redeploy

(* The invariant the two action properties follow from. *)
THEOREM VaultInvariant == VSpec => []VInv
<1>2. VInit => VersionInv
  BY NewTracks DEF VInit, VersionInv
<1> QED
  BY <1>2, RowInit, TypeInit, TypeStep, RowStep, VersionStep, PTL
  DEF VSpec, VInv

-----------------------------------------------------------------------------
(* The root key. *)

(* The vault changes by a write or a discard. *)
LEMMA OnlyPutWrites ==
    ASSUME [VNext]_vvars, vault'.exists, vault' # vault
    PROVE  \E d \in Devices :
              Put(d) /\ Store(d) /\ dev' = [dev EXCEPT ![d] = Done(d)]
<1>1. ~NoVault.exists
  BY DEF NoVault
<1>2. \A d \in Devices : ~Discard(d)
  BY <1>1 DEF Discard
<1>3. \A d \in Devices : /\ ~Login(d) /\ ~Get(d) /\ ~ChangePassword(d)
                         /\ ~ResetPassword(d) /\ ~RevokeAll(d) /\ ~Fail(d)
  BY DEF Login, Get, ChangePassword, ResetPassword, RevokeAll, Fail
<1>4. \A d \in Devices :
         /\ \A what \in {"reading", "discarding"} : ~Ask(d, what)
         /\ \A kdf \in KDFs : ~BeginPut(d, kdf)
         /\ \A pw \in Passwords :
               ~Derive(d, pw) /\ ~BeginChange(d, pw) /\ ~BeginReset(d, pw)
  BY DEF Ask, BeginPut, Derive, BeginChange, BeginReset
<1>5. ~Close /\ \A kdf \in KDFs : ~Redeploy(kdf)
  BY DEF Close, Redeploy
<1>6. PICK d \in Devices : Put(d)
  BY <1>2, <1>3, <1>4, <1>5 DEF VNext, vvars
<1> QED BY <1>6 DEF Put

LEMMA RootStep ==
    ASSUME VInv, [VNext]_vvars,
           vault.exists, vault'.exists, vault'.root # vault.root
    PROVE  \E d \in Devices : Writes(d) /\ dev[d].orphan
<1>1. PICK d \in Devices :
         Put(d) /\ Store(d) /\ dev' = [dev EXCEPT ![d] = Done(d)]
  BY OnlyPutWrites
<1>2. /\ dev[d].pc = "putting" /\ vault.version = dev[d].asked
      /\ vault'.root = dev[d].carried
  BY <1>1 DEF Put, Store, Matches, At
<1>3. dev[d].asked = dev[d].version /\ dev[d].asked # 0
      /\ dev[d].carried = dev[d].root
  BY <1>2 DEF VInv, VersionInv, Tracks, RowInv, Row
<1>4. dev[d].orphan
  BY <1>2, <1>3 DEF VInv, VersionInv, Tracks, VTypeOK, Device
<1>5. dev'[d].pc = "idle"
  BY <1>1, DoneIsDevice DEF VInv, VTypeOK
<1> QED BY <1>2, <1>4, <1>5 DEF Writes, At

(* No write replaces the root key, but by a device whose row was discarded *)
(* under it.                                                               *)
THEOREM RootHolds == VSpec => RootKeyStable
<1>1. VInv /\ [VNext]_vvars
      => [vault.exists /\ vault'.exists /\ vault'.root # vault.root
             => \E d \in Devices : Writes(d) /\ dev[d].orphan]_vvars
  BY RootStep
<1> QED BY <1>1, VaultInvariant, PTL DEF VSpec, RootKeyStable

(* A device is told CONFLICT by its own write alone. *)
LEMMA OnlyPutConflicts ==
    ASSUME VInv, [VNext]_vvars, NEW d \in Devices, At(d, "putting"),
           dev'[d].conflict
    PROVE  Put(d) /\ ~(account.open /\ Matches(d))
<1>0. /\ dev \in [Devices -> Device] /\ dev[d].pc = "putting"
      /\ ~dev[d].conflict
  BY DEF VInv, VTypeOK, VersionInv, Tracks, At
<1>1. ASSUME NEW x \in Devices, dev' = [dev EXCEPT ![x] = Done(x)]
      PROVE  FALSE
  BY <1>0, <1>1, DoneIsDevice DEF VInv
<1>2. ASSUME NEW x \in Devices, x # d, NEW v, dev' = [dev EXCEPT ![x] = v]
      PROVE  FALSE
  BY <1>0, <1>2
<1>3. ASSUME NEW x \in Devices, Put(x)
      PROVE  Put(d) /\ ~(account.open /\ Matches(d))
  <2>1. dev' = [dev EXCEPT ![x] = [Done(x) EXCEPT !.conflict = TRUE]]
        /\ ~(account.open /\ Matches(x))
    BY <1>1, <1>3 DEF Put
  <2> QED BY <1>2, <1>3, <2>1
<1>4. ASSUME NEW x \in Devices,
             \/ Login(x) \/ Get(x)
             \/ \E what \in {"reading", "discarding"} : Ask(x, what)
             \/ \E kdf \in KDFs : BeginPut(x, kdf)
             \/ \E pw \in Passwords :
                   Derive(x, pw) \/ BeginChange(x, pw) \/ BeginReset(x, pw)
      PROVE  FALSE
  <2>1. x # d
    BY <1>0, <1>4
    DEF Ask, Get, BeginPut, Login, Derive, BeginChange, BeginReset, At
  <2>2. dev'[d] = dev[d]
    BY <1>0, <1>4, <2>1
    DEF Ask, Get, BeginPut, Login, Derive, BeginChange, BeginReset
  <2> QED BY <1>0, <2>2
<1>5. ASSUME NEW x \in Devices, ChangePassword(x) \/ ResetPassword(x)
      PROVE  FALSE
  <2>1. x # d
    BY <1>0, <1>5 DEF ChangePassword, ResetPassword, At
  <2>2. dev'[d] = dev[d] \/ dev'[d] = Behind(d)
    BY <1>0, <1>5, <2>1 DEF ChangePassword, ResetPassword
  <2> QED BY <1>0, <2>2, BehindIsDevice DEF VInv
<1>6. ASSUME NEW x \in Devices, RevokeAll(x)
      PROVE  FALSE
  <2>1. x # d
    BY <1>0, <1>6 DEF RevokeAll, At
  <2>2. dev'[d] = Out(d)
    BY <1>6, <2>1 DEF RevokeAll
  <2> QED BY <1>0, <2>2, OutIsDevice DEF VInv
<1>7. ASSUME NEW x \in Devices, Discard(x)
      PROVE  FALSE
  <2> DEFINE v == [dev[d] EXCEPT !.orphan = @ \/ dev[d].version # 0,
                                 !.pc = IF d = x THEN "idle" ELSE @]
  <2>1. dev'[d] = v
    BY <1>7 DEF Discard
  <2>2. v.conflict = dev[d].conflict
    BY <1>0 DEF Device
  <2> QED BY <1>0, <2>1, <2>2
<1>8. ASSUME Close
      PROVE  FALSE
  <2>1. dev'[d] = Out(d)
    BY <1>8 DEF Close
  <2> QED BY <1>0, <2>1, OutIsDevice DEF VInv
<1>9. CASE dev' = dev
  BY <1>0, <1>9
<1> QED
  BY <1>1, <1>3, <1>4, <1>5, <1>6, <1>7, <1>8, <1>9
  DEF VNext, vvars, Fail, Redeploy

(* CONFLICT is answered when a later version is there. *)
THEOREM ConflictHolds == VSpec => ConflictMeansAnotherWrote
<1>1. ASSUME VInv, [VNext]_vvars, NEW d \in Devices,
             At(d, "putting"), dev'[d].conflict,
             account.open, ~dev[d].orphan
      PROVE  vault.version > dev[d].asked
  <2>1. vault.exists /\ vault.version # dev[d].asked
    BY <1>1, OnlyPutConflicts DEF Matches
  <2>2. dev[d].asked = dev[d].version
    BY <1>1 DEF VInv, VersionInv, Tracks, At
  <2>3. vault.version \in Nat /\ dev[d].version \in Nat
    BY <1>1 DEF VInv, VTypeOK, VaultRow, Device
  <2>4. CASE dev[d].version = 0
    BY <2>1, <2>2, <2>3, <2>4
  <2>5. CASE dev[d].version # 0
    BY <1>1, <2>1, <2>2, <2>3, <2>5 DEF VInv, VersionInv, Tracks
  <2> QED BY <2>4, <2>5
<1>2. VInv /\ [VNext]_vvars
      => [\A d \in Devices :
             /\ At(d, "putting") /\ dev'[d].conflict
             /\ account.open /\ ~dev[d].orphan
             => vault.version > dev[d].asked]_vvars
  BY <1>1
<1> QED BY <1>2, VaultInvariant, PTL DEF VSpec, ConflictMeansAnotherWrote
=============================================================================
