----------------------------- MODULE Locks_proofs -----------------------------
(***************************************************************************)
(* Proofs about Locks, for any number of network threads and of writes.    *)
(*                                                                         *)
(* Each section is disciplined: there is an assignment of the locks held   *)
(* to its steps (Scope) under which every access is guarded and every lock *)
(* taken ranks above those held.  That is checked once per section, and    *)
(* everything else follows from the invariant that a thread owns the locks *)
(* its place in a disciplined section says it holds.                       *)
(***************************************************************************)
EXTENDS Locks, TLAPS

(* The lock that guards each member.                                        *)
Guard == [f \in Fields |-> IF f \in Options THEN "net"
                           ELSE IF f = "book" THEN "contacts" ELSE "profile"]

(* The order in which locks are taken: the profile's before the mail        *)
(* client's; the contacts' with no other.                                   *)
Rank == [l \in Locks |-> IF l = "profile" THEN 1
                          ELSE IF l = "net" THEN 2 ELSE 3]

(* The locks held after step i of s, if h says what is held before each.    *)
After(s, h, i) == IF i < Len(s) THEN h[i + 1] ELSE {}

(* Step i of s keeps the discipline when the locks h[i] are held.           *)
Fits(s, h, i) ==
  LET op == s[i][1]
      on == s[i][2]
  IN /\ s[i] \in Step
     /\ op = "lock" => /\ \A l \in h[i] : Rank[l] < Rank[on]
                       /\ After(s, h, i) = h[i] \cup {on}
     /\ op = "unlock" => on \in h[i] /\ After(s, h, i) = h[i] \ {on}
     /\ op \in {"read", "write"} => After(s, h, i) = h[i]
     /\ op = "read" => on = "cert" \/ Guard[on] \in h[i]
     /\ op = "write" => /\ on # "cert" /\ Guard[on] \in h[i]
                        /\ i < Len(s) /\ s[i + 1][1] # "read"

(* h assigns to each step of section s the locks held before it.            *)
Disciplined(s, h) ==
  /\ s \in Seq(Step) /\ s # <<>>
  /\ h \in [1 .. Len(s) -> SUBSET Locks] /\ h[1] = {}
  /\ \A i \in 1 .. Len(s) : Fits(s, h, i)


(* s takes lock l, accesses members that l guards, and releases it.         *)
Inside(s, l) ==
  /\ s \in Seq(Step) /\ Len(s) >= 2
  /\ s[1] = Acquire(l) /\ s[Len(s)] = Release(l)
  /\ \A i \in 2 .. Len(s) - 1 :
       /\ s[i] \in {"read", "write"} \X {f \in Fields : Guard[f] = l}
       /\ s[i][1] = "write" => s[i][2] # "cert" /\ s[i + 1][1] # "read"

(* Such a section is disciplined.                                           *)
LEMMA OneLock ==
  ASSUME NEW l \in Locks, NEW s, Inside(s, l)
  PROVE  \E h : Disciplined(s, h)
<1> DEFINE h == [i \in 1 .. Len(s) |-> IF i = 1 THEN {} ELSE {l}]
<1>1. Len(s) \in Nat /\ Len(s) >= 2 /\ s \in Seq(Step) /\ s # <<>>
  BY DEF Inside
<1>2. Fits(s, h, 1)
  BY <1>1 DEF Fits, After, Inside, Acquire, Step
<1>3. Fits(s, h, Len(s))
  BY <1>1 DEF Fits, After, Inside, Release, Step
<1>4. ASSUME NEW i \in 2 .. Len(s) - 1 PROVE Fits(s, h, i)
  <2>1. h[i] = {l} /\ After(s, h, i) = {l} /\ i < Len(s)
    BY <1>1 DEF After
  <2>2. /\ s[i] \in {"read", "write"} \X {f \in Fields : Guard[f] = l}
        /\ s[i][1] = "write" => s[i][2] # "cert" /\ s[i + 1][1] # "read"
    BY DEF Inside
  <2>3. s[i] \in Step /\ s[i][1] \in {"read", "write"} /\ Guard[s[i][2]] = l
    BY <2>2 DEF Step
  <2> QED BY <2>1, <2>2, <2>3 DEF Fits
<1>5. \A i \in 1 .. Len(s) : i = 1 \/ i = Len(s) \/ i \in 2 .. Len(s) - 1
  BY <1>1
<1>6. \A i \in 1 .. Len(s) : Fits(s, h, i)
  BY <1>2, <1>3, <1>4, <1>5
<1>7. h \in [1 .. Len(s) -> SUBSET Locks] /\ h[1] = {}
  BY <1>1
<1> QED BY <1>1, <1>6, <1>7 DEF Disciplined

(* CMailClient::config is such a section of the mail client's lock.         *)
LEMMA ConfigInside == Inside(Config, "net")
<1>1. Len(Config) = 7 /\ Config \in Seq(Step)
  BY DEF Config, Acquire, Release, Wr, Step, Locks, Fields, Options
<1>2. /\ Config[1] = Acquire("net") /\ Config[2] = Wr("txurl")
      /\ Config[3] = Wr("rxurl") /\ Config[4] = Wr("login")
      /\ Config[5] = Wr("password") /\ Config[6] = Wr("proxy")
      /\ Config[7] = Release("net")
  BY DEF Config
<1>3. \A i \in 2 .. 6 : i = 2 \/ i = 3 \/ i = 4 \/ i = 5 \/ i = 6
  OBVIOUS
<1>4. \A f \in Options : f \in Fields /\ Guard[f] = "net" /\ f # "cert"
  BY DEF Guard, Fields, Options
<1>5. \A i \in 2 .. 6 : \E f \in Options : Config[i] = Wr(f)
  BY <1>2, <1>3 DEF Options
<1>6. Config[7][1] # "read" /\ \A f \in Options : Wr(f)[1] # "read"
  BY <1>2 DEF Release, Wr
<1>7. ASSUME NEW i \in 2 .. 6
      PROVE  /\ Config[i] \in {"read", "write"} \X {f \in Fields : Guard[f] = "net"}
             /\ Config[i][2] # "cert" /\ Config[i + 1][1] # "read"
  <2>1. PICK f \in Options : Config[i] = Wr(f)
    BY <1>5
  <2>2. Config[i + 1][1] # "read"
    <3>1. i + 1 = 7 \/ i + 1 \in 2 .. 6
      OBVIOUS
    <3> QED BY <3>1, <1>5, <1>6
  <2> QED BY <2>1, <2>2, <1>4 DEF Wr
<1> QED BY <1>1, <1>2, <1>7 DEF Inside

(* s takes lock l, reads members that l guards, and releases it.            *)
ReadsOnly(s, l) ==
  /\ s \in Seq(Step) /\ Len(s) >= 2
  /\ s[1] = Acquire(l) /\ s[Len(s)] = Release(l)
  /\ \A i \in 2 .. Len(s) - 1 : \E f \in Fields : Guard[f] = l /\ s[i] = Rd(f)

(* A section of that kind is inside its lock and writes nothing.            *)
LEMMA ReadsInside ==
  ASSUME NEW l \in Locks, NEW s, ReadsOnly(s, l)
  PROVE  Inside(s, l) /\ \A i \in 1 .. Len(s) : s[i][1] # "write"
<1>1. Len(s) \in Nat
  BY DEF ReadsOnly
<1>2. ASSUME NEW i \in 2 .. Len(s) - 1
      PROVE  /\ s[i] \in {"read", "write"} \X {f \in Fields : Guard[f] = l}
             /\ s[i][1] # "write"
  <2>1. PICK f \in Fields : Guard[f] = l /\ s[i] = Rd(f)
    BY DEF ReadsOnly
  <2> QED BY <2>1 DEF Rd
<1>3. s[1][1] # "write" /\ s[Len(s)][1] # "write"
  BY DEF ReadsOnly, Acquire, Release
<1>4. \A i \in 1 .. Len(s) : i = 1 \/ i = Len(s) \/ i \in 2 .. Len(s) - 1
  BY <1>1
<1> QED BY <1>2, <1>3, <1>4 DEF ReadsOnly, Inside

(* What guards what, spelled out.                                           *)
LEMMA Guards ==
  /\ \A f \in Options : f \in Fields /\ Guard[f] = "net" /\ f # "cert"
  /\ \A f \in Secret : f \in Fields /\ Guard[f] = "profile" /\ f # "cert"
  /\ "cert" \in Fields /\ Guard["cert"] = "profile"
  /\ "book" \in Fields /\ Guard["book"] = "contacts"
  /\ Guard \in [Fields -> Locks]
  /\ \A f \in Fields : f \in Options \/ f \in Secret \/ f = "cert" \/ f = "book"
BY DEF Guard, Fields, Options, Secret, Locks

(* The getters of BitMail and CMailClient only read, inside one lock.       *)
LEMMA GetReads ==
  ASSUME NEW f \in Fields, NEW l \in Locks, Guard[f] = l
  PROVE  ReadsOnly(Get(l, f), l)
<1> DEFINE s == Get(l, f)
<1>1. s \in Seq(Step) /\ Len(s) = 3
  BY DEF Get, Acquire, Release, Rd, Step
<1>2. s[1] = Acquire(l) /\ s[2] = Rd(f) /\ s[3] = Release(l)
  BY DEF Get
<1> QED BY <1>1, <1>2 DEF ReadsOnly

(* So does the section of CX509Cert::Sign and Decrypt,                      *)
LEMMA SignReads == ReadsOnly(Sign, "profile")
<1>1. Sign \in Seq(Step) /\ Len(Sign) = 5
  BY DEF Sign, Acquire, Release, Rd, Step, Locks, Fields, Secret
<1>2. /\ Sign[1] = Acquire("profile") /\ Sign[2] = Rd("cert")
      /\ Sign[3] = Rd("key") /\ Sign[4] = Rd("passphrase")
      /\ Sign[5] = Release("profile")
  BY DEF Sign
<1>3. \A i \in 2 .. 4 : i = 2 \/ i = 3 \/ i = 4
  OBVIOUS
<1> QED BY <1>1, <1>2, <1>3, Guards DEF ReadsOnly, Secret

(* that of a SetPassphrase that changes nothing,                            *)
LEMMA KeepReads == ReadsOnly(KeepPassphrase, "profile")
<1>1. KeepPassphrase \in Seq(Step) /\ Len(KeepPassphrase) = 4
  BY DEF KeepPassphrase, Acquire, Release, Rd, Step, Locks, Fields, Secret
<1>2. /\ KeepPassphrase[1] = Acquire("profile")
      /\ KeepPassphrase[2] = Rd("passphrase") /\ KeepPassphrase[3] = Rd("key")
      /\ KeepPassphrase[4] = Release("profile")
  BY DEF KeepPassphrase
<1>3. \A i \in 2 .. 3 : i = 2 \/ i = 3
  OBVIOUS
<1> QED BY <1>1, <1>2, <1>3, Guards DEF ReadsOnly, Secret

(* the first one of Export,                                                 *)
LEMMA ExportReads == ReadsOnly(ExportProfile, "profile")
<1>1. ExportProfile \in Seq(Step) /\ Len(ExportProfile) = 4
  BY DEF ExportProfile, Acquire, Release, Rd, Step, Locks, Fields, Secret
<1>2. /\ ExportProfile[1] = Acquire("profile")
      /\ ExportProfile[2] = Rd("cert") /\ ExportProfile[3] = Rd("key")
      /\ ExportProfile[4] = Release("profile")
  BY DEF ExportProfile
<1>3. \A i \in 2 .. 3 : i = 2 \/ i = 3
  OBVIOUS
<1> QED BY <1>1, <1>2, <1>3, Guards DEF ReadsOnly, Secret

(* and those that set the options of a transfer.                            *)
LEMMA TransferReads ==
  ReadsOnly(TxOptions, "net") /\ ReadsOnly(RxOptions, "net")
<1>1. /\ TxOptions \in Seq(Step) /\ Len(TxOptions) = 6
      /\ RxOptions \in Seq(Step) /\ Len(RxOptions) = 6
  BY DEF TxOptions, RxOptions, Acquire, Release, Rd, Step, Locks, Fields, Options
<1>2. /\ TxOptions[1] = Acquire("net") /\ TxOptions[2] = Rd("txurl")
      /\ TxOptions[3] = Rd("login") /\ TxOptions[4] = Rd("password")
      /\ TxOptions[5] = Rd("proxy") /\ TxOptions[6] = Release("net")
  BY DEF TxOptions
<1>3. /\ RxOptions[1] = Acquire("net") /\ RxOptions[2] = Rd("rxurl")
      /\ RxOptions[3] = Rd("login") /\ RxOptions[4] = Rd("password")
      /\ RxOptions[5] = Rd("proxy") /\ RxOptions[6] = Release("net")
  BY DEF RxOptions
<1>4. \A i \in 2 .. 5 : i = 2 \/ i = 3 \/ i = 4 \/ i = 5
  OBVIOUS
<1> QED BY <1>1, <1>2, <1>3, <1>4, Guards DEF ReadsOnly, Options

(* CX509Cert::SetPassphrase reads, then writes key and passphrase last.     *)
LEMMA PassphraseInside ==
  /\ Inside(SetPassphrase, "profile")
  /\ Len(SetPassphrase) = 6
  /\ SetPassphrase[4] = Wr("key") /\ SetPassphrase[5] = Wr("passphrase")
  /\ \A i \in 1 .. 6 : SetPassphrase[i][1] = "write" => i \in 4 .. 5
<1> DEFINE s == SetPassphrase
<1>1. s \in Seq(Step) /\ Len(s) = 6
  BY DEF SetPassphrase, Acquire, Release, Rd, Wr, Step, Locks, Fields, Secret
<1>2. /\ s[1] = Acquire("profile") /\ s[2] = Rd("passphrase")
      /\ s[3] = Rd("key") /\ s[4] = Wr("key") /\ s[5] = Wr("passphrase")
      /\ s[6] = Release("profile")
  BY DEF SetPassphrase
<1>3. /\ \A i \in 2 .. 5 : i = 2 \/ i = 3 \/ i = 4 \/ i = 5
      /\ \A i \in 1 .. 6 : i = 1 \/ i = 2 \/ i = 3 \/ i = 6 \/ i \in 4 .. 5
  OBVIOUS
<1>4. \A i \in 1 .. 6 : s[i][1] = "write" => i \in 4 .. 5
  BY <1>2, <1>3 DEF Acquire, Release, Rd
<1>5. ASSUME NEW i \in 2 .. 5
      PROVE  /\ s[i] \in {"read", "write"} \X {f \in Fields : Guard[f] = "profile"}
             /\ s[i][1] = "write" => s[i][2] # "cert" /\ s[i + 1][1] # "read"
  <2>1. s[i] \in {"read", "write"} \X Secret
    BY <1>2, <1>3 DEF Rd, Wr, Secret
  <2>2. s[i][1] = "write" => s[i + 1][1] # "read"
    BY <1>2, <1>4 DEF Wr, Release
  <2> QED BY <2>1, <2>2, Guards
<1> QED BY <1>1, <1>2, <1>4, <1>5 DEF Inside

(* The contact operations read the book, then write it.                     *)
LEMMA EditInside ==
  /\ Inside(EditContacts, "contacts")
  /\ Len(EditContacts) = 4 /\ EditContacts[3] = Wr("book")
  /\ \A i \in 1 .. 4 : EditContacts[i][1] = "write" => i = 3
<1> DEFINE s == EditContacts
<1>1. s \in Seq(Step) /\ Len(s) = 4
  BY DEF EditContacts, Acquire, Release, Rd, Wr, Step, Locks, Fields
<1>2. /\ s[1] = Acquire("contacts") /\ s[2] = Rd("book")
      /\ s[3] = Wr("book") /\ s[4] = Release("contacts")
  BY DEF EditContacts
<1>3. \A i \in 1 .. 4 : i = 1 \/ i = 2 \/ i = 3 \/ i = 4
  OBVIOUS
<1>4. \A i \in 1 .. 4 : s[i][1] = "write" => i = 3
  BY <1>2, <1>3 DEF Acquire, Release, Rd
<1>5. ASSUME NEW i \in 2 .. 3
      PROVE  /\ s[i] \in {"read", "write"} \X {f \in Fields : Guard[f] = "contacts"}
             /\ s[i][1] = "write" => s[i][2] # "cert" /\ s[i + 1][1] # "read"
  <2>1. i = 2 \/ i = 3
    OBVIOUS
  <2> QED BY <1>2, <2>1, Guards DEF Rd, Wr, Release
<1> QED BY <1>1, <1>2, <1>4, <1>5 DEF Inside

(* GetEmail in BitMail::Tx reads the certificate without a lock.            *)
LEMMA SenderDisciplined ==
  /\ \E h : Disciplined(TxSender, h)
  /\ \A i \in 1 .. Len(TxSender) : TxSender[i][1] # "write"
<1>1. /\ TxSender \in Seq(Step) /\ Len(TxSender) = 1
      /\ TxSender[1] = Rd("cert")
  BY DEF TxSender, Rd, Step, Fields
<1> DEFINE h == [i \in 1 .. 1 |-> {}]
<1>2. Fits(TxSender, h, 1)
  BY <1>1 DEF Fits, After, Rd
<1>3. Disciplined(TxSender, h)
  BY <1>1, <1>2 DEF Disciplined
<1> QED BY <1>1, <1>3 DEF Rd

(* Export takes the mail client's lock inside the profile's.                *)
LEMMA PasswordDisciplined ==
  /\ \E h : Disciplined(ExportPassword, h)
  /\ \A i \in 1 .. Len(ExportPassword) : ExportPassword[i][1] # "write"
<1> DEFINE s == ExportPassword
           P == {"profile"}
           B == {"profile", "net"}
           h == <<{}, P, B, B, P, P>>
<1>1. s \in Seq(Step) /\ Len(s) = 6 /\ s # <<>>
  BY DEF ExportPassword, Acquire, Release, Rd, Step, Locks, Fields, Options
<1>2. /\ s[1] = Acquire("profile") /\ s[2] = Acquire("net")
      /\ s[3] = Rd("password") /\ s[4] = Release("net")
      /\ s[5] = Rd("cert") /\ s[6] = Release("profile")
  BY DEF ExportPassword
<1>3. /\ h \in [1 .. 6 -> SUBSET Locks]
      /\ h[1] = {} /\ h[2] = P /\ h[3] = B /\ h[4] = B /\ h[5] = P /\ h[6] = P
  BY DEF Locks
<1>4. Rank["profile"] < Rank["net"]
  BY DEF Rank, Locks
<1> HIDE DEF s, h
<1>5. /\ Fits(s, h, 1) /\ Fits(s, h, 2) /\ Fits(s, h, 3) /\ Fits(s, h, 4)
      /\ Fits(s, h, 5) /\ Fits(s, h, 6)
  <2>1. s[1] \in Step /\ s[2] \in Step /\ s[3] \in Step /\ s[4] \in Step
        /\ s[5] \in Step /\ s[6] \in Step
    BY <1>1
  <2>2. Fits(s, h, 1)
    BY <1>1, <1>2, <1>3, <2>1 DEF Fits, After, Acquire
  <2>3. Fits(s, h, 2)
    BY <1>1, <1>2, <1>3, <1>4, <2>1 DEF Fits, After, Acquire
  <2>4. Fits(s, h, 3)
    BY <1>1, <1>2, <1>3, <2>1, Guards DEF Fits, After, Rd, Options
  <2>5. Fits(s, h, 4)
    BY <1>1, <1>2, <1>3, <2>1 DEF Fits, After, Release
  <2>6. Fits(s, h, 5)
    BY <1>1, <1>2, <1>3, <2>1 DEF Fits, After, Rd
  <2>7. Fits(s, h, 6)
    BY <1>1, <1>2, <1>3, <2>1 DEF Fits, After, Release
  <2> QED BY <2>2, <2>3, <2>4, <2>5, <2>6, <2>7
<1>6. \A i \in 1 .. 6 : i = 1 \/ i = 2 \/ i = 3 \/ i = 4 \/ i = 5 \/ i = 6
  OBVIOUS
<1>7. Disciplined(s, h)
  BY <1>1, <1>3, <1>5, <1>6 DEF Disciplined
<1>8. \A i \in 1 .. 6 : s[i][1] # "write"
  BY <1>2, <1>6 DEF Acquire, Release, Rd
<1> QED BY <1>1, <1>7, <1>8 DEF s

(* The locks held before each step of section s.                            *)
Scope(s) == CHOOSE h : Disciplined(s, h)

(* The sections that read are disciplined and do not write.                 *)
LEMMA ReadingSections ==
  ASSUME NEW s \in GuiReading \cup WorkerReading
  PROVE  /\ \E h : Disciplined(s, h)
         /\ \A i \in 1 .. Len(s) : s[i][1] # "write"
<1>1. CASE \E f \in Options : s = Get("net", f)
  BY <1>1, GetReads, ReadsInside, OneLock, Guards DEF Locks
<1>2. CASE \E f \in {"cert", "passphrase"} : s = Get("profile", f)
  BY <1>2, GetReads, ReadsInside, OneLock, Guards DEF Locks, Secret
<1>3. CASE s = Get("contacts", "book")
  BY <1>3, GetReads, ReadsInside, OneLock, Guards DEF Locks
<1>4. CASE s \in {KeepPassphrase, Sign, ExportProfile}
  BY <1>4, KeepReads, SignReads, ExportReads, ReadsInside, OneLock DEF Locks
<1>5. CASE s \in {TxOptions, RxOptions}
  BY <1>5, TransferReads, ReadsInside, OneLock DEF Locks
<1>6. CASE s = TxSender
  BY <1>6, SenderDisciplined
<1>7. CASE s = ExportPassword
  BY <1>7, PasswordDisciplined
<1> QED BY <1>1, <1>2, <1>3, <1>4, <1>5, <1>6, <1>7
        DEF GuiReading, WorkerReading

(* Every section of the program is disciplined.                             *)
LEMMA SectionsDisciplined ==
  ASSUME NEW s \in Sections
  PROVE  Disciplined(s, Scope(s))
<1>1. \E h : Disciplined(s, h)
  BY ReadingSections, ConfigInside, PassphraseInside, EditInside, OneLock
     DEF Sections, Writing, Locks
<1> QED BY <1>1 DEF Scope

(* Where the settings, and key and passphrase, are written.                 *)
LEMMA WritesWhere ==
  ASSUME NEW s \in Sections, NEW i \in 1 .. Len(s), NEW f \in Fields,
         s[i] = Wr(f)
  PROVE  /\ s \in Writing
         /\ f \in Options => s = Config /\ i \in 2 .. 6
         /\ f \in Secret => s = SetPassphrase /\ i \in 4 .. 5
<1>1. s \in Writing
  BY ReadingSections DEF Sections, Wr
<1>2. CASE s = Config
  <2>1. Len(s) = 7 /\ s[1] = Acquire("net") /\ s[7] = Release("net")
    BY <1>2 DEF Config
  <2>2. i \in 2 .. 6
    BY <2>1 DEF Wr, Acquire, Release
  <2>3. f \notin Secret
    <3>1. s[i] \in {"read", "write"} \X {g \in Fields : Guard[g] = "net"}
      BY <1>2, <2>1, <2>2, ConfigInside DEF Inside
    <3> QED BY <3>1, Guards DEF Wr
  <2> QED BY <1>1, <1>2, <2>2, <2>3
<1>3. CASE s = SetPassphrase
  <2>1. i \in 4 .. 5
    BY <1>3, PassphraseInside DEF Wr
  <2>2. f \notin Options
    BY <1>3, <2>1, PassphraseInside DEF Wr, Options
  <2> QED BY <1>1, <1>3, <2>1, <2>2
<1>4. CASE s = EditContacts
  <2>1. f = "book"
    BY <1>4, EditInside DEF Wr
  <2> QED BY <1>1, <2>1 DEF Options, Secret
<1> QED BY <1>1, <1>2, <1>3, <1>4 DEF Writing
-----------------------------------------------------------------------------
(* The locks that thread t's place in its section says it holds.            *)
Held(t) == IF section[t] = <<>> THEN {} ELSE Scope(section[t])[at[t]]

(* Each thread is idle or somewhere in one of its sections.                 *)
Place ==
  \A t \in Threads :
    \/ section[t] = <<>> /\ at[t] = 1
    \/ section[t] \in Runs(t) /\ at[t] \in 1 .. Len(section[t])

(* A thread owns the locks its place says it holds.                         *)
Owns ==
  locked => \A t \in Threads, l \in Locks : owner[l] = t <=> l \in Held(t)

(* Without locks none is owned.                                             *)
NoLocks == ~locked => \A l \in Locks : owner[l] = NoOwner

(* The inductive invariant.                                                 *)
LInv == TypeOK /\ Place /\ NoLocks /\ Owns

(* The next step of a running thread keeps the discipline.                  *)
LEMMA StepFits ==
  ASSUME Place, NEW t \in Threads, Running(t)
  PROVE  /\ section[t] \in Sections /\ section[t] \in Runs(t)
         /\ Len(section[t]) \in Nat /\ at[t] \in 1 .. Len(section[t])
         /\ Fits(section[t], Scope(section[t]), at[t])
         /\ Held(t) = Scope(section[t])[at[t]]
         /\ Held(t) \subseteq Locks
<1>1. section[t] \in Runs(t) /\ at[t] \in 1 .. Len(section[t])
  BY DEF Place, Running
<1>2. section[t] \in Sections
  BY <1>1 DEF Runs, Sections
<1>3. Disciplined(section[t], Scope(section[t]))
  BY <1>2, SectionsDisciplined
<1> QED BY <1>1, <1>2, <1>3 DEF Disciplined, Held, Running

(* What a step does to a thread's place, and to the others'.                *)
LEMMA Moved ==
  ASSUME TypeOK, Place, NEW t \in Threads, Running(t), Advance(t)
  PROVE  /\ Place'
         /\ Held(t)' = After(section[t], Scope(section[t]), at[t])
         /\ \A u \in Threads \ {t} : /\ Held(u)' = Held(u)
                                     /\ section'[u] = section[u]
                                     /\ at'[u] = at[u]
         /\ Running(t)' => section'[t] = section[t] /\ at'[t] = at[t] + 1
                           /\ at[t] < Len(section[t])
         /\ ~Running(t)' => at[t] = Len(section[t])
<1> DEFINE s == section[t]
           i == at[t]
<1>1. s \in Runs(t) /\ s # <<>> /\ Len(s) \in Nat /\ i \in 1 .. Len(s)
  BY StepFits DEF Running
<1>2. /\ section \in [Threads -> Sections \cup {<<>>}]
      /\ at \in [Threads -> Nat]
  BY DEF TypeOK
<1>3. CASE i < Len(s)
  <2>1. section' = section /\ at' = [at EXCEPT ![t] = i + 1]
    BY <1>3 DEF Advance
  <2>2. Held(t)' = After(s, Scope(s), i)
    BY <1>1, <1>2, <1>3, <2>1 DEF Held, After
  <2>3. \A u \in Threads \ {t} : Held(u)' = Held(u)
    BY <1>2, <2>1 DEF Held
  <2>4. Place'
    <3> SUFFICES ASSUME NEW u \in Threads
                 PROVE  \/ section'[u] = <<>> /\ at'[u] = 1
                        \/ section'[u] \in Runs(u) /\ at'[u] \in 1 .. Len(section'[u])
      BY DEF Place, Runs
    <3>1. CASE u = t
      BY <1>1, <1>2, <1>3, <2>1, <3>1
    <3>2. CASE u # t
      BY <1>2, <2>1, <3>2 DEF Place
    <3> QED BY <3>1, <3>2
  <2> QED BY <1>1, <1>2, <1>3, <2>1, <2>2, <2>3, <2>4 DEF Running
<1>4. CASE ~(i < Len(s))
  <2>1. section' = [section EXCEPT ![t] = <<>>] /\ at' = [at EXCEPT ![t] = 1]
    BY <1>4 DEF Advance
  <2>2. Held(t)' = After(s, Scope(s), i)
    BY <1>1, <1>2, <1>4, <2>1 DEF Held, After
  <2>3. \A u \in Threads \ {t} : Held(u)' = Held(u)
    BY <1>2, <2>1 DEF Held
  <2>4. Place'
    <3> SUFFICES ASSUME NEW u \in Threads
                 PROVE  \/ section'[u] = <<>> /\ at'[u] = 1
                        \/ section'[u] \in Runs(u) /\ at'[u] \in 1 .. Len(section'[u])
      BY DEF Place, Runs
    <3>1. CASE u = t
      BY <1>2, <2>1, <3>1
    <3>2. CASE u # t
      BY <1>2, <2>1, <3>2 DEF Place
    <3> QED BY <3>1, <3>2
  <2> QED BY <1>1, <1>2, <1>4, <2>1, <2>2, <2>3, <2>4 DEF Running
<1> QED BY <1>3, <1>4

(* The same for the start of a section.                                     *)
LEMMA Begun ==
  ASSUME TypeOK, Place, NEW t \in Threads, NEW s \in Runs(t), Begin(t, s)
  PROVE  /\ Place' /\ Held(t) = {} /\ Held(t)' = {}
         /\ \A u \in Threads \ {t} : /\ Held(u)' = Held(u)
                                     /\ section'[u] = section[u]
                                     /\ at'[u] = at[u]
         /\ section'[t] = s /\ at'[t] = 1 /\ section[t] = <<>>
<1>1. /\ section \in [Threads -> Sections \cup {<<>>}]
      /\ at \in [Threads -> Nat]
  BY DEF TypeOK
<1>2. /\ section[t] = <<>> /\ section' = [section EXCEPT ![t] = s] /\ at' = at
      /\ at[t] = 1
  <2>1. section[t] = <<>> /\ section' = [section EXCEPT ![t] = s] /\ at' = at
    BY DEF Begin, Running
  <2>2. at[t] = 1
    <3>1. CASE section[t] \in Runs(t) /\ at[t] \in 1 .. Len(section[t])
      <4>1. Len(section[t]) = 0
        BY <2>1
      <4> QED BY <3>1, <4>1
    <3> QED BY <3>1 DEF Place
  <2> QED BY <2>1, <2>2
<1>3. s \in Sections
  BY DEF Runs, Sections
<1>4. Disciplined(s, Scope(s))
  BY <1>3, SectionsDisciplined
<1>5. Len(s) \in Nat /\ Len(s) >= 1 /\ s # <<>> /\ Scope(s)[1] = {}
  BY <1>4 DEF Disciplined
<1>6. Place'
  <2> SUFFICES ASSUME NEW u \in Threads
               PROVE  \/ section'[u] = <<>> /\ at'[u] = 1
                      \/ section'[u] \in Runs(u) /\ at'[u] \in 1 .. Len(section'[u])
    BY DEF Place, Runs
  <2>1. CASE u = t
    BY <1>1, <1>2, <1>5, <2>1
  <2>2. CASE u # t
    BY <1>1, <1>2, <2>2 DEF Place
  <2> QED BY <2>1, <2>2
<1>7. Held(t) = {} /\ Held(t)' = {}
  BY <1>1, <1>2, <1>5 DEF Held
<1>8. \A u \in Threads \ {t} : Held(u)' = Held(u)
  BY <1>1, <1>2 DEF Held
<1> QED BY <1>1, <1>2, <1>6, <1>7, <1>8

(* The type invariant is inductive, given the threads' places.              *)
LEMMA TypeStep == TypeOK /\ Place /\ [Next]_vars => TypeOK'
<1> SUFFICES ASSUME TypeOK, Place, [Next]_vars PROVE TypeOK'
  OBVIOUS
<1> USE LocksAssumption DEF TypeOK
<1>1. CASE UNCHANGED vars
  BY <1>1 DEF vars
<1>2. ASSUME NEW t \in Threads, NEW s \in Runs(t), Begin(t, s) PROVE TypeOK'
  <2>1. s \in Sections
    BY DEF Runs, Sections
  <2> QED BY <1>2, <2>1 DEF Begin
<1>3. ASSUME NEW t \in Threads, Running(t), Advance(t)
      PROVE  /\ section' \in [Threads -> Sections \cup {<<>>}]
             /\ at' \in [Threads -> Nat]
  <2>1. at[t] + 1 \in Nat
    BY <1>3
  <2>2. CASE at[t] < Len(section[t])
    BY <1>3, <2>1, <2>2 DEF Advance
  <2>3. CASE ~(at[t] < Len(section[t]))
    BY <1>3, <2>3 DEF Advance
  <2> QED BY <2>2, <2>3
<1>4. ASSUME NEW t \in Threads, NEW l \in Locks, TakeLock(t, l) \/ FreeLock(t, l)
      PROVE  TypeOK'
  <2>1. /\ section' \in [Threads -> Sections \cup {<<>>}]
        /\ at' \in [Threads -> Nat]
    BY <1>3, <1>4 DEF TakeLock, FreeLock
  <2>2. owner' \in [Locks -> Threads \cup {NoOwner}]
    <3>1. \/ owner' = owner \/ owner' = [owner EXCEPT ![l] = t]
          \/ owner' = [owner EXCEPT ![l] = NoOwner]
      BY <1>4 DEF TakeLock, FreeLock
    <3> QED BY <3>1
  <2>3. /\ seen' \in [Threads -> SUBSET (Fields \X (0 .. MaxWrites))]
        /\ UNCHANGED <<locked, writes, val>>
    BY <1>4 DEF TakeLock, FreeLock
  <2> QED BY <2>1, <2>2, <2>3
<1>5. ASSUME NEW t \in Threads, NEW f \in Fields, Read(t, f) PROVE TypeOK'
  BY <1>3, <1>5 DEF Read
<1>6. ASSUME NEW t \in Threads, NEW f \in Fields, Write(t, f) PROVE TypeOK'
  BY <1>3, <1>6 DEF Write
<1> QED BY <1>1, <1>2, <1>4, <1>5, <1>6 DEF Next

(* Nothing is owned of an instance made without locks.                      *)
LEMMA NoLocksStep == NoLocks /\ [Next]_vars => NoLocks'
BY DEF NoLocks, Next, vars, Begin, TakeLock, FreeLock, Read, Write

(* Every step keeps the places, and ownership in step with them.            *)
LEMMA OwnsStep == LInv /\ [Next]_vars => Place' /\ Owns'
<1> SUFFICES ASSUME LInv, [Next]_vars PROVE Place' /\ Owns'
  OBVIOUS
<1> USE DEF LInv
<1>1. CASE UNCHANGED vars
  BY <1>1 DEF vars, Place, Owns, Held, Runs
<1>2. ASSUME NEW t \in Threads, NEW s \in Runs(t), Begin(t, s)
      PROVE  Place' /\ Owns'
  <2>1. /\ Place' /\ Held(t) = {} /\ Held(t)' = {}
        /\ \A u \in Threads \ {t} : Held(u)' = Held(u)
    BY <1>2, Begun
  <2>2. UNCHANGED <<locked, owner>>
    BY <1>2 DEF Begin
  <2>3. Owns'
    BY <2>1, <2>2 DEF Owns
  <2> QED BY <2>1, <2>3
<1>3. ASSUME NEW t \in Threads, NEW l \in Locks, TakeLock(t, l)
      PROVE  Place' /\ Owns'
  <2>1. Running(t) /\ Advance(t) /\ NextStep(t) = Acquire(l)
    BY <1>3 DEF TakeLock
  <2>2. Place' /\ Held(t)' = After(section[t], Scope(section[t]), at[t])
        /\ \A u \in Threads \ {t} : Held(u)' = Held(u)
    BY <2>1, Moved
  <2>3. Held(t)' = Held(t) \cup {l}
    BY <2>1, <2>2, StepFits DEF Fits, NextStep, Acquire
  <2>4. Owns'
    <3> SUFFICES ASSUME locked', NEW u \in Threads, NEW m \in Locks
                 PROVE  owner'[m] = u <=> m \in Held(u)'
      BY DEF Owns
    <3>1. /\ locked /\ owner[l] = NoOwner /\ owner' = [owner EXCEPT ![l] = t]
          /\ owner \in [Locks -> Threads \cup {NoOwner}]
      BY <1>3 DEF TakeLock, TypeOK
    <3>2. owner[m] = u <=> m \in Held(u)
      BY <3>1 DEF Owns
    <3>3. u # NoOwner
      BY LocksAssumption
    <3> QED BY <2>2, <2>3, <3>1, <3>2, <3>3
  <2> QED BY <2>2, <2>4
<1>4. ASSUME NEW t \in Threads, NEW l \in Locks, FreeLock(t, l)
      PROVE  Place' /\ Owns'
  <2>1. Running(t) /\ Advance(t) /\ NextStep(t) = Release(l)
    BY <1>4 DEF FreeLock
  <2>2. Place' /\ Held(t)' = After(section[t], Scope(section[t]), at[t])
        /\ \A u \in Threads \ {t} : Held(u)' = Held(u)
    BY <2>1, Moved
  <2>3. l \in Held(t) /\ Held(t)' = Held(t) \ {l}
    BY <2>1, <2>2, StepFits DEF Fits, NextStep, Release
  <2>4. Owns'
    <3> SUFFICES ASSUME locked', NEW u \in Threads, NEW m \in Locks
                 PROVE  owner'[m] = u <=> m \in Held(u)'
      BY DEF Owns
    <3>1. /\ locked /\ owner' = [owner EXCEPT ![l] = NoOwner]
          /\ owner \in [Locks -> Threads \cup {NoOwner}]
      BY <1>4 DEF FreeLock, TypeOK
    <3>2. (owner[m] = u <=> m \in Held(u)) /\ owner[l] = t
      BY <2>3, <3>1 DEF Owns
    <3>3. u # NoOwner
      BY LocksAssumption
    <3> QED BY <2>2, <2>3, <3>1, <3>2, <3>3
  <2> QED BY <2>2, <2>4
<1>5. ASSUME NEW t \in Threads, NEW f \in Fields, Read(t, f) \/ Write(t, f)
      PROVE  Place' /\ Owns'
  <2>1. /\ Running(t) /\ Advance(t) /\ NextStep(t) \in {Rd(f), Wr(f)}
        /\ UNCHANGED <<locked, owner>>
    BY <1>5 DEF Read, Write
  <2>2. Place' /\ Held(t)' = After(section[t], Scope(section[t]), at[t])
        /\ \A u \in Threads \ {t} : Held(u)' = Held(u)
    BY <2>1, Moved
  <2>3. Held(t)' = Held(t)
    BY <2>1, <2>2, StepFits DEF Fits, NextStep, Rd, Wr
  <2>4. Owns'
    BY <2>1, <2>2, <2>3 DEF Owns
  <2> QED BY <2>2, <2>4
<1> QED BY <1>1, <1>2, <1>3, <1>4, <1>5 DEF Next

(* The invariant holds initially,                                           *)
LEMMA LocksInit == Init => LInv
<1> SUFFICES ASSUME Init PROVE LInv
  OBVIOUS
<1>1. TypeOK
  BY LocksAssumption DEF Init, TypeOK
<1>2. Place
  BY DEF Init, Place
<1>3. Owns
  BY LocksAssumption DEF Init, Owns, Held
<1>4. NoLocks
  BY DEF Init, NoLocks
<1> QED BY <1>1, <1>2, <1>3, <1>4 DEF LInv

(* and every step keeps it.                                                 *)
LEMMA LocksNext == LInv /\ [Next]_vars => LInv'
BY TypeStep, OwnsStep, NoLocksStep DEF LInv

(* A thread owns exactly the locks its place in its section says.           *)
THEOREM LocksAreHeld == Spec => []LInv
BY LocksInit, LocksNext, PTL DEF Spec

(* While the instance has its locks there is no data race: a writer holds   *)
(* the guard of what it writes, and so does whoever accesses it.            *)
THEOREM LocksExclude == Spec => []RaceFree
<1>1. LInv => RaceFree
  <2> SUFFICES ASSUME LInv, locked, NEW t \in Threads, NEW u \in Threads,
                      NEW f \in Fields, t # u, Writes(t, f), Accesses(u, f)
               PROVE  FALSE
    BY DEF RaceFree
  <2>1. Guard[f] \in Held(t) /\ f # "cert"
    BY StepFits DEF LInv, Writes, NextStep, Fits, Wr
  <2>2. Guard[f] \in Held(u)
    BY <2>1, StepFits DEF LInv, Accesses, NextStep, Fits, Rd, Wr
  <2> QED BY <2>1, <2>2, Guards DEF LInv, Owns
<1> QED BY <1>1, LocksAreHeld, PTL

(* No deadlock: a thread waits for a lock of a higher rank than those it    *)
(* holds, and there are three ranks.                                        *)
THEOREM LocksAreOrdered == Spec => []NoDeadlock
<1>1. LInv => NoDeadlock
  <2> SUFFICES ASSUME LInv, NEW G \in SUBSET Threads, G # {},
                      \A t \in G : \E l \in WaitsFor(t) : owner[l] \in G
               PROVE  FALSE
    BY DEF NoDeadlock
  <2>1. ASSUME NEW t \in G
        PROVE  \E l \in Locks : /\ owner[l] \in G /\ locked
                                /\ \A m \in Locks : owner[m] = t => Rank[m] < Rank[l]
    <3>1. PICK l \in WaitsFor(t) : owner[l] \in G
      OBVIOUS
    <3>2. /\ t \in Threads /\ l \in Locks /\ Running(t)
          /\ NextStep(t) = Acquire(l) /\ owner[l] # NoOwner
      BY <3>1 DEF WaitsFor
    <3>3. locked
      BY <3>2 DEF LInv, NoLocks
    <3>4. \A m \in Held(t) : Rank[m] < Rank[l]
      BY <3>2, StepFits DEF LInv, Fits, NextStep, Acquire
    <3> QED BY <3>1, <3>2, <3>3, <3>4 DEF LInv, Owns
  <2>2. \A l \in Locks : Rank[l] \in 1 .. 3
    BY DEF Rank, Locks
  <2>3. PICK t1 \in G : TRUE
    OBVIOUS
  <2>4. PICK l1 \in Locks : owner[l1] \in G
    BY <2>1, <2>3
  <2>5. PICK l2 \in Locks : owner[l2] \in G /\ Rank[l1] < Rank[l2]
    BY <2>1, <2>4
  <2>6. PICK l3 \in Locks : owner[l3] \in G /\ Rank[l2] < Rank[l3]
    BY <2>1, <2>5
  <2>7. PICK l4 \in Locks : Rank[l3] < Rank[l4]
    BY <2>1, <2>6
  <2> QED BY <2>2, <2>5, <2>6, <2>7
<1> QED BY <1>1, LocksAreHeld, PTL

-----------------------------------------------------------------------------
(* What the GUI thread's running section has written has its version.       *)
Written ==
  section[Gui] # <<>> =>
    \A i \in 1 .. at[Gui] - 1, f \in Fields :
      section[Gui][i] = Wr(f) => val[f] = writes

(* The members of g have the same version,                                  *)
Even(g) == \A f, k \in g : val[f] = val[k]

(* which they always do, but in the middle of config or SetPassphrase.      *)
Evens ==
  /\ Even(Options) \/ (section[Gui] = Config /\ at[Gui] \in 3 .. 6)
  /\ Even(Secret) \/ (section[Gui] = SetPassphrase /\ at[Gui] = 5)

(* What a thread has read is still so while it has more to read: it holds   *)
(* the lock since it read it.                                               *)
Fresh ==
  locked => \A t \in Threads : \A a \in seen[t] :
    \/ a[1] = "cert"
    \/ /\ Guard[a[1]] \in Held(t)
       /\ Running(t) /\ NextStep(t)[1] = "read" => a[2] = val[a[1]]

(* The inductive invariant behind WholeReads.                               *)
RInv == LInv /\ Written /\ Evens /\ Fresh /\ WholeReads

(* The writes of config and SetPassphrase.                                  *)
LEMMA MidWriting ==
  /\ \A i \in 2 .. 6 : \E f \in Options : Config[i] = Wr(f)
  /\ \A f \in Options : \E i \in 2 .. 6 : Config[i] = Wr(f)
  /\ Len(Config) = 7 /\ Len(SetPassphrase) = 6
  /\ Config # <<>> /\ SetPassphrase # <<>>
  /\ SetPassphrase[4] = Wr("key") /\ SetPassphrase[5] = Wr("passphrase")
<1>1. /\ Config[2] = Wr("txurl")
      /\ Config[3] = Wr("rxurl") /\ Config[4] = Wr("login")
      /\ Config[5] = Wr("password") /\ Config[6] = Wr("proxy")
      /\ Len(Config) = 7
  BY DEF Config
<1>2. \A i \in 2 .. 6 : i = 2 \/ i = 3 \/ i = 4 \/ i = 5 \/ i = 6
  OBVIOUS
<1> QED BY <1>1, <1>2, PassphraseInside DEF Options, Inside

(* No section of a network thread is one that writes.                       *)
LEMMA ReadersOnlyRead ==
  ASSUME NEW s \in WorkerReading
  PROVE  s \notin Writing
<1>1. \A i \in 1 .. Len(s) : s[i][1] # "write"
  BY ReadingSections
<1>2. s # Config
  BY <1>1, MidWriting DEF Wr
<1>3. s # SetPassphrase
  BY <1>1, PassphraseInside DEF Wr
<1>4. s # EditContacts
  BY <1>1, EditInside DEF Wr
<1> QED BY <1>2, <1>3, <1>4 DEF Writing

(* A step that is not a write of the GUI thread's finds the members that    *)
(* belong together at one version, or leaves the GUI thread where it is.    *)
LEMMA EvensStay ==
  ASSUME RInv, NEW t \in Threads, Running(t), Advance(t),
         NextStep(t)[1] # "write", UNCHANGED <<val, writes>>
  PROVE  Written' /\ Evens'
<1>0. TypeOK /\ Place
  BY DEF RInv, LInv
<1>1. /\ \A u \in Threads \ {t} : section'[u] = section[u] /\ at'[u] = at[u]
      /\ Running(t)' => section'[t] = section[t] /\ at'[t] = at[t] + 1
      /\ at[t] \in Nat
  BY <1>0, Moved, StepFits
<1>2. Gui \in Threads
  BY DEF Threads
<1>3. Written'
  <2>1. CASE t = Gui
    <3> SUFFICES ASSUME section'[Gui] # <<>>, NEW i \in 1 .. at'[Gui] - 1,
                        NEW f \in Fields, section'[Gui][i] = Wr(f)
                 PROVE  val'[f] = writes'
      BY DEF Written
    <3>1. section'[Gui] = section[Gui] /\ at'[Gui] = at[Gui] + 1
      BY <1>1, <2>1 DEF Running
    <3>2. i # at[Gui]
      BY <2>1, <3>1 DEF NextStep, Wr
    <3>3. i \in 1 .. at[Gui] - 1
      BY <1>1, <2>1, <3>1, <3>2
    <3> QED BY <2>1, <3>1, <3>3 DEF RInv, Written, Running
  <2>2. CASE t # Gui
    BY <1>1, <1>2, <2>2 DEF RInv, Written
  <2> QED BY <2>1, <2>2
<1>4. Evens'
  <2>1. CASE t = Gui
    <3>1. ~(section[Gui] = Config /\ at[Gui] \in 3 .. 6)
      BY <2>1, MidWriting DEF NextStep, Wr
    <3>2. ~(section[Gui] = SetPassphrase /\ at[Gui] = 5)
      BY <2>1, MidWriting DEF NextStep, Wr
    <3> QED BY <3>1, <3>2 DEF RInv, Evens, Even
  <2>2. CASE t # Gui
    BY <1>1, <1>2, <2>2 DEF RInv, Evens, Even
  <2> QED BY <2>1, <2>2
<1> QED BY <1>3, <1>4

(* A read adds the current version of a member whose lock is held, so that  *)
(* the writer is not in the middle of its section.                          *)
LEMMA ReadStep ==
  ASSUME RInv, NEW t \in Threads, NEW f \in Fields, Read(t, f)
  PROVE  Fresh' /\ WholeReads'
<1> SUFFICES ASSUME locked PROVE Fresh' /\ WholeReads'
  BY DEF Read, Fresh, WholeReads
<1>0. TypeOK /\ Place /\ Owns /\ Written /\ Evens /\ Fresh /\ WholeReads
  BY DEF RInv, LInv
<1>1. /\ Running(t) /\ Advance(t) /\ NextStep(t) = Rd(f)
      /\ UNCHANGED <<locked, owner, writes, val>>
      /\ seen' = [seen EXCEPT ![t] = @ \cup {<<f, val[f]>>}]
  BY DEF Read
<1>2. /\ \A u \in Threads \ {t} : /\ Held(u)' = Held(u)
                                  /\ section'[u] = section[u]
                                  /\ at'[u] = at[u]
      /\ Held(t)' = After(section[t], Scope(section[t]), at[t])
  BY <1>0, <1>1, Moved
<1>3. Held(t)' = Held(t) /\ (f = "cert" \/ Guard[f] \in Held(t))
  BY <1>0, <1>1, <1>2, StepFits DEF Fits, NextStep, Rd
<1>4. /\ seen'[t] = seen[t] \cup {<<f, val[f]>>}
      /\ \A u \in Threads \ {t} : seen'[u] = seen[u]
  BY <1>0, <1>1 DEF TypeOK
<1>5. \A a \in seen'[t] : \/ a[1] = "cert"
                          \/ Guard[a[1]] \in Held(t) /\ a[2] = val[a[1]]
  BY <1>0, <1>1, <1>3, <1>4 DEF Fresh, Rd
<1>6. Fresh'
  <2> SUFFICES ASSUME NEW u \in Threads, NEW a \in seen'[u], a[1] # "cert"
               PROVE  /\ Guard[a[1]] \in Held(u)'
                      /\ (Running(u) /\ NextStep(u)[1] = "read")' => a[2] = val'[a[1]]
    BY DEF Fresh
  <2>1. CASE u = t
    BY <1>1, <1>3, <1>5, <2>1
  <2>2. CASE u # t
    BY <1>0, <1>1, <1>2, <1>4, <2>2 DEF Fresh, Running, NextStep
  <2> QED BY <2>1, <2>2
<1>7. WholeReads'
  <2> SUFFICES ASSUME NEW u \in Threads, NEW g \in {Options, Secret},
                      NEW a \in seen'[u], NEW b \in seen'[u],
                      a[1] \in g, b[1] \in g
               PROVE  a[2] = b[2]
    BY DEF WholeReads
  <2>1. CASE u = t
    <3>1. a[1] # "cert" /\ b[1] # "cert"
      BY Guards
    <3>2. a[2] = val[a[1]] /\ b[2] = val[b[1]] /\ Guard[a[1]] \in Held(t)
      BY <1>5, <2>1, <3>1
    <3>3. Gui \in Threads
      BY DEF Threads
    <3>4. CASE g = Options
      <4>1. ASSUME section[Gui] = Config, at[Gui] \in 3 .. 6 PROVE FALSE
        <5>1. PICK k \in Options : NextStep(Gui) = Wr(k)
          BY <4>1, MidWriting DEF NextStep
        <5>2. Running(Gui)
          BY <4>1, MidWriting DEF Running
        <5>3. "net" \in Held(Gui)
          BY <1>0, <3>3, <5>1, <5>2, StepFits, Guards DEF Fits, NextStep, Wr
        <5>4. "net" \in Held(t)
          BY <3>2, <3>4, Guards
        <5>5. t = Gui
          BY <1>0, <3>3, <5>3, <5>4 DEF Owns, Locks
        <5> QED BY <1>1, <5>1, <5>5 DEF Rd, Wr
      <4> QED BY <1>0, <3>2, <3>4, <4>1 DEF Evens, Even
    <3>5. CASE g = Secret
      <4>1. ASSUME section[Gui] = SetPassphrase, at[Gui] = 5 PROVE FALSE
        <5>1. NextStep(Gui) = Wr("passphrase")
          BY <4>1, MidWriting DEF NextStep
        <5>2. Running(Gui)
          BY <4>1, MidWriting DEF Running
        <5>3. "profile" \in Held(Gui)
          BY <1>0, <3>3, <5>1, <5>2, StepFits, Guards DEF Fits, NextStep, Wr, Secret
        <5>4. "profile" \in Held(t)
          BY <3>2, <3>5, Guards
        <5>5. t = Gui
          BY <1>0, <3>3, <5>3, <5>4 DEF Owns, Locks
        <5> QED BY <1>1, <5>1, <5>5 DEF Rd, Wr
      <4> QED BY <1>0, <3>2, <3>5, <4>1 DEF Evens, Even
    <3> QED BY <3>4, <3>5
  <2>2. CASE u # t
    BY <1>0, <1>4, <2>2 DEF WholeReads
  <2> QED BY <2>1, <2>2
<1> QED BY <1>6, <1>7

(* A write is the GUI thread's, and holds the lock against the readers.     *)
LEMMA WriteStep ==
  ASSUME RInv, NEW t \in Threads, NEW f \in Fields, Write(t, f)
  PROVE  Written' /\ Evens' /\ Fresh' /\ WholeReads'
<1>0. TypeOK /\ Place /\ Owns /\ Written /\ Evens /\ Fresh /\ WholeReads
  BY DEF RInv, LInv
<1>1. /\ Running(t) /\ Advance(t) /\ NextStep(t) = Wr(f)
      /\ UNCHANGED <<locked, owner, writes, seen>>
      /\ val' = [val EXCEPT ![f] = writes]
  BY DEF Write
<1>2. /\ section[t] \in Sections /\ section[t] \in Runs(t)
      /\ Len(section[t]) \in Nat /\ at[t] \in 1 .. Len(section[t])
      /\ Fits(section[t], Scope(section[t]), at[t])
      /\ Held(t) = Scope(section[t])[at[t]]
  BY <1>0, <1>1, StepFits
<1>3. /\ section[t] \in Writing
      /\ f \in Options => section[t] = Config /\ at[t] \in 2 .. 6
      /\ f \in Secret => section[t] = SetPassphrase /\ at[t] \in 4 .. 5
  BY <1>1, <1>2, WritesWhere DEF NextStep
<1>4. t = Gui /\ Gui \in Threads
  BY <1>2, <1>3, ReadersOnlyRead DEF Runs, Threads
<1>5. /\ f # "cert" /\ Guard[f] \in Held(t) /\ at[t] < Len(section[t])
      /\ section[t][at[t] + 1][1] # "read"
      /\ After(section[t], Scope(section[t]), at[t]) = Held(t)
  BY <1>1, <1>2 DEF Fits, NextStep, Wr
<1>6. /\ Held(t)' = Held(t)
      /\ \A u \in Threads \ {t} : /\ Held(u)' = Held(u)
                                  /\ section'[u] = section[u]
                                  /\ at'[u] = at[u]
  BY <1>0, <1>1, <1>5, Moved
<1>7. section'[Gui] = section[Gui] /\ at'[Gui] = at[Gui] + 1 /\ Running(Gui)'
  <2>1. Running(Gui)'
    BY <1>0, <1>1, <1>4, <1>5, Moved DEF Running
  <2> QED BY <1>0, <1>1, <1>4, <2>1, Moved
<1>8. val'[f] = writes /\ \A k \in Fields \ {f} : val'[k] = val[k]
  BY <1>0, <1>1 DEF TypeOK
<1>9. Written'
  <2> SUFFICES ASSUME NEW i \in 1 .. at'[Gui] - 1, NEW k \in Fields,
                      section'[Gui][i] = Wr(k)
               PROVE  val'[k] = writes'
    BY DEF Written
  <2>1. CASE k = f
    BY <1>1, <1>8, <2>1
  <2>2. CASE k # f
    <3>1. i # at[Gui]
      BY <1>1, <1>4, <1>7, <2>2 DEF NextStep, Wr
    <3>2. i \in 1 .. at[Gui] - 1
      BY <1>2, <1>4, <1>7, <3>1
    <3> QED BY <1>0, <1>1, <1>4, <1>7, <1>8, <2>2, <3>2 DEF Written, Running
  <2> QED BY <2>1, <2>2
<1>10. Evens'
  <2>1. (Even(Options) \/ (section[Gui] = Config /\ at[Gui] \in 3 .. 6))'
    <3>1. CASE f \in Options
      <4>1. section'[Gui] = Config /\ at'[Gui] \in 3 .. 7
        BY <1>3, <1>4, <1>7, <3>1
      <4>2. CASE at'[Gui] = 7
        <5>1. \A k \in Options : \E i \in 1 .. at'[Gui] - 1 : section'[Gui][i] = Wr(k)
          BY <4>1, <4>2, MidWriting
        <5>2. \A k \in Options : val'[k] = writes'
          BY <1>7, <1>9, <5>1, Guards DEF Written, Running
        <5> QED BY <5>2 DEF Even
      <4>3. CASE at'[Gui] \in 3 .. 6
        BY <4>1, <4>3
      <4> QED BY <4>1, <4>2, <4>3
    <3>2. CASE f \notin Options
      <4>1. Even(Options)
        <5>1. ASSUME section[Gui] = Config, at[Gui] \in 3 .. 6 PROVE FALSE
          BY <1>1, <1>4, <3>2, <5>1, MidWriting DEF NextStep, Wr
        <5> QED BY <1>0, <5>1 DEF Evens
      <4>2. \A k \in Options : val'[k] = val[k]
        BY <1>8, <3>2, Guards
      <4> QED BY <4>1, <4>2 DEF Even
    <3> QED BY <3>1, <3>2
  <2>2. (Even(Secret) \/ (section[Gui] = SetPassphrase /\ at[Gui] = 5))'
    <3>1. CASE f \in Secret
      <4>1. section'[Gui] = SetPassphrase /\ at'[Gui] \in 5 .. 6
        BY <1>3, <1>4, <1>7, <3>1
      <4>2. CASE at'[Gui] = 6
        <5>1. section'[Gui][4] = Wr("key") /\ section'[Gui][5] = Wr("passphrase")
          BY <4>1, MidWriting
        <5>2. 4 \in 1 .. at'[Gui] - 1 /\ 5 \in 1 .. at'[Gui] - 1
          BY <4>2
        <5>3. \A k \in Secret : val'[k] = writes'
          BY <1>7, <1>9, <5>1, <5>2, Guards DEF Written, Running, Secret
        <5> QED BY <5>3 DEF Even
      <4> QED BY <4>1, <4>2
    <3>2. CASE f \notin Secret
      <4>1. Even(Secret)
        <5>1. ASSUME section[Gui] = SetPassphrase, at[Gui] = 5 PROVE FALSE
          BY <1>1, <1>4, <3>2, <5>1, MidWriting DEF NextStep, Wr, Secret
        <5> QED BY <1>0, <5>1 DEF Evens
      <4>2. \A k \in Secret : val'[k] = val[k]
        BY <1>8, <3>2, Guards
      <4> QED BY <4>1, <4>2 DEF Even
    <3> QED BY <3>1, <3>2
  <2> QED BY <2>1, <2>2 DEF Evens
<1>11. Fresh'
  <2> SUFFICES ASSUME locked, NEW u \in Threads, NEW a \in seen[u], a[1] # "cert"
               PROVE  /\ Guard[a[1]] \in Held(u)'
                      /\ (Running(u) /\ NextStep(u)[1] = "read")' => a[2] = val'[a[1]]
    BY <1>1 DEF Fresh
  <2>1. CASE u = t
    <3>1. Guard[a[1]] \in Held(u)'
      BY <1>0, <1>6, <2>1 DEF Fresh
    <3>2. ~(NextStep(u)[1] = "read")'
      BY <1>4, <1>5, <1>7, <2>1 DEF NextStep
    <3> QED BY <3>1, <3>2
  <2>2. CASE u # t
    <3>1. Guard[a[1]] \in Held(u)
      BY <1>0 DEF Fresh
    <3>2. a[1] \in Fields
      BY <1>0 DEF TypeOK
    <3>3. a[1] # f
      BY <1>0, <1>5, <2>2, <3>1, Guards DEF Owns
    <3> QED BY <1>0, <1>6, <1>8, <2>2, <3>1, <3>2, <3>3 DEF Fresh, Running, NextStep
  <2> QED BY <2>1, <2>2
<1>12. WholeReads'
  BY <1>0, <1>1 DEF WholeReads
<1> QED BY <1>9, <1>10, <1>11, <1>12

(* Taking or releasing a lock forgets what was read.                        *)
LEMMA LockStep ==
  ASSUME RInv, NEW t \in Threads, NEW l \in Locks,
         TakeLock(t, l) \/ FreeLock(t, l)
  PROVE  Written' /\ Evens' /\ Fresh' /\ WholeReads'
<1>0. TypeOK /\ Place /\ Fresh /\ WholeReads
  BY DEF RInv, LInv
<1>1. /\ Running(t) /\ Advance(t) /\ NextStep(t) \in {Acquire(l), Release(l)}
      /\ UNCHANGED <<locked, writes, val>>
      /\ seen' = [seen EXCEPT ![t] = {}]
  BY DEF TakeLock, FreeLock
<1>2. \A u \in Threads \ {t} : /\ Held(u)' = Held(u)
                               /\ section'[u] = section[u]
                               /\ at'[u] = at[u]
  BY <1>0, <1>1, Moved
<1>3. seen'[t] = {} /\ \A u \in Threads \ {t} : seen'[u] = seen[u]
  BY <1>0, <1>1 DEF TypeOK
<1>4. Written' /\ Evens'
  BY <1>1, EvensStay DEF Acquire, Release
<1>5. Fresh'
  <2> SUFFICES ASSUME locked, NEW u \in Threads \ {t}, NEW a \in seen[u],
                      a[1] # "cert"
               PROVE  /\ Guard[a[1]] \in Held(u)'
                      /\ (Running(u) /\ NextStep(u)[1] = "read")' => a[2] = val'[a[1]]
    BY <1>1, <1>3 DEF Fresh
  <2> QED BY <1>0, <1>1, <1>2 DEF Fresh, Running, NextStep
<1>6. WholeReads'
  BY <1>0, <1>1, <1>3 DEF WholeReads
<1> QED BY <1>4, <1>5, <1>6

(* Starting a section changes no member.                                    *)
LEMMA BeginStep ==
  ASSUME RInv, NEW t \in Threads, NEW s \in Runs(t), Begin(t, s)
  PROVE  Written' /\ Evens' /\ Fresh' /\ WholeReads'
<1>0. TypeOK /\ Place /\ Written /\ Evens /\ Fresh /\ WholeReads
  BY DEF RInv, LInv
<1>1. /\ Held(t) = {} /\ section[t] = <<>> /\ at'[t] = 1
      /\ \A u \in Threads \ {t} : /\ Held(u)' = Held(u)
                                  /\ section'[u] = section[u]
                                  /\ at'[u] = at[u]
  BY <1>0, Begun
<1>2. UNCHANGED <<locked, val, seen>>
  BY DEF Begin
<1>3. t # Gui => writes' = writes
  BY ReadersOnlyRead DEF Begin, Runs
<1>4. Gui \in Threads
  BY DEF Threads
<1>5. Written'
  <2>1. CASE t = Gui
    BY <1>1, <2>1 DEF Written
  <2>2. CASE t # Gui
    BY <1>0, <1>1, <1>2, <1>3, <1>4, <2>2 DEF Written
  <2> QED BY <2>1, <2>2
<1>6. Evens'
  <2>1. CASE t = Gui
    <3>1. section[Gui] # Config /\ section[Gui] # SetPassphrase
      BY <1>1, <2>1, MidWriting
    <3> QED BY <1>0, <1>2, <3>1 DEF Evens, Even
  <2>2. CASE t # Gui
    BY <1>0, <1>1, <1>2, <1>4, <2>2 DEF Evens, Even
  <2> QED BY <2>1, <2>2
<1>7. Fresh'
  <2> SUFFICES ASSUME locked, NEW u \in Threads, NEW a \in seen[u], a[1] # "cert"
               PROVE  /\ Guard[a[1]] \in Held(u)'
                      /\ (Running(u) /\ NextStep(u)[1] = "read")' => a[2] = val'[a[1]]
    BY <1>2 DEF Fresh
  <2>1. u # t
    BY <1>0, <1>1 DEF Fresh
  <2> QED BY <1>0, <1>1, <1>2, <2>1 DEF Fresh, Running, NextStep
<1>8. WholeReads'
  BY <1>0, <1>2 DEF WholeReads
<1> QED BY <1>5, <1>6, <1>7, <1>8

(* What a thread reads of the settings under one lock, or of key and        *)
(* passphrase, was written by one call.                                     *)
THEOREM ReadsAreWhole == Spec => []WholeReads
<1>1. Init => RInv
  <2> SUFFICES ASSUME Init PROVE Written /\ Evens /\ Fresh /\ WholeReads /\ LInv
    BY DEF RInv
  <2>1. Gui \in Threads
    BY DEF Threads
  <2>2. Written
    BY <2>1 DEF Init, Written
  <2>3. Evens
    BY Guards DEF Init, Evens, Even
  <2>4. Fresh /\ WholeReads
    BY DEF Init, Fresh, WholeReads
  <2>5. LInv
    BY LocksInit
  <2> QED BY <2>2, <2>3, <2>4, <2>5
<1>2. RInv /\ [Next]_vars => RInv'
  <2> SUFFICES ASSUME RInv, [Next]_vars PROVE Written' /\ Evens' /\ Fresh' /\ WholeReads'
    BY LocksNext DEF RInv
  <2>1. CASE UNCHANGED vars
    BY <2>1 DEF vars, RInv, Written, Evens, Even, Fresh, WholeReads, Held,
                Running, NextStep
  <2>2. ASSUME NEW t \in Threads, NEW f \in Fields, Read(t, f)
        PROVE  Written' /\ Evens' /\ Fresh' /\ WholeReads'
    <3>1. Written' /\ Evens'
      BY <2>2, EvensStay DEF Read, Rd
    <3> QED BY <2>2, <3>1, ReadStep
  <2> QED BY <2>1, <2>2, BeginStep, LockStep, WriteStep DEF Next
<1>3. RInv => WholeReads
  BY DEF RInv
<1> QED BY <1>1, <1>2, <1>3, PTL DEF Spec
=============================================================================
