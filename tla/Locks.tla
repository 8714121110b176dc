-------------------------------- MODULE Locks --------------------------------
(***************************************************************************)
(* The three locks of a BitMail instance and what is done under them       *)
(* (ScopedLock and its users in core/src/bitmail.cpp and email.cpp,        *)
(* qt/lock.cpp).  The GUI thread changes settings, passphrase and contacts *)
(* while the network threads sign, seal, transfer and decrypt.             *)
(*                                                                         *)
(* A section is what a call does from the first lock it takes to where it  *)
(* holds none again: a sequence of steps that lock, unlock, or access one  *)
(* member.  A call is a few sections in a row; nothing below depends on    *)
(* their order, so a thread may run the sections of its calls in any.      *)
(* Early returns are sections of their own.  Values are version numbers:   *)
(* the number of the section that wrote them.                              *)
(***************************************************************************)
EXTENDS Naturals, Sequences

CONSTANTS Gui,       (* the GUI thread                                      *)
          Workers,   (* RxThread and TxThread                               *)
          NoOwner,   (* the owner of a free lock                            *)
          MaxWrites  (* bound: sections that write                          *)

Threads == {Gui} \cup Workers

ASSUME LocksAssumption ==
  /\ Gui \notin Workers
  /\ NoOwner \notin Threads
  /\ MaxWrites \in Nat

(* m_lockProfile, m_lockNet (CMailClient's m_lock), m_lockContacts.         *)
Locks == {"profile", "net", "contacts"}

Options == {"txurl", "rxurl", "login", "password", "proxy"}
Secret  == {"key", "passphrase"}
Fields  == Options \cup Secret \cup {"cert", "book"}

Acquire(l) == <<"lock", l>>
Release(l) == <<"unlock", l>>
Rd(f)      == <<"read", f>>
Wr(f)      == <<"write", f>>
Step       == ({"lock", "unlock"} \X Locks) \cup ({"read", "write"} \X Fields)

VARIABLES
  locked,   (* the instance was made with a lock craft                      *)
  owner,    (* the thread that holds each lock                              *)
  section,  (* what each thread is running, <<>> if nothing                 *)
  at,       (* the index of its next step in it                             *)
  writes,   (* the number of sections that write begun so far               *)
  val,      (* the version of each member                                   *)
  seen      (* what each thread read since it took or freed a lock last     *)

vars == <<locked, owner, section, at, writes, val, seen>>
-----------------------------------------------------------------------------
(* Mutated forms of sections and steps, each a bug somebody could make      *)
(* there; they take no part in the specification.                           *)

(* config without its ScopedLock.                                           *)
ConfigUnlocked == <<Wr("txurl"), Wr("rxurl"), Wr("login"), Wr("password"),
                    Wr("proxy")>>

(* config for the address and for the account, each under the lock.         *)
ConfigInTwo == <<Acquire("net"), Wr("txurl"), Wr("rxurl"), Release("net"),
                 Acquire("net"), Wr("login"), Wr("password"), Wr("proxy"),
                 Release("net")>>

(* Tx asks for the sender's address while it sets the options.              *)
TxOptionsWithSender ==
  <<Acquire("net"), Rd("txurl"), Rd("login"), Rd("password"), Rd("proxy"),
    Acquire("profile"), Rd("cert"), Release("profile"), Release("net")>>
-----------------------------------------------------------------------------
(* The sections.                                                            *)

(* CMailClient::config, from SetupNetwork.                                  *)
Config == <<Acquire("net"), Wr("txurl"), Wr("rxurl"), Wr("login"),
            Wr("password"), Wr("proxy"), Release("net")>>

(* The getters of CMailClient, BitMail::cert, email and passphrase.         *)
Get(l, f) == <<Acquire(l), Rd(f), Release(l)>>

(* CX509Cert::SetPassphrase, from UpdatePassphrase; the same with a key     *)
(* that does not open; and with the passphrase it has already.              *)
SetPassphrase == <<Acquire("profile"), Rd("passphrase"), Rd("key"),
                   Wr("key"), Wr("passphrase"), Release("profile")>>
KeepPassphrase == <<Acquire("profile"), Rd("passphrase"), Rd("key"),
                    Release("profile")>>

(* CX509Cert::Sign, from Encrypt, and CX509Cert::Decrypt.                   *)
Sign == <<Acquire("profile"), Rd("cert"), Rd("key"), Rd("passphrase"),
          Release("profile")>>

(* Export: certificate and key; the password, sealed with the certificate.  *)
ExportProfile  == <<Acquire("profile"), Rd("cert"), Rd("key"),
                    Release("profile")>>
ExportPassword == <<Acquire("profile"), Acquire("net"), Rd("password"),
                    Release("net"), Rd("cert"), Release("profile")>>

(* addContact, removeContact and contattrib with a value.                   *)
EditContacts == <<Acquire("contacts"), Rd("book"), Wr("book"),
                  Release("contacts")>>

(* Tx, before it transfers; GetEmail on the way there takes no lock.        *)
TxOptions == <<Acquire("net"), Rd("txurl"), Rd("login"), Rd("password"),
               Rd("proxy"), Release("net")>>
TxSender  == <<Rd("cert")>>

(* GetUnseen, GetMsg, StoreFlag and Expunge, before they transfer.          *)
RxOptions == <<Acquire("net"), Rd("rxurl"), Rd("login"), Rd("password"),
               Rd("proxy"), Release("net")>>
-----------------------------------------------------------------------------
Writing == {Config, SetPassphrase, EditContacts}

(* SendTo, the dialogs and main() are the GUI thread's; Export, which is    *)
(* main()'s, meets the other threads when the user closed the shutdown      *)
(* dialog.                                                                  *)
GuiReading == {Get("net", f) : f \in Options}
              \cup {Get("profile", f) : f \in {"cert", "passphrase"}}
              \cup {Get("contacts", "book"), KeepPassphrase, Sign,
                    ExportProfile, ExportPassword}

WorkerReading == {Get("net", f) : f \in Options \ {"proxy"}}
                 \cup {Get("profile", "cert"), Get("contacts", "book"), Sign,
                       TxOptions, TxSender, RxOptions}

Runs(t) == IF t = Gui THEN Writing \cup GuiReading ELSE WorkerReading

Sections == Writing \cup GuiReading \cup WorkerReading

Init ==
  /\ locked \in BOOLEAN
  /\ owner = [l \in Locks |-> NoOwner]
  /\ section = [t \in Threads |-> <<>>] /\ at = [t \in Threads |-> 1]
  /\ writes = 0 /\ val = [f \in Fields |-> 0]
  /\ seen = [t \in Threads |-> {}]

Running(t) == section[t] # <<>>
NextStep(t) == section[t][at[t]]

Advance(t) ==
  IF at[t] < Len(section[t])
    THEN at' = [at EXCEPT ![t] = @ + 1] /\ UNCHANGED section
    ELSE /\ section' = [section EXCEPT ![t] = <<>>]
         /\ at' = [at EXCEPT ![t] = 1]

Begin(t, s) ==
  /\ ~Running(t) /\ s \in Runs(t)
  /\ IF s \in Writing THEN writes < MaxWrites /\ writes' = writes + 1
                      ELSE UNCHANGED writes
  /\ section' = [section EXCEPT ![t] = s]
  /\ UNCHANGED <<locked, owner, at, val, seen>>

(* ScopedLock's constructor: a mutex that its own thread cannot take twice; *)
(* nothing happens if there is no lock.                                     *)
TakeLock(t, l) ==
  /\ Running(t) /\ NextStep(t) = Acquire(l)
  /\ IF locked THEN owner[l] = NoOwner /\ owner' = [owner EXCEPT ![l] = t]
               ELSE UNCHANGED owner
  /\ seen' = [seen EXCEPT ![t] = {}]
  /\ Advance(t)
  /\ UNCHANGED <<locked, writes, val>>

(* Its destructor.                                                          *)
FreeLock(t, l) ==
  /\ Running(t) /\ NextStep(t) = Release(l)
  /\ IF locked THEN owner' = [owner EXCEPT ![l] = NoOwner]
               ELSE UNCHANGED owner
  /\ seen' = [seen EXCEPT ![t] = {}]
  /\ Advance(t)
  /\ UNCHANGED <<locked, writes, val>>

Read(t, f) ==
  /\ Running(t) /\ NextStep(t) = Rd(f)
  /\ seen' = [seen EXCEPT ![t] = @ \cup {<<f, val[f]>>}]
  /\ Advance(t)
  /\ UNCHANGED <<locked, owner, writes, val>>

Write(t, f) ==
  /\ Running(t) /\ NextStep(t) = Wr(f)
  /\ val' = [val EXCEPT ![f] = writes]
  /\ Advance(t)
  /\ UNCHANGED <<locked, owner, writes, seen>>

Next ==
  \E t \in Threads :
    \/ \E s \in Runs(t) : Begin(t, s)
    \/ \E l \in Locks : TakeLock(t, l) \/ FreeLock(t, l)
    \/ \E f \in Fields : Read(t, f) \/ Write(t, f)

Spec == Init /\ [][Next]_vars
-----------------------------------------------------------------------------
(* Properties.                                                              *)

TypeOK ==
  /\ locked \in BOOLEAN
  /\ owner \in [Locks -> Threads \cup {NoOwner}]
  /\ section \in [Threads -> Sections \cup {<<>>}]
  /\ at \in [Threads -> Nat] /\ writes \in 0 .. MaxWrites
  /\ val \in [Fields -> 0 .. MaxWrites]
  /\ seen \in [Threads -> SUBSET (Fields \X (0 .. MaxWrites))]

Accesses(t, f) == Running(t) /\ NextStep(t) \in {Rd(f), Wr(f)}
Writes(t, f)   == Running(t) /\ NextStep(t) = Wr(f)

(* While the instance has its locks, no two threads are at conflicting      *)
(* accesses of the same member.  GetEmail in BitMail::Tx reads the          *)
(* certificate without the lock, which nothing writes any more.             *)
RaceFree ==
  locked => \A t, u \in Threads, f \in Fields :
              t # u => ~(Writes(t, f) /\ Accesses(u, f))

(* What a thread read of the network settings under one lock, or of key and *)
(* passphrase, was written by one call: a transfer never uses the new login *)
(* with the old server, Sign never the new key with the old passphrase.     *)
WholeReads ==
  locked => \A t \in Threads, g \in {Options, Secret} :
              \A a, b \in seen[t] : a[1] \in g /\ b[1] \in g => a[2] = b[2]

WaitsFor(t) ==
  {l \in Locks : Running(t) /\ NextStep(t) = Acquire(l) /\ owner[l] # NoOwner}

(* No group of threads, and no thread alone, waits for locks that are held  *)
(* within the group.  Export asks for the mail client's lock under the      *)
(* profile's; the mutexes are not recursive.                                *)
NoDeadlock ==
  \A G \in SUBSET Threads :
    G # {} => \E t \in G : \A l \in WaitsFor(t) : owner[l] \notin G
=============================================================================
