------------------------------- MODULE Profile -------------------------------
(***************************************************************************)
(* The user's identity from one run of the client to the next: the login   *)
(* dialog creates profiles or picks one (qt/logindialog.cpp), main() loads *)
(* it, lets the user change passphrase, network password and contacts, and *)
(* writes the profile file back when the event loop ends (qt/main.cpp;     *)
(* BitMail::Genesis, Import, Export; CX509Cert).                           *)
(*                                                                         *)
(* An identity is the number of the key pair MakeCert generated.  A key in *)
(* PEM form is the identity and the passphrase that encrypts it; the       *)
(* network password is sealed with a certificate.  Both open exactly with  *)
(* the matching passphrase or key.  Of the network settings only the       *)
(* password is kept, which is the one a file does not hold in the clear.   *)
(***************************************************************************)
EXTENDS Naturals, Sequences, FiniteSets

CONSTANTS Emails, Passes, Pwds, Contacts,
          Empty,     (* the empty string: no passphrase, no password        *)
          NoKey,     (* an empty m_key                                      *)
          Absent,    (* no file                                             *)
          Torn,      (* a file that is truncated, or written in part        *)
          Unparsed,  (* contacts_ before any was loaded: not JSON           *)
          NoDialog,  (* no option dialog is being applied                   *)
          MaxIds     (* bound: key pairs generated in a behaviour           *)

Ids  == 1 .. MaxIds
Keys == [id : Ids, pass : Passes]

(* The contents of a file IsValidPofile accepts.                            *)
Sealed  == [for : Ids, text : Pwds \cup {Empty}]
Content == [cert : Ids, key : Keys \cup {NoKey}, password : Sealed,
            contacts : SUBSET Contacts]
Dialog  == [pass : Passes, pwd : Pwds]
Memory  == Ids \X (Keys \cup {NoKey}) \X (Passes \cup {Empty})
               \X (Pwds \cup {Empty}) \X SUBSET Contacts

ASSUME ProfileAssumption ==
  /\ MaxIds \in Nat
  /\ Empty \notin Passes \cup Pwds
  /\ NoKey \notin Keys /\ NoDialog \notin Dialog
  /\ Absent \notin Content /\ Torn \notin Content

VARIABLES
  file,      (* the profile file of each address                            *)
  (* the running process *)
  run,       (* how far main() is                                           *)
  open,      (* SaveProfile has opened, and so truncated, the file          *)
  inst,      (* the BitMail singleton: none, or with or without locks       *)
  cert, key, pass,     (* CX509Cert's m_cert, m_key, m_passphrase           *)
  pwd,       (* the network password of CMailClient                         *)
  contacts,  (* BitMail::contacts_                                          *)
  dlg,       (* what is left to apply of the option dialog                  *)
  (* history *)
  owner,     (* the address of each identity generated so far               *)
  saved,     (* identities a save wrote with their key                      *)
  kept,      (* the memory that the last complete save of a file had        *)
  cut,       (* addresses whose last save was cut short                     *)
  spoiled,   (* addresses whose file was last created before a session that *)
             (* did not know the passphrase saved it                        *)
  asked,     (* the address the user named last                             *)
  typo,      (* the passphrase typed in this process did not open the key   *)
  unmade,    (* MakeCert failed in this process                             *)
  unsigned   (* Sign, called in this process, could not open a key it had   *)

memory == <<cert, key, pass, pwd, contacts>>
ghosts == <<owner, saved, kept, cut, spoiled, asked, typo, unmade, unsigned>>
vars   == <<file, run, open, inst, memory, dlg, ghosts>>

Valid(e) == file[e] \notin {Absent, Torn}

(* PEM2PrivKey: whether passphrase p opens key k.                           *)
Opens(k, p) == k # NoKey /\ k.pass = p

(* CX509Cert::Encrypt with certificate c, and CX509Cert::Decrypt of sealed  *)
(* text s with certificate c, key k and passphrase p.                       *)
Encrypt(c, text) == [for |-> c, text |-> text]
Decrypt(s, c, k, p) ==
  IF Opens(k, p) /\ k.id = s.for /\ c = s.for THEN s.text ELSE Empty

(* BitMail::Export.                                                         *)
Export == [cert |-> cert, key |-> key, password |-> Encrypt(cert, pwd),
           contacts |-> IF contacts = Unparsed THEN {} ELSE contacts]

NoMemory == /\ cert' = 0 /\ key' = NoKey /\ pass' = Empty /\ pwd' = Empty
            /\ contacts' = Unparsed /\ dlg' = NoDialog

Init ==
  /\ file = [e \in Emails |-> Absent]
  /\ run = "down" /\ open = FALSE /\ inst = "none"
  /\ cert = 0 /\ key = NoKey /\ pass = Empty /\ pwd = Empty
  /\ contacts = Unparsed /\ dlg = NoDialog
  /\ owner = <<>> /\ saved = {} /\ kept = [e \in Emails |-> <<>>]
  /\ cut = {} /\ spoiled = {} /\ asked \in Emails
  /\ typo = FALSE /\ unmade = FALSE /\ unsigned = FALSE
-----------------------------------------------------------------------------
(* Mutated forms of steps below, each a bug somebody could make there; they *)
(* take no part in the specification.                                       *)

(* SetPassphrase without the assignment to m_passphrase.                    *)
ConfigRestForgets ==
  /\ dlg # NoDialog
  /\ pwd' = dlg.pwd
  /\ dlg' = NoDialog
  /\ UNCHANGED <<file, run, open, inst, cert, key, pass, contacts, ghosts>>

(* Import only when the instance has no key yet.                            *)
LoginKeepsOldKey(e, typed) ==
  /\ run = "login" /\ Valid(e)
  /\ LET f == file[e]
         opened == Opens(f.key, typed)
     IN /\ cert' = f.cert
        /\ IF opened /\ key = NoKey THEN key' = f.key /\ pass' = typed
                                    ELSE UNCHANGED <<key, pass>>
        /\ pwd' = Decrypt(f.password, cert', key', pass')
        /\ contacts' = f.contacts
        /\ typo' = ~opened
  /\ inst' = IF inst = "none" THEN "locked" ELSE inst
  /\ asked' = e
  /\ run' = "main"
  /\ UNCHANGED <<file, open, dlg, owner, saved, kept, cut, spoiled, unmade,
                 unsigned>>

(* Import reads "network" before "Profile".                                 *)
LoginNetworkFirst(e, typed) ==
  /\ run = "login" /\ Valid(e)
  /\ LET f == file[e]
         opened == Opens(f.key, typed)
     IN /\ cert' = f.cert
        /\ IF opened THEN key' = f.key /\ pass' = typed
                     ELSE UNCHANGED <<key, pass>>
        /\ pwd' = Decrypt(f.password, cert, key, pass)
        /\ contacts' = f.contacts
        /\ typo' = ~opened
  /\ inst' = IF inst = "none" THEN "locked" ELSE inst
  /\ asked' = e
  /\ run' = "main"
  /\ UNCHANGED <<file, open, dlg, owner, saved, kept, cut, spoiled, unmade,
                 unsigned>>

(* Create leaves a certificate that is already there.                       *)
CreateKeepsCert(e, p, w, made) ==
  /\ run = "login" /\ Len(owner) < MaxIds
  /\ inst' = IF inst = "none" THEN "unlocked" ELSE inst
  /\ IF made /\ cert = 0
       THEN /\ owner' = Append(owner, e)
            /\ cert' = Len(owner')
            /\ key' = [id |-> cert', pass |-> p] /\ pass' = p
       ELSE UNCHANGED <<owner, cert, key, pass>>
  /\ unmade' = (unmade \/ ~made)
  /\ pwd' = w
  /\ asked' = e
  /\ run' = "create"
  /\ UNCHANGED <<file, open, contacts, dlg, saved, kept, cut, spoiled, typo,
                 unsigned>>

(* Encrypt without the ScopedLock around Sign.                              *)
SignWithoutLock ==
  /\ run = "main"
  /\ unsigned' = (unsigned \/ (key # NoKey /\ ~Opens(key, pass)))
  /\ UNCHANGED <<file, run, open, inst, memory, dlg, owner, saved, kept, cut,
                 spoiled, asked, typo, unmade>>
-----------------------------------------------------------------------------
(* The login dialog.                                                        *)

Start ==
  /\ run = "down" /\ run' = "login"
  /\ typo' = FALSE /\ unmade' = FALSE /\ unsigned' = FALSE
  /\ UNCHANGED <<file, open, inst, memory, dlg, owner, saved, kept, cut,
                 spoiled, asked>>

(* MakeCert makes a key pair and its certificate; if it fails on the way it *)
(* assigns nothing.                                                         *)
MakeCert(e, p) ==
  /\ owner' = Append(owner, e)
  /\ cert' = Len(owner')
  /\ key' = [id |-> cert', pass |-> p]

(* createProfile: getInst() without locks, then Genesis.  Create says true  *)
(* whether or not MakeCert made a certificate; the settings always change.  *)
CreateProfile(e, p, w, made) ==
  /\ run = "login" /\ Len(owner) < MaxIds
  /\ inst' = IF inst = "none" THEN "unlocked" ELSE inst
  /\ IF made THEN MakeCert(e, p) /\ pass' = p /\ UNCHANGED unmade
             ELSE unmade' = TRUE /\ UNCHANGED <<owner, cert, key, pass>>
  /\ pwd' = w
  /\ asked' = e
  /\ run' = "create"
  /\ UNCHANGED <<file, open, contacts, dlg, saved, kept, cut, spoiled, typo,
                 unsigned>>

(* main() after the dialog was accepted: getInst with locks, which an       *)
(* instance already there does not get, and LoadProfile.  Import replaces   *)
(* the key only when the passphrase opens it and says true in any case.     *)
Login(e, typed) ==
  /\ run = "login" /\ Valid(e)
  /\ LET f == file[e]
         opened == Opens(f.key, typed)
     IN /\ cert' = f.cert
        /\ IF opened THEN key' = f.key /\ pass' = typed
                     ELSE UNCHANGED <<key, pass>>
        /\ pwd' = Decrypt(f.password, cert', key', pass')
        /\ contacts' = f.contacts
        /\ typo' = ~opened
  /\ inst' = IF inst = "none" THEN "locked" ELSE inst
  /\ asked' = e
  /\ run' = "main"
  /\ UNCHANGED <<file, open, dlg, owner, saved, kept, cut, spoiled, unmade,
                 unsigned>>

(* The dialog is cancelled, or accepted with no profile in its list.        *)
NoLogin ==
  /\ run = "login" /\ run' = "down"
  /\ inst' = "none" /\ NoMemory
  /\ UNCHANGED <<file, open, ghosts>>
-----------------------------------------------------------------------------
(* The session.                                                             *)

(* onBtnConfigClicked, accepted with passphrase p and network password w:   *)
(* SetPassphrase assigns m_key, and m_passphrase after it.                  *)
ConfigAccepted(p, w) ==
  /\ run = "main" /\ dlg = NoDialog
  /\ IF p \notin {pass, Empty} /\ Opens(key, pass)
       THEN /\ key' = [key EXCEPT !.pass = p]
            /\ dlg' = [pass |-> p, pwd |-> w]
            /\ UNCHANGED pwd
       ELSE pwd' = w /\ UNCHANGED <<key, dlg>>
  /\ UNCHANGED <<file, run, open, inst, cert, pass, contacts, ghosts>>

ConfigRest ==
  /\ dlg # NoDialog
  /\ pass' = dlg.pass /\ pwd' = dlg.pwd
  /\ dlg' = NoDialog
  /\ UNCHANGED <<file, run, open, inst, cert, key, contacts, ghosts>>

(* addContact and removeContact, which refuse text that does not parse.     *)
AddContact(c) ==
  /\ run = "main" /\ dlg = NoDialog /\ contacts # Unparsed
  /\ contacts' = contacts \cup {c}
  /\ UNCHANGED <<file, run, open, inst, cert, key, pass, pwd, dlg, ghosts>>

RemoveContact(c) ==
  /\ run = "main" /\ dlg = NoDialog /\ contacts # Unparsed
  /\ contacts' = contacts \ {c}
  /\ UNCHANGED <<file, run, open, inst, cert, key, pass, pwd, dlg, ghosts>>

(* The transmit thread's Encrypt calls Sign under m_lockProfile, if there   *)
(* is such a lock.                                                          *)
Sign ==
  /\ run = "main" /\ (inst = "locked" => dlg = NoDialog)
  /\ unsigned' = (unsigned \/ (key # NoKey /\ ~Opens(key, pass)))
  /\ UNCHANGED <<file, run, open, inst, memory, dlg, owner, saved, kept, cut,
                 spoiled, asked, typo, unmade>>

Quit ==
  /\ run = "main" /\ dlg = NoDialog
  /\ run' = "exit"
  /\ UNCHANGED <<file, open, inst, memory, dlg, ghosts>>
-----------------------------------------------------------------------------
(* SaveProfile, from createProfile or at the end of main(), whose freeInst  *)
(* then forgets everything.                                                 *)

Back == IF run = "create"
          THEN run' = "login" /\ UNCHANGED <<inst, memory, dlg>>
          ELSE run' = "down" /\ inst' = "none" /\ NoMemory

(* The path is the directory of profiles when there is no certificate, and  *)
(* that cannot be opened.                                                   *)
SaveOpen ==
  /\ run \in {"create", "exit"} /\ ~open /\ cert # 0
  /\ file' = [file EXCEPT ![owner[cert]] = Torn]
  /\ open' = TRUE
  /\ UNCHANGED <<run, inst, memory, dlg, ghosts>>

SaveRefused ==
  /\ run \in {"create", "exit"} /\ ~open
  /\ Back
  /\ UNCHANGED <<file, open, ghosts>>

SaveWrite ==
  /\ open
  /\ LET e == owner[cert]
     IN /\ file' = [file EXCEPT ![e] = Export]
        /\ kept' = [kept EXCEPT ![e] = <<cert, key, pass, pwd, Export.contacts>>]
        /\ cut' = cut \ {e}
        /\ spoiled' = CASE run = "create" -> spoiled \ {e}
                         [] run = "exit" -> IF typo THEN spoiled \cup {e} ELSE spoiled
  /\ saved' = IF key # NoKey /\ key.id = cert THEN saved \cup {cert} ELSE saved
  /\ open' = FALSE
  /\ Back
  /\ UNCHANGED <<owner, asked, typo, unmade, unsigned>>

(* The disk takes only a part of the text; nobody looks at the stream.      *)
SaveWriteFails ==
  /\ open
  /\ cut' = cut \cup {owner[cert]}
  /\ open' = FALSE
  /\ Back
  /\ UNCHANGED <<file, owner, saved, kept, spoiled, asked, typo, unmade,
                 unsigned>>

(* The process is killed.                                                   *)
Crash ==
  /\ run # "down" /\ run' = "down"
  /\ cut' = IF open THEN cut \cup {owner[cert]} ELSE cut
  /\ open' = FALSE
  /\ inst' = "none" /\ NoMemory
  /\ UNCHANGED <<file, owner, saved, kept, spoiled, asked, typo, unmade,
                 unsigned>>
-----------------------------------------------------------------------------
Next ==
  \/ Start \/ NoLogin \/ ConfigRest \/ Sign \/ Quit
  \/ SaveOpen \/ SaveRefused \/ SaveWrite \/ SaveWriteFails \/ Crash
  \/ \E e \in Emails, p \in Passes :
       \/ Login(e, p)
       \/ \E w \in Pwds, made \in BOOLEAN : CreateProfile(e, p, w, made)
  \/ \E p \in Passes \cup {Empty}, w \in Pwds : ConfigAccepted(p, w)
  \/ \E c \in Contacts : AddContact(c) \/ RemoveContact(c)

Spec == Init /\ [][Next]_vars
-----------------------------------------------------------------------------
(* Properties.                                                              *)

TypeOK ==
  /\ file \in [Emails -> Content \cup {Absent, Torn}]
  /\ run \in {"down", "login", "create", "main", "exit"} /\ open \in BOOLEAN
  /\ inst \in {"none", "unlocked", "locked"}
  /\ cert \in Ids \cup {0} /\ key \in Keys \cup {NoKey}
  /\ pass \in Passes \cup {Empty} /\ pwd \in Pwds \cup {Empty}
  /\ contacts \in (SUBSET Contacts) \cup {Unparsed}
  /\ dlg \in Dialog \cup {NoDialog}
  /\ owner \in Seq(Emails) /\ saved \subseteq Ids
  /\ kept \in [Emails -> {<<>>} \cup Memory]
  /\ cut \subseteq Emails /\ spoiled \subseteq Emails /\ asked \in Emails
  /\ typo \in BOOLEAN /\ unmade \in BOOLEAN /\ unsigned \in BOOLEAN

(* A private key that was saved once stays in the file of its address until *)
(* another profile is created for that address, a save of it is cut short,  *)
(* or it is saved by a session that did not know its passphrase.            *)
KeyKept ==
  \A id \in saved :
    LET e == owner[id]
    IN \/ Valid(e) /\ file[e].key # NoKey /\ file[e].key.id = id
       \/ \E later \in DOMAIN owner : later > id /\ owner[later] = e
       \/ e \in cut \cup spoiled
       \/ open /\ owner[cert] = e

(* A session opened with the right passphrase has the key of its            *)
(* certificate, and the passphrase it goes by opens that key: it can sign,  *)
(* decrypt, and change the passphrase.                                      *)
SessionOwnsKey ==
  run \in {"main", "exit"} /\ ~typo /\ owner[cert] \notin spoiled
    => /\ key # NoKey /\ key.id = cert
       /\ dlg = NoDialog => Opens(key, pass)

(* The right passphrase brings back what the last complete save had in      *)
(* memory, the sealed network password included, whatever profiles were     *)
(* created before it in the same process and left in the singleton.         *)
LoginRestores ==
  [][run = "login" /\ run' = "main" /\ ~typo' /\ asked' \notin spoiled
       => memory' = kept[asked']]_vars

(* A save writes the file of the address the user created or chose, and no  *)
(* other, unless MakeCert failed and the identity before it is saved again. *)
SavesAskedOnly ==
  [][\A e \in Emails : file'[e] # file[e] => e = asked \/ unmade]_vars

(* While an option dialog replaces the passphrase, no signature is lost to  *)
(* a key and a passphrase that do not match, unless the instance has no     *)
(* locks because a profile was created in this process.                     *)
SignsUnderLock == unsigned => inst # "locked"
=============================================================================
