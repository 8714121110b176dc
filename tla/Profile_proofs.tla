---------------------------- MODULE Profile_proofs ----------------------------
(***************************************************************************)
(* Theorems about Profile for every set of addresses, passphrases and      *)
(* passwords and every number of keys.                                     *)
(***************************************************************************)
EXTENDS Profile, TLAPS, SequenceTheorems

(* How far main() is decides what the singleton can hold.                   *)
Phases ==
  /\ cert <= Len(owner)
  /\ run = "down" => inst = "none" /\ cert = 0
  /\ run \in {"down", "login", "create"} => (cert = 0 <=> key = NoKey)
  /\ run \in {"login", "create"} =>
       /\ ~unsigned
       /\ cert # 0 => cert = Len(owner) /\ key.id = cert
  /\ run \in {"main", "exit"} => cert # 0
  /\ open => run \in {"create", "exit"} /\ cert # 0

(* The key in memory opens with the passphrase in memory, or with the one   *)
(* the option dialog is about to assign.                                    *)
KeyOpens ==
  IF dlg = NoDialog
    THEN key # NoKey => key.pass = pass
    ELSE run = "main" /\ key # NoKey /\ key.pass = dlg.pass

(* No saved identity of address e is younger than c, which is e's.          *)
Youngest(c, e) ==
  /\ c \in DOMAIN owner /\ owner[c] = e
  /\ \A id \in saved : owner[id] = e => id <= c

Own(k, c) == k # NoKey /\ k.id = c

(* What the file of e holds, and that the last complete save wrote it.      *)
File(e) ==
  Valid(e) =>
    /\ Youngest(file[e].cert, e)
    /\ e \notin spoiled => Own(file[e].key, file[e].cert)
    /\ file[e].password.for = file[e].cert
    /\ file[e].key # NoKey =>
         kept[e] = <<file[e].cert, file[e].key, file[e].key.pass,
                     file[e].password.text, file[e].contacts>>

Files == \A e \in Emails : File(e)

(* The identity of a session is the one that its file had.                  *)
Session ==
  /\ saved \subseteq DOMAIN owner
  /\ run \in {"main", "exit"} =>
       /\ Youngest(cert, owner[cert])
       /\ ~typo /\ owner[cert] \notin spoiled => Own(key, cert)
  /\ run \in {"create", "main", "exit"} /\ cert # 0 => owner[cert] = asked \/ unmade

IInv == Phases /\ KeyOpens /\ Files /\ Session
-----------------------------------------------------------------------------
USE DEF vars, memory, ghosts

MemoryTyped ==
  /\ cert \in Ids \cup {0} /\ key \in Keys \cup {NoKey}
  /\ pass \in Passes \cup {Empty} /\ pwd \in Pwds \cup {Empty}
  /\ contacts \in (SUBSET Contacts) \cup {Unparsed}
  /\ dlg \in Dialog \cup {NoDialog}

(* A process that ends leaves nothing behind, which has its type.           *)
LEMMA BackTyped ==
  ASSUME MemoryTyped, Back \/ NoMemory
  PROVE  MemoryTyped'
  BY DEF Back, NoMemory, MemoryTyped

(* What is exported is the contents of a file.                              *)
LEMMA ExportTyped ==
  ASSUME TypeOK, cert # 0
  PROVE  /\ Export \in Content
         /\ <<cert, key, pass, pwd, Export.contacts>> \in Memory
<1>1. cert \in Ids /\ Encrypt(cert, pwd) \in Sealed
  BY DEF TypeOK, Encrypt, Sealed
<1>2. Export.contacts \in SUBSET Contacts
  BY DEF TypeOK, Export
<1>3. QED
  BY <1>1, <1>2 DEF TypeOK, Export, Content, Memory

(* MakeCert adds an identity behind those there are.                        *)
LEMMA MakeCertAppends ==
  ASSUME TypeOK, NEW e \in Emails, NEW p \in Passes, Len(owner) < MaxIds,
         MakeCert(e, p)
  PROVE  /\ owner' \in Seq(Emails) /\ Len(owner') = Len(owner) + 1
         /\ owner'[Len(owner')] = e
         /\ \A i \in DOMAIN owner : owner'[i] = owner[i]
         /\ DOMAIN owner' = DOMAIN owner \cup {Len(owner')}
         /\ cert' = Len(owner') /\ cert' \in Ids
         /\ key' \in Keys /\ key'.id = cert' /\ key'.pass = p
<1>0. owner \in Seq(Emails) /\ owner' = Append(owner, e)
  BY DEF TypeOK, MakeCert
<1>1. /\ owner' \in Seq(Emails) /\ Len(owner') = Len(owner) + 1
      /\ owner'[Len(owner')] = e
      /\ \A i \in 1 .. Len(owner) : owner'[i] = owner[i]
  BY <1>0, AppendProperties
<1>2. DOMAIN owner = 1 .. Len(owner) /\ DOMAIN owner' = 1 .. Len(owner')
  BY <1>1, LenProperties DEF TypeOK
<1>3. Len(owner) \in Nat
  BY LenProperties DEF TypeOK
<1>4. cert' = Len(owner') /\ cert' \in Ids
  BY <1>1, <1>3, ProfileAssumption DEF MakeCert, Ids
<1>5. QED
  BY <1>1, <1>2, <1>3, <1>4 DEF MakeCert, Keys
-----------------------------------------------------------------------------
(* Types.                                                                   *)

LEMMA TypeStep == TypeOK /\ Phases /\ [Next]_vars => TypeOK'
<1> SUFFICES ASSUME TypeOK, Phases, [Next]_vars PROVE TypeOK'
  OBVIOUS
<1>0. MemoryTyped
  BY DEF TypeOK, MemoryTyped
<1>a. open => owner[cert] \in Emails /\ cert # 0
  BY LenProperties DEF TypeOK, Phases, Ids
<1>1. CASE Start          BY <1>1 DEF TypeOK, Start
<1>2. CASE NoLogin
  <2>1. MemoryTyped'
    BY <1>0, <1>2, BackTyped DEF NoLogin
  <2>2. QED
    BY <1>2, <2>1 DEF TypeOK, MemoryTyped, NoLogin
<1>3. CASE ConfigRest     BY <1>3 DEF TypeOK, ConfigRest, Dialog
<1>4. CASE Sign           BY <1>4 DEF TypeOK, Sign
<1>5. CASE Quit           BY <1>5 DEF TypeOK, Quit
<1>6. CASE SaveOpen       BY <1>6 DEF TypeOK, SaveOpen
<1>7. CASE SaveRefused
  <2>1. MemoryTyped'
    BY <1>0, <1>7, BackTyped DEF SaveRefused
  <2>2. QED
    BY <1>7, <2>1 DEF TypeOK, MemoryTyped, SaveRefused, Back
<1>8. CASE SaveWrite
  <2>1. MemoryTyped'
    BY <1>0, <1>8, BackTyped DEF SaveWrite
  <2>2. file' \in [Emails -> Content \cup {Absent, Torn}]
    BY <1>8, <1>a, ExportTyped DEF TypeOK, SaveWrite
  <2>3. kept' \in [Emails -> {<<>>} \cup Memory]
    BY <1>8, <1>a, ExportTyped DEF TypeOK, SaveWrite
  <2>4. saved' \subseteq Ids /\ cut' \subseteq Emails /\ spoiled' \subseteq Emails
    <3>1. spoiled' \subseteq spoiled \cup {owner[cert]}
      BY <1>8, <1>a DEF SaveWrite, Phases
    <3>2. QED
      BY <1>8, <1>a, <3>1 DEF TypeOK, SaveWrite
  <2>5. QED
    BY <1>8, <2>1, <2>2, <2>3, <2>4 DEF TypeOK, MemoryTyped, SaveWrite, Back
<1>9. CASE SaveWriteFails
  <2>1. MemoryTyped'
    BY <1>0, <1>9, BackTyped DEF SaveWriteFails
  <2>2. QED
    BY <1>9, <1>a, <2>1 DEF TypeOK, MemoryTyped, SaveWriteFails, Back
<1>10. CASE Crash
  <2>1. MemoryTyped'
    BY <1>0, <1>10, BackTyped DEF Crash
  <2>2. QED
    BY <1>10, <1>a, <2>1 DEF TypeOK, MemoryTyped, Crash
<1>11. ASSUME NEW e \in Emails, NEW p \in Passes, Login(e, p)
       PROVE  TypeOK'
  <2>1. file[e] \in Content
    BY <1>11 DEF TypeOK, Login, Valid
  <2>2. QED
    BY <1>11, <2>1 DEF TypeOK, Login, Opens, Decrypt, Content, Sealed
<1>12. ASSUME NEW e \in Emails, NEW p \in Passes, NEW w \in Pwds,
              NEW made \in BOOLEAN, CreateProfile(e, p, w, made)
       PROVE  TypeOK'
  <2>1. CASE made
    BY <1>12, <2>1, MakeCertAppends DEF TypeOK, CreateProfile
  <2>2. CASE ~made
    BY <1>12, <2>2 DEF TypeOK, CreateProfile
  <2>3. QED
    BY <2>1, <2>2
<1>13. ASSUME NEW p \in Passes \cup {Empty}, NEW w \in Pwds, ConfigAccepted(p, w)
       PROVE  TypeOK'
  BY <1>13 DEF TypeOK, ConfigAccepted, Opens, Keys, Dialog
<1>14. ASSUME NEW c \in Contacts, AddContact(c) PROVE TypeOK'
  BY <1>14 DEF TypeOK, AddContact
<1>15. ASSUME NEW c \in Contacts, RemoveContact(c) PROVE TypeOK'
  BY <1>15 DEF TypeOK, RemoveContact
<1>16. CASE UNCHANGED vars BY <1>16 DEF TypeOK
<1>17. QED
  BY <1>1, <1>2, <1>3, <1>4, <1>5, <1>6, <1>7, <1>8, <1>9, <1>10, <1>11,
     <1>12, <1>13, <1>14, <1>15, <1>16 DEF Next
-----------------------------------------------------------------------------
(* The parts of the inductive invariant.                                    *)

LEMMA PhasesStep == TypeOK /\ Phases /\ Files /\ [Next]_vars => Phases'
<1> SUFFICES ASSUME TypeOK, Phases, Files, [Next]_vars PROVE Phases'
  OBVIOUS
<1>0. Len(owner) \in Nat
  BY LenProperties DEF TypeOK
<1>1. CASE Start          BY <1>1 DEF Phases, Start
<1>2. CASE NoLogin        BY <1>0, <1>2 DEF Phases, NoLogin, NoMemory
<1>3. CASE ConfigRest     BY <1>3 DEF Phases, ConfigRest
<1>4. CASE Sign           BY <1>4 DEF Phases, Sign
<1>5. CASE Quit           BY <1>5 DEF Phases, Quit
<1>6. CASE SaveOpen       BY <1>6 DEF Phases, SaveOpen
<1>7. CASE SaveRefused    BY <1>0, <1>7 DEF Phases, SaveRefused, Back, NoMemory
<1>8. CASE SaveWrite      BY <1>0, <1>8 DEF Phases, SaveWrite, Back, NoMemory
<1>9. CASE SaveWriteFails
  BY <1>0, <1>9 DEF Phases, SaveWriteFails, Back, NoMemory
<1>10. CASE Crash         BY <1>0, <1>10 DEF Phases, Crash, NoMemory
<1>11. ASSUME NEW e \in Emails, NEW p \in Passes, Login(e, p)
       PROVE  Phases'
  <2>1. file[e].cert \in 1 .. Len(owner)
    BY <1>11, LenProperties DEF TypeOK, Login, Files, File, Youngest
  <2>2. QED
    BY <1>0, <1>11, <2>1 DEF Phases, Login
<1>12. ASSUME NEW e \in Emails, NEW p \in Passes, NEW w \in Pwds,
              NEW made \in BOOLEAN, CreateProfile(e, p, w, made)
       PROVE  Phases'
  <2>1. CASE made
    <3>1. MakeCert(e, p) /\ Len(owner) < MaxIds
      BY <1>12, <2>1 DEF CreateProfile
    <3>2. key' # NoKey /\ key'.id = cert' /\ cert' = Len(owner') /\ cert' # 0
      BY <3>1, MakeCertAppends, ProfileAssumption DEF Ids
    <3>3. cert' <= Len(owner')
      BY <1>0, <3>1, <3>2, MakeCertAppends
    <3>4. QED
      BY <1>12, <3>2, <3>3 DEF Phases, CreateProfile
  <2>2. CASE ~made
    BY <1>12, <2>2 DEF Phases, CreateProfile
  <2>3. QED
    BY <2>1, <2>2
<1>13. ASSUME NEW p \in Passes \cup {Empty}, NEW w \in Pwds, ConfigAccepted(p, w)
       PROVE  Phases'
  BY <1>13 DEF Phases, ConfigAccepted
<1>14. ASSUME NEW c \in Contacts, AddContact(c) PROVE Phases'
  BY <1>14 DEF Phases, AddContact
<1>15. ASSUME NEW c \in Contacts, RemoveContact(c) PROVE Phases'
  BY <1>15 DEF Phases, RemoveContact
<1>16. CASE UNCHANGED vars BY <1>16 DEF Phases
<1>17. QED
  BY <1>1, <1>2, <1>3, <1>4, <1>5, <1>6, <1>7, <1>8, <1>9, <1>10, <1>11,
     <1>12, <1>13, <1>14, <1>15, <1>16 DEF Next

LEMMA KeyOpensStep == TypeOK /\ KeyOpens /\ [Next]_vars => KeyOpens'
<1> SUFFICES ASSUME TypeOK, KeyOpens, [Next]_vars PROVE KeyOpens'
  OBVIOUS
<1>1. CASE Start          BY <1>1 DEF KeyOpens, Start
<1>2. CASE NoLogin        BY <1>2 DEF KeyOpens, NoLogin, NoMemory
<1>3. CASE ConfigRest     BY <1>3 DEF KeyOpens, ConfigRest
<1>4. CASE Sign           BY <1>4 DEF KeyOpens, Sign
<1>5. CASE Quit           BY <1>5 DEF KeyOpens, Quit
<1>6. CASE SaveOpen       BY <1>6 DEF KeyOpens, SaveOpen
<1>7. CASE SaveRefused    BY <1>7 DEF KeyOpens, SaveRefused, Back, NoMemory
<1>8. CASE SaveWrite      BY <1>8 DEF KeyOpens, SaveWrite, Back, NoMemory
<1>9. CASE SaveWriteFails BY <1>9 DEF KeyOpens, SaveWriteFails, Back, NoMemory
<1>10. CASE Crash         BY <1>10 DEF KeyOpens, Crash, NoMemory
<1>11. ASSUME NEW e \in Emails, NEW p \in Passes, Login(e, p)
       PROVE  KeyOpens'
  BY <1>11 DEF KeyOpens, Login, Opens
<1>12. ASSUME NEW e \in Emails, NEW p \in Passes, NEW w \in Pwds,
              NEW made \in BOOLEAN, CreateProfile(e, p, w, made)
       PROVE  KeyOpens'
  BY <1>12 DEF KeyOpens, CreateProfile, MakeCert
<1>13. ASSUME NEW p \in Passes \cup {Empty}, NEW w \in Pwds, ConfigAccepted(p, w)
       PROVE  KeyOpens'
  <2>1. CASE p \notin {pass, Empty} /\ Opens(key, pass)
    <3>1. key' \in Keys /\ key'.pass = p
      BY <1>13, <2>1 DEF TypeOK, ConfigAccepted, Opens, Keys
    <3>2. dlg' \in Dialog /\ dlg'.pass = p
      BY <1>13, <2>1 DEF ConfigAccepted, Dialog
    <3>3. QED
      BY <1>13, <3>1, <3>2, ProfileAssumption DEF KeyOpens, ConfigAccepted
  <2>2. CASE ~(p \notin {pass, Empty} /\ Opens(key, pass))
    BY <1>13, <2>2 DEF KeyOpens, ConfigAccepted
  <2>3. QED
    BY <2>1, <2>2
<1>14. ASSUME NEW c \in Contacts, AddContact(c) PROVE KeyOpens'
  BY <1>14 DEF KeyOpens, AddContact
<1>15. ASSUME NEW c \in Contacts, RemoveContact(c) PROVE KeyOpens'
  BY <1>15 DEF KeyOpens, RemoveContact
<1>16. CASE UNCHANGED vars BY <1>16 DEF KeyOpens
<1>17. QED
  BY <1>1, <1>2, <1>3, <1>4, <1>5, <1>6, <1>7, <1>8, <1>9, <1>10, <1>11,
     <1>12, <1>13, <1>14, <1>15, <1>16 DEF Next

(* A step that leaves the file of e alone, and saves no younger identity of *)
(* e, leaves File(e) alone.                                                 *)
LEMMA FileKept ==
  ASSUME TypeOK, NEW e \in Emails, File(e),
         file'[e] = file[e], kept'[e] = kept[e], e \in spoiled => e \in spoiled',
         DOMAIN owner \subseteq DOMAIN owner',
         \A i \in DOMAIN owner : owner'[i] = owner[i],
         saved \subseteq DOMAIN owner,
         \A id \in saved' : owner'[id] = e => id \in saved
  PROVE  File(e)'
  BY DEF File, Valid, Youngest, Own

LEMMA FilesStep ==
  TypeOK /\ Phases /\ KeyOpens /\ Files /\ Session /\ [Next]_vars => Files'
<1> SUFFICES ASSUME TypeOK, Phases, KeyOpens, Files, Session, [Next]_vars,
                    NEW e \in Emails
             PROVE  File(e)'
  BY DEF Files
<1>0. /\ DOMAIN owner = 1 .. Len(owner) /\ Len(owner) \in Nat
      /\ saved \subseteq DOMAIN owner /\ File(e)
  BY LenProperties DEF TypeOK, Session, Files
<1>1. CASE UNCHANGED <<file, owner, saved, kept, spoiled>>
  BY <1>0, <1>1, FileKept
<1>2. CASE SaveOpen
  <2>1. CASE e = owner[cert]
    BY <1>2, <2>1 DEF SaveOpen, TypeOK, File, Valid
  <2>2. CASE e # owner[cert]
    BY <1>0, <1>2, <2>2, FileKept DEF SaveOpen, TypeOK
  <2>3. QED
    BY <2>1, <2>2
<1>3. CASE SaveWrite
  <2>1. /\ cert \in DOMAIN owner /\ owner[cert] \in Emails
        /\ run \in {"create", "exit"} /\ dlg = NoDialog
    BY <1>0, <1>3 DEF SaveWrite, Phases, TypeOK, Ids, KeyOpens
  <2>2. CASE e # owner[cert]
    <3>1. file'[e] = file[e] /\ kept'[e] = kept[e] /\ owner' = owner
      BY <1>3, <2>2 DEF SaveWrite, TypeOK
    <3>2. e \in spoiled => e \in spoiled'
      BY <1>3, <2>1, <2>2 DEF SaveWrite
    <3>3. \A id \in saved' : owner'[id] = e => id \in saved
      BY <1>3, <2>2 DEF SaveWrite
    <3>4. QED
      BY <1>0, <3>1, <3>2, <3>3, FileKept
  <2>3. CASE e = owner[cert]
    <3>1. /\ file'[e] = Export /\ owner' = owner
          /\ kept'[e] = <<cert, key, pass, pwd, Export.contacts>>
      BY <1>3, <2>3 DEF SaveWrite, TypeOK
    <3>2. \A id \in saved : owner[id] = e => id <= cert
      BY <1>0, <2>1, <2>3 DEF Phases, Session, Youngest
    <3>3. /\ cert \in DOMAIN owner' /\ owner'[cert] = e
          /\ \A id \in saved' : owner'[id] = e => id <= cert
      <4>1. saved' \subseteq saved \cup {cert}
        BY <1>3 DEF SaveWrite
      <4>2. cert <= cert
        BY <1>0, <2>1
      <4>3. QED
        BY <2>1, <2>3, <3>1, <3>2, <4>1, <4>2
    <3>4. e \notin spoiled' => Own(key, cert)
      BY <1>3, <2>1, <2>3 DEF SaveWrite, Phases, Session, Own
    <3>5. key # NoKey => key.pass = pass
      BY <2>1 DEF KeyOpens
    <3>6. QED
      BY <3>1, <3>3, <3>4, <3>5 DEF File, Own, Youngest, Export, Encrypt
  <2>4. QED
    BY <2>2, <2>3
<1>4. ASSUME NEW a \in Emails, NEW p \in Passes, NEW w \in Pwds,
             NEW made \in BOOLEAN, CreateProfile(a, p, w, made)
      PROVE  File(e)'
  <2>1. CASE made
    <3>1. MakeCert(a, p) /\ Len(owner) < MaxIds
      BY <1>4, <2>1 DEF CreateProfile
    <3>2. QED
      BY <1>0, <1>4, <3>1, MakeCertAppends, FileKept DEF CreateProfile
  <2>2. CASE ~made
    BY <1>0, <1>4, <2>2, FileKept DEF CreateProfile
  <2>3. QED
    BY <2>1, <2>2
<1>5. QED
  <2>1. SUFFICES ASSUME Next PROVE File(e)'
    BY <1>1
  <2>2. \/ SaveOpen \/ SaveWrite
        \/ \E a \in Emails, p \in Passes, w \in Pwds, made \in BOOLEAN :
             CreateProfile(a, p, w, made)
        \/ UNCHANGED <<file, owner, saved, kept, spoiled>>
    BY DEF Next, Start, NoLogin, ConfigRest, Sign, Quit, SaveRefused,
           SaveWriteFails, Crash, Login, ConfigAccepted, AddContact,
           RemoveContact
  <2>3. QED
    BY <1>1, <1>2, <1>3, <1>4, <2>2

LEMMA SessionStep ==
  TypeOK /\ Phases /\ Files /\ Session /\ [Next]_vars => Session'
<1> SUFFICES ASSUME TypeOK, Phases, Files, Session, [Next]_vars
             PROVE  Session'
  OBVIOUS
<1>0. /\ DOMAIN owner = 1 .. Len(owner) /\ Len(owner) \in Nat
      /\ saved \subseteq DOMAIN owner
      /\ cert # 0 => cert \in DOMAIN owner
  BY LenProperties DEF TypeOK, Session, Phases, Ids
<1>1. CASE Start          BY <1>1 DEF Session, Start
<1>2. CASE NoLogin        BY <1>2 DEF Session, NoLogin, NoMemory
<1>3. CASE ConfigRest     BY <1>3 DEF Session, ConfigRest, Youngest, Own
<1>4. CASE Sign           BY <1>4 DEF Session, Sign, Youngest, Own
<1>5. CASE Quit           BY <1>5 DEF Session, Quit, Youngest, Own
<1>6. CASE SaveOpen       BY <1>6 DEF Session, SaveOpen, Youngest, Own
<1>7. CASE SaveRefused
  BY <1>7 DEF Session, SaveRefused, Back, NoMemory
<1>8. CASE SaveWrite
  BY <1>0, <1>8 DEF Session, Phases, SaveWrite, Back, NoMemory
<1>9. CASE SaveWriteFails
  BY <1>9 DEF Session, SaveWriteFails, Back, NoMemory
<1>10. CASE Crash         BY <1>10 DEF Session, Crash, NoMemory
<1>11. ASSUME NEW e \in Emails, NEW p \in Passes, Login(e, p)
       PROVE  Session'
  <2>1. /\ Youngest(file[e].cert, e)
        /\ e \notin spoiled => Own(file[e].key, file[e].cert)
    BY <1>11 DEF Files, File, Login
  <2>2. /\ cert' = file[e].cert /\ owner' = owner /\ saved' = saved
        /\ spoiled' = spoiled /\ run' = "main" /\ asked' = e
        /\ ~typo' => key' = file[e].key
    BY <1>11 DEF Login
  <2>3. Youngest(cert, owner[cert])'
    BY <2>1, <2>2 DEF Youngest
  <2>4. ~typo' /\ owner'[cert'] \notin spoiled' => Own(key', cert')
    BY <2>1, <2>2 DEF Youngest
  <2>5. QED
    BY <1>0, <2>1, <2>2, <2>3, <2>4 DEF Session, Own, Youngest
<1>12. ASSUME NEW e \in Emails, NEW p \in Passes, NEW w \in Pwds,
              NEW made \in BOOLEAN, CreateProfile(e, p, w, made)
       PROVE  Session'
  <2>1. run' = "create" /\ saved' = saved /\ asked' = e
    BY <1>12 DEF CreateProfile
  <2>2. CASE made
    <3>1. MakeCert(e, p) /\ Len(owner) < MaxIds
      BY <1>12, <2>2 DEF CreateProfile
    <3>2. DOMAIN owner \subseteq DOMAIN owner' /\ owner'[cert'] = e
      BY <3>1, MakeCertAppends
    <3>3. QED
      BY <1>0, <2>1, <3>2 DEF Session
  <2>3. CASE ~made
    BY <1>0, <1>12, <2>1, <2>3 DEF Session, CreateProfile
  <2>4. QED
    BY <2>2, <2>3
<1>13. ASSUME NEW p \in Passes \cup {Empty}, NEW w \in Pwds, ConfigAccepted(p, w)
       PROVE  Session'
  <2>1. CASE p \notin {pass, Empty} /\ Opens(key, pass)
    <3>1. key' \in Keys /\ key'.id = key.id
      BY <1>13, <2>1 DEF TypeOK, ConfigAccepted, Opens, Keys
    <3>2. QED
      BY <1>13, <3>1, ProfileAssumption DEF Session, ConfigAccepted, Youngest, Own
  <2>2. CASE ~(p \notin {pass, Empty} /\ Opens(key, pass))
    BY <1>13, <2>2 DEF Session, ConfigAccepted, Youngest, Own
  <2>3. QED
    BY <2>1, <2>2
<1>14. ASSUME NEW c \in Contacts, AddContact(c) PROVE Session'
  BY <1>14 DEF Session, AddContact, Youngest, Own
<1>15. ASSUME NEW c \in Contacts, RemoveContact(c) PROVE Session'
  BY <1>15 DEF Session, RemoveContact, Youngest, Own
<1>16. CASE UNCHANGED vars BY <1>16 DEF Session, Youngest, Own
<1>17. QED
  BY <1>1, <1>2, <1>3, <1>4, <1>5, <1>6, <1>7, <1>8, <1>9, <1>10, <1>11,
     <1>12, <1>13, <1>14, <1>15, <1>16 DEF Next
-----------------------------------------------------------------------------
LEMMA Initially == Init => TypeOK /\ IInv
<1> SUFFICES ASSUME Init PROVE TypeOK /\ IInv
  OBVIOUS
<1>1. <<>> \in Seq(Emails) /\ Len(<<>>) = 0
  OBVIOUS
<1>2. TypeOK
  BY <1>1 DEF Init, TypeOK
<1>3. Phases /\ KeyOpens /\ Session
  BY <1>1 DEF Init, Phases, KeyOpens, Session
<1>4. Files
  BY DEF Init, Files, File, Valid
<1>5. QED
  BY <1>2, <1>3, <1>4 DEF IInv

LEMMA InductiveStep == TypeOK /\ IInv /\ [Next]_vars => (TypeOK /\ IInv)'
  BY TypeStep, PhasesStep, KeyOpensStep, FilesStep, SessionStep DEF IInv

(* Every reachable state is typed, and in every one the file of an address  *)
(* holds what its last complete save wrote, and main() the identity of the  *)
(* file it loaded.                                                          *)
THEOREM InvariantHolds == Spec => [](TypeOK /\ IInv)
  BY Initially, InductiveStep, PTL DEF Spec

(* Files, memory and history always hold values of their types.             *)
THEOREM TypeCorrect == Spec => []TypeOK
  BY InvariantHolds, PTL
-----------------------------------------------------------------------------
(* The properties.                                                          *)

(* KeyKept of one identity.                                                 *)
Kept(id) ==
  LET e == owner[id]
  IN \/ Valid(e) /\ file[e].key # NoKey /\ file[e].key.id = id
     \/ \E later \in DOMAIN owner : later > id /\ owner[later] = e
     \/ e \in cut \cup spoiled
     \/ open /\ owner[cert] = e

(* Generating keys and spoiling files never invalidates the reasons there   *)
(* were for an identity not to be in its file any more.                     *)
LEMMA KeptStays ==
  ASSUME TypeOK, NEW id \in DOMAIN owner, Kept(id),
         file'[owner[id]] = file[owner[id]],
         DOMAIN owner \subseteq DOMAIN owner',
         \A i \in DOMAIN owner : owner'[i] = owner[i],
         owner[id] \in cut \cup spoiled => owner[id] \in cut' \cup spoiled',
         open /\ owner[cert] = owner[id] =>
           \/ open' /\ owner'[cert'] = owner'[id]
           \/ owner[id] \in cut' \cup spoiled'
  PROVE  Kept(id)'
  BY DEF Kept, Valid

LEMMA KeyKeptStep ==
  TypeOK /\ IInv /\ KeyKept /\ [Next]_vars => KeyKept'
<1> SUFFICES ASSUME TypeOK, IInv, KeyKept, [Next]_vars, NEW id \in saved'
             PROVE  Kept(id)'
  BY DEF KeyKept, Kept
<1>0. /\ DOMAIN owner = 1 .. Len(owner) /\ Len(owner) \in Nat
      /\ saved \subseteq DOMAIN owner
      /\ Phases /\ KeyOpens /\ Files /\ Session
      /\ open => cert \in DOMAIN owner /\ run \in {"create", "exit"}
  BY LenProperties DEF TypeOK, IInv, Session, Phases, Ids
<1>1. id \in saved => id \in DOMAIN owner /\ Kept(id)
  BY <1>0 DEF KeyKept, Kept
<1>2. CASE UNCHANGED <<file, owner, saved, cut, spoiled>> /\ ~open
  BY <1>0, <1>1, <1>2, KeptStays
<1>3. CASE SaveOpen
  <2>1. id \in DOMAIN owner /\ Kept(id)
    BY <1>1, <1>3 DEF SaveOpen
  <2>2. CASE owner[id] = owner[cert]
    BY <1>3, <2>2 DEF SaveOpen, Kept
  <2>3. CASE owner[id] # owner[cert]
    BY <1>0, <1>3, <2>1, <2>3, KeptStays DEF SaveOpen, TypeOK
  <2>4. QED
    BY <2>2, <2>3
<1>4. CASE SaveWrite
  <2>1. /\ cert \in DOMAIN owner /\ owner' = owner /\ owner[cert] \in Emails
        /\ cert # 0 /\ run \in {"create", "exit"}
    BY <1>0, <1>4 DEF SaveWrite, TypeOK
  <2>2. id \in DOMAIN owner
    BY <1>0, <1>4, <2>1 DEF SaveWrite
  <2>3. CASE owner[id] # owner[cert]
    <3>1. id \in saved /\ Kept(id)
      BY <1>1, <1>4, <2>3 DEF SaveWrite
    <3>2. file'[owner[id]] = file[owner[id]]
      BY <1>4, <2>3 DEF SaveWrite, TypeOK
    <3>3. owner[id] \in cut \cup spoiled => owner[id] \in cut' \cup spoiled'
      BY <1>0, <1>4, <2>3 DEF SaveWrite
    <3>4. QED
      BY <2>1, <2>2, <2>3, <3>1, <3>2, <3>3, KeptStays
  <2>4. CASE owner[id] = owner[cert] /\ id # cert
    <3>1. id \in saved
      BY <1>4, <2>4 DEF SaveWrite
    <3>2. id <= cert
      BY <1>0, <2>1, <2>2, <2>4, <3>1 DEF Session, Phases, Youngest
    <3>3. cert > id
      BY <1>0, <2>1, <2>2, <2>4, <3>2
    <3>4. QED
      BY <2>1, <2>4, <3>3 DEF Kept
  <2>5. CASE id = cert /\ Own(key, cert)
    <3>1. file'[owner[cert]] = Export
      BY <1>4, <2>1 DEF SaveWrite, TypeOK
    <3>2. Export \notin {Absent, Torn} /\ Export.key = key
      BY <1>0, <1>4, <2>1, ExportTyped, ProfileAssumption DEF Export
    <3>3. QED
      BY <2>1, <2>5, <3>1, <3>2 DEF Kept, Valid, Own
  <2>6. CASE id = cert /\ ~Own(key, cert)
    <3>1. run = "exit" /\ (typo \/ owner[cert] \in spoiled)
      BY <1>0, <1>4, <2>1, <2>6 DEF Phases, Session, Own
    <3>2. owner[cert] \in spoiled'
      BY <1>4, <3>1 DEF SaveWrite
    <3>3. QED
      BY <2>1, <2>6, <3>2 DEF Kept
  <2>7. QED
    BY <2>3, <2>4, <2>5, <2>6
<1>5. CASE SaveWriteFails
  BY <1>0, <1>1, <1>5, KeptStays DEF SaveWriteFails
<1>6. CASE Crash
  BY <1>0, <1>1, <1>6, KeptStays DEF Crash
<1>7. ASSUME NEW e \in Emails, NEW p \in Passes, NEW w \in Pwds,
             NEW made \in BOOLEAN, CreateProfile(e, p, w, made)
      PROVE  Kept(id)'
  <2>1. /\ DOMAIN owner \subseteq DOMAIN owner'
        /\ \A i \in DOMAIN owner : owner'[i] = owner[i]
    <3>1. CASE made
      BY <1>7, <3>1, MakeCertAppends DEF CreateProfile
    <3>2. CASE ~made
      BY <1>7, <3>2 DEF CreateProfile
    <3>3. QED
      BY <3>1, <3>2
  <2>2. ~open
    BY <1>0, <1>7 DEF CreateProfile
  <2>3. QED
    BY <1>1, <1>7, <2>1, <2>2, KeptStays DEF CreateProfile
<1>8. CASE UNCHANGED <<file, owner, saved, cut, spoiled, open, cert>>
  BY <1>0, <1>1, <1>8, KeptStays
<1>9. QED
  <2>1. SUFFICES ASSUME Next PROVE Kept(id)'
    BY <1>8
  <2>2. \/ SaveOpen \/ SaveWrite \/ SaveWriteFails \/ Crash
        \/ \E e \in Emails, p \in Passes, w \in Pwds, made \in BOOLEAN :
             CreateProfile(e, p, w, made)
        \/ UNCHANGED <<file, owner, saved, cut, spoiled>> /\ ~open
        \/ UNCHANGED <<file, owner, saved, cut, spoiled, open, cert>>
    BY <1>0 DEF Next, Start, NoLogin, ConfigRest, Sign, Quit, SaveRefused,
                Login, ConfigAccepted, AddContact, RemoveContact
  <2>3. QED
    BY <1>2, <1>3, <1>4, <1>5, <1>6, <1>7, <1>8, <2>2

(* A private key that was saved is lost to no sequence of logins, profiles, *)
(* saves and kills but the ones KeyKept names.                              *)
THEOREM KeyIsKept == Spec => []KeyKept
<1>1. Init => KeyKept
  BY DEF Init, KeyKept
<1>2. QED
  BY <1>1, KeyKeptStep, InvariantHolds, PTL DEF Spec

(* A session opened with the right passphrase has its private key.          *)
THEOREM SessionHasKey == Spec => []SessionOwnsKey
<1>1. TypeOK /\ IInv => SessionOwnsKey
  BY DEF IInv, Session, KeyOpens, SessionOwnsKey, Own, Opens
<1>2. QED
  BY <1>1, InvariantHolds, PTL

LEMMA SignsStep ==
  TypeOK /\ IInv /\ SignsUnderLock /\ [Next]_vars => SignsUnderLock'
<1> SUFFICES ASSUME Phases, KeyOpens, SignsUnderLock, [Next]_vars
             PROVE  SignsUnderLock'
  BY DEF IInv
<1>1. CASE Sign
  BY <1>1 DEF Sign, KeyOpens, Opens, SignsUnderLock
<1>2. CASE UNCHANGED vars
  BY <1>2 DEF SignsUnderLock
<1>3. CASE ~Sign /\ Next
  BY <1>3 DEF Next, Start, NoLogin, ConfigRest, Quit, SaveOpen, SaveRefused,
     SaveWrite, SaveWriteFails, Crash, Login, CreateProfile, ConfigAccepted,
     AddContact, RemoveContact, Back, Phases, SignsUnderLock
<1>4. QED
  BY <1>1, <1>2, <1>3

(* While the locks exist, Sign never meets a key that its passphrase does   *)
(* not open.                                                                *)
THEOREM SignaturesUnderLock == Spec => []SignsUnderLock
<1>1. Init => SignsUnderLock
  BY DEF Init, SignsUnderLock
<1>2. QED
  BY <1>1, SignsStep, InvariantHolds, PTL DEF Spec
-----------------------------------------------------------------------------
LEMMA LoginStep ==
  TypeOK /\ IInv /\ [Next]_vars =>
    (run = "login" /\ run' = "main" /\ ~typo' /\ asked' \notin spoiled
       => memory' = kept[asked'])
<1> SUFFICES ASSUME TypeOK, Files, [Next]_vars, run = "login", run' = "main",
                    ~typo', asked' \notin spoiled
             PROVE  memory' = kept[asked']
  BY DEF IInv
<1>1. PICK e \in Emails, p \in Passes : Login(e, p)
  BY DEF Next, Start, NoLogin, ConfigRest, Sign, Quit, SaveOpen, SaveRefused,
     SaveWrite, SaveWriteFails, Crash, CreateProfile, ConfigAccepted,
     AddContact, RemoveContact, Back
<1>2. /\ asked' = e /\ Opens(file[e].key, p)
      /\ cert' = file[e].cert /\ key' = file[e].key /\ pass' = p
      /\ pwd' = Decrypt(file[e].password, cert', key', pass')
      /\ contacts' = file[e].contacts
  BY <1>1 DEF Login
<1>3. File(e) /\ Valid(e)
  BY <1>1 DEF Files, Login
<1>4. Own(key', cert') /\ file[e].password.for = cert'
  BY <1>2, <1>3 DEF File
<1>5. pwd' = file[e].password.text
  BY <1>2, <1>4 DEF Decrypt, Own
<1>6. kept[e] = <<file[e].cert, file[e].key, file[e].key.pass,
                  file[e].password.text, file[e].contacts>>
  BY <1>2, <1>3 DEF File, Opens
<1>7. QED
  BY <1>2, <1>5, <1>6 DEF Opens

(* The right passphrase brings back the memory of the last complete save.   *)
THEOREM LoginIsFaithful == Spec => LoginRestores
  BY LoginStep, InvariantHolds, PTL DEF Spec, LoginRestores

LEMMA AskedStep ==
  TypeOK /\ IInv /\ [Next]_vars =>
    \A e \in Emails : file'[e] # file[e] => e = asked \/ unmade
<1> SUFFICES ASSUME TypeOK, Phases, Session, [Next]_vars, NEW e \in Emails,
                    file'[e] # file[e]
             PROVE  e = asked \/ unmade
  BY DEF IInv
<1>1. SaveOpen \/ SaveWrite
  BY DEF Next, Start, NoLogin, ConfigRest, Sign, Quit, SaveRefused,
     SaveWriteFails, Crash, Login, CreateProfile, ConfigAccepted, AddContact,
     RemoveContact
<1>2. e = owner[cert] /\ cert # 0 /\ run \in {"create", "exit"}
  BY <1>1 DEF SaveOpen, SaveWrite, Phases, TypeOK
<1>3. QED
  BY <1>2 DEF Session

(* A save writes the file of the address the user named last, or MakeCert   *)
(* failed in this process.                                                  *)
THEOREM SavesOnlyAsked == Spec => SavesAskedOnly
  BY AskedStep, InvariantHolds, PTL DEF Spec, SavesAskedOnly
=============================================================================
