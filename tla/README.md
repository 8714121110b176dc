# BitMail: specifications of the Qt client

BitMail is a chat client on top of e-mail: messages are S/MIME mails, sent over
SMTP and fetched over IMAP with libcurl, signed and sealed with X.509
certificates that users exchange by talking to each other. This directory holds
TLA+ specifications of the parts of the Qt client where state is shared between
threads, kept between runs, or relied on by another client. Paths below are those
of the repository.

## The system

| Part | State | Operations | Talks to |
|---|---|---|---|
| Outgoing queue and transmit thread (`qt/msgqueue.h`, `qt/txthread.cpp`) | `m_q`, two semaphores, the stop flag | `onSendMessage`, `readable`/`writable`, `push`, `pop`, `run`, `stop` | GUI thread (signal `readyToSend`), `BitMail::Tx`, network settings |
| Receive thread and IMAP client (`qt/rxthread.cpp`, `core/src/email.cpp`) | stop flag, the list of unseen numbers, libcurl's connections | `run`, `Rx` = `GetUnseen`, then `GetMsg`, `EmailHandler`, two `StoreFlag` per message; `Expunge` at the end | IMAP server, GUI thread (signal `gotMessage`) |
| Profile and key (`core/src/bitmail.cpp`, `core/src/x509cert.cpp`, `qt/main.cpp`, `qt/logindialog.cpp`) | certificate, encrypted key, passphrase, network password, contacts; one JSON file per address | `Genesis`, `Import`, `Export`, `UpdatePassphrase`, `LoadProfile`, `SaveProfile` | login and option dialogs, transmit thread (`Sign`) |
| Conversations and encryption policy (`core/src/bitmail.cpp`, `qt/mainwindow.cpp`, `qt/messagedialog.cpp`) | certificates of contacts, block policy | `SendTo`, `Encrypt`, `Decrypt`, `onNewMessage`, `contattrib`, `removeContact` | both threads, other users' clients |
| Sessions and the main window (`qt/mainwindow.cpp`, `qt/procth.cpp`, the group, message, certificate and invitation dialogs) | contacts, the tree of friends and groups, the current session, a queue of messages per session, running helper programs | `onNewMessage`, `onCurrentTreeItemChanged`, `populateTree`, the buttons that send, `onProcThDone`, `addContact`, `removeContact` | transmit thread, receive thread's signals, helper processes |
| MIME text (`qt/main.cpp`, `OnTxfer`/`OnRxfer` in `core/src/email.cpp`, `core/src/multipart.cpp`) | position in the mail sent, buffer of the mail received, the parser's line state | `toMixed`, `toMimeAttachment`, the callbacks, `mime_parse_hdr`, `multi_split` | libcurl, both threads |
| Shutdown (`qt/mainwindow.cpp`, `qt/main.cpp`) | the thread pointers, the tray icon, the shutdown dialog, the event queue | `closeEvent`, `quit`, `onRxDone`, `onTxDone`, `SaveProfile`, `freeInst` | both threads |
| Locks (`qt/lock.cpp`, `ScopedLock`) | `m_lockProfile`, `m_lockContacts`, the mail client's lock | `Lock`, `Unlock` | every part above; absent when the instance was made by the login dialog |

What makes it hard: three threads share one `BitMail` singleton and its settings
with a lock per access but none across accesses; nearly every result of a network
operation is dropped by its caller; IMAP messages are named by sequence numbers
that last only as long as a connection; where the desktop has no system tray the
first message reported kills the process; the only copy of the private key is in a
file rewritten in place; threads outlive the objects they use when shutdown is cut
short; a dialog runs an event loop of its own, so messages arrive in the middle of
a handler; and an address has two spellings, the one in the certificate and the one
`decodeReceips` makes of it. `PROJECT.json` lists each hazard at its line with the
properties that cover it.

## Modules

**TxQueue** (with **TxChannel**, proofs in **TxQueue_proofs**). The GUI thread
hands messages to the transmit thread. `gui` and `tx` are the program counters
inside `SendTo` and `TxThread::run`; each semaphore operation, each critical
section of the queue's mutex and each locked getter of the settings is one
action. A message is the number of its submission. `SetupNetwork(fields)` may
change the settings between any two steps of the thread; `ShutdownNetwork` and
`OnTxDone` are the slots that stop and delete the thread, after which `SendTo`
emits to nobody. History variables record what became of every message. TxChannel
is what a sender may rely on: a bounded FIFO that refuses a message only when it
is full, or one short of it. Under the mapping at the end of TxQueue
(`fifo <- queue`, `out <- popped`, ...), TxQueue implements it (`ChannelSpec`).

**MailRx** (proofs in **MailRx_proofs**). `RxThread::run` and `CMailClient::Rx`, one action per IMAP command,
each with a failing counterpart, because the code uses none of the results. The
inbox, the numbering of an open connection (`view`), lost connections, arriving
mail and the user's other mail clients are external: they are what the commands
the code sends assume of a server; an inbox is in the order of arrival, which is
what IMAP's numbers say. `meant` remembers which message each listed
number stood for; `astray` records a command that reached another. A message counts
as handled when it was given to `EmailHandler`, also one that the handler refuses or
that the window then does not show (Shutdown).

**Profile** (proofs in **Profile_proofs**). Several runs of the program in a row: the login dialog creates
profiles or picks one, the session changes passphrase, network password and
contacts, and the file is truncated and rewritten at the end. A key is an
identity and the passphrase that encrypts it; `Opens`, `Encrypt` and `Decrypt` are
what OpenSSL does with them. The singleton that `createProfile` leaves behind,
without locks and with another identity in it, is part of the state that `Login`
starts from. `SetPassphrase` is two steps, so `Sign` can fall between them when
there is no lock.

**Chat**, instantiated by **MCChat** (proofs in **Chat_proofs**). Several clients. `SendTo` names a session
by normalised addresses; `EncryptSign`, one `EncryptLookup` per member and
`Transmit` are the steps of the transmit thread between which the GUI thread may
make or remove a friend; `EmailHandler` and `OnNewMessage` are the receiving side
with the block policy. The constants `Addr`, `Norm` and `Owner` say what
`decodeReceips` makes of an address and whose mailbox an address means.

**Shutdown** (proofs in **Shutdown_proofs**). `quit`, the dialog's own event loop, the two queued `done()`
signals, `SaveProfile` and `freeInst`, against threads that may be anywhere in
`run()`. A thread is reduced to whether it is inside a call on the instance. Two
things end the process early. A `QThread` that is deleted while it still runs aborts
it (`gui = "abort"`). And `onNewMessage` first calls `showTrayMessage`
(`qt/mainwindow.cpp:1067`), which dereferences `trayIcon` whatever it is (line 1516);
without a system tray it is NULL (line 235), and the first message, which the server
then loses, is a crash (`gui = "crash"`). `tray` is chosen at the start, since only
without one does closing the window quit.

**Locks**, instantiated by **MCLocks** (proofs in **Locks_proofs**). What TxQueue,
Profile, Chat and Sessions take for granted: that a critical section is one step.
Every section of the core is a sequence of steps that lock, unlock, read or write
one member; the GUI thread and any number of network threads run them in any
order, with the locks or, for an instance made by the login dialog, without.
Values are version numbers, the number of the section that wrote them, so that a
reader which sees halves of two writes sees two numbers.

**Sessions**, instantiated by **MCSessions** (proofs in **Sessions_proofs**). One
window: a handler is a step, but a dialog is a state in which messages arrive and
helpers end. A session is the set of its members as `decodeReceips` leaves them,
a leaf of the tree the contact it was made for. The model keeps some odd
consequences of the code that no property forbids: an emoji dialog that is
cancelled sends an empty message (`qt/mainwindow.cpp:841`), an invitation that
names no address leaves a leaf for nobody, a group cut down to one member gets a
contact but no leaf until the tree is rebuilt, and a contact filed under an
address with capitals cannot be removed from the certificate dialog. An empty
comment or group name files no contact but still announces a change
(`FileUnlessEmpty`). Sessions and Chat are about a window with a system tray; without
one it does not outlive its first message (Shutdown).

**Mime**, instantiated by **MCMime** (proofs in **Mime_proofs**). One mail from the
editor to the parser. Text is a sequence of the tokens that the parser tells apart.
libcurl asks for and delivers pieces of any size, OpenSSL leaves the text alone or
makes its line ends canonical, `BIO_gets` cuts lines that are too long, and
`multi_split` counts its parts in a `char`. `Canon` and the document itself are the
reference. Mail of other clients is parsed too (`OtherText`): with text around the
parts, cut off on its way, with a last part in which no line follows the boundary, or
with no part at all. The last two may be empty of lines altogether, and then
`multi_split` has a NULL for a part, which nothing tests (`NoNullPart`); that happens
in no other mail (`NullOnlyWithoutParts`). The parser is followed to the end of
`multi_split`, not into the dereference.

`MimeAssumption` says of a part that it does not contain the boundary, a
fresh UUID, and has its CRs at line ends only, as `toMimeTextPlain` and the like write
them and RFC 5322 asks of others. The second matters: where `BIO_gets` cuts a line
just after a lone CR, `strip_eol` takes that CR away, and `multi_split` puts nothing
back. It also says that BitMail composes no document without parts: every caller of
`toMixed` adds one or leaves. Of foreign mail this leaves out lone CRs, a boundary
that is the beginning of some other line, boundaries without a line behind them
elsewhere than at the end, boundaries too long for a line, and headers other
than the one with the boundary.

Each module starts with a few mutated forms of its own steps: plausible bugs, each
of which breaks one of the properties. They are not part of the specification;
`PROJECT.json` ("mutants") names which property each breaks.

## Runs

| Run | Bounds | What it shows |
|---|---|---|
| `TxQueue` | queue of 2, 4 messages | semaphores and queue always agree; `pop` never finds the queue empty; order; every message accounted for; drops only when full; at most one pop after `stop`; refinement of TxChannel; `stop` ends the thread; with complete settings every accepted message is attempted, otherwise exactly the messages whose permits were given up stay behind |
| `MailRx_safety` | 2 accounts, 3 messages, 2 adverse events | numbers go astray only after a switch of account or a removal by another client; a deleted message was handled unless its download failed or one of those happened; nothing is handled twice |
| `MailRx_live` | 2 accounts, 2 messages, 1 adverse event | mail is handled; failures do not keep it unseen for ever; `stop` ends the thread |
| `Profile` | 2 addresses, 2 passphrases, 2 passwords, 1 contact, 2 generated keys | a saved key is lost only in the ways listed in `KeyKept`; login restores what was saved; a session owns its key; saves go to the right file; signatures are not lost while locks exist |
| `Shutdown` | 2 mails | the instance is freed after both threads ended, and mail reported is shown, unless the user closes the dialog; quitting ends with the profile saved, unless a thread takes a second to end or a message reported before kills a process without a tray |
| `Locks` | GUI and 2 network threads, 1 section that writes | with locks there is no data race, settings and secrets are read whole; and nobody waits in a circle |
| `Mime` | some 800 documents, 400 file names, pieces of 1 or 2 tokens | the receiver gets the parts that were sent, changed in their line ends only; file names survive, or are cut short in the ways named; only a foreign mail without a line in any part has a NULL part; no loop stands still |
| `Sessions` | 3 addresses of which 2 are spellings of one, 2 messages, 1 helper, sessions of 1 or 2 | the messages shown are the current session's; who was heard has a leaf until removed; leaves and contacts agree; files, recordings and messages go to the session they were made for |
| `Chat` | 3 users, 2 messages, sessions of 1 or 2 | sealing for friends and answering reach everyone whose address survives normalisation |
| `Mime_null` | as `Mime` | violated: a closing boundary before any line of a part is split into NULL |
| `Chat_group` | | violated: a group message may leave in clear text |
| `Chat_friends` | | violated: a message to a friend with, say, a hyphen in the address leaves in clear text |

The bounds. A queue of two places has all the states that matter to the
semaphores (empty, partly filled, full, one place in transit), four messages fill
it twice over. Three mails and two faults allow a listed number to have a
neighbour on both sides and one fault to hide another. Two addresses and two keys
are enough for every overwriting of one identity by another; a third address would
only be a bystander. Of the three addresses in Chat one is left alone by
`decodeReceips`, one is changed and still means its owner, one is changed and means
nobody; sessions of two distinguish groups from single addressees. A section that
writes can be torn by any reader, so one write is enough to see halves; two
network threads are enough for a cycle of three. The limits of the parser are
the code's, scaled down: `MaxLine` (16 for 1023) and `MaxParts` (4 for 256) are
small enough for documents to reach them and go past. All bounds are constants:
`MaxMsgs`, `NMsgs`, `MaxFaults`, `MaxIds`, `MaxMail`, `MaxGroup`, `MaxWrites`,
`MaxHelpers`, `MaxChunk`; the queue's `Capacity` is 2 for the code's 1000.

Exceptions. Several invariants have the form "holds unless E". Each E was removed
in turn and TLC then found a behaviour: the exceptions are what the code really
does (a failed download is deleted, a wrong passphrase costs the key, a window without a
tray dies of its first message, and so on),
and the invariant says that nothing else does it.

Fairness. The threads run an endless loop of waits with time limits and libcurl
calls that return, so weak fairness of each thread's next step is what the
operating system gives. In TxQueue the slot that is already running and the
delivery of `done()` are fair, since they are the GUI thread's event loop. The
user, the server and other clients owe nothing: no fairness is assumed of
submitting, of settings, of arrivals or of quitting. Liveness that needs the user
to leave things alone says so in its hypothesis (`<>[](...)`).

Deadlock is checked in every run; the `Terminated` actions mark the states where
a bounded behaviour may stop.

## Findings

1. `core/src/bitmail.cpp:619`: "GroupMsg must encrypt msg before send it out."; line
   636 returns the message signed only if no member is a friend (`Chat_group`).
2. `README.md:33`: "secure talking with trusted friends."; certificates are filed
   under the address as it stands and looked up under the normalised one, so that
   some friends are never found (`Chat_friends`).
3. `core/src/multipart.cpp:309-312`: "result is canonical parts in a STACK of bios";
   line 335 pushes `bpart` even if it is still NULL, and `multipart_split` reads from
   what it finds (lines 178-182) (`Mime_null`).

Two more things met on the way have no run of their own. The line of `closeEvent`
behind `quit()` (`qt/mainwindow.cpp:330`, "should not be reached.") is reached, since
`QCoreApplication::quit()` returns: it is the step `CloseEventAccept`. The crash
without a tray contradicts no text of the repository; it is an exception of `QuitSaves`
and what `CrashLosesMail` says.

## Proofs

`TxQueue_proofs` proves, for every capacity and number of messages, under
`TxAssumption` (the capacity is a positive number, the number of messages a
natural one):

- `TypeCorrect`: `TypeOK` is an invariant; it is inductive.
- `PermitsCorrect`: `ReadPermits` and `WritePermits`. Together with `TypeOK` they are
  inductive as they stand: each step that moves a permit moves a message or a
  program counter with it. `PlacesCorrect` is its second half by itself.
- `DequeueIsSafe`: `DequeueSafe` follows from `ReadPermits` alone: a thread at `pop`
  holds a permit, so the queue is not empty. This is the argument behind calling
  `QQueue::dequeue` without a test, and it shows that the settings, which may change
  in between, play no part.
- `DropsAreJustified`: the action property `DropOnlyWhenFull` from `WritePermits`.
- `QueueIsInOrder`: `InOrder` is inductive, over the lemmas `MoveHead` and
  `AppendToConcat` about sequences.
- `StopIsPrompt`: `OneAfterStop` is not inductive, since it says nothing of a thread
  before its first late pop; `StopInvariant` adds that none was counted before `stop`.
- `EveryMessageAccounted`: `Accounted`, from an invariant that says where each message
  is: queued, in the slot, popped or in one of the history sets, and in one only.
- `ImplementsChannel`: initial states of TxQueue map to those of TxChannel, and
  every step maps to a step or leaves the channel alone.

`Profile_proofs` proves every property of Profile, for any sets of addresses,
passphrases, passwords and contacts and any number of keys, under
`ProfileAssumption` (the markers for "no file", "truncated", "no key" and the like
are none of the values they stand in for). No property of Profile says enough to
be inductive; `IInv` adds what they rest on:

- `Phases`: how far `main()` is decides what the singleton can hold. While
  profiles are being created the identity in memory is the youngest there is.
- `KeyOpens`: the key in memory opens with the passphrase in memory, or with the one
  that the rest of `SetPassphrase` is about to assign.
- `Files`: a file that parses holds an identity of its own address, no younger
  saved identity of that address exists, its password is sealed for its own
  certificate, and it is what the last complete save had in memory.
- `Session`: the identity of a session is the one its file had, and is that of the
  address the user named.

`InvariantHolds` shows `TypeOK /\ IInv`, one lemma for each part; the parts need each
other (a session is right because its file was, a file because the session that
saved it was). From it follow `SessionHasKey` at once, `KeyIsKept` and
`SignaturesUnderLock` by a step each, and `LoginIsFaithful` and `SavesOnlyAsked` as facts
about single steps. The case that carries `KeyIsKept` is `SaveWrite` over an older
identity of the same address, where `Youngest` rules out that the older one wins.

`MailRx_proofs` proves every invariant of MailRx, for any accounts and any number of
messages and faults, under `RxAssumption`. The number a command uses is a position,
but what must be preserved is a message; the bridge is that, in an inbox in order of
arrival, a message's number is its rank: how many messages of the numbering are not
younger (`PlaceIsRank`). New mail leaves ranks alone, removals and reconnections only
lower them. On top of it `Inv` has:

- `Boxes`: inboxes and numberings are in order, and a numbering lacks nothing that
  is in the inbox.
- `Listed`: each number to come has its meaning in `meant`.
- `Faithful`: as long as no account was switched and nothing removed, numbers
  stand for what is meant; otherwise the event is on record. `NumbersHold` follows.
- `Once` and `Kept`: what was handled is seen or about to be; what is deleted
  was handled or is excused. `HandledOnce` and `DeletedWasHandled` follow.

Every step but EXPUNGE is treated alike (`Mild`): it removes nothing below a number
that is still in use.

`Chat_proofs` proves `SealedForFriends` and `AnswersReachSender`, for any users and any
addresses, under `ChatAssumption`. A friend who is due a message is filed under the
address in the certificate (`Filed`) and stays so while the message waits
(`WaitingIsDue`) and while members are looked up (`JobIsDue`); a removal in between
takes the friend off the list of those who are due, which is the property's excuse.
`ShownInSession` carries the way back.

`Shutdown_proofs` proves the invariants of Shutdown for any number of mails. A
`done()` in the event queue means that its thread has left its loop, and is the
last signal of the receive thread (`DoneIsLast`); so a thread object deleted by the
slot has ended (`DeadHasEnded`), and the main thread goes on only after both slots
or after the user closed the dialog (`GoesOnWhenDead`). `MailCounted` says that mail
reported is shown, still posted, or the one that a process without a tray died of;
without a tray none is ever shown (`NoTrayNoMail`). `ReportedMailIsShown` follows, and
`CrashLosesMail`: a process that crashed had no tray and a message it never showed.

`Locks_proofs` proves the invariants of Locks, for any number of network threads and
writes. Each section is disciplined: there is an assignment of held locks to its
steps under which every access is guarded and every lock taken ranks above those
held, in the order profile, mail client, contacts. This is shown once for each
section. `LocksAreHeld` then says that a thread owns what its place in its section
says (`LInv`); `LocksExclude` (no race) and `LocksAreOrdered` (no cycle) follow from
guards and ranks. `ReadsAreWhole` adds that a lock that is free guards fields of one
version (`RInv`). That discipline fails for none of the sections is the result: a
section added to the code is fine if it is disciplined too.

`Sessions_proofs` proves every property of Sessions, for any addresses and bounds. The
properties need each other and three more facts: what a dialog was opened for
(`Dialogs`), that friends and groups hang below their own nodes (`Nodes`), and that
who was heard has a contact from which the leaf can be rebuilt (`HeardIsListed`).

`Mime_proofs` proves every property of Mime, the action property `EveryStepAdvances`
included, for any documents and endings of file names and for any limits under
`MimeAssumption` (a line holds the program's own headers, a counter at least two
parts). The properties compare the parser with a reference that sees the whole text,
so the proof starts with what the operators do on every input. They are folds and
recursive functions; their lemmas rest on `Induction`, which follows from there being
a least element in every set of numbers:

- `FirstStep`: `FlattenSeq` one sequence at a time. With it `Canon` distributes over
  concatenation (`CanonConcat`), changes nothing that is canonical (`CanonTwice`)
  and leaves the frame of a mail alone (`CanonComposed`). So the text that the parser
  reads is always the composition of some document: the one sent, or its canonical form.
- `KeptCanon`: what `strip_eol` keeps of a line, with CRLF behind it if it had an end,
  is the canonical line. A line that was cut has no end, so its pieces come together
  again, even if the cut is between CR and LF.
- `ScanStep`, `BoundFound`, `FileNamed`: the header's state machine one character at a
  time, the boundary it finds, and of a file's name all, a beginning or nothing.

`Transfer` in the invariant says that the server, or the receiver, has a beginning of
the mail. `Header` and `Split` name the place in the composed text where the parser
may be: before a line of the header, at the i-th boundary, or inside the i-th part
with `bpart` and `eol` holding the canonical form of what was read of it. A boundary
is recognised exactly at those places (`BoundaryLine`, `ClosingLine`, `PartLine`). A
part whose number is a multiple of `MaxParts` is passed over (`FromLostPart`).
The mail of another client ends in one of four ways (`Trailer`), two of them with
further boundaries (`ClosingLine`, `BareLine`); `Collected` says at each that `bpart`
is NULL exactly if no line was met, and `Result` what is left at the end. `PartsKept`,
`NullOnlyWithoutParts` (`NullOnlyForEmptyMail`) and `NameKept` follow.

`TypeOK` of TxQueue, Profile and Locks is proved (`TypeCorrect`, `LocksAreHeld`) and is
not checked by a run of its own.

Only model-checked: liveness, since the provers do not reason about `ENABLED` and so not
about fairness. These are `StopEndsThread` of both threads, `AcceptedIsAttempted` and
`StrandedByLeaks` of TxQueue, `EveryMessageHandled` and `EveryMessageLeavesUnseen` of
MailRx and `QuitSaves` of Shutdown. Every invariant and every action property of a
passing run is proved.

## Not modelled

- The RPC server (`core/src/rpc.cpp`): no program of the repository constructs
  `RPCServer` or registers its callback.
- Unused code: `core/shared/` (an interface the core no longer has), `daemon/`,
  `qt/pollthread.*` and `qt/assistantdialog.*` (not built, or opened by nothing), the
  slot `onRemoveAct` of the main window, which no signal is connected to, and
  `TryLock`.
- Layout and text of dialogs and widgets, pictures, HTML, QR codes, translations,
  logging. What dialogs do to the core is part of Profile, TxQueue, Chat and Sessions.
- Of the MIME parser, continuation lines, duplicate headers, lone CRs and failing
  allocations, which no mail of the program meets, and what becomes of a NULL part;
  of composition, character sets and base64.
- Cryptography, certificate encodings and PKCS#12 files: what the results are good
  for is modelled, not how they are computed. Of the network settings Profile keeps
  the password only.
- The Android, iOS and web clients, the vendored Hyphenate demo with its OpenSSL
  headers, jsoncpp and generated code. They are most of the lines of the
  repository, take no part in the Qt client and hold none of its logic, so that the
  share of the repository's lines that the modules stand for is small even where
  the client is covered.

## Plan

Done: the queue and its refinement of a channel, receiving, profiles, conversations,
shutdown, locks, sessions and MIME text, with proofs of every safety property.

Left:

1. **Client**: composition of TxQueue, MailRx and Shutdown over one set of settings
   and one stop, replacing Shutdown's abstract threads by the detailed ones, with
   Shutdown as the abstract specification. The mapping is known (a thread is inside
   a call when its program counter is in `Tx` or `Rx`, outside otherwise); the
   product of the state spaces needs smaller instances of both threads.
2. **Sections in place**: Profile with the steps of Locks for its setters, so that
   the atomicity that Locks proves is a refinement and not an argument.
