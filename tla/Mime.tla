--------------------------------- MODULE Mime ---------------------------------
(***************************************************************************)
(* A message from the sender's editor to the receiver's window:            *)
(* toMixed or toMimeAttachment composes it (qt/main.cpp), libcurl takes    *)
(* the mail from OnTxfer and, at the other end, hands it to OnRxfer in     *)
(* pieces of its choosing (core/src/email.cpp), and the parser derived     *)
(* from OpenSSL's splits it again (core/src/multipart.cpp).                *)
(*                                                                         *)
(* Text is a sequence of tokens: the characters and words the parser looks *)
(* at, and "x" for everything else.  Signing and sealing, OpenSSL's, carry *)
(* the text as it is or with canonical line ends.  The header that names   *)
(* boundary or file is the only one of its message.                        *)
(***************************************************************************)
EXTENDS Naturals, Sequences, FiniteSets, SequencesExt, FiniteSetsExt

CONSTANTS
  Documents,  (* the parts of a document, for toMixed: sequences of texts   *)
  Endings,    (* what follows the hash in the name of an attached file      *)
  MaxLine,    (* the most BIO_gets returns: MAX_SMLEN - 1                   *)
  MaxParts,   (* the values of multi_split's part, a char: 256              *)
  MaxChunk,   (* bound: tokens libcurl moves in one call                    *)
  Null        (* the NULL pointer                                           *)

CR == "cr"
LF == "lf"
CRLF == <<CR, LF>>

(* The characters of file names; the others of a header, and those of text. *)
NameChar == {"x", "sp", "semi", "quote", "open", "close", "eq"}
Token    == NameChar \cup {"colon", "bound", "filename", "boundary", "--", CR, LF}
Text     == Seq(Token)

(* A part does not contain the boundary, which is a fresh UUID, and has its *)
(* CRs at line ends: toMimeTextPlain and the like write headers and base64, *)
(* another client the lines of RFC 5322.  A header is one line.  toMixed is *)
(* always given a part: every caller adds one, or leaves if there is none.  *)
ASSUME MimeAssumption ==
  /\ MaxLine \in Nat /\ MaxLine >= 10
  /\ MaxParts \in Nat /\ MaxParts >= 2 /\ MaxChunk \in Nat \ {0}
  /\ Documents \subseteq Seq(Text)
  /\ \A d \in Documents : d # <<>> /\ \A i \in DOMAIN d : \A j \in DOMAIN d[i] :
       /\ d[i][j] # "boundary"
       /\ d[i][j] = CR => j = Len(d[i]) \/ d[i][j + 1] \in {CR, LF}
  /\ Endings \subseteq Seq(NameChar)
  /\ \A e \in Endings : Len(e) + 11 <= MaxLine
  /\ Null \notin Text

VARIABLES
  origin,    (* who composes it: BitMail, or another mail client, "other",  *)
             (* whose mail may have been cut off on its way, "cut", or end  *)
             (* in a part without a line, "bare"                            *)
  phase,     (* how far the message is                                      *)
  doc,       (* the parts being sent that have a line; BitMail's single     *)
             (* file is <<>>                                                *)
  suffix,    (* the end of the file's name, without parts                   *)
  mail,      (* the text composed                                           *)
  offset,    (* TxCallback_t: how much of it OnTxfer has handed out         *)
  server,    (* what the mail server has of it                              *)
  memory,    (* RxCallback_t: what OnRxfer has collected                    *)
  text,      (* the text the parser reads                                   *)
  pos,       (* the position of its BIO                                     *)
  params,    (* the parameters of the header, name and value                *)
  part,      (* multi_split's part                                          *)
  first,     (* its first                                                   *)
  eol,       (* its eol                                                     *)
  bpart,     (* its bpart                                                   *)
  parts      (* its parts                                                   *)

wire   == <<mail, offset, server, memory>>
parser == <<text, pos, params, part, first, eol, bpart, parts>>
vars   == <<origin, phase, doc, suffix, wire, parser>>
-----------------------------------------------------------------------------
(* A header with one parameter, and the blank line after it.                *)
HeaderLine(name, value) ==
  <<"x", "colon", "x", "semi", "sp", name, "eq">> \o value \o CRLF \o CRLF

(* Mutated forms, each a bug somebody could make there; they take no part   *)
(* in the specification.                                                    *)

(* toMixed leaves out the parts that are empty, files it could not read.    *)
MixedTextNoEmpty(d) ==
  HeaderLine("bound", <<"boundary">>)
  \o FlattenSeq([i \in DOMAIN d |->
       IF d[i] = <<>> THEN <<>>
       ELSE <<"--", "boundary">> \o CRLF \o d[i] \o CRLF])
  \o <<"--", "boundary", "--">> \o CRLF \o CRLF

(* Every line BIO_gets returns is taken to have its end.                    *)
HasEolAlways(s) == TRUE

(* OnRxfer overwrites what it has.                                          *)
OnRxferLast(n) ==
  /\ phase = "down" /\ Len(memory) + n <= Len(server)
  /\ memory' = SubSeq(server, Len(memory) + 1, Len(memory) + n)
  /\ UNCHANGED <<origin, phase, doc, suffix, mail, offset, server, parser>>
-----------------------------------------------------------------------------
(* Composing.                                                               *)

(* toMixed.                                                                 *)
Part(t)   == <<"--", "boundary">> \o CRLF \o t \o CRLF
Body(d)   == FlattenSeq([i \in DOMAIN d |-> Part(d[i])])
MixedText(d) == HeaderLine("bound", <<"boundary">>) \o Body(d)
                \o <<"--", "boundary", "--">> \o CRLF \o CRLF

(* Another client's mail: it may put a text before the first boundary and   *)
(* after the last one, which is missing from a mail that was cut off.  It   *)
(* may have no part, or at its end one in which no line follows the         *)
(* boundary.                                                                *)
Trailer(who) ==
  (IF who = "bare" THEN <<"--", "boundary">> \o CRLF ELSE <<>>)
  \o <<"--", "boundary">>
  \o IF who = "cut" THEN CRLF ELSE <<"--">> \o CRLF \o <<"x">> \o CRLF
OtherText(d, who) == HeaderLine("bound", <<"boundary">>) \o <<"x">> \o CRLF
                     \o Body(d) \o Trailer(who)

(* toMimeAttachment: a file named after the hash of its content.            *)
FileName(s) == <<"x", "x">> \o s
FileText(s) == HeaderLine("filename", FileName(s)) \o <<"x", LF>>

Init ==
  /\ \/ /\ origin = "BitMail" /\ phase = "compose"
        /\ mail = <<>> /\ server = <<>>
        /\ \/ doc \in Documents /\ suffix = <<>>
           \/ doc = <<>> /\ suffix \in Endings
     \/ /\ origin \in {"other", "cut", "bare"} /\ phase = "down"
        /\ doc \in Documents \cup {<<>>} /\ suffix = <<>>
        /\ mail = OtherText(doc, origin) /\ server = mail
  /\ offset = 0 /\ memory = <<>> /\ text = <<>> /\ pos = 1 /\ params = {}
  /\ part = 0 /\ first = TRUE /\ eol = FALSE /\ bpart = Null /\ parts = <<>>
-----------------------------------------------------------------------------
(* Reading lines.                                                           *)

(* BIO_gets: up to a line end, or as much as the buffer takes.              *)
LineEnd ==
  Min({i \in pos .. Len(text) : text[i] = LF}
      \cup {pos + MaxLine - 1, Len(text)})
Line == SubSeq(text, pos, LineEnd)
AtEnd == pos > Len(text)

(* strip_eol: what is left of a line, and its result.                       *)
Kept(s) ==
  LET body == {i \in DOMAIN s : s[i] \notin {CR, LF}}
  IN SubSeq(s, 1, IF body = {} THEN 0 ELSE Max(body))
HasEol(s) == \E i \in Len(Kept(s)) + 1 .. Len(s) : s[i] = LF

(* strip_ends: without the white space around it and one quote at each end; *)
(* nothing where the code returns NULL.                                     *)
StripStart(s) ==
  LET ink == {i \in DOMAIN s : s[i] # "sp"}
  IN IF ink = {} THEN <<>>
     ELSE SubSeq(s, Min(ink) + (IF s[Min(ink)] = "quote" THEN 1 ELSE 0), Len(s))
StripEnd(s) ==
  LET ink  == {i \in DOMAIN s : s[i] # "sp"}
      last == Max(ink)
  IN IF ink = {} \/ (last = 2 /\ s[last] = "quote") THEN <<>>
     ELSE SubSeq(s, 1, IF s[last] = "quote" THEN last - 1 ELSE last)
Strip(s) == StripEnd(StripStart(s))

(* The state machine of mime_parse_hdr, at one character of a header line.  *)
ParseChar(s, c) ==
  LET To(state)  == [s EXCEPT !.state = state, !.word = Append(@, c)]
      End(state) == [s EXCEPT !.state = state, !.word = <<>>]
  IN CASE s.state = "start" /\ c = "colon" -> End("type")
       [] s.state = "type" /\ c = "semi"   -> End("name")
       [] s.state = "name" /\ c = "eq" ->
            [End("value") EXCEPT !.name = Strip(s.word)]
       [] s.state = "value" /\ c = "semi" ->
            [End("name") EXCEPT !.params = @ \cup {<<s.name, Strip(s.word)>>}]
       [] s.state \in {"type", "value"} /\ c = "open" ->
            [To("comment") EXCEPT !.save = s.state]
       [] s.state = "comment" /\ c = "close" -> To(s.save)
       [] s.state = "value" /\ c = "quote"   -> To("quote")
       [] s.state = "quote" /\ c = "quote"   -> To("value")
       [] OTHER -> To(s.state)

(* mime_parse_hdr's state after a line, from its start.                      *)
Scan(line) ==
  LET s[i \in 0 .. Len(line)] ==
        IF i = 0
          THEN [state |-> "start", save |-> "start", word |-> <<>>,
                name |-> <<>>, params |-> {}]
          ELSE ParseChar(s[i - 1], line[i])
  IN s[Len(line)]

(* A mutated form: the value of a parameter or of none ends with its line.  *)
LineParamsElse(line) ==
  LET s == Scan(Kept(line))
  IN s.params \cup {<<s.name, Strip(s.word)>>}

(* The parameters a header line adds; none of the program's headers has a   *)
(* continuation line.                                                       *)
LineParams(line) ==
  LET s == Scan(Kept(line))
  IN s.params \cup IF s.state = "value" THEN {<<s.name, Strip(s.word)>>} ELSE {}

(* mime_param_find.                                                         *)
Values(name) == {p[2] : p \in {q \in params : q[1] = <<name>>}}

(* mime_bound_check.                                                        *)
BoundCheck(line) ==
  IF Len(line) < 2 \/ line[1] # "--" \/ <<line[2]>> \notin Values("bound")
    THEN 0
  ELSE IF Len(line) > 2 /\ line[3] = "--" THEN 2 ELSE 1

(* The reference: every line end as CRLF, the CRs before it gone with it.   *)
Canon(s) ==
  LET Char(c) == IF c = LF THEN CRLF ELSE IF c = CR THEN <<>> ELSE <<c>>
  IN FlattenSeq([i \in DOMAIN s |-> Char(s[i])])
-----------------------------------------------------------------------------
(* Next.                                                                    *)

(* Sending: from the window to SendMsg.                                     *)
Compose ==
  /\ phase = "compose" /\ phase' = "up"
  /\ mail' = IF doc = <<>> THEN FileText(suffix) ELSE MixedText(doc)
  /\ UNCHANGED <<origin, doc, suffix, offset, server, memory, parser>>

(* libcurl asks for up to n more; nothing more is the end of the mail.      *)
OnTxfer(n) ==
  /\ phase = "up"
  /\ IF offset >= Len(mail)
       THEN phase' = "down" /\ UNCHANGED <<offset, server>>
       ELSE LET xfer == Min({n, Len(mail) - offset})
            IN /\ server' = server \o SubSeq(mail, offset + 1, offset + xfer)
               /\ offset' = offset + xfer
               /\ UNCHANGED phase
  /\ UNCHANGED <<origin, doc, suffix, mail, memory, parser>>

(* libcurl hands over the next n, as long as the server has more.           *)
OnRxfer(n) ==
  /\ phase = "down" /\ Len(memory) + n <= Len(server)
  /\ memory' = memory \o SubSeq(server, Len(memory) + 1, Len(memory) + n)
  /\ UNCHANGED <<origin, phase, doc, suffix, mail, offset, server, parser>>

(* The mail is complete; opened, its text is as it was, or canonical.       *)
Open ==
  /\ phase = "down" /\ memory = server /\ phase' = "header"
  /\ text' \in {memory, Canon(memory)}
  /\ UNCHANGED <<origin, doc, suffix, wire>>
  /\ UNCHANGED <<pos, params, part, first, eol, bpart, parts>>

(* mime_parse_hdr: the next line of the header, up to the blank one.        *)
ParseHeader ==
  /\ phase = "header" /\ pos' = LineEnd + 1
  /\ IF AtEnd \/ Kept(Line) = <<>>
       THEN /\ phase' = IF Values("bound") = {} THEN "done" ELSE "split"
            /\ UNCHANGED params
       ELSE params' = params \cup LineParams(Line) /\ UNCHANGED phase
  /\ UNCHANGED <<origin, doc, suffix, wire, text>>
  /\ UNCHANGED <<part, first, eol, bpart, parts>>

(* multi_split: the next line of the body; without a closing boundary the   *)
(* parts are not used.                                                      *)
SplitLine ==
  /\ phase = "split" /\ pos' = LineEnd + 1
  /\ \/ /\ AtEnd
        /\ phase' = "done" /\ parts' = <<>>
        /\ UNCHANGED <<part, first, eol, bpart>>
     \/ /\ ~AtEnd /\ BoundCheck(Line) = 2
        /\ phase' = "done" /\ parts' = Append(parts, bpart)
        /\ UNCHANGED <<part, first, eol, bpart>>
     \/ /\ ~AtEnd /\ BoundCheck(Line) = 1
        /\ first' = TRUE /\ part' = (part + 1) % MaxParts
        /\ UNCHANGED <<phase, eol, bpart, parts>>
     \/ /\ ~AtEnd /\ BoundCheck(Line) = 0 /\ part = 0
        /\ UNCHANGED <<phase, part, first, eol, bpart, parts>>
     \/ /\ ~AtEnd /\ BoundCheck(Line) = 0 /\ part # 0
        /\ first' = FALSE /\ eol' = HasEol(Line)
        /\ IF first
             THEN /\ parts' = IF bpart = Null THEN parts
                             ELSE Append(parts, bpart)
                  /\ bpart' = Kept(Line)
             ELSE /\ bpart' = bpart \o (IF eol THEN CRLF ELSE <<>>)
                                     \o Kept(Line)
                  /\ UNCHANGED parts
        /\ UNCHANGED <<phase, part>>
  /\ UNCHANGED <<origin, doc, suffix, wire, text, params>>

Done == phase = "done" /\ UNCHANGED vars

Next ==
  \/ Compose \/ Open \/ ParseHeader \/ SplitLine \/ Done
  \/ \E n \in 1 .. MaxChunk : OnTxfer(n) \/ OnRxfer(n)

Spec == Init /\ [][Next]_vars
-----------------------------------------------------------------------------
(* Properties.                                                              *)

(* The receiver gets the parts that were composed, in order, changed in     *)
(* their line ends only, however libcurl cuts the mail and BIO_gets its     *)
(* lines: parts that are empty, that end without a line end, or that look   *)
(* like a boundary in their first characters included; the same goes for    *)
(* another client's mail, if it was not cut off.  Only the part at which    *)
(* multi_split's counter returns to 0 is left out, and a part without a     *)
(* line.                                                                    *)
PartsKept ==
  phase = "done" /\ doc # <<>> =>
    parts = IF origin = "cut" THEN <<>> ELSE
            FlattenSeq([i \in DOMAIN doc |->
              IF i % MaxParts = 0 THEN <<>> ELSE <<Canon(doc[i])>>])

(* What multi_split's comment says of its result, that it is component      *)
(* parts in a stack of bios: a closing boundary before any line of a part   *)
(* pushes NULL, which multipart_split reads its text from.  The parser is   *)
(* seen up to the end of multi_split.                                       *)
NoNullPart == Null \notin Range(parts)

(* Only a mail in which no part has a line is split into NULL; BitMail      *)
(* sends none, not even for a document of empty parts.                      *)
NullOnlyWithoutParts ==
  Null \in Range(parts) => origin \in {"other", "bare"} /\ doc = <<>>

(* The name a file is saved by at the receiver is the one it was sent by,   *)
(* unless it has a quote, a semicolon or an open bracket, or ends in white  *)
(* space: then the receiver has the beginning of it, or none and drops the  *)
(* file.                                                                    *)
NameKept ==
  LET sent  == FileName(suffix)
      Plain == /\ Range(suffix) \cap {"quote", "semi"} = {} /\ Last(sent) # "sp"
               /\ \A i \in DOMAIN suffix : suffix[i] = "open" =>
                    \E j \in i .. Len(suffix) : suffix[j] = "close"
  IN phase = "done" /\ doc = <<>> /\ origin = "BitMail" =>
       /\ \A v \in Values("filename") : IsPrefix(v, sent)
       /\ Plain => Values("filename") = {sent}

(* Neither a loop over chunks nor one over lines runs on: whatever libcurl  *)
(* asks for or hands over and however long a line is, a step goes further   *)
(* in the mail or ends its phase, so that every message is opened at last.  *)
EveryStepAdvances ==
  [][phase' # phase
     \/ offset' + Len(memory') + pos' > offset + Len(memory) + pos]_vars
=============================================================================
