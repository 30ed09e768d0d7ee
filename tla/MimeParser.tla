------------------------------ MODULE MimeParser ----------------------------
(***************************************************************************)
(* MIMEParser (internal/inbound/mime_parser.go): one raw email becomes a   *)
(* ParsedEmail.  The header is read first; Walk then shows the parts one   *)
(* by one, and the parser keeps bodies and attachments within its limits;  *)
(* the dispositions are settled once the HTML body is known.               *)
(*                                                                         *)
(* A part is a record of what the parser looks at: its type, disposition,  *)
(* file name and MIME type, whether its Content-ID is the one an "img" of  *)
(* the HTML refers to, its decoded size and whether reading it fails, the  *)
(* text of a body, the groups of a delivery report and the Message-ID of   *)
(* an attached email.                                                      *)
(***************************************************************************)
EXTENDS MessageText

CONSTANTS
    Headers,                   \* headers an email may have
    MimeParts,                 \* parts Walk may show
    MaxWalk,                   \* bound: parts of one email
    MaxBodySize, MaxAttachmentSize, MaxAttachmentsTotalSize, MaxAttachments,
    MaxHeaderTextRunes, MaxMessageIDBytes, MaxReferencesBytes

\* What config.go's MIMEConfig.validate leaves.
ASSUME MimeAssumption ==
    /\ {MaxBodySize, MaxAttachmentSize, MaxAttachments} \subseteq Nat \ {0}
    /\ MaxAttachmentsTotalSize \in Nat /\ MaxAttachmentsTotalSize >= MaxAttachmentSize
    /\ MaxHeaderTextRunes \in Nat /\ MaxMessageIDBytes \in Nat /\ MaxReferencesBytes \in Nat
    /\ MaxWalk \in Nat
    /\ \A p \in MimeParts : p.size \in Nat

VARIABLES
    step,                      \* what parse does next, or how it ended
    header,                    \* the header of the email
    entity,                    \* the parts Walk has shown
    email,                     \* the ParsedEmail, but for its parts
    parts,                     \* ParsedEmail.Parts
    acceptedParts, acceptedSize

parserVars == <<step, header, entity, email, parts, acceptedParts, acceptedSize>>

NoContent == -1
NoBounce  == [known |-> FALSE]
-----------------------------------------------------------------------------
(* The header.                                                             *)

isBounce(h)           == h.marks \cap {"delivery-status", "failed-recipients", "mailer-daemon"} # {}
isAutoReply(h)        == h.marks \cap {"auto-submitted", "autoreply", "suppress", "precedence"} # {}
hasEmptyReturnPath(h) == "empty-return-path" \in h.marks

KindOf(h) == CASE isBounce(h)           -> "bounce"
               [] isAutoReply(h)        -> "auto_reply"
               [] hasEmptyReturnPath(h) -> "bounce"
               [] OTHER                 -> "regular"

newBounceInfo(h) ==
    [known |-> TRUE, original |-> cleanMessageID(h.original, MaxMessageIDBytes),
     recipient |-> cleanHeaderText(h.failed), status |-> <<>>]

\* An identifier made from the mailbox coordinates.
fallbackMessageID == <<"letter">>

parseAddressList(list) ==
    LET cleaned == [n \in DOMAIN list |->
                      [address |-> cleanHeaderText(list[n].address),
                       name    |-> truncateRunes(cleanHeaderText(list[n].name), MaxHeaderTextRunes)]]
    IN  SelectSeq(cleaned, LAMBDA a : a.address # <<>>)

ParsedHeader(h) ==
    LET id      == cleanMessageID(h.id, MaxMessageIDBytes)
        parents == cleanMessageIDs(h.inReplyTo, MaxMessageIDBytes)
        lists   == [kind \in DOMAIN h.lists |-> parseAddressList(h.lists[kind])]
    IN  [messageID  |-> IF id = <<>> THEN fallbackMessageID ELSE id,
         generated  |-> id = <<>>,
         inReplyTo  |-> IF parents = <<>> THEN <<>> ELSE Head(parents),
         references |-> limitReferences(cleanMessageIDs(h.references, MaxMessageIDBytes), MaxReferencesBytes),
         subject    |-> truncateRunes(cleanHeaderText(h.subject), MaxHeaderTextRunes),
         lists      |-> [lists EXCEPT !["sender"] = Take(@, 1)],
         kind       |-> KindOf(h),
         bounce     |-> IF KindOf(h) = "bounce" THEN newBounceInfo(h) ELSE NoBounce,
         text       |-> <<>>,
         html       |-> <<>>]

\* The header cannot be read: the email is broken for good.
ParseHeader ==
    /\ step = "header"
    /\ IF header.broken THEN step' = "permanent" /\ UNCHANGED email
                        ELSE step' = "walk" /\ email' = ParsedHeader(header)
    /\ UNCHANGED <<header, entity, parts, acceptedParts, acceptedSize>>
-----------------------------------------------------------------------------
(* The parts.                                                              *)

IsText(p) == p.type \in {"text/plain", "text/html", "text/other", "text/rfc822-headers"}

\* The disposition of a part that is not a body, "" for the others.
parseEmailPart(p) ==
    CASE p.disposition = "attachment"              -> "attachment"
      [] p.disposition = "inline" /\ ~IsText(p)    -> "inline"
      [] ~IsText(p) /\ p.type # "multipart"        -> "attachment"
      [] OTHER                                     -> ""

IsReport(p)   == p.type = "message/delivery-status"
IsOriginal(p) == p.type \in {"message/rfc822", "text/rfc822-headers"}

FirstOf(a, b) == IF a # <<>> THEN a ELSE b

\* A value once found is kept, whatever later groups say.
parseDeliveryStatus(bounce, groups) ==
    FoldLeft(LAMBDA b, g :
               [b EXCEPT !.original  = FirstOf(@, cleanMessageID(g.original, MaxMessageIDBytes)),
                         !.recipient = FirstOf(@, FirstOf(cleanHeaderText(g.final), cleanHeaderText(g.initial))),
                         !.status    = FirstOf(@, cleanHeaderText(g.status))],
             bounce, groups)

parseOriginalMessageHeaders(bounce, id) ==
    [bounce EXCEPT !.original = FirstOf(@, cleanMessageID(id, MaxMessageIDBytes))]

bufferLimit ==
    IF acceptedParts >= MaxAttachments THEN 0
    ELSE Min({MaxAttachmentSize, Max({MaxAttachmentsTotalSize - acceptedSize, 0})})

\* Bug: a part that just fills the buffer is dropped.
BelowLimit(p) == IF p.readErr \/ p.size >= bufferLimit THEN NoContent ELSE p.size

\* The bytes kept: all of them, or none when they exceed the buffer.
readPartContent(p) == IF p.readErr \/ p.size > bufferLimit THEN NoContent ELSE p.size

TotalExceeded(p) == p.size > MaxAttachmentsTotalSize - acceptedSize

SkippedReason(p) ==
    CASE p.readErr                       -> "read_error"
      [] acceptedParts >= MaxAttachments -> "count_limit"
      [] p.size > MaxAttachmentSize      -> "size_limit"
      [] TotalExceeded(p)                -> "total_limit"
      [] OTHER                           -> ""

EmailPart(p) ==
    [name        |-> cleanHeaderText(p.name),
     type        |-> p.type,
     mime        |-> p.mime,
     cid         |-> p.cid,
     disposition |-> parseEmailPart(p),
     size        |-> p.size,
     reason      |-> SkippedReason(p),
     content     |-> IF SkippedReason(p) = "" THEN readPartContent(p) ELSE NoContent]

\* The first body of its type that is not empty.
Body(p) == CASE p.type = "text/plain" /\ email.text = <<>> ->
                    [email EXCEPT !.text = limitBody(p.body, MaxBodySize)]
             [] p.type = "text/html" /\ email.html = <<>> ->
                    [email EXCEPT !.html = limitBody(p.body, MaxBodySize)]
             [] OTHER -> email

\* What reading a part does to the fields of the email.
EmailWith(p) ==
    CASE p.type = "invalid"                -> email
      [] email.bounce.known /\ IsReport(p) ->
             [email EXCEPT !.bounce = parseDeliveryStatus(@, p.groups)]
      [] email.bounce.known /\ IsOriginal(p) ->
             [email EXCEPT !.bounce = parseOriginalMessageHeaders(@, p.id)]
      [] OTHER -> IF parseEmailPart(p) # "" THEN email ELSE Body(p)

Consumed(p) == p.type = "invalid" \/ (email.bounce.known /\ (IsReport(p) \/ IsOriginal(p)))

KeptAsPart(p) == ~Consumed(p) /\ parseEmailPart(p) # ""

\* A body Walk hands over that cannot be read, and was needed.
BodyFails(p) ==
    /\ p.readErr /\ ~Consumed(p) /\ parseEmailPart(p) = ""
    /\ (p.type = "text/plain" /\ email.text = <<>>) \/ (p.type = "text/html" /\ email.html = <<>>)

\* Walk calls back with a part.
WalkPart(p) ==
    /\ step = "walk" /\ Len(entity) < MaxWalk
    /\ entity' = Append(entity, p)
    /\ IF p.type = "unreadable" \/ BodyFails(p)
       THEN step' = "permanent" /\ UNCHANGED <<email, parts, acceptedParts, acceptedSize>>
       ELSE /\ email' = EmailWith(p)
            /\ parts' = IF KeptAsPart(p) THEN Append(parts, EmailPart(p)) ELSE parts
            /\ LET accepted == KeptAsPart(p) /\ SkippedReason(p) = ""
               IN  /\ acceptedParts' = acceptedParts + (IF accepted THEN 1 ELSE 0)
                   /\ acceptedSize' = acceptedSize + (IF accepted THEN p.size ELSE 0)
            /\ UNCHANGED step
    /\ UNCHANGED header
-----------------------------------------------------------------------------
IsImage(p) == p.type = "image"

htmlReferencesCID(html, p) == p.cid /\ "img" \in Range(html)

\* An image the HTML shows is inline; an inline part nothing shows is an attachment.
FinalDisposition(p) ==
    CASE IsImage(p) /\ htmlReferencesCID(email.html, p)                         -> "inline"
      [] p.disposition = "inline" /\ (~IsImage(p) \/ email.html # <<>>)         -> "attachment"
      [] OTHER                                                                  -> p.disposition

\* "attachment-1", "inline-2": longer than the names of the model.
DefaultName == <<"letter", "letter", "letter", "letter", "letter">>

finalizeEmailParts ==
    [i \in DOMAIN parts |-> [parts[i] EXCEPT !.disposition = FinalDisposition(parts[i]),
                                             !.name = FirstOf(@, DefaultName)]]

\* Walk is over.
Finalize ==
    /\ step = "walk"
    /\ step' = "parsed"
    /\ parts' = finalizeEmailParts
    /\ email' = [email EXCEPT !.text = IF @ = <<>> /\ email.html # <<>>
                                       THEN limitBody(HTML2Text(email.html), MaxBodySize) ELSE @]
    /\ UNCHANGED <<header, entity, acceptedParts, acceptedSize>>

\* The context ends: the error is passed on as it is, and the email read again.
Cancel ==
    /\ step \in {"header", "walk"}
    /\ step' = "cancelled"
    /\ UNCHANGED <<header, entity, email, parts, acceptedParts, acceptedSize>>

ParserInit ==
    /\ step = "header" /\ header \in Headers
    /\ entity = <<>> /\ parts = <<>> /\ email = [bounce |-> NoBounce, text |-> <<>>, html |-> <<>>]
    /\ acceptedParts = 0 /\ acceptedSize = 0

ParserNext == ParseHeader \/ (\E p \in MimeParts : WalkPart(p)) \/ Finalize \/ Cancel
-----------------------------------------------------------------------------
Accepted == {i \in DOMAIN parts : parts[i].reason = ""}

\* The accepted parts before the i-th: how many, and their bytes together.
CountBefore(i) == Cardinality({j \in Accepted : j < i})
SizeBefore(i)  == MapThenSumSet(LAMBDA j : parts[j].size, {j \in Accepted : j < i})

\* The limits of the parser hold of the parts it keeps, every kept part has all
\* of its bytes, and a part is refused only for the limit it would break: the
\* counters of the Walk callback (mime_parser.go:188-210) and the buffer it sizes
\* before the part is read agree with the parts of the email, counted again.
LimitsExact ==
    \A i \in DOMAIN parts :
        LET p == parts[i] IN
        CASE p.reason = "" ->
                 /\ CountBefore(i) < MaxAttachments
                 /\ p.size <= MaxAttachmentSize
                 /\ SizeBefore(i) + p.size <= MaxAttachmentsTotalSize
                 /\ p.content = p.size
          [] p.reason = "count_limit" -> CountBefore(i) = MaxAttachments
          [] p.reason = "size_limit"  -> p.size > MaxAttachmentSize
          [] p.reason = "total_limit" -> SizeBefore(i) + p.size > MaxAttachmentsTotalSize
          [] OTHER -> p.content = NoContent

\* The raw bodies Walk has shown that count as a body of this type.
Shown(type) == SelectSeq(entity, LAMBDA p : p.type = type /\ parseEmailPart(p) = "")

\* The value is valid, within the limit, and what the body starts with, but for a
\* replacement where the limit fell inside a character.
CutOf(value, raw) ==
    LET whole == ToValidUTF8(raw) IN
    /\ "bad" \notin Range(value) /\ Size(value) <= MaxBodySize
    /\ Size(raw) <= MaxBodySize /\ Size(whole) <= MaxBodySize => value = whole
    /\ IsPrefix(value, whole) \/ (value # <<>> /\ Last(value) = "repl" /\ IsPrefix(Front(value), whole))

FirstNonEmpty(value, bodies) ==
    \E n \in DOMAIN bodies : /\ CutOf(value, bodies[n].body)
                            /\ \A m \in 1 .. n - 1 : CutOf(<<>>, bodies[m].body)

\* A stored body is valid UTF-8 within mime.max_body_size and is the beginning of
\* the first body of its type that leaves anything, or of the text of the HTML:
\* what limitBody (mime_parser.go:551-567) has cut may grow when it is made valid.
BodiesCut ==
    /\ email.html # <<>> => FirstNonEmpty(email.html, Shown("text/html"))
    /\ email.text # <<>> =>
          \/ FirstNonEmpty(email.text, Shown("text/plain"))
          \/ step # "walk" /\ CutOf(email.text, HTML2Text(email.html))
=============================================================================
