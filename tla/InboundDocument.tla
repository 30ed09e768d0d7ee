--------------------------- MODULE InboundDocument --------------------------
(***************************************************************************)
(* One email from its raw bytes to the event that starts Flow: the parser  *)
(* reads it (MimeParser), persistence writes its manifest and recipients   *)
(* (internal/inbound/persistence.go), completion uploads the pending parts *)
(* to storage (infra/storage/client.go), and the event is built from the   *)
(* stored rows (EventDocument).  When each of these runs, and what happens *)
(* when one fails, is InboundPipeline's matter; here every one succeeds    *)
(* and the question is what the data looks like on the way.                *)
(***************************************************************************)
EXTENDS MimeParser, EventDocument

CONSTANTS
    Limits,                    \* event.Limits of the configuration
    Caps,                      \* the fixed caps and the JSON around the values
    ChunkSize                  \* bytes of one chunk of an upload

\* What startup accepts (config.go:271, event.Limits.Validate).
ASSUME LimitsAccepted == ValidLimits(Limits, Caps)
ASSUME ChunkAssumption == ChunkSize \in Nat \ {0}

VARIABLES
    rows,                      \* the attachment rows of the message
    storage,                   \* the files storage holds: file -> bytes
    event                      \* the document of the event, or why there is none

vars == <<step, header, entity, email, parts, acceptedParts, acceptedSize, rows, storage, event>>

NoEvent == [state |-> "none"]
-----------------------------------------------------------------------------
(* Persistence.                                                            *)

\* The manifest keeps the order of the parts.
buildAttachments ==
    [i \in DOMAIN parts |->
       [position |-> i, disposition |-> parts[i].disposition, name |-> parts[i].name,
        mime |-> parts[i].mime, size |-> parts[i].size, file |-> 0,
        state |-> IF parts[i].reason = "" THEN "pending" ELSE "skipped"]]

\* The addresses of a header, each with its place in it.
RecipientsOf(kind) ==
    [n \in DOMAIN email.lists[kind] |->
       [type |-> kind, ordinal |-> n, address |-> email.lists[kind][n].address,
        name |-> email.lists[kind][n].name]]

buildRecipients ==
    RecipientsOf("from") \o RecipientsOf("sender") \o RecipientsOf("reply_to")
        \o RecipientsOf("to") \o RecipientsOf("cc") \o RecipientsOf("bcc")

\* Bug: the first copy of an identifier keeps its place.
FirstOccurrence(ids, n) == \A m \in 1 .. n - 1 : ids[m] # ids[n]

LastOccurrence(ids, n) == \A m \in n + 1 .. Len(ids) : ids[m] # ids[n]

keepLastOccurrence(ids) ==
    LET kept == SetToSortSeq({n \in DOMAIN ids : LastOccurrence(ids, n)}, <)
    IN  [k \in DOMAIN kept |-> ids[kept[k]]]

\* The emails this one may descend from, the strongest link last.
ancestorMessageIDs ==
    LET parent   == IF email.inReplyTo = <<>> THEN <<>> ELSE <<email.inReplyTo>>
        original == IF email.bounce.known /\ email.bounce.original # <<>>
                    THEN <<email.bounce.original>> ELSE <<>>
    IN  keepLastOccurrence(email.references \o parent \o original)

Persist ==
    /\ step = "parsed"
    /\ rows' = buildAttachments
    /\ step' = "stored"
    /\ UNCHANGED <<header, entity, email, parts, acceptedParts, acceptedSize, storage, event>>
-----------------------------------------------------------------------------
(* Completion.                                                             *)

Pending == {i \in DOMAIN rows : rows[i].state = "pending"}

hasPendingAttachments == Pending # {}

\* The bytes of a part; without them the row cannot be uploaded.
partContent(i) == IF parts[i].reason # "" THEN NoContent ELSE parts[i].content

\* The bytes of a body, by their positions.
Bytes(size) == [b \in 1 .. size |-> b]

\* Bug: the rest of a body after its last whole chunk is sent only if it is all there is.
WholeChunks(size) ==
    IF size < ChunkSize THEN SelectSeq(<<Bytes(size)>>, LAMBDA chunk : chunk # <<>>)
    ELSE [k \in 1 .. size \div ChunkSize |-> SubSeq(Bytes(size), (k - 1) * ChunkSize + 1, k * ChunkSize)]

\* The chunks of a body, none of them empty.
sendUpload(size) ==
    [k \in 1 .. (size + ChunkSize - 1) \div ChunkSize |->
       SubSeq(Bytes(size), (k - 1) * ChunkSize + 1, Min({k * ChunkSize, size}))]

\* The storage service appends chunks until one is empty.
StorageAppends(chunks) ==
    FlattenSeq([k \in {n \in DOMAIN chunks : \A j \in 1 .. n : chunks[j] # <<>>} |-> chunks[k]])

\* The next pending row is uploaded, in the order of the manifest.
UploadFile ==
    /\ step = "stored" /\ hasPendingAttachments
    /\ LET i    == Min(Pending)
           file == Cardinality(DOMAIN storage) + 1
       IN  IF partContent(i) = NoContent
           THEN step' = "permanent" /\ UNCHANGED <<rows, storage>>
           ELSE /\ storage' = [f \in DOMAIN storage \cup {file} |->
                                 IF f = file THEN StorageAppends(sendUpload(partContent(i))) ELSE storage[f]]
                /\ rows' = [rows EXCEPT ![i].state = "stored", ![i].file = file]
                /\ UNCHANGED step
    /\ UNCHANGED <<header, entity, email, parts, acceptedParts, acceptedSize, event>>

\* EventWriter.Write of a message that is ready: a new regular email opens a
\* regular thread, any other is not eligible.
Write ==
    /\ step = "stored" /\ ~hasPendingAttachments
    /\ step' = "ready"
    /\ event' = LET doc == NewInboundMessage(email, buildRecipients, rows, Limits, Caps) IN
                CASE ~Eligible(email, email.kind)            -> NoEvent
                  [] ~ValidDocument(doc)                     -> [state |-> "rejected"]
                  [] encode(doc, Caps) > Limits.MaxPayloadSize -> [state |-> "rejected"]
                  [] OTHER                                   -> [state |-> "written", doc |-> doc]
    /\ UNCHANGED <<header, entity, email, parts, acceptedParts, acceptedSize, rows, storage>>

Init == ParserInit /\ rows = <<>> /\ storage = <<>> /\ event = NoEvent

\* The parser leaves the rows alone.
Parse == ParserNext /\ UNCHANGED <<rows, storage, event>>

Next == Parse \/ Persist \/ UploadFile \/ Write

Spec == Init /\ [][Next]_vars
-----------------------------------------------------------------------------
TypeOK ==
    /\ step \in {"header", "walk", "parsed", "stored", "ready", "permanent", "cancelled"}
    /\ header \in Headers /\ entity \in Seq(MimeParts)
    /\ acceptedParts \in 0 .. MaxAttachments /\ acceptedSize \in 0 .. MaxAttachmentsTotalSize
    /\ {email.text, email.html} \subseteq Text
    /\ \A i \in DOMAIN parts :
          /\ parts[i].disposition \in {"attachment", "inline"}
          /\ parts[i].reason \in {"", "read_error", "count_limit", "size_limit", "total_limit"}
          /\ parts[i].content \in 0 .. MaxAttachmentSize \cup {NoContent}
    /\ \A i \in DOMAIN rows : rows[i].state \in {"pending", "skipped", "stored"}
    /\ event.state \in {"none", "rejected", "written"}

\* Every byte of an accepted part is in storage, in order, once its row says so,
\* under a file of its own, and no accepted part turns out to have no content when
\* it is uploaded: the size the parser counts while it discards the rest, the buffer it
\* keeps (mime_parser.go:250-267), partContent (completion.go:389-400) and the
\* chunks of sendUpload (client.go:203-211) agree.
StoredWhole ==
    /\ rows # <<>> => step # "permanent"
    /\ \A i \in DOMAIN rows : rows[i].state = "stored" => storage[rows[i].file] = Bytes(parts[i].size)
    /\ \A i, j \in DOMAIN rows : rows[i].file = rows[j].file => i = j \/ rows[i].file = 0

\* An eligible email always has its event: "oversized input is truncated, never
\* rejected" (inbound_message.go:235), and the size guard of Marshal is
\* "unreachable while the limits passed Validate" (inbound_message.go:339), the
\* payload limit being exactly what WorstCaseSize computes for documents that only
\* its own caps bound.
NeverRejected == event.state # "rejected"

\* Limits nothing reaches.
Boundless == [Limits EXCEPT !.MaxBodyTextSize = 100, !.MaxFieldSize = 100,
                            !.MaxAddressesPerType = 100, !.MaxAttachments = 100]
NoCaps    == [Caps EXCEPT !.address = 100, !.name = 100, !.mime = 100]

\* A consumer can tell from the flags whether the event holds the body and each list
\* as the Message does: a flag is set exactly when the document differs from the one
\* that no limit of the event would have cut, and the body is where that one starts
\* (clean, addresses and attachments, inbound_message.go:361-460).  The flags say
\* nothing of what the parser cut before: see CutsFlagged.
FlagsExact ==
    event.state = "written" =>
        LET full == NewInboundMessage(email, buildRecipients, rows, Boundless, NoCaps) IN
        /\ event.doc.body.cut <=> event.doc.body.text # full.body.text
        /\ IsPrefix(event.doc.body.text, full.body.text)
        /\ event.doc.attachments.cut <=> event.doc.attachments.items # full.attachments.items
        /\ \A kind \in AddressKinds :
              event.doc.lists[kind].cut <=> event.doc.lists[kind].items # full.lists[kind].items

\* "body_text was cut", "the list or one of its addresses or names was cut"
\* (docs/events.md:67-68), whoever has cut it: the event, or limitBody and
\* parseAddressList before the Message was stored.  The code keeps no record of
\* their cuts (mime_parser.go:519, mime_parser.go:551-567).
CutsFlagged ==
    event.state = "written" =>
        /\ \A kind \in AddressKinds :
              (\E n \in DOMAIN email.lists[kind] :
                  \E a \in Range(header.lists[kind]) :
                      /\ cleanHeaderText(a.address) = email.lists[kind][n].address
                      /\ Len(cleanHeaderText(a.name)) > MaxHeaderTextRunes)
              => event.doc.lists[kind].cut
        /\ LET bodies == Shown("text/plain") IN
           Len(bodies) = 1 /\ Size(ToValidUTF8(bodies[1].body)) > MaxBodySize => event.doc.body.cut

\* The parts a reader of the email would call its attachments: accepted, and not
\* an image shown in the text.
Attached == {i \in Accepted : parts[i].disposition = "attachment"}

\* Flow is told of the email's attachments in the order of the email, each with
\* the file that holds its bytes; only those beyond the limit are left out
\* (inbound_message.go:397-428 after mime_parser.go:296-313 moved parts between
\* inline and attachment).
AttachmentsListed ==
    event.state = "written" =>
        LET listed == event.doc.attachments.items
            order  == SetToSortSeq(Attached, <)
        IN  /\ Len(listed) = Min({Len(order), Limits.MaxAttachments})
            /\ \A n \in DOMAIN listed :
                  /\ listed[n].file = rows[order[n]].file
                  /\ Len(storage[listed[n].file]) = listed[n].size
            /\ \A i \in Accepted \ Attached : IsImage(parts[i])

\* The candidates for the parent are distinct and end with the strongest link the
\* email has: the email a bounce reports on, else its In-Reply-To, else its newest
\* reference, which the limit on references never drops (persistence.go:196-231,
\* mime_parser.go:589-606).
StrongestLast ==
    step \in {"parsed", "stored", "ready"} =>
        LET ids  == ancestorMessageIDs
            refs == cleanMessageIDs(header.references, MaxMessageIDBytes)
        IN  /\ Cardinality(Range(ids)) = Len(ids)
            /\ CASE email.bounce.known /\ email.bounce.original # <<>> -> Last(ids) = email.bounce.original
                 [] email.inReplyTo # <<>>                            -> Last(ids) = email.inReplyTo
                 [] refs # <<>>                                       -> Last(ids) = Last(refs)
                 [] OTHER                                             -> ids = <<>>
=============================================================================
