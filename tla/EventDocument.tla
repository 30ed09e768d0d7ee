---------------------------- MODULE EventDocument ---------------------------
(***************************************************************************)
(* The document of the event that starts Flow (internal/event/             *)
(* inbound_message.go): how it is built from a stored message, its size in *)
(* JSON, and the limits startup accepts.                                   *)
(*                                                                         *)
(* "limits" is event.Limits; "caps" holds the fixed caps of address, name  *)
(* and MIME type, and the bytes of the JSON around the values: envelope,   *)
(* address and attachment with every identifier and date at its longest.   *)
(***************************************************************************)
EXTENDS MessageText

\* The caps and the JSON of the service.
ServiceCaps == [address |-> 320, name |-> 256, mime |-> 255,
                envelope |-> 770, addressFrame |-> 24, attachmentFrame |-> 107]

AddressKinds == {"from", "sender", "reply_to", "to", "cc"}
-----------------------------------------------------------------------------
(* The limits.                                                             *)

\* n items add n items and n - 1 commas to the empty brackets.
ListSize(n, itemSize) == n * itemSize + (n - 1)

\* The longest document: every character is one that doubles when escaped.
WorstCaseSize(limits, caps) ==
    LET base       == caps.envelope + 3 * (2 * limits.MaxFieldSize)
        address    == caps.addressFrame + 2 * caps.address + 2 * caps.name
        attachment == caps.attachmentFrame + 2 * limits.MaxFieldSize + 2 * caps.mime
    IN  base + 2 * limits.MaxBodyTextSize
             + Cardinality(AddressKinds) * ListSize(limits.MaxAddressesPerType, address)
             + ListSize(limits.MaxAttachments, attachment)

\* Limits.Validate.
ValidLimits(limits, caps) ==
    /\ limits.MaxBodyTextSize \in 1 .. 8 * 1048576
    /\ limits.MaxFieldSize \in 1 .. 65536
    /\ limits.MaxAddressesPerType \in 1 .. 10000
    /\ limits.MaxAttachments \in 1 .. 10000
    /\ limits.MaxPayloadSize \in 1 .. 16 * 1048576
    /\ WorstCaseSize(limits, caps) <= limits.MaxPayloadSize
-----------------------------------------------------------------------------
(* The document of a message: a record of its fields (messageID, inReplyTo, *)
(* subject, text), its recipients and its attachment rows.                  *)

Eligible(message, threadKind) == message.kind = "regular" /\ threadKind = "regular"

addresses(recipients, kind, limits, caps) ==
    LET matched == SortSeq(SelectSeq(recipients, LAMBDA r : r.type = kind),
                           LAMBDA a, b : a.ordinal < b.ordinal)
        kept    == Take(matched, limits.MaxAddressesPerType)
    IN  [items |-> [n \in DOMAIN kept |->
                      [address |-> field(kept[n].address, caps.address),
                       name    |-> field(kept[n].name, caps.name)]],
         cut   |-> \/ kept # matched
                   \/ \E n \in DOMAIN kept : \/ line(kept[n].address, caps.address).cut
                                             \/ line(kept[n].name, caps.name).cut]

\* Bug: every uploaded part is listed, inline images too.
AnyStored(row) == row.state = "stored"

\* The rows Flow is told of.
Listed(row) == row.state = "stored" /\ row.disposition = "attachment"

attachments(rows, limits, caps) ==
    LET stored == SortSeq(SelectSeq(rows, Listed), LAMBDA a, b : a.position < b.position)
        kept   == Take(stored, limits.MaxAttachments)
    IN  [items |-> [n \in DOMAIN kept |->
                      [file |-> kept[n].file, size |-> kept[n].size,
                       name |-> field(kept[n].name, limits.MaxFieldSize),
                       mime |-> field(kept[n].mime, caps.mime)]],
         cut   |-> \/ kept # stored
                   \/ \E n \in DOMAIN kept : \/ line(kept[n].name, limits.MaxFieldSize).cut
                                             \/ line(kept[n].mime, caps.mime).cut]

\* NewInboundMessage.
NewInboundMessage(message, recipients, rows, limits, caps) ==
    [id          |-> field(message.messageID, limits.MaxFieldSize),
     inReplyTo   |-> field(message.inReplyTo, limits.MaxFieldSize),
     subject     |-> field(message.subject, limits.MaxFieldSize),
     body        |-> clean(message.text, limits.MaxBodyTextSize, FALSE),
     lists       |-> [kind \in AddressKinds |-> addresses(recipients, kind, limits, caps)],
     attachments |-> attachments(rows, limits, caps)]

\* InboundMessage.Validate; identifiers, dates and kinds are those of stored rows.
ValidDocument(doc) == doc.id # <<>>

\* The bytes of a list of items of these sizes between its brackets.
Joined(sizes) == IF sizes = <<>> THEN 0 ELSE FoldLeft(+, 0, sizes) + Len(sizes) - 1

\* encode: the bytes of the document.
encode(doc, caps) ==
    LET AddressSize(a)    == caps.addressFrame + EncodedSize(a.address) + EncodedSize(a.name)
        AttachmentSize(a) == caps.attachmentFrame + EncodedSize(a.name) + EncodedSize(a.mime)
        Items(list, SizeOf(_)) == [n \in DOMAIN list |-> SizeOf(list[n])]
    IN  caps.envelope
        + EncodedSize(doc.id) + EncodedSize(doc.inReplyTo) + EncodedSize(doc.subject)
        + EncodedSize(doc.body.text)
        + MapThenSumSet(LAMBDA kind : Joined(Items(doc.lists[kind].items, AddressSize)), AddressKinds)
        + Joined(Items(doc.attachments.items, AttachmentSize))
=============================================================================
