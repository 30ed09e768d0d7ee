-------------------------- MODULE MCInboundDocument -------------------------
(***************************************************************************)
(* Emails of up to MaxWalk parts for InboundDocument, and the defaults of  *)
(* the configuration.                                                      *)
(***************************************************************************)
EXTENDS InboundDocument, Config

l == "letter"
q == "quote"

Part(type, disposition) ==
    [type |-> type, disposition |-> disposition, name |-> <<>>, mime |-> <<l>>, cid |-> FALSE,
     size |-> 1, readErr |-> FALSE, body |-> <<>>, groups |-> <<>>, id |-> <<>>]

Plain == {<<>>, <<l, l, "emoji">>, <<l, l, l, "emoji">>, <<"bad", "bad", "u2028">>,
          <<"ctl", "line", q, q>>, <<"ctl", "ctl", "ctl", "ctl">>, <<q, q, q, q, q>>}
HTML  == {<<"img">>, <<l, "u2028", "img">>, <<"bad", "img">>}

Bodies ==
    {[Part("text/plain", "") EXCEPT !.body = s] : s \in Plain}
    \cup {[Part("text/html", "inline") EXCEPT !.body = s] : s \in HTML}
    \cup {[Part("text/plain", "") EXCEPT !.readErr = TRUE]}

Group(original) == [original |-> original, final |-> <<>>, initial |-> <<l>>, status |-> <<q>>]

Reports ==
    {[Part("message/delivery-status", "") EXCEPT !.groups = <<Group(<<>>), Group(<<q, l>>)>>],
     [Part("message/rfc822", "") EXCEPT !.id = <<q, q>>]}

Files ==
    {[Part("application", "attachment") EXCEPT !.size = 4, !.name = <<q, q, q, q>>, !.mime = <<q, q>>],
     [Part("application", "") EXCEPT !.size = 5],
     [Part("application", "inline") EXCEPT !.size = 0, !.name = <<"ctl", "bad", l>>],
     [Part("application", "") EXCEPT !.readErr = TRUE],
     [Part("image", "inline") EXCEPT !.cid = TRUE, !.size = 2],
     [Part("image", "attachment") EXCEPT !.cid = TRUE, !.size = 3, !.mime = <<l, l, l>>],
     Part("image", "inline"),
     Part("text/plain", "attachment")}

Others == {Part("multipart", ""), Part("invalid", ""), Part("unreadable", "")}

MCParts == Bodies \cup Reports \cup Files \cup Others

Address(address, name) == [address |-> address, name |-> name]
NoAddress == [kind \in AddressKinds \cup {"bcc"} |-> <<>>]

Plainest ==
    [broken |-> FALSE, id |-> <<l>>, inReplyTo |-> <<>>, references |-> <<>>, subject |-> <<l>>,
     marks |-> {}, original |-> <<>>, failed |-> <<>>, lists |-> NoAddress]

\* A reply whose parent is also its oldest reference, to three addresses.
Reply == [Plainest EXCEPT !.inReplyTo = <<<<l, l>>>>, !.references = <<<<l, l>>, <<"ctl">>, <<q>>>>,
                          !.subject = <<"emoji", "bad">>,
                          !.lists = [NoAddress EXCEPT !["to"] = <<Address(<<l>>, <<>>), Address(<<q>>, <<>>), Address(<<l>>, <<>>)>>,
                                                      !["cc"] = <<Address(<<"ctl">>, <<l>>), Address(<<l>>, <<"emoji", l>>)>>]]

\* Every field full of characters that double; the parser cuts subject and names.
Full == [Plainest EXCEPT !.id = <<q, q, q, q>>, !.inReplyTo = <<<<q, q, q, q>>>>, !.subject = <<q, q, q, q, q>>,
                         !.lists = [kind \in DOMAIN NoAddress |-> [n \in 1 .. 2 |-> Address(<<q, q>>, <<q, q, q, q, q>>)]]]

\* No identifier, and more references than fit.
Unnamed == [Plainest EXCEPT !.id = <<"emoji", "u2028">>,
                            !.references = <<<<l, l, l>>, <<l, q>>, <<"emoji">>>>]

Bounced == [Plainest EXCEPT !.marks = {"delivery-status", "auto-submitted"}, !.inReplyTo = <<<<l, q>>>>]
Silent  == [Plainest EXCEPT !.marks = {"empty-return-path"}, !.original = <<l, l>>]
Vacation == [Plainest EXCEPT !.marks = {"precedence", "empty-return-path"}]

MCHeaders == {Reply, Full, Unnamed, Bounced, Silent, Vacation, [Plainest EXCEPT !.broken = TRUE]}

MCLimits == [MaxBodyTextSize |-> 4, MaxAddressesPerType |-> 2, MaxAttachments |-> 1,
             MaxFieldSize |-> 4, MaxPayloadSize |-> 203]

MCCaps == [address |-> 2, name |-> 4, mime |-> 2, envelope |-> 10, addressFrame |-> 2, attachmentFrame |-> 4]

\* Limits startup accepts too, shorter than the first character of an identifier.
NarrowLimits  == [MCLimits EXCEPT !.MaxFieldSize = 3]
NarrowHeaders == {[Plainest EXCEPT !.id = <<"emoji">>]}

\* A document with every value at its cap and full of characters that double.
Quotes(n) == [k \in 1 .. n |-> q]

FullList(n, item) == [items |-> [k \in 1 .. n |-> item], cut |-> TRUE]

FullDocument ==
    [id |-> Quotes(MCLimits.MaxFieldSize), inReplyTo |-> Quotes(MCLimits.MaxFieldSize),
     subject |-> Quotes(MCLimits.MaxFieldSize),
     body |-> [text |-> Quotes(MCLimits.MaxBodyTextSize), cut |-> TRUE],
     lists |-> [kind \in AddressKinds |->
                  FullList(MCLimits.MaxAddressesPerType,
                           [address |-> Quotes(MCCaps.address), name |-> Quotes(MCCaps.name)])],
     attachments |-> FullList(MCLimits.MaxAttachments,
                              [file |-> 1, size |-> 0, name |-> Quotes(MCLimits.MaxFieldSize),
                               mime |-> Quotes(MCCaps.mime)])]

\* The limit is what startup computes, and that is the longest document to the byte.
ASSUME Tight ==
    /\ WorstCaseSize(MCLimits, MCCaps) = MCLimits.MaxPayloadSize
    /\ encode(FullDocument, MCCaps) = MCLimits.MaxPayloadSize
=============================================================================
