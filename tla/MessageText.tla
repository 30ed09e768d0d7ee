----------------------------- MODULE MessageText ----------------------------
(***************************************************************************)
(* Text of an email, as sequences of characters of a few classes: what the *)
(* parser (internal/inbound/mime_parser.go) and the Flow event             *)
(* (internal/event/inbound_message.go) do to it.  A class has a width in   *)
(* UTF-8 and a width in JSON; "bad" is a byte that is not UTF-8, "repl" is *)
(* the replacement character U+FFFD.                                       *)
(***************************************************************************)
EXTENDS Integers, SequencesExt, FiniteSetsExt

\* a letter, a quote (escaped), U+2028 (escaped), an emoji, a line break, another
\* control character, and in HTML an image the email carries
Chars == {"letter", "quote", "u2028", "emoji", "line", "ctl", "bad", "repl", "img"}

Text == Seq(Chars)

\* Bytes in UTF-8.
Width(c) == CASE c \in {"u2028", "repl"} -> 3
              [] c = "emoji" -> 4
              [] OTHER -> 1

\* Bytes encoding/json writes, with SetEscapeHTML(false).
Escaped(c) == CASE c \in {"quote", "line"} -> 2
                [] c \in {"u2028", "ctl", "bad"} -> 6
                [] OTHER -> Width(c)

Size(s)        == FoldLeft(LAMBDA n, c : n + Width(c), 0, s)
EncodedSize(s) == FoldLeft(LAMBDA n, c : n + Escaped(c), 0, s)

Take(s, n) == SubSeq(s, 1, Min({Len(s), n}))

\* A run of invalid bytes becomes one replacement character.
ToValidUTF8(s) ==
    LET kept == SetToSortSeq({n \in DOMAIN s : s[n] # "bad" \/ n = 1 \/ s[n - 1] # "bad"}, <)
    IN  [k \in DOMAIN kept |-> IF s[kept[k]] = "bad" THEN "repl" ELSE s[kept[k]]]

\* The first max bytes, back to the start of a character.
CutRunes(s, max) ==
    SubSeq(s, 1, Max({n \in 0 .. Len(s) : Size(SubSeq(s, 1, n)) <= max}))

\* The first max bytes; a character cut in two is no longer valid.
CutBytes(s, max) ==
    LET whole == CutRunes(s, max)
    IN  IF whole # s /\ Size(whole) < max THEN Append(whole, "bad") ELSE whole
-----------------------------------------------------------------------------
(* The parser.                                                             *)

\* Bug: the value is not measured again once it is valid.
LimitRaw(body, limit) == ToValidUTF8(CutBytes(body, limit))

limitBody(body, limit) ==
    LET value == ToValidUTF8(IF Size(body) > limit THEN CutBytes(body, limit) ELSE body)
    IN  IF Size(value) <= limit THEN value ELSE CutRunes(value, limit)

\* Control characters are dropped, and strings.Map replaces every invalid byte.
cleanHeaderText(s) ==
    LET kept == SelectSeq(s, LAMBDA c : c \notin {"line", "ctl"})
    IN  [n \in DOMAIN kept |-> IF kept[n] = "bad" THEN "repl" ELSE kept[n]]

truncateRunes(s, limit) == Take(s, limit)

\* An identifier that is too long counts as none.
cleanMessageID(s, limit) ==
    LET id == cleanHeaderText(s) IN IF Size(id) > limit THEN <<>> ELSE id

cleanMessageIDs(ids, limit) ==
    SelectSeq([n \in DOMAIN ids |-> cleanMessageID(ids[n], limit)], LAMBDA id : id # <<>>)

\* The bytes of the identifiers from the n-th on, joined by spaces.
JoinedSize(ids, n) ==
    FoldLeft(LAMBDA size, id : size + Size(id) + 1, -1, SubSeq(ids, n, Len(ids)))

\* The newest identifiers whose joined size stays within the limit.
limitReferences(ids, limit) ==
    LET start == Min({n \in 1 .. Len(ids) + 1 : \A m \in n .. Len(ids) : JoinedSize(ids, m) <= limit})
    IN  SubSeq(ids, start, Len(ids))

\* html2text: the text of an HTML body, without its markup.
HTML2Text(html) == SelectSeq(html, LAMBDA c : c # "img")
-----------------------------------------------------------------------------
(* The event.                                                              *)

\* Bug: control characters reach the document.
KeepControls(s, singleLine) == s

\* Without the controls JSON would escape as \u00XX; those of a single line
\* become spaces.
WithoutControls(s, singleLine) ==
    IF singleLine THEN [n \in DOMAIN s |-> IF s[n] \in {"line", "ctl"} THEN "letter" ELSE s[n]]
                  ELSE SelectSeq(s, LAMBDA c : c # "ctl")

\* Bug: the flag counts characters.
CountsRunes(s, maxSize, singleLine) ==
    LET value == WithoutControls(ToValidUTF8(s), singleLine)
    IN  [text |-> CutRunes(value, maxSize), cut |-> Len(value) > maxSize]

\* The cleaned value, and whether it was cut.
clean(s, maxSize, singleLine) ==
    LET value == WithoutControls(ToValidUTF8(s), singleLine)
    IN  [text |-> CutRunes(value, maxSize), cut |-> Size(value) > maxSize]

line(s, maxSize)  == clean(s, maxSize, TRUE)
field(s, maxSize) == line(s, maxSize).text
=============================================================================
