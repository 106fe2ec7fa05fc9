------------------------------ MODULE Protocol ------------------------------
(***************************************************************************)
(* Messages between the operator and a member: one side encodes a value    *)
(* with its codec, the other decodes the frames it receives.  The codecs   *)
(* are the layouts of ConfigCodecs and MessageCodecs; this module gives    *)
(* them their meaning, as the encode and decode functions of               *)
(* internal/protocol/codec compose the primitives of builtin.go.           *)
(*                                                                         *)
(* A member may run another version: a newer one adds frames at the end of *)
(* its structures and messages, an older one leaves out what later         *)
(* versions added.                                                         *)
(***************************************************************************)
EXTENDS ConfigCodecs, MessageCodecs, TLC

CONSTANT Extra      \* the frames a newer member may append, one sequence each

VARIABLES msg,      \* the message in flight: its codec, value and the sender's version
          wire,     \* its frames
          got       \* what the receiver decoded: the value and where it stopped

messages == <<msg, wire, got>>

-----------------------------------------------------------------------------
(* Encoding.  The version of the writer: whether it leaves out what later ones
   added, and what it appends itself. *)

Same == [older |-> FALSE, extra |-> <<>>]
Older == [older |-> TRUE, extra |-> <<>>]
Newer == {[older |-> FALSE, extra |-> x] : x \in Extra}

RECURSIVE EncodeStruct(_, _, _)

EncodeElement(e, v, version) ==
    CASE e \in {"str", "data", "bytes"} -> <<DataFrame(v)>>
      [] e \in {"pair", "entry"} -> <<DataFrame(v[1]), DataFrame(v[2])>>
      [] OTHER -> EncodeStruct(e, v, version)

\* EncodeNullableFor...: the zero value is a null frame.  A list is a begin
\* frame, its elements and an end frame.
EncodeField(k, v, version) ==
    IF v = Zero /\ k.null THEN <<NullFrame>>
    ELSE IF ~k.list THEN EncodeElement(k.elem, v, version)
    ELSE LET elems == IF v = Zero THEN <<>> ELSE v
         IN  <<BeginFrame>>
             \o FlattenSeq([i \in 1 .. Len(elems) |->
                               EncodeElement(k.elem, elems[i], version)])
             \o <<EndFrame>>

\* What a member of the given version writes of a layout.
Known(l, later, version) ==
    IF ~version.older THEN l
    ELSE LET kept == SelectSeq(l.fixed, LAMBDA f : f[1] \notin later)
         IN  [l EXCEPT !.fixed = kept,
                       !.fields = SelectSeq(l.fields, LAMBDA f : f[1] \notin later),
                       !.size = IF kept = l.fixed THEN l.size
                                ELSE kept[Len(kept)][3] + Width[kept[Len(kept)][2]]]

EncodeFields(l, v, version) ==
    FlattenSeq([i \in 1 .. Len(l.fields) |->
        EncodeField(l.fields[i][2], Field(v, l.fields[i][1]), version)])

EncodeStruct(e, v, version) ==
    LET l == Known(StructEncoders[e], StructDecoders[e].later, version)
    IN  <<BeginFrame>>
        \o (IF l.size = 0 THEN <<>> ELSE <<InitialFrame(l, v)>>)
        \o EncodeFields(l, v, version)
        \o version.extra \o <<EndFrame>>

\* NewFrameWith, SetMessageType, SetPartitionId: the header shares the first
\* frame with the fixed fields of the message.  The encoder of the one response
\* that this package writes sets a partition, too.
RequestHeader == <<<<"messageType", "int", 0>>, <<"correlationId", "long", 4>>,
                   <<"partitionId", "int", 12>>>>
ResponseHeader == <<<<"messageType", "int", 0>>, <<"correlationId", "long", 4>>,
                    <<"backupAcks", "byte", 12>>>>

HeaderOf(c) == IF c \in DOMAIN Responses \ {"MCGetClusterMetadataResponse"}
               THEN ResponseHeader ELSE RequestHeader

Header(h) == [n \in {h[i][1] : i \in 1 .. Len(h)} |-> n]

StructMessage(e) == Layout(16, <<>>, <<<<"it", One(e)>>>>)

Writer(c) == CASE c \in DOMAIN Requests -> Requests[c]
               [] c \in DOMAIN Responses -> ResponseWriters[c]
               [] OTHER -> StructMessage(c)
Reader(c) == CASE c \in DOMAIN Requests -> RequestReaders[c]
               [] c \in DOMAIN Responses -> Responses[c]
               [] OTHER -> StructMessage(c)

\* A response's first frame has at least its header and what its reader needs.
Whole(c) == [Writer(c) EXCEPT !.size = IF @ < 13 THEN 13 ELSE @]

\* The encoder of a request writes the fixed fields first and the header over
\* them, the one of a response the other way round.
InitialFields(c, l) == IF c \in DOMAIN Responses THEN HeaderOf(c) \o l.fixed
                       ELSE l.fixed \o HeaderOf(c)

EncodeMessage(c, v, version) ==
    LET l == Known(Whole(c), Whole(c).later, version)
        fixed == Header(HeaderOf(c)) @@ [n \in FieldNames(l) |-> Field(v, n)]
    IN  <<InitialFrame([l EXCEPT !.fixed = InitialFields(c, l)], fixed)>>
        \o EncodeFields(l, v, version) \o version.extra

-----------------------------------------------------------------------------
(* Decoding: the value and the position of the iterator. *)

At(v, at) == [value |-> v, at |-> at]

RECURSIVE DecodeStruct(_, _, _)
RECURSIVE DecodeElements(_, _, _, _)
RECURSIVE DecodeFields(_, _, _, _)

DecodeElement(e, w, at) ==
    CASE e \in {"str", "data", "bytes"} -> At(Content(w, at), at + 1)
      [] e \in {"pair", "entry"} -> At(<<Content(w, at), Content(w, at + 1)>>, at + 2)
      [] OTHER -> DecodeStruct(e, w, at)

\* The loop of a list decoder: until the end frame, or, in
\* DecodeEntryListForDataAndData and DecodeListMultiFrameForDataContainsNullable,
\* while the next frame is an end frame.  It panics past the end of the message.
DecodeElements(k, w, at, read) ==
    IF \/ at > Len(w)
       \/ NextFrameIsDataStructureEndFrame(w, at) # (k.looping = "while")
    THEN At(Listed(read), at + 1)
    ELSE LET r == DecodeElement(k.elem, w, at)
         IN  DecodeElements(k, w, r.at, Append(read, r.value))

\* Fault: a null frame is looked at and not passed.
DecodeFieldPeeks(k, w, at) ==
    IF k.null /\ NextFrameIsNullFrame(w, at) THEN At(Zero, at)
    ELSE IF k.list THEN DecodeElements(k, w, at + 1, <<>>)
    ELSE DecodeElement(k.elem, w, at)

DecodeField(k, w, at) ==
    IF k.null /\ NextFrameIsNullFrame(w, at) THEN At(Zero, at + 1)
    ELSE IF k.list THEN DecodeElements(k, w, at + 1, <<>>)
    ELSE DecodeElement(k.elem, w, at)

\* Nothing is left to read: the structure ends here, or the message does, which
\* DecodeListMultiFrameForIndexConfig asks for (HasNext).
Over(w, at) == NextFrameIsDataStructureEndFrame(w, at) \/ at > Len(w)

\* The fields of variable size, from the i-th on: a field that older members do
\* not write is read only when something is left.
DecodeFields(l, w, at, i) ==
    IF i > Len(l.fields) THEN [values |-> <<>>, at |-> at]
    ELSE LET n == l.fields[i][1]
             r == IF n \in l.later /\ Over(w, at)
                  THEN At(Zero, at) ELSE DecodeField(l.fields[i][2], w, at)
             rest == DecodeFields(l, w, r.at, i + 1)
         IN  [values |-> (n :> r.value) @@ rest.values, at |-> rest.at]

DecodeFixed(l, frame) ==
    [n \in {f[1] : f \in ToSet(l.fixed)} |->
        LET f == CHOOSE g \in ToSet(l.fixed) : g[1] = n
        IN  IF frame.type # "fixed" THEN Garbled
            ELSE IF n \in l.later /\ f[3] \notin DOMAIN frame.content THEN Zero
            ELSE GetAt(frame.content, f)]

DecodeStruct(e, w, at) ==
    LET l == StructDecoders[e]
        fixed == IF l.size = 0 THEN <<>> ELSE DecodeFixed(l, Peek(w, at + 1))
        r == DecodeFields(l, w, IF l.size = 0 THEN at + 1 ELSE at + 2, 1)
    IN  At(Canonical(fixed @@ r.values), FastForwardToEndFrame(w, r.at))

DecodeMessage(l, w) ==
    LET r == DecodeFields(l, w, 2, 1)
    IN  At(DecodeFixed(l, w[1]) @@ r.values, r.at)

-----------------------------------------------------------------------------
(* A value of every codec: all fields zero, none, or one of them different. *)

RECURSIVE Full(_)
FullElement(e, n) ==
    CASE e \in {"str", "data", "bytes"} -> n
      [] e \in {"pair", "entry"} -> <<"key", "value">>
      [] OTHER -> Full(StructEncoders[e])

FullField(k, n) ==
    CASE k.elem = "null" -> Zero
      [] k.list /\ k.elem \in {"entry"} -> <<FullElement(k.elem, n)>>
      [] k.list /\ k.elem # "entry" -> <<FullElement(k.elem, n), FullElement(k.elem, n)>>
      [] OTHER -> FullElement(k.elem, n)

IsFixed(l, n) == \E f \in ToSet(l.fixed) : f[1] = n

Full(l) == [n \in FieldNames(l) |-> IF IsFixed(l, n) THEN n ELSE FullField(KindOf(l, n), n)]

Values(l) ==
    LET none == [n \in FieldNames(l) |-> Zero]
    IN  {none, Full(l)}
        \cup {[none EXCEPT ![n] = Full(l)[n]] : n \in FieldNames(l)}
        \cup {[Full(l) EXCEPT ![n] = Zero] : n \in FieldNames(l)}

-----------------------------------------------------------------------------
(* A message at a time *)

\* What this package cannot read back.  CacheConfigHolder is written with nullable
\* structures that its decoder reads as if they were always there, and the two
\* loops above never read a list.  The operator itself uses none of these decoders.
Unread == {"CacheConfigHolder", "CacheCreateConfigRequest", "CacheCreateConfigResponse",
           "CacheGetConfigResponse", "CacheGetAllResponse"}

Codecs == DOMAIN StructEncoders \cup DOMAIN Requests \cup DOMAIN Responses

CodecValues(c) == IF c \in DOMAIN StructEncoders
                  THEN {[it |-> Canonical(v)] : v \in Values(StructEncoders[c])}
                  ELSE Values(Writer(c))

NoMessage == [codec |-> "none", value |-> Zero, version |-> Same]
Nothing == At(Zero, 0)

NoMessages == msg = NoMessage /\ wire = <<>> /\ got = Nothing

Send(c, v, version) ==
    /\ msg' = [codec |-> c, value |-> v, version |-> version]
    /\ wire' = EncodeMessage(c, v, version)
    /\ UNCHANGED got

Receive ==
    /\ wire # <<>>
    /\ got' = DecodeMessage(Reader(msg.codec), wire)
    /\ wire' = <<>>
    /\ UNCHANGED msg

\* The invocation is over.
Done ==
    /\ got.at # 0
    /\ msg' = NoMessage /\ got' = Nothing
    /\ UNCHANGED wire

\* Requests are the operator's own; the rest comes from a member.
Versions(c) == IF c \in DOMAIN Requests THEN {Same} ELSE {Same, Older} \cup Newer

Exchange ==
    \/ /\ msg = NoMessage
       /\ \E c \in Codecs : \E v \in CodecValues(c), x \in Versions(c) : Send(c, v, x)
    \/ Receive
    \/ Done

MessageSpec == NoMessages /\ [][Exchange]_messages

-----------------------------------------------------------------------------
(* Properties *)

Received == got.at # 0 /\ msg.codec \notin Unread

\* What the reader has of the value: all it knows of, of what the writer knew.
Read(c, v) == [n \in FieldNames(Reader(c)) |-> v[n]]

\* A value without what an older member leaves out of it.
RECURSIVE Aged(_, _)
AgedElement(e, v) == IF e \in DOMAIN StructDecoders THEN Canonical(Aged(StructDecoders[e], v)) ELSE v
Aged(l, v) ==
    [n \in FieldNames(l) |->
        CASE n \in l.later \/ Field(v, n) = Zero -> Zero
          [] IsFixed(l, n) /\ n \notin l.later -> Field(v, n)
          [] OTHER -> LET k == KindOf(l, n)
                      IN  IF k.list THEN [i \in DOMAIN v[n] |-> AgedElement(k.elem, v[n][i])]
                          ELSE AgedElement(k.elem, v[n])]

\* The value that is decoded is the value that was encoded: the fixed fields do
\* not overlap each other, those of a request are not destroyed by the header that
\* is written after them, and the two directions agree on order, kind and null
\* frames (Encode... and Decode... of internal/protocol/codec).
RoundTrip ==
    Received /\ msg.version = Same => got.value = Read(msg.codec, msg.value)

\* A member of another version is understood: what a newer one appends to a
\* structure, nested structures included, is skipped (FastForwardToEndFrame), and
\* what an older one leaves out, the indexes at the end of a map's configuration
\* included, is zero and shifts nothing else.
VersionSkew ==
    Received /\ msg.version # Same =>
        got.value = IF msg.version.older THEN Aged(Reader(msg.codec), msg.value)
                    ELSE Read(msg.codec, msg.value)

\* The decoder stops where the encoder stopped, so that what follows in the same
\* message is read from its first frame.
ReadsAllOfIt ==
    Received => got.at = Len(EncodeMessage(msg.codec, msg.value, msg.version)) + 1
                         - Len(msg.version.extra)
=============================================================================
