------------------------------- MODULE Frames -------------------------------
(***************************************************************************)
(* The wire format of the Hazelcast client protocol, as the codecs of the  *)
(* operator write and read it (internal/protocol/codec/builtin.go).        *)
(*                                                                         *)
(* A message is a sequence of frames.  A frame is a marker (begin, end,    *)
(* null) or holds data: the bytes of the fixed size fields, or one string  *)
(* or blob.  A value is Zero (the Go zero value: 0, false, "", nil, an     *)
(* empty struct), a name that stands for any other value, a sequence, or a *)
(* function from field names to values.  Byte i of a fixed size value v is *)
(* the pair <<v, i>>, so a field read at the wrong place, with the wrong   *)
(* width or after another field was written over it is seen as Garbled.    *)
(***************************************************************************)
EXTENDS Integers, Sequences, FiniteSets, SequencesExt

CONSTANTS Zero,      \* the Go zero value of any type
          Garbled    \* what is read where no value was written

Width == [bool |-> 1, byte |-> 1, int |-> 4, long |-> 8, uuid |-> 17]

\* How a field of variable size is written: one element, an element or a null
\* frame, a list, a list or a null frame.  "looping" tells the list decoders that
\* go on until the end frame from those that go on while they see one.
Kind(e, null, list) == [elem |-> e, null |-> null, list |-> list, looping |-> "until"]
One(e) == Kind(e, FALSE, FALSE)
Opt(e) == Kind(e, TRUE, FALSE)
Many(e) == Kind(e, FALSE, TRUE)
OptMany(e) == Kind(e, TRUE, TRUE)
ManyWhileEnd(e) == [Many(e) EXCEPT !.looping = "while"]

\* A structure or a message: the size of its frame of fixed fields (0: it has
\* none), these fields with their offsets, the fields of variable size in order,
\* and the fields that members of an older version do not write.
Layout(size, fixed, fields) ==
    [size |-> size, fixed |-> fixed, fields |-> fields, later |-> {}]
LayoutLater(size, fixed, fields, later) ==
    [Layout(size, fixed, fields) EXCEPT !.later = later]

FieldNames(l) == {f[1] : f \in ToSet(l.fixed) \cup ToSet(l.fields)}
KindOf(l, n) == (CHOOSE f \in ToSet(l.fields) : f[1] = n)[2]

Field(v, n) == IF v = Zero THEN Zero ELSE v[n]

\* An empty list is a nil slice to every reader of the operator, and a structure
\* whose fields are all zero is the zero structure.
Canonical(v) == IF \A n \in DOMAIN v : v[n] = Zero THEN Zero ELSE v
Listed(s) == IF s = <<>> THEN Zero ELSE s

-----------------------------------------------------------------------------
(* Frames *)

BeginFrame == [type |-> "begin", content |-> <<>>]
EndFrame   == [type |-> "end", content |-> <<>>]
NullFrame  == [type |-> "null", content |-> <<>>]
DataFrame(c) == [type |-> "data", content |-> c]
\* The frame of fixed size fields: its content is a function on its offsets.
FixedFrame(c) == [type |-> "fixed", content |-> c]

\* ForwardFrameIterator: PeekNext at the end of the message finds nothing.
Peek(wire, at) == IF at \in 1 .. Len(wire) THEN wire[at]
                  ELSE [type |-> "none", content |-> Garbled]

\* Encode/Decode Boolean, Byte, Int, Long, UUID: little endian, in place.  The
\* zero UUID is a flag that is set, and the rest of its bytes are not touched.
Written(kind, v) ==
    CASE kind = "uuid" /\ v = Zero -> <<<<"null", 1>>>>
      [] kind = "uuid" /\ v # Zero -> <<Zero>> \o [i \in 1 .. 16 |-> <<v, i + 1>>]
      [] OTHER -> [i \in 1 .. Width[kind] |-> IF v = Zero THEN Zero ELSE <<v, i>>]

GetAt(buffer, f) ==
    LET w == Width[f[2]]
        b == [i \in 1 .. w |-> buffer[f[3] + i - 1]]
        first == IF f[2] = "uuid" THEN 2 ELSE 1
    IN  IF \E i \in 1 .. w : f[3] + i - 1 \notin DOMAIN buffer THEN Garbled
        ELSE IF f[2] = "uuid" /\ b[1] = <<"null", 1>> THEN Zero
        ELSE IF \A i \in 1 .. w : b[i] = Zero THEN Zero
        ELSE IF /\ b[first] # Zero
                /\ \A i \in first .. w : b[i] = <<b[first][1], i>>
                /\ f[2] = "uuid" => b[1] = Zero
             THEN b[first][1]
        ELSE Garbled

\* The frame of fixed size fields that an encoder fills before it adds it: a
\* byte is the one of the last field that is written over it.
InitialFrame(l, v) ==
    LET b == [k \in DOMAIN l.fixed |-> Written(l.fixed[k][2], Field(v, l.fixed[k][1]))]
        Over(i) == {k \in DOMAIN l.fixed : i - l.fixed[k][3] + 1 \in DOMAIN b[k]}
    IN  FixedFrame([i \in 0 .. l.size - 1 |->
            IF Over(i) = {} THEN Zero
            ELSE LET k == Max(Over(i)) IN b[k][i - l.fixed[k][3] + 1]])

-----------------------------------------------------------------------------
(* Reading *)

\* Fault: the first end frame ends it, of whatever structure it is.
FirstEndFrame(wire, at) ==
    1 + Min({i \in at .. Len(wire) : wire[i].type = "end"} \cup {Len(wire) + 1})

\* FastForwardToEndFrame: passes the end frame of the structure the iterator is
\* in, over the structures that are nested in what it skips.
RECURSIVE PassEnds(_, _, _)
PassEnds(wire, at, ends) ==
    IF ends = 0 THEN at
    ELSE IF at > Len(wire) THEN at + 1
    ELSE PassEnds(wire, at + 1, CASE wire[at].type = "end" -> ends - 1
                                  [] wire[at].type = "begin" -> ends + 1
                                  [] OTHER -> ends)

FastForwardToEndFrame(wire, at) == PassEnds(wire, at, 1)

NextFrameIsNullFrame(wire, at) == Peek(wire, at).type = "null"
NextFrameIsDataStructureEndFrame(wire, at) == Peek(wire, at).type = "end"

\* DecodeString, DecodeData: whatever the next frame holds.
Content(wire, at) == IF Peek(wire, at).type = "data" THEN Peek(wire, at).content ELSE Garbled
=============================================================================
