------------------------------- MODULE Encoding -------------------------------
(***************************************************************************)
(* How a message becomes a datagram and is read again (AbstractMessage.cpp  *)
(* and createBuffer and the getters of the message classes in net/).        *)
(*                                                                         *)
(* A buffer is the sequence of its bits, numbered from 0 as in the code:    *)
(* bit 0 is the highest of byte 0.  A byte has bits 0..7 in the same order. *)
(* An unsigned integer is a function on the weights of its bits; prime,     *)
(* root and key of a hello, which the constructor has in 64 bits, have the *)
(* 32 that createBuffer writes.  CRC32 is external: a function of the       *)
(* buffer, so equal on equal buffers.                                      *)
(***************************************************************************)
EXTENDS Naturals, Sequences

CONSTANTS
  MaxPayload,  \* bound: bytes of a name, a password or a content
  HelloBytes,  \* the size of a ClientHello, 1000 in the code
  Pattern      \* bit patterns to fill the fields with: sets of numbers below 64

ASSUME EncodingAssumption ==
  /\ MaxPayload \in Nat
  /\ HelloBytes \in Nat /\ HelloBytes >= 27
  /\ Pattern \subseteq SUBSET (0..63)

VARIABLES
  type,    \* the class of the message
  length,  \* the bytes of its payload
  given,   \* the values its constructor got, by field
  phase,   \* how far createBuffer and the receiver are
  done,    \* the fields createBuffer has written
  buf,     \* the buffer
  summed,  \* history: the buffer the checksum was calculated of
  crc,     \* that checksum
  valid    \* the result of isChecksumValid

vars == <<type, length, given, phase, done, buf, summed, crc, valid>>

-----------------------------------------------------------------------------
(* Bytes in a buffer *)

Byte == [0..7 -> BOOLEAN]
Unsigned(width) == [0..(width - 1) -> BOOLEAN]

\* A byte at an offset that is no multiple of 8 lies in two bytes of the
\* buffer, whose other bits the masks keep.
SetByteWithOffset(b, v, o) ==
  [i \in DOMAIN b |->
     LET j == i % 8 m == o % 8
     IN CASE i \div 8 = o \div 8 -> IF j < m THEN b[i] ELSE v[j - m]
          [] i \div 8 = o \div 8 + 1 /\ m # 0 -> IF j < m THEN v[8 - m + j] ELSE b[i]
          [] OTHER -> b[i]]

\* The second byte is shifted by m and not by 8 - m: right for m = 4 only.
GetByteWithOffset(b, o) ==
  LET k == 8 * (o \div 8) m == o % 8
  IN [j \in 0..7 |-> IF m = 0 THEN b[k + j]
                     ELSE (j < 8 - m /\ b[k + j + m]) \/ (j >= m /\ b[k + 8 + j - m])]

\* Mutant: the bits before the offset, in its byte, are not kept.
SetBufferValueClearing(b, bytes, n, o) ==
  [i \in DOMAIN b |-> IF o <= i /\ i < o + 8 * n THEN bytes[(i - o) \div 8][(i - o) % 8]
                      ELSE b[i] /\ i \div 8 # o \div 8]

\* The loop of setBufferValue puts byte after byte (EncodingProofs!Loop).
SetBufferValue(b, bytes, n, o) ==
  [i \in DOMAIN b |-> IF o <= i /\ i < o + 8 * n THEN bytes[(i - o) \div 8][(i - o) % 8] ELSE b[i]]

GetBytesWithOffset(b, o, n) == [k \in 0..(n - 1) |-> GetByteWithOffset(b, o + 8 * k)]

\* The highest byte comes first, and so does its highest bit.
IntBytes(v, n) == [k \in 0..(n - 1) |-> [j \in 0..7 |-> v[8 * (n - 1 - k) + 7 - j]]]
IntOf(bytes, n) == [w \in 0..(8 * n - 1) |-> bytes[n - 1 - (w \div 8)][7 - (w % 8)]]

SetUnsigned(b, v, n, o) == SetBufferValue(b, IntBytes(v, n), n, o)
GetUnsigned(b, n, o) == IntOf(GetBytesWithOffset(b, o, n), n)

\* Four bits in the lower half of a byte: buffer[i] |= value.
OrNibble(b, v, o) ==
  [i \in DOMAIN b |-> IF o <= i /\ i < o + 4 THEN b[i] \/ v[3 - (i - o)] ELSE b[i]]
GetNibble(b, o) == [w \in 0..3 |-> b[o + 3 - w]]

-----------------------------------------------------------------------------
(* The messages: their fields in the order createBuffer writes them *)

F(kind, at) == [kind |-> kind, at |-> at]

Types == {"ClientHello", "ServerHello", "FileCreation", "FileTransfer", "FileStatus", "Ack",
          "Ping", "TransferEnded", "AuthRequest", "AuthResult"}

TypeId ==
  [ClientHello |-> 0, ServerHello |-> 1, FileCreation |-> 2, FileTransfer |-> 3, FileStatus |-> 4,
   Ack |-> 5, Ping |-> 6, TransferEnded |-> 7, AuthRequest |-> 8, AuthResult |-> 9]

ClientHelloFields ==
  <<F("nibble", 4), F("short", 8), F("int", 24), F("int", 56), F("int", 88), F("int", 120),
    F("int", 184), F("bytes", 216)>>
ServerHelloFields == <<F("nibble", 4), F("int", 8), F("int", 40), F("short", 72), F("int", 88)>>
FileCreationFields ==
  <<F("int", 4), F("int", 36), F("nibble", 68), F("hash", 72), F("long", 360), F("bytes", 424)>>
FileTransferFields ==
  <<F("nibble", 4), F("int", 8), F("int", 40), F("int", 72), F("long", 136), F("bytes", 200)>>
FileStatusFields ==
  <<F("nibble", 4), F("int", 8), F("int", 40), F("int", 72), F("long", 136), F("bytes", 200)>>
AckFields == <<F("int", 4)>>
PingFields == <<F("int", 4), F("int", 36), F("int", 104)>>
TransferEndedFields == <<F("nibble", 4), F("int", 8)>>
AuthRequestFields == <<F("int", 8), F("int", 40), F("int", 104), F("bytes", 136)>>
AuthResultFields == <<F("nibble", 4), F("int", 8), F("int", 40)>>

Layout ==
  [ClientHello |-> ClientHelloFields, ServerHello |-> ServerHelloFields,
   FileCreation |-> FileCreationFields, FileTransfer |-> FileTransferFields,
   FileStatus |-> FileStatusFields, Ack |-> AckFields, Ping |-> PingFields,
   TransferEnded |-> TransferEndedFields, AuthRequest |-> AuthRequestFields,
   AuthResult |-> AuthResultFields]

\* CHECKSUM_OFFSET_BITS of the classes.
ChecksumAt ==
  [ClientHello |-> 152, ServerHello |-> 120, FileCreation |-> 328, FileTransfer |-> 104,
   FileStatus |-> 104, Ack |-> 36, Ping |-> 68, TransferEnded |-> 40, AuthRequest |-> 72,
   AuthResult |-> 72]

\* The field with the size of the payload; a Ping has none, and 0 there.
LengthField ==
  [t \in Types |-> CASE t = "ClientHello" -> 7
                      [] t \in {"FileCreation", "FileTransfer", "FileStatus"} -> 5
                      [] t \in {"Ping", "AuthRequest"} -> 3
                      [] OTHER -> 0]

HasPayload == {"ClientHello", "FileCreation", "FileTransfer", "FileStatus", "AuthRequest"}

\* Mutant: an Ack of eight bytes.
BytesOfShortAck(t, n) ==
  CASE t = "ClientHello" -> HelloBytes
    [] t = "ServerHello" -> 19
    [] t = "FileCreation" -> 53 + n
    [] t \in {"FileTransfer", "FileStatus"} -> 25 + n
    [] t \in {"Ping", "AuthRequest"} -> 17 + n
    [] t = "AuthResult" -> 13
    [] t = "TransferEnded" -> 9
    [] OTHER -> 8

BytesOf(t, n) ==
  CASE t = "ClientHello" -> HelloBytes
    [] t = "ServerHello" -> 19
    [] t = "FileCreation" -> 53 + n
    [] t \in {"FileTransfer", "FileStatus"} -> 25 + n
    [] t \in {"Ping", "AuthRequest"} -> 17 + n
    [] t = "AuthResult" -> 13
    [] OTHER -> 9

\* Bytes of a field that is not a nibble.
Size(kind, n) ==
  CASE kind = "short" -> 2
    [] kind = "int" -> 4
    [] kind = "long" -> 8
    [] kind = "hash" -> 32
    [] OTHER -> n

\* The bits a field takes.
Width(f, n) == IF f.kind = "nibble" THEN 4 ELSE 8 * Size(f.kind, n)

IsText(f) == f.kind \in {"bytes", "hash"}

Write(b, f, v, n) ==
  IF f.kind = "nibble" THEN OrNibble(b, v, f.at)
  ELSE IF IsText(f) THEN SetBufferValue(b, v, Size(f.kind, n), f.at)
  ELSE SetUnsigned(b, v, Size(f.kind, n), f.at)

Read(b, f, n) ==
  IF f.kind = "nibble" THEN GetNibble(b, f.at)
  ELSE IF IsText(f) THEN GetBytesWithOffset(b, f.at, Size(f.kind, n))
  ELSE GetUnsigned(b, Size(f.kind, n), f.at)

Value(f, n) ==
  IF f.kind = "nibble" THEN Unsigned(4)
  ELSE IF IsText(f) THEN [0..(Size(f.kind, n) - 1) -> Byte]
  ELSE Unsigned(8 * Size(f.kind, n))

-----------------------------------------------------------------------------
(* One message, from its constructor to the getters of the receiver *)

Fields == Layout[type]
Number(n, width) == [w \in 0..(width - 1) |-> w < 8 /\ (n \div 2^w) % 2 = 1]

\* A value for a field.
Filled(f, n, p) ==
  IF IsText(f) THEN [k \in 0..(Size(f.kind, n) - 1) |-> [j \in 0..7 |-> (8 * k + j) % 64 \in p]]
  ELSE [w \in 0..(Width(f, n) - 1) |-> w \in p]

\* The constructor, and the allocation of a buffer of zeros with the type in it.
\* A file status has a part number only with flag 0b0010.
Construct ==
  /\ type \in Types
  /\ length \in IF type \in HasPayload THEN 0..MaxPayload ELSE {0}
  /\ \E p \in [DOMAIN Fields -> Pattern] :
       /\ type = "FileStatus" /\ 1 \notin p[1] => p[4] = {}
       /\ given = [i \in DOMAIN Fields |->
                     IF i = LengthField[type] THEN Number(length, Width(Fields[i], length))
                     ELSE Filled(Fields[i], length, p[i])]
  /\ buf = OrNibble([i \in 0..(8 * BytesOf(type, length) - 1) |-> FALSE], Number(TypeId[type], 4), 0)

Init ==
  /\ Construct
  /\ phase = "filling"
  /\ done = 0
  /\ summed = <<>>
  /\ crc = Number(0, 32)
  /\ valid = FALSE

\* A field lies within the buffer.
Inside(f) == f.at + Width(f, length) <= 8 * BytesOf(type, length)

\* A user name may be too long for its buffer.  What it is written over then
\* belongs to others: such a message is not followed any further.
WriteField ==
  /\ phase = "filling"
  /\ done < Len(Fields)
  /\ Inside(Fields[done + 1])
  /\ done' = done + 1
  /\ buf' = Write(buf, Fields[done + 1], given[done + 1], length)
  /\ UNCHANGED <<type, length, given, phase, summed, crc, valid>>

WithoutChecksum(b) == SetUnsigned(b, Number(0, 32), 4, ChecksumAt[type])

AddChecksum ==
  /\ phase = "filling"
  /\ done = Len(Fields)
  /\ phase' = "sent"
  /\ summed' = WithoutChecksum(buf)
  /\ \E p \in Pattern : crc' = Filled(F("int", 0), 0, p)
  /\ buf' = SetUnsigned(WithoutChecksum(buf), crc', 4, ChecksumAt[type])
  /\ UNCHANGED <<type, length, given, done, valid>>

\* Mutant: the checksum is calculated with its field still in the buffer.
CheckWithField ==
  /\ phase = "sent"
  /\ phase' = "received"
  /\ buf' = WithoutChecksum(buf)
  /\ valid' = (GetUnsigned(buf, 4, ChecksumAt[type]) = crc /\ buf = summed)
  /\ UNCHANGED <<type, length, given, done, summed, crc>>

\* isChecksumValid leaves zeros in the field of the received datagram.
IsChecksumValid ==
  /\ phase = "sent"
  /\ phase' = "received"
  /\ buf' = WithoutChecksum(buf)
  /\ valid' = (GetUnsigned(buf, 4, ChecksumAt[type]) = crc /\ buf' = summed)
  /\ UNCHANGED <<type, length, given, done, summed, crc>>

Next == WriteField \/ AddChecksum \/ IsChecksumValid
Spec == Init /\ [][Next]_vars

-----------------------------------------------------------------------------
(***************************************************************************)
(* What createBuffer has written reads back as it was given, by the getter *)
(* of each field and by the type nibble contRead looks at, whatever is      *)
(* written after it: the later fields, the checksum, and the zeros that    *)
(* isChecksumValid puts into the buffer before the handler reads it.       *)
(***************************************************************************)
FieldsIntact ==
  /\ GetNibble(buf, 0) = Number(TypeId[type], 4)
  /\ \A i \in 1..done : Read(buf, Fields[i], length) = given[i]

\* A datagram that arrives as it was sent passes its check.
Accepted == phase = "received" => valid

(***************************************************************************)
(* No write of a field or a checksum passes the end of the buffer, whose   *)
(* size createBuffer computes by hand, nor does a getter, not even          *)
(* getUnsignedShortFromMessage, which reads 32 bits: but for one case, and *)
(* always in that one.  A ClientHello takes 1000 bytes whatever the length *)
(* of the user name, and no one looks at the length.                       *)
(***************************************************************************)
ReadBits(f) == IF f.kind = "short" THEN 32 ELSE Width(f, length)

NameFits == type = "ClientHello" => 27 + length <= HelloBytes

InBounds ==
  /\ ChecksumAt[type] + 32 <= 8 * BytesOf(type, length)
  /\ NameFits <=> \A i \in DOMAIN Fields :
                    Fields[i].at + ReadBits(Fields[i]) <= 8 * BytesOf(type, length)

\* Every variable has values of its kind.
TypeOK ==
  /\ type \in Types
  /\ length \in IF type \in HasPayload THEN 0..MaxPayload ELSE {0}
  /\ phase \in {"filling", "sent", "received"}
  /\ done \in 0..Len(Fields)
  /\ \A i \in DOMAIN Fields : given[i] \in Value(Fields[i], length)
  /\ buf \in [0..(8 * BytesOf(type, length) - 1) -> BOOLEAN]
  /\ crc \in Unsigned(32)
  /\ valid \in BOOLEAN

=============================================================================
