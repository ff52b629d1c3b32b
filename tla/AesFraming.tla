----------------------------- MODULE AesFraming -----------------------------
(* AES256CrypterGCM and AES256CrypterCBC of src/protocol7/cryptography.py:    *)
(* the frame that encrypt builds from an initialization vector (the nonce of  *)
(* GCM), the ciphertext and a code (the tag, or the HMAC), in an order that   *)
(* each side configures, and what decrypt accepts.  The ciphers are symbolic: *)
(* a byte names the message, the part and the position it comes from, and a   *)
(* code is valid for just the bytes it was made for.  Both sides have the     *)
(* same keys.                                                                 *)
EXTENDS Integers, FiniteSets, Sequences

CONSTANTS IvSize,     \* _iv_length
          CodeSize,   \* _TAG_SIZE of GCM, _HMAC_SIZE of CBC
          Block,      \* AES.block_size in bytes
          Message,    \* plaintexts
          Size,       \* their lengths
          Text,       \* those that are UTF-8
          HmacKeys,   \* types of the hmac_key that CBC crypters are made with
          NoMessage   \* the result of a decrypt that raises

ASSUME FramingAssumption ==
  /\ CodeSize \in [{"GCM", "CBC"} -> Nat \ {0}]
  /\ IvSize \in Nat \ {0} /\ Block \in Nat \ {0}
  /\ Size \in [Message -> Nat] /\ Text \subseteq Message
  /\ NoMessage \notin Message

Part == {"iv", "ciphertext", "code"}

\* gcm_sequence, cbc_sequence: any three parts.
Layout == [1..3 -> Part]

Whole(layout) == {layout[i] : i \in 1..3} = Part

VARIABLES
  mode,              \* from_config: the class of both sides
  sender, receiver,  \* their layouts
  message,           \* what is encrypted
  frame,             \* the bytes under way
  intact,            \* history: nobody has touched them
  result,            \* what decrypt returns
  pc

vars == <<mode, sender, receiver, message, frame, intact, result, pc>>

Init ==
  /\ mode \in {"GCM", "CBC"}
  /\ sender \in Layout /\ receiver \in Layout
  /\ message \in Message
  /\ frame = <<>> /\ intact = TRUE /\ result = NoMessage
  /\ pc = "construct"

\* The constructors: CBC encodes its hmac_key, which bytes cannot do.
Construct ==
  /\ pc = "construct"
  /\ \/ (mode = "CBC" => "str" \in HmacKeys) /\ pc' = "encrypt"
     \/ mode = "CBC" /\ HmacKeys # {"str"} /\ pc' = "refused"
  /\ UNCHANGED <<mode, sender, receiver, message, frame, intact, result>>

-----------------------------------------------------------------------------
(* encrypt.                                                                  *)

\* PKCS7 always adds a byte at least.
CiphertextSize(m) == IF mode = "CBC" THEN (Size[m] \div Block + 1) * Block ELSE Size[m]

FieldSize(p, ciphertextSize) ==
  CASE p = "iv" -> IvSize [] p = "code" -> CodeSize[mode] [] p = "ciphertext" -> ciphertextSize

Field(m, p) == [i \in 1..FieldSize(p, CiphertextSize(m)) |-> <<m, p, i>>]

\* _build.
Build(layout, m) == Field(m, layout[1]) \o Field(m, layout[2]) \o Field(m, layout[3])

Encrypt ==
  /\ pc = "encrypt"
  /\ frame' = Build(sender, message)
  /\ pc' = "channel"
  /\ UNCHANGED <<mode, sender, receiver, message, intact, result>>

-----------------------------------------------------------------------------
(* The stream in between: a frame may reach decrypt cut, or joined from the   *)
(* beginning of one frame and the end of another.                             *)

Cut ==
  /\ pc = "channel" /\ intact
  /\ intact' = FALSE
  /\ \E other \in Message, i \in 0..Len(frame) :
       LET second == Build(sender, other)
       IN \E j \in 1..(Len(second) + 1) :
            frame' = SubSeq(frame, 1, i) \o SubSeq(second, j, Len(second))
  /\ UNCHANGED <<mode, sender, receiver, message, result, pc>>

-----------------------------------------------------------------------------
(* decrypt.                                                                  *)

Rest == Len(frame) - IvSize - CodeSize[mode]

\* Slip: the ciphertext does not move the offset.
OffsetFixed(layout, i) ==
  (IF i > 1 THEN FieldSize(layout[1], 0) ELSE 0) + (IF i > 2 THEN FieldSize(layout[2], 0) ELSE 0)

\* The offset of the i-th part.
Offset(layout, i) ==
  (IF i > 1 THEN FieldSize(layout[1], Rest) ELSE 0)
    + (IF i > 2 THEN FieldSize(layout[2], Rest) ELSE 0)

\* A Python slice, which ends where the data ends.
Slice(from, size) ==
  SubSeq(frame, from + 1, IF from + size < Len(frame) THEN from + size ELSE Len(frame))

\* _split: a part that is named twice has its last place, one that is missing is empty.
Split(layout) ==
  [p \in Part |->
    IF \E i \in 1..3 : layout[i] = p
    THEN LET last == CHOOSE i \in 1..3 : layout[i] = p /\ \A j \in (i + 1)..3 : layout[j] # p
         IN Slice(Offset(layout, last), FieldSize(p, Rest))
    ELSE <<>>]

\* Its checks.
WellFormed(parts) ==
  /\ Rest > 0
  /\ mode = "CBC" => Rest % Block = 0
  /\ Len(parts["code"]) = CodeSize[mode]
  /\ Len(parts["iv"]) = IvSize
  /\ parts["ciphertext"] # <<>>

\* Slip: the code does not cover the initialization vector.
AuthenticCiphertext(parts, m) ==
  /\ parts["code"] = Field(m, "code")
  /\ parts["ciphertext"] = Field(m, "ciphertext")

\* The tag, or the HMAC of ciphertext + iv, is the one of m.
Authentic(parts, m) ==
  /\ parts["code"] = Field(m, "code")
  /\ parts["ciphertext"] \o parts["iv"] = Field(m, "ciphertext") \o Field(m, "iv")

\* decrypt returns text: the plaintext is decoded from UTF-8.
Decrypt ==
  /\ pc = "channel"
  /\ LET parts == Split(receiver)
         read == {m \in Text : WellFormed(parts) /\ Authentic(parts, m)}
     IN result' \in (IF read = {} THEN {NoMessage} ELSE read)
  /\ pc' = "decrypted"
  /\ UNCHANGED <<mode, sender, receiver, message, frame, intact>>

-----------------------------------------------------------------------------
Next == Construct \/ Encrypt \/ Cut \/ Decrypt

Spec == Init /\ [][Next]_vars

-----------------------------------------------------------------------------
(* Properties.                                                               *)

Byte ==
  UNION {{<<m, p, i>> : i \in 1..FieldSize(p, Size[m] + Block)} : m \in Message, p \in Part}

\* Every variable has its type.
TypeOK ==
  /\ mode \in {"GCM", "CBC"}
  /\ sender \in Layout /\ receiver \in Layout
  /\ message \in Message
  /\ frame \in Seq(Byte) /\ intact \in BOOLEAN
  /\ result \in Message \cup {NoMessage}
  /\ pc \in {"construct", "refused", "encrypt", "channel", "decrypted"}

\* Text that nobody has touched comes back under every order of the three parts that
\* the two sides share, with its length a multiple of the block or not; only GCM cannot
\* give back a text without a byte (lines 80-105, 158-185).
RoundTrip ==
  pc = "decrypted" /\ intact /\ sender = receiver /\ Whole(sender)
      /\ message \in Text /\ CiphertextSize(message) > 0
    => result = message

\* What decrypt returns is a message whose whole frame it was given, in its own layout:
\* nothing is cut off, mixed up, or read under another order (lines 80-105, 158-185,
\* 192, 197).
OnlyWholeFrames ==
  pc = "decrypted" /\ result # NoMessage => frame = Build(receiver, result) /\ Whole(receiver)

\* A crypter can be made with an hmac_key that is text or bytes ("hmac_key: Union[bytes,
\* str]", unittests/cryptography_tests.py:23).
KeysAccepted == pc # "refused"
=============================================================================
