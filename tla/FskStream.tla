----------------------------- MODULE FskStream ------------------------------
(* A text stream from its bits to the WAV file and back: the frames that      *)
(* AsyncAudioStream yields (src/wav/streaming.py) with the N-FSK symbols of   *)
(* WavAudioNFSK (src/wav/audio.py), and wav_aes_nfsk_decrypt, which finds the *)
(* level and the symbols of each frame again from the samples it sees.  The   *)
(* bits are those of an AES frame (AesFraming), the data type is a signed     *)
(* integer of the channel's width.                                            *)
EXTENDS Integers, FiniteSets, SequencesExt

CONSTANTS Width,             \* bits of the data type: 16
          ByteBits,          \* bits of a byte: 8
          PaddingDetection,  \* PADDING_DETECTION_SAME_BITS_COUNT: 5
          ValueSamples,      \* value_symbols_seq_length
          Levels,            \* supported_fsk_levels
          SyncSamples,       \* the sync_symbols_seq_length of the configurations
          SymbolCounts,      \* their frame_full_symbols_count
          Durations,         \* their duration in frames, 0 for no end
          MaxBytes           \* bound on the length of the data

ASSUME FskAssumption ==
  /\ Width \in Nat /\ ByteBits \in Nat \ {0} /\ PaddingDetection \in Nat
  /\ ValueSamples \in Nat \ {0} /\ SyncSamples \subseteq Nat
  /\ Levels \subseteq {2^b : b \in 1..(Width - 1)}
  /\ SymbolCounts \subseteq Nat \ {0} /\ Durations \subseteq Nat /\ MaxBytes \in Nat \ {0}

Bit == {0, 1}

VARIABLES
  wav,      \* WavAudioNFSK: level, sync, symbols, duration, errors_mode
  data,     \* the encrypted bits
  counter,  \* bits that have been framed
  header,   \* frames that the WAV header announces
  body,     \* the samples that have been sent
  shift,    \* samples that have been decoded
  bits,     \* bits_summary
  pc        \* where the stream, and then the decoder, is

vars == <<wav, data, counter, header, body, shift, bits, pc>>

\* The data is whole bytes.
Init ==
  /\ wav \in [level : Levels, sync : SyncSamples, symbols : SymbolCounts,
              duration : Durations, errors_mode : {"skip", "break", "ignore"}]
  /\ data \in UNION {[1..(ByteBits * n) -> Bit] : n \in 1..MaxBytes}
  /\ counter = 0 /\ header = 0 /\ body = <<>> /\ shift = 0 /\ bits = <<>>
  /\ pc = "start"

-----------------------------------------------------------------------------
(* WavAudioNFSK.                                                             *)

\* np.linspace(min, max, level + 1) in the integer type, which rounds down: its middle is
\* the sync symbol, the others are the value symbols.
Symbol(level, i) == (i * (2^Width - 1) - level * 2^(Width - 1)) \div level
SyncSymbol(level) == Symbol(level, level \div 2)
ValueSymbol(level, n) == Symbol(level, IF n < level \div 2 THEN n ELSE n + 1)

\* int(log2(n)).
Log(n) == CHOOSE b \in 0..Width : 2^b <= n /\ n < 2^(b + 1)

Number(bs) == FoldLeft(LAMBDA n, b : 2 * n + b, 0, bs)

Repeat(s, n) == [i \in 1..n |-> s]

PerFrame == wav.symbols * Log(wav.level)
FrameLength == wav.symbols * (ValueSamples + wav.sync)

\* create_fsk_frame.
FskFrame(bs) ==
  LET width == Log(wav.level)
      seq(k) == SubSeq(bs, (k - 1) * width + 1, k * width)
  IN FlattenSeq([k \in 1..wav.symbols |->
       Repeat(ValueSymbol(wav.level, Number(seq(k))), ValueSamples)
         \o Repeat(SyncSymbol(wav.level), wav.sync)])

-----------------------------------------------------------------------------
(* The stream.                                                               *)

\* Slip: rounded down.
ExpectedFramesDown == Len(data) \div PerFrame

\* expected_frames_count, rounded up.
ExpectedFrames == (Len(data) + PerFrame - 1) \div PerFrame

\* _init_generators, and the header with its data size.
Start ==
  /\ pc = "start"
  /\ header' = IF ExpectedFrames # 0 THEN ExpectedFrames ELSE wav.duration
  /\ pc' = "stream"
  /\ UNCHANGED <<wav, data, counter, body, shift, bits>>

\* Slip: the padding repeats the last bit.
PadBitSame(last) == last

PadBit(last) == 1 - last

\* _padded_bits_gen.
NextBits ==
  IF Len(data) - counter > PerFrame
  THEN SubSeq(data, counter + 1, counter + PerFrame)
  ELSE SubSeq(data, counter + 1, Len(data))
         \o Repeat(PadBit(Last(data)), counter + PerFrame - Len(data))

\* _async_stream_generator: one frame each second, until the bits or the duration end.
NextFrame ==
  /\ pc = "stream"
  /\ counter < Len(data)
  /\ body' = body \o FskFrame(NextBits)
  /\ counter' = counter + PerFrame
  /\ pc' = IF counter' = wav.duration * PerFrame THEN "sent" ELSE "stream"
  /\ UNCHANGED <<wav, data, header, shift, bits>>

EndOfBits ==
  /\ pc = "stream"
  /\ counter >= Len(data)
  /\ pc' = "sent"
  /\ UNCHANGED <<wav, data, counter, header, body, shift, bits>>

-----------------------------------------------------------------------------
(* wav_aes_nfsk_decrypt.                                                     *)

Below(set, s) == Cardinality({t \in set : t < s})

\* Of an odd number of symbols the middle one is taken for the sync symbol.
SyncIn(seen) ==
  {s \in seen : Cardinality(seen) % 2 # 0 /\ Below(seen, s) = Cardinality(seen) \div 2}

Collapsed(frame) ==
  FoldLeft(LAMBDA seq, s : IF seq # <<>> /\ Last(seq) = s THEN seq ELSE Append(seq, s),
           <<>>, frame)

\* np.binary_repr: at least width digits, and at least one.
Binary(n, width) ==
  LET digits == Max({width, 1, IF n = 0 THEN 1 ELSE Log(n) + 1})
  IN [i \in 1..digits |-> (n \div 2^(digits - i)) % 2]

Decoded(frame) ==
  LET seen == ToSet(frame)
      values == seen \ SyncIn(seen)
      seq == SelectSeq(Collapsed(frame), LAMBDA s : s \in values)
  IN FlattenSeq([k \in 1..Len(seq) |-> Binary(Below(values, seq[k]), Log(Cardinality(values)))])

Read ==
  /\ pc = "sent"
  /\ pc' = "decode"
  /\ UNCHANGED <<wav, data, counter, header, body, shift, bits>>

\* A frame with another number of value symbols than a level raises, is skipped, or is
\* decoded all the same.
DecodeFrame ==
  /\ pc = "decode" /\ shift < Len(body)
  /\ LET frame == SubSeq(body, shift + 1, shift + FrameLength)
         seen == ToSet(frame)
         supported == Cardinality(seen \ SyncIn(seen)) \in Levels
     IN \/ /\ supported \/ (wav.errors_mode = "ignore" /\ seen \ SyncIn(seen) # {})
           /\ bits' = bits \o Decoded(frame)
           /\ shift' = shift + FrameLength
           /\ UNCHANGED pc
        \/ /\ ~supported /\ wav.errors_mode = "skip"
           /\ shift' = shift + FrameLength
           /\ UNCHANGED <<bits, pc>>
        \/ /\ ~supported
           /\ wav.errors_mode = "break" \/ (wav.errors_mode = "ignore" /\ seen = SyncIn(seen))
           /\ pc' = "raised"
           /\ UNCHANGED <<bits, shift>>
  /\ UNCHANGED <<wav, data, counter, header, body>>

\* The number of bits at the end that are the same as the last one.
SameAtEnd(bs) ==
  Max({n \in 0..Len(bs) : \A i \in (Len(bs) - n + 1)..Len(bs) : bs[i] = Last(bs)})

Unpadded(bs) ==
  IF SameAtEnd(bs) > PaddingDetection THEN SubSeq(bs, 1, Len(bs) - SameAtEnd(bs)) ELSE bs

\* np.packbits fills the last byte with zeros.
Packed(bs) == bs \o Repeat(0, (ByteBits - (Len(bs) % ByteBits)) % ByteBits)

Finish ==
  /\ pc = "decode" /\ shift >= Len(body)
  /\ \/ bits = <<>> /\ pc' = "raised" /\ UNCHANGED bits
     \/ bits # <<>> /\ pc' = "decoded" /\ bits' = Packed(Unpadded(bits))
  /\ UNCHANGED <<wav, data, counter, header, body, shift>>

-----------------------------------------------------------------------------
Next == Start \/ NextFrame \/ EndOfBits \/ Read \/ DecodeFrame \/ Finish

Spec == Init /\ [][Next]_vars

-----------------------------------------------------------------------------
(* Properties.                                                               *)

Over == pc \in {"decoded", "raised"}

\* Every variable has its type.
TypeOK ==
  /\ counter \in Nat /\ header \in Nat /\ shift \in 0..Len(body)
  /\ bits \in Seq(Bit)
  /\ pc \in {"start", "stream", "sent", "decode"} \/ Over

\* What a stream needs to be decoded: each frame shows every value symbol, sync samples
\* separate them, and the padding is longer than what is taken for data, or absent and
\* not imitated by the end of the data.
Decodable ==
  LET frames == Len(body) \div FrameLength
      padding == frames * PerFrame - Len(data)
  IN /\ frames = ExpectedFrames /\ wav.sync > 0
     /\ \A k \in 1..frames :
          Cardinality(ToSet(SubSeq(body, (k - 1) * FrameLength + 1, k * FrameLength))) = wav.level + 1
     /\ padding > PaddingDetection \/ (padding = 0 /\ SameAtEnd(data) <= PaddingDetection)

\* Such a stream gives its bits back, in every errors_mode: the padding of the encoder
\* (lines 111-118) is what the decoder takes off (lines 250-255), the symbols it finds
\* are those of the encoder and in the same order.
DecodesWell == Over /\ Decodable => pc = "decoded" /\ bits = data

\* The header announces the frames that are sent ("data_size", audio.py:64-66, 82).
HeaderHonest == pc = "sent" => header * FrameLength = Len(body)

\* Every stream of a text gives its bits back: the decrypter "automatically detects all
\* wav parameters" (description.py:197).
RoundTrip == Over => pc = "decoded" /\ bits = data
=============================================================================
