--------------------------------- MODULE Library ---------------------------------
(***************************************************************************)
(* What Nasal code calls: the operations of its containers, which change   *)
(* them, and the functions on strings and files, one call after the other. *)
(* "call" is the last one: its function, arguments and result.  They are   *)
(* called while there is no container: each is of interest alone.          *)
(***************************************************************************)
EXTENDS Containers, NasalNumbers, NasalBytes, NasalLex, Export

CONSTANTS
  Strings,      \* arguments: strings that may be numbers,
  Raws,         \* the digits of a double,
  Exps,         \* its exponents, and
  Ints,         \* ints that are written,
  Texts,        \* strings that are taken apart,
  Delimiters,
  Places,       \* places and lengths in them,
  Formats,
  Sources,      \* Nasal programs,
  Bytes,        \* strings that may be UTF-8,
  Characters,
  Buffers,      \* strings with bit fields,
  Values,       \* what is written into them,
  EventLists,   \* MIDI events,
  Uspqn,        \* microseconds to a quarter of their notes,
  Bends,
  SoundLengths

ASSUME LibraryAssumption ==
  /\ \A events \in EventLists : MidiEvents(events)
  /\ Uspqn \in Nat /\ Bends \subseteq PitchSteps /\ SoundLengths \subseteq Nat

VARIABLE call

NoCall == [fn |-> "none"]
libVars == <<hashVars, vec, call>>

Calls(fn, arg, res) == call' = [fn |-> fn, arg |-> arg, res |-> res]

CallNumbers ==
  \/ \E s \in Strings : Calls("tonum", s, ToNum(s))
  \/ \E neg \in BOOLEAN : \E n \in Ints :
       Calls("fromint", <<neg, n>>, FromInt(neg, n))
  \/ \E neg \in BOOLEAN : \E raw \in Raws : \E exp \in Exps :
       /\ raw[1] # Zero /\ ~IsInt(raw, exp)
       /\ Calls("fromdouble", <<neg, raw, exp>>, FromDouble(neg, raw, exp))

CallText ==
  \/ \E s \in Texts : \E start \in Places : \E len \in Places \union {All} :
       Calls("substr", <<s, start, len>>, Substr(s, start, len))
  \/ \E d \in Delimiters : \E s \in Texts : Calls("split", <<d, s>>, Split(d, s))
  \/ \E a \in Texts : \E b \in Texts : Calls("cmp", <<a, b>>, Cmp(a, b))
  \/ \E s \in Formats : \E argc \in 0..2 :
       Calls("sprintf", <<s, argc>>, Sprintf(s, argc))
  \/ \E s \in Sources : Calls("lex", s, NaLex(s))

CallBytes ==
  \/ \E c \in Characters : Calls("chstr", c, WriteC(c))
  \/ \E s \in Bytes : Calls("validate", s, Validate(s, 63))
  \/ \E s \in Buffers : \E bit \in 0..8 : \E flen \in 0..8 : \E v \in Values :
       /\ FieldFits(s, bit, flen)
       /\ Calls("setfld", <<BitsOf(s), bit, flen, v>>, SetFld(BitsOf(s), bit, flen, v))

CallExport ==
  \/ \E events \in EventLists : Calls("export_midi", events, Track(events, Uspqn))
  \/ \E x \in Bends : Calls("put_pitch", x, PutPitch(x, 1))
  \/ \E total \in SoundLengths : \E norm \in BOOLEAN :
       Calls("export_audio", <<total, norm>>, ExportAudio(total, norm))

-----------------------------------------------------------------------------
InitLibrary == Init /\ call = NoCall

NextLibrary ==
  \/ Next /\ call = NoCall /\ UNCHANGED call
  \/ /\ hash = NoHashRec /\ vec = NoVecRec /\ call = NoCall
     /\ CallNumbers \/ CallText \/ CallBytes \/ CallExport
     /\ UNCHANGED <<hashVars, vec>>

SpecLibrary == InitLibrary /\ [][NextLibrary]_libVars

-----------------------------------------------------------------------------
(* A number that has been written is read as the same number, and what is   *)
(* read as a number is a numeral, but for signs and points without a digit. *)
NumbersOK ==
  /\ call.fn = "tonum" =>
       /\ Numeral(call.arg) => call.res.ok
       /\ call.res.ok => Numeral(call.arg) \/ BareSignOrPoint(call.arg)
  /\ call.fn = "fromint" =>
       SameValue(ToNum(call.res), Number(SignFrom(call.arg[1]), call.arg[2], 0))
  /\ call.fn = "fromdouble" =>
       SameValue(ToNum(call.res),
                 Number(SignFrom(call.arg[1]), Decimal(call.arg[2], 1, DIGITS + 1),
                        call.arg[3]))

(* substr, find, split and cmp agree with each other and with what they are *)
(* to do, and sprintf writes its format with every argument once, in order.    *)
(* The lexer gives back the tokens that a source spells, line by line.      *)
TextOK ==
  /\ call.fn = "substr" => SubstrMeant(call.arg[1], call.arg[2], call.arg[3], call.res)
  /\ call.fn = "split" => SplitMeant(call.arg[1], call.arg[2], call.res)
  /\ call.fn = "cmp" => CmpMeant(call.arg[1], call.arg[2], call.res)
  /\ call.fn = "sprintf" => SprintfMeant(call.arg[1], call.arg[2], call.res)
  /\ call.fn = "lex" => LexMeant(call.arg, call.res)

(* A character is read from the bytes it is written as and from no others;  *)
(* validate makes any string one that the other functions take, and leaves  *)
(* a valid one as it is; a bit field is written and read in its place.      *)
BytesOK ==
  /\ call.fn = "chstr" => ReadC(call.res, 1) = [c |-> call.arg, used |-> Len(call.res)]
  /\ call.fn = "validate" =>
       /\ ReadMeant(call.arg, ReadC(call.arg, 1))
       /\ ValidMeant(call.arg, call.res)
       /\ \A n \in 0..Size(call.res) : CharsMeant(call.res, n)
  /\ call.fn = "setfld" =>
       FieldMeant(call.arg[1], call.arg[2], call.arg[3], call.arg[4], call.res)

(* A MIDI file that is read gives back each event at its tick, a sound file *)
(* each frame once, and the pitch wheel its position.                       *)
ExportsOK ==
  /\ call.fn = "export_midi" => TrackMeant(call.arg, call.res)
  /\ call.fn = "put_pitch" => PitchMeant(call.arg, call.res)
  /\ call.fn = "export_audio" => AudioMeant(call.arg[1], call.arg[2], call.res)
===============================================================================
