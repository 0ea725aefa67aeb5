------------------------------- MODULE MCLibrary -------------------------------
(* Model-checking instance of Library.  Hashes have two strings, one of     *)
(* which also comes as one that is not interned, and a number; hash codes   *)
(* of 4 bits that agree in the start and the step, or in neither.  Doubles  *)
(* have three digits and ints go to 25, so that each layout of a number is  *)
(* met.  The bytes are those at the borders of what UTF-8 tells apart.      *)
EXTENDS Library, TLC

MCName == [k \in Keys |-> IF k = "a2" THEN "a" ELSE k]

MCHashCodes ==
  {"a" :> h[1] @@ "b" :> h[2] @@ "7" :> h[3] : h \in
     {<<0, 0, 0>>, <<15, 7, 11>>}}

UpTo(S, n) == UNION {[1..k -> S] : k \in 0..n}

(* 1 + - . e and a letter *)
MCStrings == UpTo({49, 43, 45, 46, 101, 120}, 4)
             \union [1..5 -> {49, 45, 46, 101}]
MCRaws == [1..3 -> {48, 49, 57}]
MCExps == -9..4
MCInts == {0, 1, 9, 10, 19, 25}

MCTexts == UpTo({97, 200}, 4)
MCDelimiters == UpTo({97, 200}, 2)
MCPlaces == -5..5
(* % - 5 . d and a letter that is no type *)
MCFormats == UpTo({37, 45, 53, 46, 100, 122}, 4)

(* or = == . ... -                                                          *)
MCLexemes == {<<111, 114>>, <<61>>, <<61, 61>>, <<46>>, <<46, 46, 46>>, <<45>>}
MCSources ==
  UpTo({34, 39, 92, 120, 49, 10}, 4)          \* " ' \ x 1 and a newline
  \union UpTo({48, 49, 46, 101, 45, 120}, 4)  \* 0 1 . e - x
  \union UpTo({10, 13, 35, 111, 114, 61, 36}, 4) \* line ends # o r = and $
  \union {<<q, 92, 120, a, b, c>> : q \in {34, 96}, a \in {67, 102, 56},
                                    b \in {48, 51, 46}, c \in {34, 96, 10, 128}}
  \union {<<96>> \o s \o <<96>> : s \in UpTo({65, 92, 96, 128, 195, 224}, 3)}

MCBytes == UpTo({65, 128, 191, 192, 195, 224, 226, 255}, 3)
           \union {<<b, 128, c, 191>> : b \in {240, 244, 247, 248}, c \in {65, 128, 159}}
           \union {<<b, c, 128, 128, 128, 191>> : b \in {252, 253, 254}, c \in {128, 132}}
MCCharacters ==
  {0, 65, 127, 128, 2047, 2048, 65535, 65536, 2097151, 2097152, 67108863,
   67108864, 2147483647}
MCBuffers == {<<0, 0>>, <<255, 255>>, <<165, 60>>}
MCValues == {0, 1, 5, 127, 128, 255, 256}

Note(t) == [time |-> t, data |-> <<144, 60, 100>>]
Program(t) == [time |-> t, data |-> <<192, 7>>]
MCEventLists ==
  {<<>>} \union
  {<<Note(t), Program(t + d), Note(t + d + e)>> :
     t \in {0, 1, 5}, d \in {0, 2, 381, 384, 49151, 49152},
     e \in {1, 6291455, 6291456}}
MCBends == {-8192, -8191, -1, 0, 1, 8190, 8191, 8192}
MCSoundLengths == 0..7
===============================================================================
