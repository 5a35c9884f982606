----------------------- MODULE HeadsetDialogue_proofs -----------------------
(***************************************************************************)
(* Theorems about commands and about the dialogue with a headset, for      *)
(* every request, file of settings and profile, and for pieces, numbers of *)
(* faults and streams of any size.                                         *)
(***************************************************************************)
EXTENDS HeadsetDialogue, FrameDecoder_proofs

-----------------------------------------------------------------------------
(* What is kept of a sequence *)

\* g is the function Kept defines.
Keeps(g, s, S) ==
    g = [i \in 0..Len(s) |->
            IF i = 0 THEN <<>>
            ELSE IF s[i] \in S THEN Append(g[i - 1], s[i]) ELSE g[i - 1]]

\* What is kept is the last value of a function that adds what is in S.
LEMMA KeptSteps ==
    ASSUME NEW V, NEW s \in Seq(V), NEW S
    PROVE  \E g \in [0..Len(s) -> Seq(V \cap S)] : Keeps(g, s, S) /\ Kept(s, S) = g[Len(s)]
<1> DEFINE N == Len(s)
           A == Seq(V \cap S)
           step == [x \in (1..N) \X A |-> IF s[x[1]] \in S THEN Append(x[2], s[x[1]]) ELSE x[2]]
           kept == CHOOSE g : Keeps(g, s, S)
<1>1. N \in Nat /\ \A i \in 1..N : s[i] \in V
  BY LenProperties, ElementOfSeq
<1>2. <<>> \in A
  OBVIOUS
<1>3. \A i \in 1..N : \A x \in A :
         step[<<i, x>>] = IF s[i] \in S THEN Append(x, s[i]) ELSE x
  OBVIOUS
<1>4. \A i \in 1..N : \A x \in A : step[<<i, x>>] \in A
  <2> SUFFICES ASSUME NEW i \in 1..N, NEW x \in A PROVE step[<<i, x>>] \in A
    OBVIOUS
  <2>1. CASE s[i] \in S
    <3>1. s[i] \in V \cap S
      BY <1>1, <2>1
    <3>2. Append(x, s[i]) \in A
      BY <3>1
    <3> QED BY <1>3, <2>1, <3>2
  <2>2. CASE s[i] \notin S
    BY <1>3, <2>2
  <2> QED BY <2>1, <2>2
<1> HIDE DEF step, A
<1>5. PICK g \in [0..N -> A] :
        g[0] = <<>> /\ \A i \in 1..N : g[i] = step[<<i, g[i - 1]>>]
  <2> HIDE DEF N
  <2>1. Closed(step, A, N)
    BY <1>4 DEF Closed
  <2>2. \E g \in [0..N -> A] : Recursive(g, <<>>, step, N)
    BY <1>1, <1>2, <2>1, Recursion
  <2> QED BY <2>2 DEF Recursive
<1>6. Keeps(g, s, S)
  <2>1. ASSUME NEW i \in 0..N
        PROVE  g[i] = IF i = 0 THEN <<>>
                      ELSE IF s[i] \in S THEN Append(g[i - 1], s[i]) ELSE g[i - 1]
    <3>1. CASE i = 0
      BY <1>5, <3>1
    <3>2. CASE i # 0
      <4>1. i \in 1..N /\ i - 1 \in 0..N
        BY <1>1, <3>2
      <4> HIDE DEF N
      <4> QED BY <1>3, <1>5, <3>2, <4>1
    <3> QED BY <3>1, <3>2
  <2> QED BY <1>5, <2>1 DEF Keeps
<1>7. Keeps(kept, s, S)
  BY <1>6, Zenon
<1>8. Kept(s, S) = kept[N]
  BY DEF Kept, Keeps
<1> HIDE DEF kept
<1>9. \A i \in 0..N : kept[i] = g[i]
  <2>1. kept[0] = g[0]
    BY <1>1, <1>5, <1>7 DEF Keeps
  <2>2. ASSUME NEW i \in 1..N, kept[i - 1] = g[i - 1]
        PROVE  kept[i] = g[i]
    <3>1. i \in 0..N /\ i # 0
      BY <1>1
    <3>2. /\ kept[i] = IF s[i] \in S THEN Append(kept[i - 1], s[i]) ELSE kept[i - 1]
          /\ g[i] = IF s[i] \in S THEN Append(g[i - 1], s[i]) ELSE g[i - 1]
      BY <1>6, <1>7, <3>1 DEF Keeps
    <3> QED BY <2>2, <3>2
  <2>3. \A i \in 1..N : kept[i - 1] = g[i - 1] => kept[i] = g[i]
    BY <2>2
  <2> HIDE DEF N
  <2>4. Alike(kept, g, N)
    BY <2>1, <2>3 DEF Alike
  <2> QED BY <1>1, <2>4, AlikeEqual
<1>10. N \in 0..N
  BY <1>1
<1> QED BY <1>5, <1>6, <1>8, <1>9, <1>10 DEF A

\* It is made of elements of the sequence that are in S.
LEMMA KeptType ==
    ASSUME NEW V, NEW s \in Seq(V), NEW S
    PROVE  Kept(s, S) \in Seq(V \cap S)
<1>1. PICK g \in [0..Len(s) -> Seq(V \cap S)] : Kept(s, S) = g[Len(s)]
  BY KeptSteps
<1>2. Len(s) \in 0..Len(s)
  BY LenProperties
<1> QED BY <1>1, <1>2

\* Nothing is left out when all of them are in S.
LEMMA KeptAll ==
    ASSUME NEW V, NEW s \in Seq(V), NEW S, V \subseteq S
    PROVE  Kept(s, S) = s
<1> DEFINE N == Len(s)
<1>1. N \in Nat /\ N \in 0..N /\ \A i \in 1..N : s[i] \in V /\ s[i] \in S
  BY LenProperties, ElementOfSeq
<1>2. PICK g \in [0..N -> Seq(V \cap S)] : Keeps(g, s, S) /\ Kept(s, S) = g[N]
  BY KeptSteps
<1> DEFINE Same == {n \in 0..N : Len(g[n]) = n /\ \A i \in 1..n : g[n][i] = s[i]}
<1>3. /\ \A n \in 0..N : g[n] \in Seq(V \cap S)
      /\ g[0] = <<>>
      /\ \A n \in 1..N : g[n] = Append(g[n - 1], s[n])
  <2>1. \A n \in 0..N : g[n] = IF n = 0 THEN <<>>
                          ELSE IF s[n] \in S THEN Append(g[n - 1], s[n]) ELSE g[n - 1]
    BY <1>2 DEF Keeps
  <2>2. ASSUME NEW n \in 1..N
        PROVE  n \in 0..N /\ n # 0 /\ s[n] \in S
    BY <1>1
  <2>3. 0 \in 0..N
    BY <1>1
  <2>4. \A n \in 0..N : g[n] \in Seq(V \cap S)
    BY <1>2
  <2> HIDE DEF N
  <2> QED BY <2>1, <2>2, <2>3, <2>4
<1>4. 0 \in Same
  BY <1>1, <1>3
<1>5. ASSUME NEW n \in 0..N, n < N, n \in Same
      PROVE  n + 1 \in Same
  <2>1. n + 1 \in 1..N /\ n + 1 \in 0..N /\ (n + 1) - 1 = n /\ n \in Nat
    BY <1>1, <1>5
  <2>2. g[n + 1] = Append(g[n], s[n + 1])
    BY <1>3, <2>1
  <2>3. Len(g[n]) = n /\ \A i \in 1..n : g[n][i] = s[i]
    BY <1>5
  <2>4. g[n] \in Seq(V \cap S) /\ s[n + 1] \in V \cap S
    BY <1>1, <1>3, <2>1
  <2>5. /\ Len(g[n + 1]) = n + 1
        /\ \A i \in 1..n : g[n + 1][i] = g[n][i]
        /\ g[n + 1][n + 1] = s[n + 1]
    BY <2>2, <2>3, <2>4, AppendProperties
  <2>6. ASSUME NEW i \in 1..(n + 1)
        PROVE  g[n + 1][i] = s[i]
    <3>1. i \in 1..n \/ i = n + 1
      BY <2>1
    <3> QED BY <2>3, <2>5, <3>1
  <2> QED BY <2>1, <2>5, <2>6
<1> HIDE DEF Same
<1>6. 0..N \subseteq Same
  BY <1>1, <1>4, <1>5, CountingUp
<1>7. Len(g[N]) = N /\ \A i \in 1..N : g[N][i] = s[i]
  BY <1>1, <1>6 DEF Same
<1>8. g[N] \in Seq(V) /\ s \in Seq(V)
  <2>1. g[N] \in Seq(V \cap S)
    BY <1>1, <1>3
  <2>2. \A i \in 1..Len(g[N]) : g[N][i] \in V
    BY <2>1, ElementOfSeq
  <2> QED BY <2>1, <2>2, LenProperties
<1> QED BY <1>2, <1>7, <1>8, SeqEqual

-----------------------------------------------------------------------------
(* Hexadecimal text *)

Digit == 0..15

\* A byte is made of two digits, and two digits make a byte.
LEMMA TwoDigits ==
    /\ \A b \in Byte : \E x, y \in Digit : x = b \div 16 /\ y = b % 16 /\ 16 * x + y = b
    /\ \A x, y \in Digit : 16 * x + y \in Byte
<1>1. \A d \in Nat : d <= 15 => d \in Digit
  BY DEF Digit
<1>2. ASSUME NEW b \in Byte
      PROVE  \E x, y \in Digit : x = b \div 16 /\ y = b % 16 /\ 16 * x + y = b
  <2>1. b \in Nat /\ b <= 255
    BY ByteIsNat
  <2>2. b \div 16 \in Nat /\ b \div 16 <= 15
    BY <2>1, Z3
  <2>3. b % 16 \in Nat /\ b % 16 <= 15
    BY <2>1, Z3
  <2>4. PICK x \in Nat, y \in Nat : x = b \div 16 /\ y = b % 16
    BY <2>2, <2>3
  <2>5. 16 * x + y = b
    BY <2>1, <2>4, SMT
  <2>6. x \in Digit /\ y \in Digit
    BY <1>1, <2>2, <2>3, <2>4
  <2> QED BY <2>4, <2>5, <2>6
<1>3. ASSUME NEW x \in Digit, NEW y \in Digit
      PROVE  16 * x + y \in Byte
  BY SMT DEF Digit, Byte
<1> QED BY <1>2, <1>3

\* The digits of byte k are at 2k - 1 and 2k.
LEMMA Halves ==
    /\ \A k \in Nat \ {0} : /\ 2 * k - 1 \in Nat /\ ((2 * k - 1) + 1) \div 2 = k
                            /\ (2 * k - 1) % 2 = 1
                            /\ (2 * k + 1) \div 2 = k /\ (2 * k) % 2 = 0
    /\ \A n \in Nat : (2 * n) \div 2 = n /\ (2 * n) % 2 = 0
    /\ \A i, n \in Nat : 1 <= i /\ i <= 2 * n => /\ (i + 1) \div 2 \in Nat
                                               /\ 1 <= (i + 1) \div 2 /\ (i + 1) \div 2 <= n
    /\ \A n \in Nat : n \div 2 \in Nat /\ 2 * (n \div 2) <= n
BY Z3

\* Bytes are written with two digits each (packet.rs:88).
LEMMA WrittenInHex ==
    ASSUME NEW bytes \in Seq(Byte)
    PROVE  /\ to_hex(bytes) \in Seq(Digit)
           /\ Len(to_hex(bytes)) = 2 * Len(bytes)
           /\ \A k \in 1..Len(bytes) : /\ to_hex(bytes)[2 * k - 1] = bytes[k] \div 16
                                       /\ to_hex(bytes)[2 * k] = bytes[k] % 16
<1> DEFINE n == Len(bytes)
           hex == to_hex(bytes)
           at(i) == LET b == bytes[(i + 1) \div 2] IN IF i % 2 = 1 THEN b \div 16 ELSE b % 16
<1>1. n \in Nat /\ \A k \in 1..n : bytes[k] \in Byte
  BY LenProperties, ElementOfSeq
<1>2. hex = [i \in 1..(2 * n) |-> at(i)]
  BY DEF to_hex
<1>3. ASSUME NEW i \in 1..(2 * n)
      PROVE  at(i) \in Digit
  <2>1. (i + 1) \div 2 \in 1..n
    <3>1. i \in Nat /\ 1 <= i /\ i <= 2 * n
      BY <1>1
    <3>2. /\ (i + 1) \div 2 \in Nat /\ 1 <= (i + 1) \div 2 /\ (i + 1) \div 2 <= n
      <4> HIDE DEF n
      <4> QED BY <1>1, <3>1, Halves
    <3> QED BY <1>1, <3>2
  <2>2. PICK b \in Byte : b = bytes[(i + 1) \div 2]
    BY <1>1, <2>1
  <2>3. b \div 16 \in Digit /\ b % 16 \in Digit
    BY TwoDigits
  <2> QED BY <2>2, <2>3
<1> HIDE DEF hex, n
<1>4. /\ hex \in Seq(Digit) /\ Len(hex) = 2 * n /\ \A i \in 1..(2 * n) : hex[i] = at(i)
  <2>1. 2 * n \in Nat
    BY <1>1
  <2> HIDE DEF at
  <2> QED BY <1>2, <1>3, <2>1
<1>5. ASSUME NEW k \in 1..n
      PROVE  hex[2 * k - 1] = bytes[k] \div 16 /\ hex[2 * k] = bytes[k] % 16
  <2>1. 2 * k - 1 \in 1..(2 * n) /\ 2 * k \in 1..(2 * n) /\ k \in Nat \ {0}
    BY <1>1
  <2>2. at(2 * k - 1) = bytes[k] \div 16
    BY <2>1, Halves
  <2>3. at(2 * k) = bytes[k] % 16
    BY <2>1, Halves
  <2> HIDE DEF at
  <2> QED BY <1>4, <2>1, <2>2, <2>3
<1> QED BY <1>4, <1>5 DEF hex, n

\* Text that is hexadecimal is read as bytes (packet.rs:70).
LEMMA ReadFromHex ==
    ASSUME NEW text \in Seq(Character), IsHex(text)
    PROVE  parse_hex(text) \in Seq(Byte)
<1> DEFINE d == Digits(text)
           n == Len(d) \div 2
<1>1. text \in Seq(Digit \cup {Space})
  <2>1. \A i \in 1..Len(text) : text[i] \in Character /\ text[i] # Letter
    BY ElementOfSeq DEF IsHex, ToSet
  <2>2. \A c \in Character : c # Letter => c \in Digit \cup {Space}
    BY DEF Character, Letter, Space, Digit
  <2>3. \A i \in 1..Len(text) : text[i] \in Digit \cup {Space}
    BY <2>1, <2>2
  <2>4. Len(text) \in Nat /\ text = [i \in 1..Len(text) |-> text[i]]
    BY LenProperties
  <2> QED BY <2>3, <2>4
<1>2. d \in Seq(Digit)
  <2>1. d \in Seq((Digit \cup {Space}) \cap (Character \ {Space}))
    BY <1>1, KeptType DEF Digits
  <2>2. (Digit \cup {Space}) \cap (Character \ {Space}) \subseteq Digit
    OBVIOUS
  <2>3. \A i \in 1..Len(d) : d[i] \in Digit
    BY <2>1, <2>2, ElementOfSeq
  <2>4. Len(d) \in Nat /\ d = [i \in 1..Len(d) |-> d[i]]
    BY <2>1, LenProperties
  <2> HIDE DEF d
  <2> QED BY <2>3, <2>4
<1>3. parse_hex(text) = [i \in 1..n |-> 16 * d[2 * i - 1] + d[2 * i]]
  BY DEF parse_hex
<1> HIDE DEF d
<1>4. Len(d) \in Nat /\ \A i \in 1..Len(d) : d[i] \in Digit
  BY <1>2, LenProperties, ElementOfSeq
<1>5. n \in Nat /\ 2 * n <= Len(d)
  BY <1>4, Halves
<1> HIDE DEF n
<1>6. ASSUME NEW i \in 1..n
      PROVE  16 * d[2 * i - 1] + d[2 * i] \in Byte
  <2>1. 2 * i - 1 \in 1..Len(d) /\ 2 * i \in 1..Len(d)
    BY <1>4, <1>5
  <2>2. d[2 * i - 1] \in Digit /\ d[2 * i] \in Digit
    BY <1>4, <2>1
  <2> QED BY <2>2, TwoDigits
<1> QED BY <1>3, <1>5, <1>6

\* Whatever bytes are written in hexadecimal are read back the same
\* (packet.rs:70 and packet.rs:88).
THEOREM HexRoundTrips ==
    ASSUME NEW bytes \in Seq(Byte)
    PROVE  /\ to_hex(bytes) \in Seq(Character) /\ IsHex(to_hex(bytes))
           /\ parse_hex(to_hex(bytes)) = bytes
<1> DEFINE hex == to_hex(bytes)
<1>1. /\ Len(bytes) \in Nat /\ \A k \in 1..Len(bytes) : bytes[k] \in Byte
      /\ bytes = [k \in 1..Len(bytes) |-> bytes[k]]
  BY LenProperties, ElementOfSeq
<1>2. /\ hex \in Seq(Digit) /\ Len(hex) = 2 * Len(bytes)
      /\ \A k \in 1..Len(bytes) : hex[2 * k - 1] = bytes[k] \div 16 /\ hex[2 * k] = bytes[k] % 16
  BY WrittenInHex
<1> HIDE DEF hex
<1>3. \A i \in 1..Len(hex) : hex[i] \in Digit
  BY <1>2, ElementOfSeq
<1>4. Digit \subseteq Character \ {Space} /\ Digit \subseteq Character /\ Letter \notin Digit
  BY DEF Digit, Character, Letter, Space
<1>5. Digits(hex) = hex
  BY <1>2, <1>4, KeptAll, SMTT(30) DEF Digits
<1>6. (2 * Len(bytes)) \div 2 = Len(bytes) /\ (2 * Len(bytes)) % 2 = 0
  BY <1>1, Halves
<1>7. hex \in Seq(Character) /\ IsHex(hex)
  <2>1. hex \in Seq(Character)
    <3>1. \A i \in 1..Len(hex) : hex[i] \in Character
      BY <1>3, <1>4
    <3>2. Len(hex) \in Nat /\ hex = [i \in 1..Len(hex) |-> hex[i]]
      BY <1>2, LenProperties
    <3> QED BY <3>1, <3>2
  <2>2. Letter \notin ToSet(hex)
    BY <1>2, <1>3, <1>4 DEF ToSet
  <2> QED BY <1>2, <1>5, <1>6, <2>1, <2>2 DEF IsHex
<1>8. parse_hex(hex) = [i \in 1..Len(bytes) |-> 16 * hex[2 * i - 1] + hex[2 * i]]
  <2>1. Len(hex) \div 2 = Len(bytes)
    BY <1>2, <1>6
  <2> QED BY <1>5, <2>1 DEF parse_hex
<1>9. ASSUME NEW i \in 1..Len(bytes)
      PROVE  16 * hex[2 * i - 1] + hex[2 * i] = bytes[i]
  <2>1. PICK x \in Digit, y \in Digit :
           x = bytes[i] \div 16 /\ y = bytes[i] % 16 /\ 16 * x + y = bytes[i]
    BY <1>1, TwoDigits
  <2>2. hex[2 * i - 1] = x /\ hex[2 * i] = y
    BY <1>2, <2>1
  <2> QED BY <2>1, <2>2
<1>10. parse_hex(hex) = bytes
  BY <1>1, <1>8, <1>9
<1> QED BY <1>7, <1>10 DEF hex

-----------------------------------------------------------------------------
(* Commands and their bodies *)

\* Sequences of one, two and three bytes.
LEMMA ShortSequences ==
    /\ <<>> \in Seq(Byte)
    /\ \A a \in Byte : <<a>> \in Seq(Byte) /\ Len(<<a>>) = 1
    /\ \A a, b \in Byte : <<a, b>> \in Seq(Byte) /\ Len(<<a, b>>) = 2
    /\ \A a, b, c \in Byte : <<a, b, c>> \in Seq(Byte) /\ Len(<<a, b, c>>) = 3
OBVIOUS

\* The bytes a body starts with.
LEMMA OpcodeType ==
    \A op \in DOMAIN Opcode : Opcode[op] \in Seq(Byte)
<1>1. DOMAIN Opcode = {
        "SetNoiseMode", "SetAmbientVolume", "SetSoundEffect",
        "SetControlSettings", "SetLdac", "SetGameMode",
        "SetPromptVolume", "DisableShutdownTimer", "SetShutdownTimer",
        "PowerOff", "DisconnectHost", "RePair", "FactoryReset",
        "SetName", "Playback", "SetAutoPowerOff", "QueryBattery",
        "QueryMac", "QueryFirmware", "QueryNoise", "QueryName",
        "QuerySoundEffect", "QueryGameMode", "QueryControlSettings",
        "QueryLdac", "QueryPromptVolume", "QueryShutdownTimer",
        "QueryAutoPowerOff", "QueryFingerprint", "QueryPlayback", "Raw"}
  BY DEF Opcode
<1>2. /\ Opcode["SetNoiseMode"] \in Seq(Byte)
      /\ Opcode["SetAmbientVolume"] \in Seq(Byte)
      /\ Opcode["SetSoundEffect"] \in Seq(Byte)
      /\ Opcode["SetControlSettings"] \in Seq(Byte)
      /\ Opcode["SetLdac"] \in Seq(Byte)
      /\ Opcode["SetGameMode"] \in Seq(Byte)
      /\ Opcode["SetPromptVolume"] \in Seq(Byte)
      /\ Opcode["DisableShutdownTimer"] \in Seq(Byte)
      /\ Opcode["SetShutdownTimer"] \in Seq(Byte)
      /\ Opcode["PowerOff"] \in Seq(Byte)
      /\ Opcode["DisconnectHost"] \in Seq(Byte)
      /\ Opcode["RePair"] \in Seq(Byte)
      /\ Opcode["FactoryReset"] \in Seq(Byte)
      /\ Opcode["SetName"] \in Seq(Byte)
      /\ Opcode["Playback"] \in Seq(Byte)
      /\ Opcode["SetAutoPowerOff"] \in Seq(Byte)
      /\ Opcode["QueryBattery"] \in Seq(Byte)
      /\ Opcode["QueryMac"] \in Seq(Byte)
      /\ Opcode["QueryFirmware"] \in Seq(Byte)
      /\ Opcode["QueryNoise"] \in Seq(Byte)
      /\ Opcode["QueryName"] \in Seq(Byte)
      /\ Opcode["QuerySoundEffect"] \in Seq(Byte)
      /\ Opcode["QueryGameMode"] \in Seq(Byte)
      /\ Opcode["QueryControlSettings"] \in Seq(Byte)
      /\ Opcode["QueryLdac"] \in Seq(Byte)
      /\ Opcode["QueryPromptVolume"] \in Seq(Byte)
      /\ Opcode["QueryShutdownTimer"] \in Seq(Byte)
      /\ Opcode["QueryAutoPowerOff"] \in Seq(Byte)
      /\ Opcode["QueryFingerprint"] \in Seq(Byte)
      /\ Opcode["QueryPlayback"] \in Seq(Byte)
      /\ Opcode["Raw"] \in Seq(Byte)
  BY DEF Opcode, Byte
<1> QED BY <1>1, <1>2, Zenon

\* The words there are for an enumeration.
LEMMA WordsType ==
    /\ DOMAIN Words = {"SetNoiseMode", "SetSoundEffect", "SetLdac", "Playback"}
    /\ Len(Words["SetNoiseMode"]) = 3 /\ Len(Words["SetSoundEffect"]) = 4
    /\ Len(Words["SetLdac"]) = 3 /\ Len(Words["Playback"]) = 6
    /\ \A op \in DOMAIN Words : Len(Words[op]) \in 3..6 /\ DOMAIN Words[op] = 1..Len(Words[op])
BY DEF Words, NoiseMode, SoundEffect, LdacMode, Playback

\* The rest of the body.
LEMMA ArgumentType ==
    ASSUME NEW c, IsCommand(c), c.op = "SetAmbientVolume" => c.arg[1] \in -3..3
    PROVE  Argument(c) \in Seq(Byte)
<1>1. CASE c.op = "SetNoiseMode"
  <2>1. PICK i \in 0..2 : c.arg = <<i>>
    BY <1>1, WordsType DEF IsCommand, Held
  <2>2. i + 1 \in Byte
    BY SmallIsByte
  <2>3. Argument(c) = <<i + 1>>
    BY <1>1, <2>1 DEF Argument
  <2> QED BY <2>2, <2>3, ShortSequences
<1>2. CASE c.op = "SetAmbientVolume"
  <2>1. PICK v \in -3..3 : v = c.arg[1]
    BY <1>2
  <2>2. 6 + v \in Byte
    BY SmallIsByte
  <2>3. Argument(c) = <<6 + v>>
    BY <1>2, <2>1 DEF Argument, AMBIENT_VOLUME_OFFSET
  <2> QED BY <2>2, <2>3, ShortSequences
<1>3. CASE c.op = "SetControlSettings"
  <2>1. PICK x \in Flag, y \in Flag, z \in Flag : c.arg = <<x, y, z>>
    BY <1>3, WordsType DEF IsCommand, Held, Fields
  <2>2. x + 2 * y + 4 * z \in Byte
    BY SmallIsByte DEF Flag
  <2>3. Argument(c) = <<x + 2 * y + 4 * z>>
    BY <1>3, <2>1 DEF Argument, mask
  <2> QED BY <2>2, <2>3, ShortSequences
<1>4. CASE c.op \in DOMAIN Words \ {"SetNoiseMode"}
  <2>0. PICK n \in 3..6 : n = Len(Words[c.op])
    BY <1>4, WordsType
  <2>1. PICK i \in 0..(n - 1) : c.arg = <<i>>
    BY <1>4, <2>0 DEF IsCommand, Held
  <2>2. i \in Byte
    <3>1. i \in Nat /\ i <= 255
      OBVIOUS
    <3> QED BY <3>1, SmallIsByte
  <2>3. Argument(c) = <<i>>
    BY <1>4, <2>1, WordsType DEF Argument
  <2> QED BY <2>2, <2>3, ShortSequences
<1>5. CASE c.op \notin DOMAIN Words \cup {"SetAmbientVolume", "SetControlSettings"}
  <2>1. Argument(c) = c.arg
    BY <1>5, WordsType DEF Argument
  <2>2. c.op # "Raw" => c.arg \in Fields(c.op)
    BY <1>5 DEF IsCommand, Held
  <2>3. CASE c.op = "Raw"
    BY <1>5, <2>1, <2>3 DEF IsCommand, Held
  <2>4. CASE c.op = "SetName"
    BY <2>1, <2>2, <2>4 DEF Fields
  <2>5. CASE c.op \in {"SetGameMode", "SetAutoPowerOff"}
    <3>1. PICK on \in Flag : c.arg = <<on>>
      BY <2>2, <2>5 DEF Fields
    <3>2. on \in Byte
      BY SmallIsByte DEF Flag
    <3> QED BY <2>1, <3>1, <3>2, ShortSequences
  <2>6. CASE c.op \in {"SetPromptVolume", "SetShutdownTimer"}
    <3>1. PICK v \in Byte : c.arg = <<v>>
      BY <2>2, <2>6 DEF Fields
    <3> QED BY <2>1, <3>1, ShortSequences
  <2>7. CASE c.op \notin {"Raw", "SetName", "SetGameMode", "SetAutoPowerOff",
                          "SetPromptVolume", "SetShutdownTimer"}
    <3>1. c.arg = <<>>
      BY <1>5, <2>2, <2>7 DEF Fields
    <3> QED BY <2>1, <3>1, ShortSequences
  <2> QED BY <2>3, <2>4, <2>5, <2>6, <2>7
<1> QED BY <1>1, <1>2, <1>3, <1>4, <1>5

\* Every command that is not refused has a body of bytes that fits in a frame
\* (command.rs:163, packet.rs:54).
THEOREM BodiesAreBytes ==
    ASSUME NEW c, IsCommand(c), Encodable(c)
    PROVE  to_body(c) \in Seq(Byte) /\ Len(to_body(c)) <= 255
<1>1. Opcode[c.op] \in Seq(Byte)
  BY OpcodeType DEF IsCommand
<1>2. Argument(c) \in Seq(Byte)
  BY ArgumentType DEF Encodable
<1>3. to_body(c) \in Seq(Byte)
  BY <1>1, <1>2, ConcatProperties DEF to_body
<1> QED BY <1>3 DEF Encodable

\* A command in JSON that is readable is a command (command_json.rs:98).
LEMMA JsonIsCommand ==
    ASSUME NEW json, IsCommandJson(json), Readable(json)
    PROVE  IsCommand(to_command(json))
<1>1. CASE json.op \in DOMAIN Words
  <2> DEFINE words == Words[json.op]
             position == CHOOSE i \in DOMAIN words : words[i] = Spelled(json)
  <2>1. \E i \in DOMAIN words : words[i] = Spelled(json)
    BY <1>1 DEF Readable, ToSet
  <2>2. position \in DOMAIN words
    BY <2>1, Zenon
  <2>3. DOMAIN words = 1..Len(words) /\ Len(words) \in 3..6
    BY <1>1, WordsType
  <2>4. to_command(json) = [op |-> json.op, arg |-> <<position - 1>>]
    BY <1>1 DEF to_command, Cmd
  <2> HIDE DEF position
  <2>5. position - 1 \in 0..(Len(words) - 1)
    BY <2>2, <2>3
  <2> HIDE DEF words
  <2>6. <<position - 1>> \in {<<i>> : i \in 0..(Len(words) - 1)}
    BY <2>5
  <2>7. <<position - 1>> \in Held(json.op)
    BY <1>1, <2>6 DEF Held, words
  <2>8. json.op \in DOMAIN Opcode
    BY DEF IsCommandJson
  <2> QED BY <2>4, <2>7, <2>8 DEF IsCommand
<1>2. CASE json.op = "Raw"
  <2>1. json.op \notin DOMAIN Words
    BY <1>2, WordsType
  <2>2. json.arg \in Seq(Character) /\ IsHex(json.arg)
    BY <1>2 DEF IsCommandJson, Readable, Fields
  <2>3. parse_hex(json.arg) \in Seq(Byte)
    BY <2>2, ReadFromHex
  <2>4. to_command(json) = [op |-> json.op, arg |-> parse_hex(json.arg)]
    BY <1>2, <2>1 DEF to_command, Cmd
  <2> QED BY <1>2, <2>1, <2>3, <2>4 DEF IsCommand, IsCommandJson, Held
<1>3. CASE json.op \notin DOMAIN Words \cup {"Raw"}
  <2>1. to_command(json) = [op |-> json.op, arg |-> json.arg]
    BY <1>3 DEF to_command, Cmd
  <2> QED BY <1>3, <2>1 DEF IsCommand, IsCommandJson, Held
<1> QED BY <1>1, <1>2, <1>3

\* The words of an enumeration are different, and are spelled in their own way.
LEMMA WordsDiffer ==
    \A op \in DOMAIN Words : \A i, j \in DOMAIN Words[op] :
        /\ Words[op][i] = Words[op][j] => i = j
        /\ op = "SetLdac" => Alias(Words[op][i]) = Words[op][i]
<1> SUFFICES ASSUME NEW op \in DOMAIN Words, NEW i \in DOMAIN Words[op], NEW j \in DOMAIN Words[op]
             PROVE  /\ Words[op][i] = Words[op][j] => i = j
                    /\ op = "SetLdac" => Alias(Words[op][i]) = Words[op][i]
  OBVIOUS
<1>1. CASE op = "SetNoiseMode"
  <2>1. Words[op] = NoiseMode
    BY <1>1 DEF Words
  <2> QED BY <1>1, <2>1 DEF NoiseMode
<1>2. CASE op = "SetSoundEffect"
  <2>1. Words[op] = SoundEffect
    BY <1>2 DEF Words
  <2> QED BY <1>2, <2>1 DEF SoundEffect
<1>3. CASE op = "SetLdac"
  <2>1. Words[op] = LdacMode
    BY <1>3 DEF Words
  <2> QED BY <1>3, <2>1 DEF LdacMode, Alias
<1>4. CASE op = "Playback"
  <2>1. Words[op] = Playback
    BY <1>4 DEF Words
  <2> QED BY <1>4, <2>1 DEF Playback
<1> QED BY <1>1, <1>2, <1>3, <1>4, WordsType

\* Every command can be written in JSON, and is read back the same
\* (command_json.rs:46, command_json.rs:98).
THEOREM JsonRoundTrips ==
    ASSUME NEW c, IsCommand(c)
    PROVE  /\ IsCommandJson(from_command(c)) /\ Readable(from_command(c))
           /\ to_command(from_command(c)) = c
<1> DEFINE json == from_command(c)
<1>0. c = [op |-> c.op, arg |-> c.arg] /\ c.op \in DOMAIN Opcode /\ c.arg \in Held(c.op)
  BY DEF IsCommand
<1>1. CASE c.op \in DOMAIN Words
  <2> DEFINE words == Words[c.op]
  <2>1. PICK n \in 3..6 : n = Len(words) /\ DOMAIN words = 1..n
    BY <1>1, WordsType
  <2>2. PICK i \in 0..(n - 1) : c.arg = <<i>>
    BY <1>0, <1>1, <2>1 DEF Held
  <2>3. json = [op |-> c.op, word |-> words[i + 1], arg |-> <<>>]
    BY <1>1, <2>2 DEF from_command
  <2> HIDE DEF json
  <2>4. i + 1 \in DOMAIN words
    BY <2>1
  <2>5. Spelled(json) = words[i + 1]
    BY <1>1, <2>3, <2>4, WordsDiffer DEF Spelled
  <2>6. IsCommandJson(json)
    <3>1. <<>> \in Fields(c.op)
      BY <1>1, WordsType DEF Fields
    <3> QED BY <1>0, <2>3, <2>5, <3>1 DEF IsCommandJson
  <2>7. Readable(json)
    <3>1. json.op # "Raw"
      BY <1>1, <2>3, WordsType
    <3>2. Spelled(json) \in ToSet(words)
      BY <2>4, <2>5 DEF ToSet
    <3> QED BY <2>3, <3>1, <3>2 DEF Readable
  <2> DEFINE position == CHOOSE k \in DOMAIN words : words[k] = words[i + 1]
  <2>8. position \in DOMAIN words /\ words[position] = words[i + 1]
    BY <2>4, Zenon
  <2>9. to_command(json) = [op |-> c.op, arg |-> <<position - 1>>]
    BY <1>1, <2>3, <2>5 DEF to_command, Cmd
  <2> HIDE DEF position
  <2>10. position = i + 1
    BY <1>1, <2>4, <2>8, WordsDiffer
  <2>11. <<position - 1>> = c.arg
    BY <2>2, <2>10
  <2> QED BY <1>0, <2>6, <2>7, <2>9, <2>11 DEF json
<1>2. CASE c.op = "Raw"
  <2>1. c.op \notin DOMAIN Words
    BY <1>2, WordsType
  <2>2. c.arg \in Seq(Byte)
    BY <1>0, <1>2, <2>1 DEF Held
  <2>3. json = [op |-> "Raw", word |-> "", arg |-> to_hex(c.arg)]
    BY <1>2, <2>1 DEF from_command
  <2> HIDE DEF json
  <2>4. /\ to_hex(c.arg) \in Seq(Character) /\ IsHex(to_hex(c.arg))
        /\ parse_hex(to_hex(c.arg)) = c.arg
    BY <2>2, HexRoundTrips
  <2>5. IsCommandJson(json) /\ Readable(json)
    BY <1>0, <1>2, <2>1, <2>3, <2>4 DEF IsCommandJson, Readable, Fields
  <2>6. to_command(json) = [op |-> c.op, arg |-> c.arg]
    BY <1>2, <2>1, <2>3, <2>4 DEF to_command, Cmd
  <2> QED BY <1>0, <2>5, <2>6 DEF json
<1>3. CASE c.op \notin DOMAIN Words /\ c.op # "Raw"
  <2>1. c.arg \in Fields(c.op)
    BY <1>0, <1>3 DEF Held
  <2>2. json = [op |-> c.op, word |-> "", arg |-> c.arg]
    BY <1>3 DEF from_command
  <2> HIDE DEF json
  <2>3. json.op = c.op /\ json.arg = c.arg
    BY <2>2
  <2>4. IsCommandJson(json)
    BY <1>0, <2>1, <2>3 DEF IsCommandJson
  <2>5. Readable(json)
    BY <1>3, <2>3 DEF Readable
  <2>6. to_command(json) = [op |-> c.op, arg |-> c.arg]
    BY <1>3, <2>3 DEF to_command, Cmd
  <2> QED BY <1>0, <2>4, <2>5, <2>6 DEF json
<1> QED BY <1>1, <1>2, <1>3

-----------------------------------------------------------------------------
(* Plans *)

Command == UNION {[op : {op}, arg : Held(op)] : op \in DOMAIN Opcode}

LEMMA CommandMembers == \A c : c \in Command <=> IsCommand(c)
<1>1. ASSUME NEW c, c \in Command PROVE IsCommand(c)
  <2>1. PICK op \in DOMAIN Opcode : c \in [op : {op}, arg : Held(op)]
    BY <1>1 DEF Command
  <2> QED BY <2>1 DEF IsCommand
<1>2. ASSUME NEW c, IsCommand(c) PROVE c \in Command
  <2>1. c.op \in DOMAIN Opcode /\ c \in [op : {c.op}, arg : Held(c.op)]
    BY <1>2 DEF IsCommand
  <2> QED BY <2>1 DEF Command
<1> QED BY <1>1, <1>2

\* A sequence of members of a set is one of a larger set, and a sequence is
\* what it says at its places.
LEMMA WiderSeq ==
    ASSUME NEW A, NEW B, A \subseteq B, NEW s \in Seq(A)
    PROVE  s \in Seq(B)
<1>1. \A i \in 1..Len(s) : s[i] \in B
  BY ElementOfSeq
<1>2. Len(s) \in Nat /\ s = [i \in 1..Len(s) |-> s[i]]
  BY LenProperties
<1> QED BY <1>1, <1>2

\* What is imported from a file that is taken: raw bodies (settings.rs:63).
LEMMA ImportedBodies ==
    ASSUME NEW file, IsSettingsFile(file), Importable(file)
    PROVE  command_bodies(file) \in Seq(Seq(Byte))
<1> DEFINE V == [cmd : Seq(Character), priority : 0..255]
           H == {it \in V : IsHex(it.cmd)}
           cmds == file.commands
           Chosen(p) == {it \in ToSet(cmds) : Bucket(it.priority) = p /\ it.cmd # <<>>}
           group(p) == Kept(cmds, Chosen(p))
           ordered == group(0) \o group(1) \o group(2)
<1>1. cmds \in Seq(V)
  BY DEF IsSettingsFile, Importable, migrate
<1>2. \A i \in DOMAIN cmds : IsHex(cmds[i].cmd)
  BY DEF Importable
<1> HIDE DEF cmds, V
<1>3. \A it \in ToSet(cmds) : IsHex(it.cmd)
  BY <1>2 DEF ToSet
<1>4. ASSUME NEW p
      PROVE  group(p) \in Seq(H)
  <2>1. group(p) \in Seq(V \cap Chosen(p))
    BY <1>1, KeptType
  <2>2. V \cap Chosen(p) \subseteq H
    BY <1>3
  <2> HIDE DEF group, Chosen, H
  <2> QED BY <2>1, <2>2, WiderSeq
<1> HIDE DEF group, H
<1>5. ordered \in Seq(H)
  BY <1>4, ConcatProperties
<1>6. command_bodies(file) = [i \in DOMAIN ordered |-> parse_hex(ordered[i].cmd)]
  BY DEF command_bodies, group, cmds
<1> HIDE DEF ordered
<1>7. DOMAIN ordered = 1..Len(ordered) /\ Len(ordered) \in Nat
      /\ \A i \in DOMAIN ordered : ordered[i] \in H
  BY <1>5, LenProperties, ElementOfSeq
<1>8. ASSUME NEW i \in DOMAIN ordered
      PROVE  parse_hex(ordered[i].cmd) \in Seq(Byte)
  <2>1. ordered[i].cmd \in Seq(Character) /\ IsHex(ordered[i].cmd)
    BY <1>7 DEF H, V
  <2> QED BY <2>1, ReadFromHex
<1> QED BY <1>6, <1>7, <1>8

\* The plan a session makes of a file is the plan of a frontend that gets the
\* bodies through the C interface and writes them back as commands
\* (import.rs:4, settings.rs:63, command_json.rs:98).
THEOREM ImportsAgree ==
    ASSUME NEW file, IsSettingsFile(file), Importable(file)
    PROVE  /\ import_plan(file) \in Seq(Command)
           /\ [i \in DOMAIN settings_parse(file) |->
                 to_command([op |-> "Raw", word |-> "", arg |-> settings_parse(file)[i]])]
                = import_plan(file)
<1> DEFINE bodies == command_bodies(file)
           texts == settings_parse(file)
<1>1. bodies \in Seq(Seq(Byte))
  BY ImportedBodies
<1>2. import_plan(file) = [i \in DOMAIN bodies |-> Cmd("Raw", bodies[i])]
  BY DEF import_plan
<1>3. texts = [i \in DOMAIN bodies |-> to_hex(bodies[i])]
  BY DEF settings_parse
<1> HIDE DEF bodies, texts
<1>4. DOMAIN bodies = 1..Len(bodies) /\ Len(bodies) \in Nat
      /\ \A i \in DOMAIN bodies : bodies[i] \in Seq(Byte)
  BY <1>1, LenProperties, ElementOfSeq
<1>5. ASSUME NEW i \in DOMAIN bodies
      PROVE  /\ Cmd("Raw", bodies[i]) \in Command
             /\ to_command([op |-> "Raw", word |-> "", arg |-> texts[i]]) = Cmd("Raw", bodies[i])
  <2>1. bodies[i] \in Seq(Byte) /\ texts[i] = to_hex(bodies[i])
    BY <1>3, <1>4
  <2>2. "Raw" \notin DOMAIN Words /\ "Raw" \in DOMAIN Opcode
    BY WordsType DEF Opcode
  <2>3. Cmd("Raw", bodies[i]) \in Command
    BY <2>1, <2>2, CommandMembers DEF Cmd, IsCommand, Held
  <2>4. parse_hex(to_hex(bodies[i])) = bodies[i]
    BY <2>1, HexRoundTrips
  <2> QED BY <2>1, <2>2, <2>3, <2>4 DEF to_command
<1>6. import_plan(file) \in Seq(Command)
  <2> DEFINE cmd(i) == Cmd("Raw", bodies[i])
  <2>1. \A i \in DOMAIN bodies : cmd(i) \in Command
    BY <1>5
  <2>2. import_plan(file) = [i \in DOMAIN bodies |-> cmd(i)]
    BY <1>2
  <2> HIDE DEF cmd
  <2> QED BY <1>4, <2>1, <2>2
<1>7. [i \in DOMAIN texts |-> to_command([op |-> "Raw", word |-> "", arg |-> texts[i]])]
        = import_plan(file)
  <2> DEFINE back(i) == to_command([op |-> "Raw", word |-> "", arg |-> texts[i]])
             cmd(i) == Cmd("Raw", bodies[i])
  <2>1. DOMAIN texts = DOMAIN bodies
    BY <1>3
  <2>2. \A i \in DOMAIN bodies : back(i) = cmd(i)
    BY <1>5
  <2>3. import_plan(file) = [i \in DOMAIN bodies |-> cmd(i)]
    BY <1>2
  <2> HIDE DEF back, cmd
  <2>4. [i \in DOMAIN texts |-> back(i)] = import_plan(file)
    BY <2>1, <2>2, <2>3
  <2> QED BY <2>4 DEF back
<1> QED BY <1>6, <1>7 DEF texts

\* The steps of a readout ask for what they show.
Queries ==
    {"QueryBattery", "QueryMac", "QueryFirmware", "QueryNoise", "QueryName", "QuerySoundEffect",
     "QueryGameMode", "QueryControlSettings", "QueryLdac", "QueryPromptVolume",
     "QueryShutdownTimer", "QueryAutoPowerOff"}

LEMMA StepsAreQueries ==
    /\ ReadoutStep \in Seq(ToSet(ReadoutStep))
    /\ \A step \in ToSet(ReadoutStep) : step[1] \in Queries
<1>1. DOMAIN ReadoutStep = 1..9 /\ Len(ReadoutStep) = 9
  BY DEF ReadoutStep
<1>2. \A i \in 1..9 : ReadoutStep[i][1] \in Queries
  <2> SUFFICES ASSUME NEW i \in 1..9 PROVE ReadoutStep[i][1] \in Queries
    OBVIOUS
  <2>1. i \in {1, 2, 3, 4, 5, 6, 7, 8, 9}
    OBVIOUS
  <2> QED BY <2>1 DEF ReadoutStep, Queries
<1>3. ReadoutStep = [i \in 1..9 |-> ReadoutStep[i]]
  BY DEF ReadoutStep
<1>4. \A i \in 1..9 : ReadoutStep[i] \in ToSet(ReadoutStep)
  BY <1>1 DEF ToSet
<1>5. \A step \in ToSet(ReadoutStep) : step[1] \in Queries
  BY <1>1, <1>2 DEF ToSet
<1> DEFINE all == ToSet(ReadoutStep)
<1>6. ReadoutStep \in Seq(all)
  <2> HIDE DEF all
  <2>1. \A i \in 1..9 : ReadoutStep[i] \in all
    BY <1>4 DEF all
  <2> QED BY <1>3, <2>1
<1> QED BY <1>5, <1>6

\* A query is a command without arguments.
LEMMA QueryIsCommand ==
    \A op \in Queries : Cmd(op, <<>>) \in Command
<1> SUFFICES ASSUME NEW op \in Queries PROVE Cmd(op, <<>>) \in Command
  OBVIOUS
<1>1. op \in DOMAIN Opcode
  BY DEF Queries, Opcode
<1>2. op \notin DOMAIN Words /\ op # "Raw"
  BY WordsType DEF Queries
<1>3. <<>> \in Fields(op)
  BY DEF Queries, Fields
<1> QED BY <1>1, <1>2, <1>3, CommandMembers DEF IsCommand, Held, Cmd

\* The plan of a readout is one of queries, and the plan of a frontend that gets
\* the queries in JSON is the same (readout.rs:4, profiles.rs:51).
THEOREM ReadoutsAgree ==
    ASSUME NEW profile \in Profile
    PROVE  /\ readout_plan(profile) \in Seq(Command)
           /\ [i \in DOMAIN readout_json(profile) |-> to_command(readout_json(profile)[i].op)]
                = readout_plan(profile)
<1> DEFINE V == ToSet(ReadoutStep)
           S == {s \in ToSet(ReadoutStep) : \E f \in s[2] : supports(profile, f)}
           visible == Kept(ReadoutStep, S)
           n == Len(visible)
           first == <<"QueryBattery", "QueryMac", "QueryFirmware">>
           op(i) == IF i <= 3 THEN first[i] ELSE visible[i - 3][1]
           query(i) == Cmd(op(i), <<>>)
           plan_ == readout_plan(profile)
           texts == readout_json(profile)
<1>1. visible \in Seq(V \cap S)
  BY StepsAreQueries, KeptType
<1>2. plan_ = [i \in 1..(3 + n) |-> IF i <= 3 THEN Cmd(first[i], <<>>)
                                    ELSE Cmd(visible[i - 3][1], <<>>)]
  BY DEF readout_plan
<1> HIDE DEF visible, S, plan_
<1>3. n \in Nat /\ \A i \in 1..n : visible[i][1] \in Queries
  BY <1>1, LenProperties, ElementOfSeq, StepsAreQueries
<1> HIDE DEF n
<1>4. plan_ = [i \in 1..(3 + n) |-> query(i)]
  <2>1. \A i \in 1..(3 + n) : query(i) = IF i <= 3 THEN Cmd(first[i], <<>>)
                                         ELSE Cmd(visible[i - 3][1], <<>>)
    OBVIOUS
  <2> HIDE DEF query
  <2> QED BY <1>2, <2>1
<1>5. ASSUME NEW i \in 1..(3 + n)
      PROVE  query(i) \in Command
  <2>1. CASE i <= 3
    <3>1. i \in {1, 2, 3}
      BY <1>3, <2>1
    <3>2. first[i] \in Queries
      BY <3>1 DEF Queries
    <3> QED BY <2>1, <3>2, QueryIsCommand
  <2>2. CASE ~(i <= 3)
    <3>1. i - 3 \in 1..n
      BY <1>3, <2>2
    <3> QED BY <1>3, <2>2, <3>1, QueryIsCommand
  <2> QED BY <2>1, <2>2
<1> HIDE DEF query
<1>6. plan_ \in Seq(Command) /\ DOMAIN plan_ = 1..(3 + n)
      /\ \A i \in 1..(3 + n) : plan_[i] \in Command
  BY <1>3, <1>4, <1>5
<1>7. texts = [i \in DOMAIN plan_ |-> [body |-> to_hex(to_body(plan_[i])),
                                        op |-> from_command(plan_[i])]]
  BY DEF readout_json, plan_
<1> HIDE DEF texts
<1> DEFINE back(i) == to_command(texts[i].op)
<1>8. ASSUME NEW i \in 1..(3 + n)
      PROVE  back(i) = plan_[i]
  <2>1. texts[i] = [body |-> to_hex(to_body(plan_[i])), op |-> from_command(plan_[i])]
    BY <1>6, <1>7
  <2>2. texts[i].op = from_command(plan_[i])
    BY <2>1
  <2>3. IsCommand(plan_[i])
    BY <1>6, CommandMembers
  <2> QED BY <2>2, <2>3, JsonRoundTrips
<1>9. DOMAIN texts = 1..(3 + n)
  BY <1>6, <1>7
<1>10. [i \in DOMAIN texts |-> back(i)] = plan_
  <2> HIDE DEF back
  <2>1. plan_ = [i \in 1..(3 + n) |-> plan_[i]]
    BY <1>4
  <2> QED BY <1>8, <1>9, <2>1
<1> QED BY <1>6, <1>10 DEF plan_, texts, back

-----------------------------------------------------------------------------
(* The headset *)

\* What the headset answers with fits in a frame, and noise has a mode and a volume.
Reply == {body \in Seq(Byte) : Len(body) >= 1 /\ Len(body) <= 255}
IsDevice(d) == d \in [Queried -> Reply] /\ Len(d[<<204>>]) = 3

LEMMA NewDeviceType == IsDevice(NewDevice)
<1> DEFINE answer(ask) == CASE ask = <<204>> -> <<204, 1, 6>>
                              [] ask = <<201>> -> <<201, 194, 187, 2>>
                              [] ask = <<240, 10>> -> <<240, 10, 7>>
                              [] ask = <<5>> -> <<5, 9>>
                              [] ask = <<215>> -> <<215, 1>>
                              [] ask = <<208>> -> <<208, 77>>
                              [] ask = <<200>> -> <<200, 1, 2, 3, 4, 5, 6>>
                              [] ask = <<198>> -> <<198, 3, 0, 2>>
                              [] OTHER -> <<ask[1], 0>>
<1>1. NewDevice = [ask \in Queried |-> answer(ask)]
  BY DEF NewDevice
<1>2. ASSUME NEW ask \in Queried
      PROVE  answer(ask) \in Reply
  <2>1. CASE ask = <<204>>
    <3>1. answer(ask) = <<204, 1, 6>>
      BY <2>1
    <3>2. <<204, 1, 6>> \in Reply
      BY DEF Reply, Byte
    <3> QED BY <3>1, <3>2
  <2>2. CASE ask = <<201>>
    <3>1. answer(ask) = <<201, 194, 187, 2>>
      BY <2>2
    <3>2. <<201, 194, 187, 2>> \in Reply
      BY DEF Reply, Byte
    <3> QED BY <3>1, <3>2
  <2>3. CASE ask = <<240, 10>>
    <3>1. answer(ask) = <<240, 10, 7>>
      BY <2>3
    <3>2. <<240, 10, 7>> \in Reply
      BY DEF Reply, Byte
    <3> QED BY <3>1, <3>2
  <2>4. CASE ask = <<5>>
    <3>1. answer(ask) = <<5, 9>>
      BY <2>4
    <3>2. <<5, 9>> \in Reply
      BY DEF Reply, Byte
    <3> QED BY <3>1, <3>2
  <2>5. CASE ask = <<215>>
    <3>1. answer(ask) = <<215, 1>>
      BY <2>5
    <3>2. <<215, 1>> \in Reply
      BY DEF Reply, Byte
    <3> QED BY <3>1, <3>2
  <2>6. CASE ask = <<208>>
    <3>1. answer(ask) = <<208, 77>>
      BY <2>6
    <3>2. <<208, 77>> \in Reply
      BY DEF Reply, Byte
    <3> QED BY <3>1, <3>2
  <2>7. CASE ask = <<200>>
    <3>1. answer(ask) = <<200, 1, 2, 3, 4, 5, 6>>
      BY <2>7
    <3>2. <<200, 1, 2, 3, 4, 5, 6>> \in Reply
      BY DEF Reply, Byte
    <3> QED BY <3>1, <3>2
  <2>8. CASE ask = <<198>>
    <3>1. answer(ask) = <<198, 3, 0, 2>>
      BY <2>8
    <3>2. <<198, 3, 0, 2>> \in Reply
      BY DEF Reply, Byte
    <3> QED BY <3>1, <3>2
  <2>9. CASE ask \in {<<213>>, <<8>>, <<72>>, <<211>>}
    <3>1. PICK b \in {213, 8, 72, 211} : ask = <<b>>
      BY <2>9
    <3>2. answer(ask) = <<b, 0>>
      BY <3>1
    <3>3. <<b, 0>> \in Reply
      BY <3>1 DEF Reply, Byte
    <3> QED BY <3>2, <3>3
  <2> HIDE DEF answer
  <2> QED BY <2>1, <2>2, <2>3, <2>4, <2>5, <2>6, <2>7, <2>8, <2>9 DEF Queried
<1>3. <<204>> \in Queried /\ answer(<<204>>) = <<204, 1, 6>>
  BY DEF Queried
<1> HIDE DEF answer
<1>4. NewDevice \in [Queried -> Reply] /\ NewDevice[<<204>>] = <<204, 1, 6>>
  BY <1>1, <1>2, <1>3
<1> QED BY <1>4 DEF IsDevice

\* The headset remembers an answer in the place of another one.
Put(d, k, v) == [d EXCEPT ![k] = v]

LEMMA Remembers ==
    ASSUME NEW d, IsDevice(d), NEW k, NEW v \in Reply, k = << 204 >> => Len(v) = 3
    PROVE  IsDevice(Put(d, k, v))
<1> DEFINE e == [d EXCEPT ![k] = v]
<1>1. e \in [Queried -> Reply]
  BY DEF IsDevice
<1>2. <<204>> \in Queried
  BY DEF Queried
<1>3. CASE k = <<204>>
  BY <1>1, <1>2, <1>3 DEF IsDevice, Put
<1>4. CASE k # <<204>>
  <2>1. e[<<204>>] = d[<<204>>]
    BY <1>2, <1>4 DEF IsDevice
  <2> QED BY <1>1, <2>1 DEF IsDevice, Put
<1> QED BY <1>3, <1>4

\* Replies of two and of three bytes.
LEMMA ShortReplies ==
    /\ \A a, b \in Byte : <<a, b>> \in Reply
    /\ \A a, b, c \in Byte : <<a, b, c>> \in Reply /\ Len(<<a, b, c>>) = 3
BY ShortSequences DEF Reply

\* Whatever it executes, a headset keeps answers of that form.
LEMMA ExecutedType ==
    ASSUME NEW d, IsDevice(d), NEW body \in Reply
    PROVE  IsDevice(Executed(d, body))
<1> DEFINE is(first, n) == body[1] = first /\ Len(body) = n
<1>1. /\ body \in Seq(Byte) /\ Len(body) \in Nat /\ Len(body) >= 1 /\ Len(body) <= 255
      /\ body # <<>> /\ \A i \in 1..Len(body) : body[i] \in Byte
  BY LenProperties, ElementOfSeq DEF Reply
<1>2. /\ 204 \in Byte /\ 240 \in Byte /\ 10 \in Byte /\ 211 \in Byte /\ 0 \in Byte
      /\ 201 \in Byte /\ \A k \in {213, 72, 8, 5, 215} : k \in Byte
  BY SmallIsByte
<1>3. /\ Len(body) = 2 => body[2] \in Byte
      /\ Len(body) = 3 => body[2] \in Byte /\ body[3] \in Byte
  BY <1>1
<1>4. /\ <<213>> # <<204>> /\ <<72>> # <<204>> /\ <<8>> # <<204>> /\ <<5>> # <<204>>
      /\ <<215>> # <<204>> /\ <<211>> # <<204>> /\ <<201>> # <<204>> /\ <<240, 10>> # <<204>>
  OBVIOUS
<1>5. PICK volume \in Byte : volume = d[<<204>>][3]
  <2>1. d[<<204>>] \in Seq(Byte) /\ Len(d[<<204>>]) = 3
    BY DEF IsDevice, Queried, Reply
  <2> QED BY <2>1, ElementOfSeq
<1>6. PICK b : Len(body) = 2 => b \in Byte /\ b = body[2]
  BY <1>3
<1>7. CASE is(193, 2)
  <2>1. Executed(d, body) = Put(d, <<204>>, <<204, body[2], volume>>)
    BY <1>5, <1>7 DEF Executed, Put
  <2> QED BY <1>2, <1>3, <1>7, <2>1, Remembers, ShortReplies
<1>8. CASE is(193, 3)
  <2>1. Executed(d, body) = Put(d, <<204>>, <<204, body[2], body[3]>>)
    BY <1>8 DEF Executed, Put
  <2> QED BY <1>2, <1>3, <1>8, <2>1, Remembers, ShortReplies
<1>9. ASSUME NEW first \in {196, 73, 9, 6, 214}, is(first, 2)
      PROVE  IsDevice(Executed(d, body))
  <2>1. b \in Byte /\ b = body[2]
    BY <1>6, <1>9
  <2>2. PICK k \in {213, 72, 8, 5, 215} : Executed(d, body) = Put(d, <<k>>, <<k, b>>)
    BY <1>9, <2>1 DEF Executed, Put
  <2>3. k \in Byte /\ <<k>> # <<204>>
    BY <1>2
  <2>4. <<k, b>> \in Reply
    BY <2>1, <2>3, ShortReplies
  <2> QED BY <2>2, <2>3, <2>4, Remembers
<1>10. CASE is(241, 3)
  <2>1. Executed(d, body) = Put(d, <<240, 10>>, <<240, 10, body[3]>>)
    BY <1>10 DEF Executed, Put
  <2> QED BY <1>2, <1>3, <1>4, <1>10, <2>1, Remembers, ShortReplies
<1>11. CASE is(209, 3)
  <2>1. Executed(d, body) = Put(d, <<211>>, <<211, 0, body[3]>>)
    BY <1>11 DEF Executed, Put
  <2> QED BY <1>2, <1>3, <1>4, <1>11, <2>1, Remembers, ShortReplies
<1>12. CASE is(210, 1)
  <2>1. Executed(d, body) = Put(d, <<211>>, <<211, 0>>)
    BY <1>12 DEF Executed, Put
  <2> QED BY <1>2, <1>4, <2>1, Remembers, ShortReplies
<1>13. CASE body[1] = 202
  <2>1. Executed(d, body) = Put(d, <<201>>, <<201>> \o Tail(body))
    BY <1>13 DEF Executed, Put
  <2>2. PICK rest \in Seq(Byte) : rest = Tail(body) /\ Len(rest) = Len(body) - 1
    BY <1>1, HeadTailProperties
  <2>3. PICK start \in Seq(Byte) : start = <<201>> /\ Len(start) = 1
    BY <1>2, ShortSequences, ZenonT(30)
  <2>4. start \o rest \in Seq(Byte) /\ Len(start \o rest) = Len(start) + Len(rest)
    BY ConcatProperties
  <2>5. start \o rest \in Reply
    BY <1>1, <2>2, <2>3, <2>4 DEF Reply
  <2>6. Executed(d, body) = Put(d, <<201>>, start \o rest)
    BY <2>1, <2>2, <2>3
  <2> QED BY <1>4, <2>5, <2>6, Remembers
<1>14. CASE /\ \A first \in {196, 73, 9, 6, 214} : ~is(first, 2)
            /\ ~is(193, 2) /\ ~is(193, 3) /\ ~is(241, 3) /\ ~is(209, 3) /\ ~is(210, 1)
            /\ body[1] # 202
  BY <1>14 DEF Executed
<1> QED BY <1>7, <1>8, <1>9, <1>10, <1>11, <1>12, <1>13, <1>14

\* Two bytes and one byte are three bytes.
LEMMA TwoAndOne ==
    ASSUME NEW S, NEW x \in S, NEW y \in S, NEW z \in S
    PROVE  <<x, y>> \o <<z>> = <<x, y, z>>
<1> DEFINE s == <<x, y>> \o <<z>>
           t == <<x, y, z>>
<1>1. s \in Seq(S) /\ Len(s) = 3 /\ s[1] = x /\ s[2] = y /\ s[3] = z
  OBVIOUS
<1>2. t \in Seq(S) /\ Len(t) = 3 /\ t[1] = x /\ t[2] = y /\ t[3] = z
  OBVIOUS
<1> HIDE DEF s, t
<1>3. s = t
  BY <1>1, <1>2
<1> QED BY <1>3 DEF s, t

\* Its answer is a frame of bytes with a head of its own.
LEMMA AnswerType ==
    ASSUME NEW d, IsDevice(d), NEW body \in Reply
    PROVE  \E head \in RxHeads : \E reply \in Reply : IsFrame(Answer(d, body), head, reply)
<1>0. RxHeads \subseteq Byte /\ RX_HEAD_BB \in RxHeads /\ RX_HEAD_CC \in RxHeads
  BY SmallIsByte DEF RX_HEAD_BB, RX_HEAD_CC, RxHeads
<1>1. CASE body \in DOMAIN d
  <2>1. PICK reply \in Reply : reply = d[body]
    BY <1>1 DEF IsDevice
  <2>2. Answer(d, body) = append_checksum(<<RX_HEAD_BB, Len(reply)>> \o reply)
    BY <1>1, <2>1 DEF Answer
  <2>3. reply \in Seq(Byte) /\ Len(reply) <= 255
    BY DEF Reply
  <2> QED BY <1>0, <2>2, <2>3, Sealed
<1>2. CASE body \notin DOMAIN d
  <2>1. PICK b \in Byte : b = body[1]
    BY ElementOfSeq DEF Reply
  <2>2. PICK reply \in Reply : reply = <<b>> /\ Len(reply) = 1
    <3>1. <<b>> \in Seq(Byte) /\ Len(<<b>>) = 1
      BY ShortSequences
    <3>2. <<b>> \in Reply
      BY <3>1 DEF Reply
    <3> QED BY <3>1, <3>2
  <2>3. Answer(d, body) = append_checksum(<<RX_HEAD_CC, 1, b>>)
    BY <1>2, <2>1 DEF Answer
  <2>4. <<RX_HEAD_CC, 1>> \o <<b>> = <<RX_HEAD_CC, 1, b>>
    <3>1. RX_HEAD_CC \in Byte /\ 1 \in Byte
      BY <1>0, SmallIsByte
    <3> QED BY <3>1, TwoAndOne
  <2>5. Answer(d, body) = append_checksum(<<RX_HEAD_CC, Len(reply)>> \o reply)
    BY <2>2, <2>3, <2>4
  <2>6. reply \in Seq(Byte) /\ Len(reply) <= 255
    BY DEF Reply
  <2> QED BY <1>0, <2>5, <2>6, Sealed
<1> QED BY <1>1, <1>2

-----------------------------------------------------------------------------
(* Frames in a stream *)

\* t is the place of a good frame in the bytes s.
Lies(s, t) ==
    /\ t \in [from : Nat, to : Nat]
    /\ t.from + 2 <= Len(s) /\ t.to <= Len(s)
    /\ s[t.from + 1] \in RxHeads
    /\ t.to = t.from + s[t.from + 2] + Overhead
    /\ verify_checksum(SubSeq(s, t.from + 1, t.to))

\* It is not empty, and whoever cuts there takes it.
LEMMA LiesIsCut ==
    ASSUME NEW s \in Seq(Byte), NEW t, Lies(s, t)
    PROVE  /\ t.from \in Nat /\ t.to \in Nat /\ t.from + 4 <= t.to /\ t.to <= Len(s)
           /\ CanCut(s, t.from)
           /\ CutItem(s, t.from) = [kind |-> "frame", from |-> t.from, to |-> t.to]
<1>1. t.from \in Nat /\ t.to \in Nat /\ Len(s) \in Nat
  BY LenProperties DEF Lies
<1>2. PICK n \in Byte : n = s[t.from + 2]
  <2>1. t.from + 2 \in 1..Len(s)
    BY <1>1 DEF Lies
  <2> QED BY <2>1, ElementOfSeq
<1>3. n \in Nat
  BY ByteIsNat
<1>4. t.to = t.from + n + 4 /\ t.to <= Len(s) /\ t.from + 2 <= Len(s)
  BY <1>2 DEF Lies, Overhead
<1>5. CutEnd(s, t.from) = t.to
  BY <1>2, <1>4 DEF Lies, CutEnd, Overhead
<1>6. CutKind(s, t.from) = "frame"
  BY <1>5 DEF CutKind, Lies
<1>7. CanCut(s, t.from)
  BY <1>1, <1>2, <1>3, <1>4 DEF CanCut, Overhead
<1>8. CutItem(s, t.from) = [kind |-> "frame", from |-> t.from, to |-> t.to]
  BY <1>5, <1>6 DEF CutItem
<1> QED BY <1>1, <1>3, <1>4, <1>7, <1>8

\* The same bytes at another place are a frame there.
LEMMA LiesElsewhere ==
    ASSUME NEW s \in Seq(Byte), NEW u \in Seq(Byte), NEW t, Lies(s, t),
           NEW q \in Nat, NEW r \in Nat, r - q = t.to - t.from, r <= Len(u),
           \A i \in 1..(r - q) : u[q + i] = s[t.from + i]
    PROVE  Lies(u, [from |-> q, to |-> r])
<1> DEFINE p == t.from
           e == t.to
           n == r - q
<1>1. /\ p \in Nat /\ e \in Nat /\ p + 4 <= e /\ e <= Len(s)
      /\ Len(s) \in Nat /\ Len(u) \in Nat
  BY LiesIsCut, LenProperties
<1>2. n \in Nat /\ n >= 4 /\ e = p + n /\ r = q + n
  BY <1>1
<1>3. \A i \in 1..n : u[q + i] = s[p + i]
  OBVIOUS
<1>4. s[p + 1] \in RxHeads /\ e = p + s[p + 2] + Overhead /\ verify_checksum(SubSeq(s, p + 1, e))
  BY DEF Lies
<1> HIDE DEF p, e, n
<1>5. 1 \in 1..n /\ 2 \in 1..n
  BY <1>2
<1>6. u[q + 1] = s[p + 1] /\ u[q + 2] = s[p + 2]
  BY <1>3, <1>5
<1>7. \A i \in (q + 1)..r : u[i] \in Byte
  BY <1>1, <1>2, ElementOfSeq
<1>8. \A i \in (p + 1)..e : s[i] \in Byte
  BY <1>1, <1>2, ElementOfSeq
<1>9. /\ SubSeq(u, q + 1, r) \in Seq(Byte) /\ Len(SubSeq(u, q + 1, r)) = n
      /\ \A i \in 1..n : SubSeq(u, q + 1, r)[i] = u[q + i]
  <2> DEFINE part == SubSeq(u, q + 1, r)
  <2>1. /\ part \in Seq(Byte)
        /\ Len(part) = IF q + 1 <= r THEN r - (q + 1) + 1 ELSE 0
        /\ \A i \in 1..(r - (q + 1) + 1) : part[i] = u[(q + 1) + i - 1]
    BY <1>1, <1>2, <1>7, SubSeqProperties, SMTT(30)
  <2> HIDE DEF part
  <2>2. q + 1 <= r /\ r - (q + 1) + 1 = n /\ \A i \in 1..n : (q + 1) + i - 1 = q + i
    BY <1>2
  <2>3. part \in Seq(Byte) /\ Len(part) = n /\ \A i \in 1..n : part[i] = u[q + i]
    BY <2>1, <2>2
  <2> QED BY <2>3 DEF part
<1>10. /\ SubSeq(s, p + 1, e) \in Seq(Byte) /\ Len(SubSeq(s, p + 1, e)) = n
       /\ \A i \in 1..n : SubSeq(s, p + 1, e)[i] = s[p + i]
  <2> DEFINE part == SubSeq(s, p + 1, e)
  <2>1. /\ part \in Seq(Byte)
        /\ Len(part) = IF p + 1 <= e THEN e - (p + 1) + 1 ELSE 0
        /\ \A i \in 1..(e - (p + 1) + 1) : part[i] = s[(p + 1) + i - 1]
    BY <1>1, <1>2, <1>8, SubSeqProperties, SMTT(30)
  <2> HIDE DEF part
  <2>2. p + 1 <= e /\ e - (p + 1) + 1 = n /\ \A i \in 1..n : (p + 1) + i - 1 = p + i
    BY <1>1, <1>2
  <2>3. part \in Seq(Byte) /\ Len(part) = n /\ \A i \in 1..n : part[i] = s[p + i]
    BY <2>1, <2>2
  <2> QED BY <2>3 DEF part
<1>11. SubSeq(u, q + 1, r) = SubSeq(s, p + 1, e)
  <2> DEFINE x == SubSeq(u, q + 1, r)
             y == SubSeq(s, p + 1, e)
  <2>1. x \in Seq(Byte) /\ y \in Seq(Byte) /\ Len(x) = Len(y) /\ Len(x) = n
    BY <1>9, <1>10
  <2>2. \A i \in 1..n : x[i] = y[i]
    BY <1>3, <1>9, <1>10
  <2> HIDE DEF x, y
  <2>3. x = y
    BY <2>1, <2>2, SeqEqual
  <2> QED BY <2>3 DEF x, y
<1>12. r = q + u[q + 2] + Overhead
  <2>1. s[p + 2] = n - 4
    <3>1. PICK m \in Byte : m = s[p + 2]
      BY <1>1, <1>2, ElementOfSeq
    <3>2. m \in Nat
      BY ByteIsNat
    <3>3. e = p + m + 4
      BY <1>4, <3>1 DEF Overhead
    <3>4. m = n - 4
      BY <1>1, <1>2, <3>2, <3>3
    <3> QED BY <3>1, <3>4
  <2> QED BY <1>2, <1>6, <2>1 DEF Overhead
<1>13. q + 2 <= Len(u)
  BY <1>1, <1>2
<1> DEFINE v == [from |-> q, to |-> r]
<1>14. v \in [from : Nat, to : Nat] /\ v.from = q /\ v.to = r
  OBVIOUS
<1> HIDE DEF v
<1>15. Lies(u, v)
  BY <1>4, <1>6, <1>11, <1>12, <1>13, <1>14 DEF Lies
<1> QED BY <1>15 DEF v

\* A place is its two ends.
LEMMA PlaceIs ==
    ASSUME NEW s, NEW t, Lies(s, t)
    PROVE  t = [from |-> t.from, to |-> t.to]
BY DEF Lies

\* What follows changes nothing.
LEMMA LiesLonger ==
    ASSUME NEW s \in Seq(Byte), NEW x \in Seq(Byte), NEW t, Lies(s, t)
    PROVE  Lies(s \o x, t)
<1> DEFINE u == s \o x
<1>1. /\ u \in Seq(Byte) /\ Len(u) = Len(s) + Len(x)
      /\ \A i \in 1..(Len(s) + Len(x)) : u[i] = IF i <= Len(s) THEN s[i] ELSE x[i - Len(s)]
  BY ConcatProperties
<1>2. /\ t.from \in Nat /\ t.to \in Nat /\ t.from + 4 <= t.to /\ t.to <= Len(s)
      /\ Len(s) \in Nat /\ Len(x) \in Nat
  BY LiesIsCut, LenProperties
<1>3. \A i \in 1..(t.to - t.from) : u[t.from + i] = s[t.from + i]
  BY <1>1, <1>2, SMTT(30)
<1> HIDE DEF u
<1>4. t.to <= Len(u)
  BY <1>1, <1>2
<1>5. Lies(u, [from |-> t.from, to |-> t.to])
  BY <1>1, <1>2, <1>3, <1>4, LiesElsewhere, ZenonT(30)
<1> QED BY <1>5, PlaceIs DEF u

\* A frame that ends in what has arrived needs nothing more.
LEMMA LiesWithin ==
    ASSUME NEW s \in Seq(Byte), NEW x \in Seq(Byte), NEW t, Lies(s \o x, t), t.to <= Len(s)
    PROVE  Lies(s, t)
<1> DEFINE u == s \o x
<1>1. /\ u \in Seq(Byte) /\ Len(u) = Len(s) + Len(x)
      /\ \A i \in 1..(Len(s) + Len(x)) : u[i] = IF i <= Len(s) THEN s[i] ELSE x[i - Len(s)]
  BY ConcatProperties
<1>2. Lies(u, t)
  OBVIOUS
<1> HIDE DEF u
<1>3. /\ t.from \in Nat /\ t.to \in Nat /\ t.from + 4 <= t.to
      /\ Len(s) \in Nat /\ Len(x) \in Nat
  BY <1>1, <1>2, LiesIsCut, LenProperties
<1>4. \A i \in 1..(t.to - t.from) : s[t.from + i] = u[t.from + i]
  <2>1. PICK p \in Nat, e \in Nat, m \in Nat, n \in Nat :
          /\ p = t.from /\ e = t.to /\ m = Len(s) /\ n = Len(x) /\ e <= m
    BY <1>3
  <2>2. \A i \in 1..(m + n) : u[i] = IF i <= m THEN s[i] ELSE x[i - m]
    BY <1>1, <2>1
  <2>3. \A i \in 1..(e - p) : p + i \in 1..(m + n) /\ p + i <= m
    BY <2>1
  <2> QED BY <2>1, <2>2, <2>3
<1>5. Lies(s, [from |-> t.from, to |-> t.to])
  BY <1>1, <1>2, <1>3, <1>4, LiesElsewhere
<1> QED BY <1>2, <1>5, PlaceIs

\* Places behind position m in a stream of m + n bytes, one less and one more.
LEMMA OneLess ==
    ASSUME NEW p \in Nat, NEW e \in Nat, NEW m \in Nat, NEW n \in Nat,
           p + 4 <= e, e <= m + n, p > m
    PROVE  /\ p - 1 \in Nat /\ e - 1 \in Nat /\ (e - 1) - (p - 1) = e - p /\ e - 1 <= m + (n - 1)
           /\ \A i \in 1..(e - p) : \E k, j \in Nat :
                /\ k = p + i /\ (p - 1) + i = k - 1
                /\ k \in 1..(m + n) /\ ~(k <= m) /\ k - m = j + 1
                /\ k - 1 \in 1..(m + (n - 1)) /\ ~(k - 1 <= m) /\ (k - 1) - m = j
                /\ j \in 1..(n - 1)
<1>1. ASSUME NEW i \in 1..(e - p)
      PROVE  \E k, j \in Nat :
                /\ k = p + i /\ (p - 1) + i = k - 1
                /\ k \in 1..(m + n) /\ ~(k <= m) /\ k - m = j + 1
                /\ k - 1 \in 1..(m + (n - 1)) /\ ~(k - 1 <= m) /\ (k - 1) - m = j
                /\ j \in 1..(n - 1)
  <2>1. PICK k \in Nat, j \in Nat : k = p + i /\ j = (p + i) - m - 1
    OBVIOUS
  <2> QED BY <2>1
<1> QED BY <1>1

LEMMA OneMore ==
    ASSUME NEW p \in Nat, NEW e \in Nat, NEW m \in Nat, NEW n \in Nat,
           p + 4 <= e, e <= m + n, p >= m
    PROVE  /\ p + 1 \in Nat /\ e + 1 \in Nat /\ (e + 1) - (p + 1) = e - p /\ e + 1 <= m + (n + 1)
           /\ \A i \in 1..(e - p) : \E k, j \in Nat :
                /\ k = p + i /\ (p + 1) + i = k + 1
                /\ k \in 1..(m + n) /\ ~(k <= m) /\ k - m = j
                /\ k + 1 \in 1..(m + (n + 1)) /\ ~(k + 1 <= m) /\ (k + 1) - m = j + 1
                /\ j \in 1..n
<1>1. ASSUME NEW i \in 1..(e - p)
      PROVE  \E k, j \in Nat :
                /\ k = p + i /\ (p + 1) + i = k + 1
                /\ k \in 1..(m + n) /\ ~(k <= m) /\ k - m = j
                /\ k + 1 \in 1..(m + (n + 1)) /\ ~(k + 1 <= m) /\ (k + 1) - m = j + 1
                /\ j \in 1..n
  <2>1. PICK k \in Nat, j \in Nat : k = p + i /\ j = (p + i) - m
    OBVIOUS
  <2> QED BY <2>1
<1> QED BY <1>1

\* Behind a byte that gets lost the frames move up.
LEMMA LiesEarlier ==
    ASSUME NEW s \in Seq(Byte), NEW x \in Seq(Byte), x # <<>>,
           NEW t, Lies(s \o x, t), t.from > Len(s)
    PROVE  Lies(s \o Tail(x), [from |-> t.from - 1, to |-> t.to - 1])
<1> DEFINE u == s \o x
           rest == Tail(x)
           v == s \o rest
<1>1. /\ u \in Seq(Byte) /\ Len(u) = Len(s) + Len(x)
      /\ \A i \in 1..(Len(s) + Len(x)) : u[i] = IF i <= Len(s) THEN s[i] ELSE x[i - Len(s)]
  BY ConcatProperties
<1>2. /\ rest \in Seq(Byte) /\ Len(rest) = Len(x) - 1
      /\ \A i \in 1..Len(rest) : rest[i] = x[i + 1]
  BY HeadTailProperties
<1>3. Lies(u, t)
  OBVIOUS
<1> HIDE DEF u, rest
<1>4. /\ v \in Seq(Byte) /\ Len(v) = Len(s) + Len(rest)
      /\ \A i \in 1..(Len(s) + Len(rest)) : v[i] = IF i <= Len(s) THEN s[i] ELSE rest[i - Len(s)]
  BY <1>2, ConcatProperties
<1> HIDE DEF v
<1>5. /\ t.from \in Nat /\ t.to \in Nat /\ t.from + 4 <= t.to /\ t.to <= Len(u)
      /\ Len(s) \in Nat /\ Len(x) \in Nat
  BY <1>1, <1>3, LiesIsCut, LenProperties
<1>9. PICK p \in Nat, e \in Nat : p = t.from /\ e = t.to /\ p + 4 <= e /\ e <= Len(u)
  BY <1>5
<1>10. p > Len(s)
  BY <1>9
<1>11. PICK m \in Nat, n \in Nat : /\ m = Len(s) /\ n = Len(x) /\ Len(u) = m + n
                                  /\ Len(rest) = n - 1 /\ Len(v) = m + (n - 1)
  BY <1>1, <1>2, <1>4, <1>5
<1>12. /\ p - 1 \in Nat /\ e - 1 \in Nat /\ (e - 1) - (p - 1) = e - p /\ e - 1 <= m + (n - 1)
       /\ \A i \in 1..(e - p) : \E k, j \in Nat :
            /\ k = p + i /\ (p - 1) + i = k - 1
            /\ k \in 1..(m + n) /\ ~(k <= m) /\ k - m = j + 1
            /\ k - 1 \in 1..(m + (n - 1)) /\ ~(k - 1 <= m) /\ (k - 1) - m = j
            /\ j \in 1..(n - 1)
  <2>1. p + 4 <= e /\ e <= m + n /\ p > m
    BY <1>9, <1>10, <1>11
  <2> QED BY <2>1, OneLess
<1> DEFINE q == p - 1
           r == e - 1
<1>6. q \in Nat /\ r \in Nat /\ r - q = e - p /\ r <= Len(v)
  BY <1>11, <1>12
<1>7. ASSUME NEW i \in 1..(r - q)
      PROVE  v[q + i] = u[p + i]
  <2>1. i \in 1..(e - p)
    BY <1>6
  <2>2. PICK k \in Nat, j \in Nat :
            /\ k = p + i /\ (p - 1) + i = k - 1
            /\ k \in 1..(m + n) /\ ~(k <= m) /\ k - m = j + 1
            /\ k - 1 \in 1..(m + (n - 1)) /\ ~(k - 1 <= m) /\ (k - 1) - m = j
            /\ j \in 1..(n - 1)
    BY <1>12, <2>1
  <2>3. u[k] = x[j + 1]
    BY <1>1, <1>11, <2>2
  <2>4. v[k - 1] = rest[j]
    BY <1>4, <1>11, <2>2
  <2>5. rest[j] = x[j + 1]
    BY <1>2, <1>11, <2>2
  <2> QED BY <2>2, <2>3, <2>4, <2>5
<1> HIDE DEF q, r
<1>8. Lies(v, [from |-> q, to |-> r])
  BY <1>1, <1>3, <1>4, <1>6, <1>7, <1>9, LiesElsewhere, ZenonT(30)
<1> QED BY <1>8, <1>9 DEF v, rest, q, r

\* Behind a stray byte they move down.
LEMMA LiesLater ==
    ASSUME NEW s \in Seq(Byte), NEW x \in Seq(Byte), NEW b \in Byte,
           NEW t, Lies(s \o x, t), t.from >= Len(s)
    PROVE  Lies(s \o (<<b>> \o x), [from |-> t.from + 1, to |-> t.to + 1])
<1> DEFINE u == s \o x
           more == <<b>> \o x
           v == s \o more
<1>1. /\ u \in Seq(Byte) /\ Len(u) = Len(s) + Len(x)
      /\ \A i \in 1..(Len(s) + Len(x)) : u[i] = IF i <= Len(s) THEN s[i] ELSE x[i - Len(s)]
  BY ConcatProperties
<1>2. /\ more \in Seq(Byte) /\ Len(more) = Len(x) + 1 /\ Len(x) \in Nat
      /\ \A i \in 1..Len(x) : more[i + 1] = x[i]
  <2>1. <<b>> \in Seq(Byte) /\ Len(<<b>>) = 1 /\ Len(x) \in Nat
    BY ShortSequences, LenProperties
  <2>2. /\ more \in Seq(Byte) /\ Len(more) = Len(<<b>>) + Len(x)
        /\ \A i \in 1..(Len(<<b>>) + Len(x)) :
              more[i] = IF i <= Len(<<b>>) THEN <<b>>[i] ELSE x[i - Len(<<b>>)]
    BY <2>1, ConcatProperties
  <2> HIDE DEF more
  <2>3. ASSUME NEW i \in 1..Len(x)
        PROVE  more[i + 1] = x[i]
    <3>1. i + 1 \in 1..(1 + Len(x)) /\ ~(i + 1 <= 1) /\ (i + 1) - 1 = i
      BY <2>1
    <3> QED BY <2>1, <2>2, <3>1
  <2> QED BY <2>1, <2>2, <2>3
<1>3. Lies(u, t)
  OBVIOUS
<1> HIDE DEF u, more
<1>4. /\ v \in Seq(Byte) /\ Len(v) = Len(s) + Len(more)
      /\ \A i \in 1..(Len(s) + Len(more)) : v[i] = IF i <= Len(s) THEN s[i] ELSE more[i - Len(s)]
  BY <1>2, ConcatProperties
<1> HIDE DEF v
<1>5. /\ t.from \in Nat /\ t.to \in Nat /\ t.from + 4 <= t.to /\ t.to <= Len(u)
      /\ Len(s) \in Nat
  BY <1>1, <1>3, LiesIsCut, LenProperties
<1>9. PICK p \in Nat, e \in Nat : p = t.from /\ e = t.to /\ p + 4 <= e /\ e <= Len(u)
  BY <1>5
<1>10. p >= Len(s)
  BY <1>9
<1>11. PICK m \in Nat, n \in Nat : /\ m = Len(s) /\ n = Len(x) /\ Len(u) = m + n
                                  /\ Len(more) = n + 1 /\ Len(v) = m + (n + 1)
  BY <1>1, <1>2, <1>4, <1>5
<1>12. /\ p + 1 \in Nat /\ e + 1 \in Nat /\ (e + 1) - (p + 1) = e - p /\ e + 1 <= m + (n + 1)
       /\ \A i \in 1..(e - p) : \E k, j \in Nat :
            /\ k = p + i /\ (p + 1) + i = k + 1
            /\ k \in 1..(m + n) /\ ~(k <= m) /\ k - m = j
            /\ k + 1 \in 1..(m + (n + 1)) /\ ~(k + 1 <= m) /\ (k + 1) - m = j + 1
            /\ j \in 1..n
  <2>1. p + 4 <= e /\ e <= m + n /\ p >= m
    BY <1>9, <1>10, <1>11
  <2> QED BY <2>1, OneMore
<1> DEFINE q == p + 1
           r == e + 1
<1>6. q \in Nat /\ r \in Nat /\ r - q = e - p /\ r <= Len(v)
  BY <1>11, <1>12
<1>7. ASSUME NEW i \in 1..(r - q)
      PROVE  v[q + i] = u[p + i]
  <2>1. i \in 1..(e - p)
    BY <1>6
  <2>2. PICK k \in Nat, j \in Nat :
            /\ k = p + i /\ (p + 1) + i = k + 1
            /\ k \in 1..(m + n) /\ ~(k <= m) /\ k - m = j
            /\ k + 1 \in 1..(m + (n + 1)) /\ ~(k + 1 <= m) /\ (k + 1) - m = j + 1
            /\ j \in 1..n
    BY <1>12, <2>1
  <2>3. u[k] = x[j]
    BY <1>1, <1>11, <2>2
  <2>4. v[k + 1] = more[j + 1]
    BY <1>4, <1>11, <2>2
  <2>5. more[j + 1] = x[j]
    BY <1>2, <1>11, <2>2
  <2> QED BY <2>2, <2>3, <2>4, <2>5
<1> HIDE DEF q, r
<1>8. Lies(v, [from |-> q, to |-> r])
  BY <1>1, <1>3, <1>4, <1>6, <1>7, <1>9, LiesElsewhere, ZenonT(30)
<1> QED BY <1>8, <1>9 DEF v, more, q, r

\* A frame that is added to the stream lies where the stream ended.
LEMMA LiesAtTheEnd ==
    ASSUME NEW s \in Seq(Byte), NEW head \in RxHeads, NEW reply \in Reply,
           NEW frame, IsFrame(frame, head, reply)
    PROVE  /\ Lies(s \o frame, [from |-> Len(s), to |-> Len(s) + Len(frame)])
           /\ Len(frame) \in Nat /\ Len(frame) > 4
<1> DEFINE u == s \o frame
           n == Len(frame)
           whole == [from |-> 0, to |-> n]
<1>1. /\ frame \in Seq(Byte) /\ n \in Nat /\ n = Len(reply) + 4 /\ Len(reply) \in Nat
      /\ frame[1] = head /\ frame[2] = Len(reply) /\ verify_checksum(frame) /\ Len(s) \in Nat
      /\ n > 4
  BY LenProperties DEF IsFrame, Overhead, Reply
<1>2. frame = SubSeq(frame, 1, n)
  BY <1>1, SubSeqFull
<1>3. whole \in [from : Nat, to : Nat] /\ whole.from = 0 /\ whole.to = n
  BY <1>1
<1> HIDE DEF whole, n
<1>4. Lies(frame, whole)
  <2>0. n = Len(frame)
    BY DEF n
  <2>1. whole.from + 2 <= Len(frame) /\ whole.to <= Len(frame)
    BY <1>1, <1>3, <2>0
  <2>2. frame[whole.from + 1] \in RxHeads /\ whole.to = whole.from + frame[whole.from + 2] + Overhead
    <3>1. whole.from + 1 = 1 /\ whole.from + 2 = 2
      BY <1>3
    <3> QED BY <1>1, <1>3, <3>1 DEF Overhead
  <2>3. verify_checksum(SubSeq(frame, whole.from + 1, whole.to))
    <3>1. whole.from + 1 = 1 /\ whole.to = n
      BY <1>3
    <3> QED BY <1>1, <1>2, <3>1
  <2> QED BY <1>3, <2>1, <2>2, <2>3 DEF Lies
<1>5. /\ u \in Seq(Byte) /\ Len(u) = Len(s) + Len(frame)
      /\ \A i \in 1..(Len(s) + Len(frame)) : u[i] = IF i <= Len(s) THEN s[i] ELSE frame[i - Len(s)]
  BY <1>1, ConcatProperties
<1> HIDE DEF u
<1> DEFINE q == Len(s)
           r == Len(s) + n
<1>6. q \in Nat /\ r \in Nat /\ r - q = whole.to - whole.from /\ r <= Len(u)
  BY <1>1, <1>3, <1>5 DEF n
<1>7. ASSUME NEW i \in 1..(r - q)
      PROVE  u[q + i] = frame[whole.from + i]
  <2>0. PICK m \in Nat : m = Len(s) /\ n = Len(frame)
    BY <1>1 DEF n
  <2>1. q + i \in 1..(Len(s) + Len(frame)) /\ ~(q + i <= Len(s)) /\ (q + i) - Len(s) = i
    BY <1>1, <2>0
  <2>2. whole.from + i = i
    BY <1>1, <1>3
  <2> HIDE DEF q, r
  <2> QED BY <1>5, <2>1, <2>2
<1> HIDE DEF q, r
<1>8. Lies(u, [from |-> q, to |-> r])
  BY <1>1, <1>4, <1>5, <1>6, <1>7, LiesElsewhere, ZenonT(30)
<1> QED BY <1>1, <1>8 DEF u, q, r, n

-----------------------------------------------------------------------------
(* The dialogue *)

\* The bytes the headset sent, as far as they were not lost.
Stream == received \o air
End == Len(received) + Len(air)

\* Every byte that was consumed belongs to an item.
Covered ==
    \A p \in Nat : p < consumed => \E i \in DOMAIN items : items[i].from <= p /\ p < items[i].to

\* Every answer that is not damaged lies in the stream.
Sent == \A t \in truth : Lies(Stream, t)

\* The items are answers.
Answered ==
    \A i \in DOMAIN items : \E t \in truth :
        items[i] = [kind |-> "frame", from |-> t.from, to |-> t.to]

\* As long as nothing was lost or invented the answers follow one another without
\* gap or overlap, and the decoder cuts between two of them.
Tiled ==
    /\ \A t, u \in truth : t = u \/ t.to <= u.from \/ u.to <= t.from
    /\ \A t \in truth : t.to = End \/ \E u \in truth : u.from = t.to
    /\ Answered
    /\ consumed = End \/ \E t \in truth : t.from = consumed

DInv ==
    /\ Inv
    /\ air \in Seq(Byte) /\ plan \in Seq(Command) /\ IsDevice(device)
    /\ Covered /\ Sent
    /\ ~damaged => Tiled

\* The decoder and what is under way are bytes, and the decoder holds the end of
\* what it received.
LEMMA DialogueTypes ==
    ASSUME DInv
    PROVE  /\ received \in Seq(Byte) /\ buf \in Seq(Byte) /\ air \in Seq(Byte) /\ items \in Seq(Item)
           /\ Len(received) \in Nat /\ Len(buf) \in Nat /\ Len(air) \in Nat
           /\ consumed \in Nat /\ consumed <= Len(received) /\ Len(items) \in Nat
           /\ Stream \in Seq(Byte) /\ Len(Stream) = End /\ End \in Nat /\ consumed <= End
<1>1. /\ received \in Seq(Byte) /\ buf \in Seq(Byte) /\ air \in Seq(Byte) /\ items \in Seq(Item)
      /\ consumed \in 0..Len(received)
  BY DEF DInv, Inv, TypeOK, Suffix
<1>2. Len(received) \in Nat /\ Len(buf) \in Nat /\ Len(air) \in Nat /\ Len(items) \in Nat
  BY <1>1, LenProperties
<1>3. Stream \in Seq(Byte) /\ Len(Stream) = End
  BY <1>1, ConcatProperties DEF Stream, End
<1> QED BY <1>1, <1>2, <1>3 DEF End

\* Every answer that was consumed is an item of its own, or begins inside another
\* one that began before it, which nothing but damage explains.
LEMMA Arrived == DInv => FramesArrive
<1> SUFFICES ASSUME DInv, NEW t \in truth, t.to <= consumed
             PROVE  \/ [kind |-> "frame", from |-> t.from, to |-> t.to] \in ToSet(items)
                    \/ damaged /\ \E i \in DOMAIN items :
                           /\ items[i].kind # "unexpected_head"
                           /\ items[i].from < t.from /\ t.from < items[i].to
  BY DEF FramesArrive
<1>1. /\ received \in Seq(Byte) /\ air \in Seq(Byte) /\ items \in Seq(Item) /\ Len(received) \in Nat
      /\ consumed \in Nat /\ consumed <= Len(received)
  BY DialogueTypes
<1>2. Lies(received \o air, t)
  BY DEF DInv, Sent, Stream
<1>3. t.from \in Nat /\ t.to \in Nat /\ t.from + 4 <= t.to
  <2>1. received \o air \in Seq(Byte)
    BY <1>1, ConcatProperties
  <2> QED BY <1>2, <2>1, LiesIsCut
<1>4. Lies(received, t)
  BY <1>1, <1>2, <1>3, LiesWithin
<1>5. CutItem(received, t.from) = [kind |-> "frame", from |-> t.from, to |-> t.to]
  BY <1>1, <1>4, LiesIsCut
<1>6. PICK i \in DOMAIN items : items[i].from <= t.from /\ t.from < items[i].to
  <2>1. t.from \in Nat /\ t.from < consumed
    BY <1>1, <1>3
  <2> QED BY <2>1 DEF DInv, Covered
<1>7. items[i] \in Item
  BY <1>1, <1>6, ElementOfSeq
<1>8. items[i] = CutItem(received, items[i].from)
  BY <1>6 DEF DInv, Inv, Chain, IsCut
<1>9. CASE items[i].from = t.from
  BY <1>5, <1>6, <1>8, <1>9 DEF ToSet
<1>10. CASE items[i].from # t.from
  <2>1. items[i].from < t.from /\ items[i].from \in Nat
    BY <1>3, <1>6, <1>7, <1>10 DEF Item
  <2>2. items[i].kind # "unexpected_head"
    <3>1. SUFFICES ASSUME items[i].kind = "unexpected_head" PROVE FALSE
      OBVIOUS
    <3>2. PICK p \in Nat : p = items[i].from
      BY <2>1
    <3>3. items[i].kind = CutKind(received, p) /\ items[i].to = CutEnd(received, p)
      BY <1>8, <3>2 DEF CutItem
    <3>4. received[p + 1] \notin RxHeads
      BY <3>1, <3>3 DEF CutKind
    <3>5. items[i].to = p + 1
      BY <3>3, <3>4 DEF CutEnd
    <3> QED BY <1>3, <1>6, <2>1, <3>2, <3>5
  <2>3. damaged
    <3>1. SUFFICES ASSUME ~damaged PROVE FALSE
      OBVIOUS
    <3>2. PICK u \in truth : items[i] = [kind |-> "frame", from |-> u.from, to |-> u.to]
      BY <1>6, <3>1 DEF DInv, Tiled, Answered
    <3>3. u.from = items[i].from /\ u.to = items[i].to
      BY <3>2
    <3>4. t = u \/ t.to <= u.from \/ u.to <= t.from
      BY <3>1 DEF DInv, Tiled
    <3>5. u.to \in Nat
      BY <1>7, <3>3 DEF Item
    <3> QED BY <1>3, <1>6, <2>1, <3>3, <3>4, <3>5
  <2> QED BY <1>6, <2>1, <2>2, <2>3
<1> QED BY <1>9, <1>10

\* An extraction records the cut at the place the decoder has come to, and moves
\* behind it; or it leaves everything as it is.
LEMMA Cuts ==
    ASSUME Inv, Extract
    PROVE  /\ received' = received
           /\ \/ items' = items /\ consumed' = consumed
              \/ \E to \in Nat : /\ consumed < to /\ consumed' = to
                                 /\ CanCut(received, consumed)
                                 /\ CutItem(received, consumed).from = consumed
                                 /\ CutItem(received, consumed).to = to
                                 /\ items' = Append(items, CutItem(received, consumed))
<1>1. /\ received \in Seq(Byte) /\ buf \in Seq(Byte)
      /\ Len(received) \in Nat /\ Len(buf) \in Nat /\ consumed \in Nat
      /\ consumed = Len(received) - Len(buf)
  BY LenProperties DEF Inv, TypeOK, Suffix, consumed
<1>2. ASSUME NEW n \in 1..Len(buf), NEW kind, Consume(n, kind), CanCut(received, consumed),
             CutItem(received, consumed) = [kind |-> kind, from |-> consumed, to |-> consumed + n]
      PROVE  /\ received' = received
             /\ \E to \in Nat : /\ consumed < to /\ consumed' = to
                                /\ CanCut(received, consumed)
                                /\ CutItem(received, consumed).from = consumed
                                /\ CutItem(received, consumed).to = to
                                /\ items' = Append(items, CutItem(received, consumed))
  <2> DEFINE rest == SubSeq(buf, n + 1, Len(buf))
  <2>1. Len(rest) = Len(buf) - n
    <3>1. \A i \in (n + 1)..Len(buf) : buf[i] \in Byte
      BY <1>1, ElementOfSeq
    <3>2. Len(rest) = IF n + 1 <= Len(buf) THEN Len(buf) - (n + 1) + 1 ELSE 0
      BY <1>1, <3>1, SubSeqProperties
    <3> HIDE DEF rest
    <3> QED BY <1>1, <3>2
  <2>2. buf' = rest /\ received' = received
    BY <1>2 DEF Consume
  <2> HIDE DEF rest
  <2>3. consumed' = Len(received') - Len(buf')
    BY DEF consumed
  <2>4. PICK to \in Nat : to = consumed + n /\ consumed < to
    <3>1. PICK b \in Nat, c \in Nat : b = Len(buf) /\ c = consumed
      BY <1>1
    <3>2. n \in Nat /\ n >= 1
      BY <3>1
    <3>3. c + n \in Nat /\ c < c + n
      BY <3>2
    <3> QED BY <3>1, <3>3
  <2>5. consumed' = to
    <3>1. PICK a \in Nat, b \in Nat, c \in Nat :
             a = Len(received) /\ b = Len(buf) /\ c = consumed /\ c = a - b
      BY <1>1
    <3>2. Len(received') = a /\ Len(buf') = b - n
      BY <2>1, <2>2, <3>1
    <3>3. consumed' = a - (b - n)
      BY <2>3, <3>2
    <3>4. a - (b - n) = c + n
      BY <3>1
    <3> QED BY <2>4, <3>1, <3>3, <3>4
  <2>6. items' = Append(items, CutItem(received, consumed))
    BY <1>2 DEF Consume
  <2>7. CutItem(received, consumed).from = consumed /\ CutItem(received, consumed).to = to
    BY <1>2, <2>4
  <2> QED BY <1>2, <2>2, <2>4, <2>5, <2>6, <2>7
<1>3. CASE DropHead
  <2>1. Headless(buf) /\ Consume(1, "unexpected_head")
    BY <1>3 DEF DropHead
  <2>2. /\ CanCut(received, consumed) /\ 1 \in 1..Len(buf)
        /\ CutItem(received, consumed)
             = [kind |-> "unexpected_head", from |-> consumed, to |-> consumed + 1]
    BY <2>1, BufferSees DEF Inv
  <2> QED BY <1>2, <2>1, <2>2
<1>4. CASE TakeFrame
  <2> DEFINE kind == IF verify_checksum(SubSeq(buf, 1, Total(buf))) THEN "frame" ELSE "checksum"
  <2>1. Complete(buf) /\ Consume(Total(buf), kind)
    BY <1>4 DEF TakeFrame
  <2>2. /\ CanCut(received, consumed) /\ Total(buf) \in 1..Len(buf)
        /\ CutItem(received, consumed)
             = [kind |-> kind, from |-> consumed, to |-> consumed + Total(buf)]
    BY <2>1, BufferSees DEF Inv
  <2> HIDE DEF kind
  <2> QED BY <1>2, <2>1, <2>2
<1>5. CASE NeedMore
  BY <1>5 DEF NeedMore, consumed
<1> QED BY <1>3, <1>4, <1>5 DEF Extract

LEMMA DecodeKeeps ==
    ASSUME DInv, Decode
    PROVE  DInv'
<1>1. Extract /\ UNCHANGED <<device, plan, air, damaged, truth>>
  BY DEF Decode
<1>2. Inv'
  <2>1. Next
    BY <1>1 DEF Next
  <2> QED BY <2>1, NextInv DEF DInv
<1>3. /\ received' = received
      /\ \/ items' = items /\ consumed' = consumed
         \/ \E to \in Nat : /\ consumed < to /\ consumed' = to
                            /\ CanCut(received, consumed)
                            /\ CutItem(received, consumed).from = consumed
                            /\ CutItem(received, consumed).to = to
                            /\ items' = Append(items, CutItem(received, consumed))
  BY <1>1, Cuts DEF DInv
<1>4. Stream' = Stream /\ End' = End
  BY <1>1, <1>3 DEF Stream, End
<1>5. Sent'
  BY <1>1, <1>4 DEF DInv, Sent
<1>6. CASE items' = items /\ consumed' = consumed
  <2>1. Covered'
    BY <1>6 DEF DInv, Covered
  <2>2. ~damaged' => Tiled'
    BY <1>1, <1>4, <1>6 DEF DInv, Tiled, Answered
  <2> QED BY <1>1, <1>2, <1>5, <2>1, <2>2 DEF DInv
<1>7. ASSUME NEW to \in Nat, consumed < to, consumed' = to, CanCut(received, consumed),
             NEW it, it = CutItem(received, consumed), it.from = consumed, it.to = to,
             items' = Append(items, it)
      PROVE  DInv'
  <2>1. /\ received \in Seq(Byte) /\ air \in Seq(Byte) /\ items \in Seq(Item) /\ Len(items) \in Nat
        /\ consumed \in Nat /\ consumed <= Len(received) /\ Len(received) \in Nat
        /\ Stream \in Seq(Byte) /\ Len(air) \in Nat
    BY DialogueTypes
  <2>2. /\ DOMAIN items = 1..Len(items) /\ DOMAIN items' = 1..(Len(items) + 1)
        /\ \A i \in 1..Len(items) : items'[i] = items[i]
        /\ items'[Len(items) + 1] = it
    BY <1>7, <2>1
  <2>3. Covered'
    <3> SUFFICES ASSUME NEW p \in Nat, p < consumed'
                 PROVE  \E i \in DOMAIN items' : items'[i].from <= p /\ p < items'[i].to
      BY DEF Covered
    <3>1. CASE p < consumed
      <4>1. PICK i \in DOMAIN items : items[i].from <= p /\ p < items[i].to
        BY <3>1 DEF DInv, Covered
      <4> QED BY <2>1, <2>2, <4>1
    <3>2. CASE ~(p < consumed)
      <4>1. consumed <= p /\ p < to
        BY <1>7, <2>1, <3>2
      <4>2. Len(items) + 1 \in DOMAIN items'
        BY <2>1, <2>2
      <4> QED BY <1>7, <2>2, <4>1, <4>2
    <3> QED BY <3>1, <3>2
  <2>4. ASSUME ~damaged
        PROVE  Tiled'
    <3>1. Tiled
      BY <2>4 DEF DInv
    <3>2. consumed < Len(received) /\ consumed # End
      <4>1. consumed < Len(received)
        BY <1>7 DEF CanCut
      <4> QED BY <2>1, <4>1 DEF End
    <3>3. PICK t \in truth : t.from = consumed
      BY <3>1, <3>2 DEF Tiled
    <3>4. it = [kind |-> "frame", from |-> t.from, to |-> t.to]
      <4>1. CutItem(Stream, consumed) = it
        BY <1>7, <2>1, CutStable DEF Stream
      <4>2. Lies(Stream, t)
        BY DEF DInv, Sent
      <4>3. CutItem(Stream, t.from) = [kind |-> "frame", from |-> t.from, to |-> t.to]
        BY <2>1, <4>2, LiesIsCut
      <4> QED BY <3>3, <4>1, <4>3
    <3>5. t.to = to
      BY <1>7, <3>4
    <3>6. Answered'
      <4> SUFFICES ASSUME NEW i \in DOMAIN items'
                   PROVE  \E u \in truth : items'[i] = [kind |-> "frame", from |-> u.from, to |-> u.to]
        BY <1>1 DEF Answered
      <4>1. CASE i \in DOMAIN items
        BY <2>2, <3>1, <4>1 DEF Tiled, Answered
      <4>2. CASE i = Len(items) + 1
        BY <2>2, <3>4, <4>2
      <4> QED BY <2>1, <2>2, <4>1, <4>2
    <3>7. consumed' = End' \/ \E u \in truth' : u.from = consumed'
      <4>1. t.to = End \/ \E u \in truth : u.from = t.to
        BY <3>1 DEF Tiled
      <4> QED BY <1>1, <1>4, <1>7, <3>5, <4>1
    <3>8. /\ \A v, u \in truth' : v = u \/ v.to <= u.from \/ u.to <= v.from
          /\ \A v \in truth' : v.to = End' \/ \E u \in truth' : u.from = v.to
      BY <1>1, <1>4, <3>1 DEF Tiled
    <3> QED BY <3>6, <3>7, <3>8 DEF Tiled
  <2>5. ~damaged' => Tiled'
    BY <1>1, <2>4
  <2> QED BY <1>1, <1>2, <1>5, <2>3, <2>5 DEF DInv
<1> QED BY <1>3, <1>6, <1>7

\* What the user asks for changes the plan only, and makes it one of commands.
LEMMA PlanKeeps ==
    ASSUME DInv, UNCHANGED <<decoder, device, air, damaged, truth>>, plan' \in Seq(Command)
    PROVE  DInv'
<1>1. received' = received /\ items' = items /\ buf' = buf /\ air' = air /\ truth' = truth
      /\ damaged' = damaged /\ device' = device
  BY DEF decoder
<1>2. Inv'
  BY NextInv DEF DInv
<1>3. Stream' = Stream /\ End' = End /\ consumed' = consumed
  BY <1>1 DEF Stream, End, consumed
<1> QED BY <1>1, <1>2, <1>3 DEF DInv, Covered, Sent, Tiled, Answered

LEMMA RequestKeeps ==
    ASSUME DInv, NEW r \in Requests, Request(r)
    PROVE  DInv'
<1>1. UNCHANGED <<decoder, device, air, damaged, truth>>
  BY DEF Request, Quiet
<1>2. IsCommandJson(r.json) /\ Readable(r.json) /\ plan' = <<to_command(r.json)>>
  BY RequestAssumption DEF Request
<1>3. to_command(r.json) \in Command
  BY <1>2, JsonIsCommand, CommandMembers
<1>4. plan' \in Seq(Command)
  BY <1>2, <1>3
<1> QED BY <1>1, <1>4, PlanKeeps

LEMMA ImportKeeps ==
    ASSUME DInv, NEW f \in Files, Import(f)
    PROVE  DInv'
<1>1. UNCHANGED <<decoder, device, air, damaged, truth>>
  BY DEF Import, Quiet
<1>2. IsSettingsFile(f.file) /\ Importable(f.file)
  BY FileAssumption DEF Import
<1>3. PICK cmds \in Seq(Command) :
        /\ cmds = import_plan(f.file)
        /\ [i \in DOMAIN settings_parse(f.file) |->
              to_command([op |-> "Raw", word |-> "", arg |-> settings_parse(f.file)[i]])] = cmds
  BY <1>2, ImportsAgree
<1>4. plan' = cmds
  BY <1>3 DEF Import
<1> QED BY <1>1, <1>3, <1>4, PlanKeeps

LEMMA ReadoutKeeps ==
    ASSUME DInv, NEW profile \in Profiles, Readout(profile)
    PROVE  DInv'
<1>1. UNCHANGED <<decoder, device, air, damaged, truth>>
  BY DEF Readout, Quiet
<1>2. profile \in Profile
  BY ProfileAssumption
<1>3. PICK cmds \in Seq(Command) :
        /\ cmds = readout_plan(profile)
        /\ [i \in DOMAIN readout_json(profile) |-> to_command(readout_json(profile)[i].op)] = cmds
  BY <1>2, ReadoutsAgree
<1>4. plan' = cmds
  BY <1>3 DEF Readout
<1> QED BY <1>1, <1>3, <1>4, PlanKeeps

\* A new link begins with nothing.
LEMMA ReconnectKeeps ==
    ASSUME DInv, Reconnect
    PROVE  DInv'
<1>1. Renew /\ plan' = <<>> /\ air' = <<>> /\ truth' = {} /\ device' = device
  BY DEF Reconnect
<1>2. Inv'
  BY <1>1, RenewKeeps DEF DInv
<1>3. received' = <<>> /\ buf' = <<>> /\ items' = <<>>
  BY <1>1 DEF Renew
<1>4. consumed' = 0 /\ End' = 0
  <2>1. Len(<<>>) = 0
    OBVIOUS
  <2> QED BY <1>1, <1>3, <2>1 DEF consumed, End
<1>5. Covered' /\ Sent'
  BY <1>1, <1>4 DEF Covered, Sent
<1>6. Tiled'
  BY <1>1, <1>3, <1>4 DEF Tiled, Answered
<1> QED BY <1>1, <1>2, <1>5, <1>6 DEF DInv

\* A lost byte and a stray one leave the frames that have arrived, and move those
\* that are under way.
LEMMA LoseByteKeeps ==
    ASSUME DInv, LoseByte
    PROVE  DInv'
<1>1. /\ air # <<>> /\ air' = Tail(air) /\ damaged' = TRUE /\ UNCHANGED <<decoder, device, plan>>
      /\ truth' = {t \in truth : t.to <= Len(received)}
           \union {[from |-> t.from - 1, to |-> t.to - 1] :
                       t \in {t \in truth : t.from > Len(received)}}
  BY DEF LoseByte
<1>2. received' = received /\ items' = items /\ buf' = buf
  BY <1>1 DEF decoder
<1>3. Inv'
  BY <1>1, NextInv DEF DInv
<1>4. received \in Seq(Byte) /\ air \in Seq(Byte)
  BY DialogueTypes
<1>5. air' \in Seq(Byte)
  BY <1>1, <1>4, HeadTailProperties
<1>6. Covered'
  BY <1>2 DEF DInv, Covered, consumed
<1>7. Sent'
  <2> SUFFICES ASSUME NEW u \in truth' PROVE Lies(received \o Tail(air), u)
    BY <1>1, <1>2 DEF Sent, Stream
  <2>1. \A t \in truth : Lies(received \o air, t)
    BY DEF DInv, Sent, Stream
  <2>2. CASE u \in truth /\ u.to <= Len(received)
    <3>1. Lies(received, u)
      BY <1>4, <2>1, <2>2, LiesWithin
    <3>2. Tail(air) \in Seq(Byte)
      BY <1>1, <1>5
    <3> QED BY <1>4, <3>1, <3>2, LiesLonger
  <2>3. ASSUME NEW t \in truth, t.from > Len(received), u = [from |-> t.from - 1, to |-> t.to - 1]
        PROVE  Lies(received \o Tail(air), u)
    BY <1>1, <1>4, <2>1, <2>3, LiesEarlier
  <2> QED BY <1>1, <2>2, <2>3
<1> QED BY <1>1, <1>3, <1>5, <1>6, <1>7 DEF DInv

LEMMA StrayHeadKeeps ==
    ASSUME DInv, StrayHead
    PROVE  DInv'
<1>1. /\ air' = <<RX_HEAD_BB>> \o air /\ damaged' = TRUE /\ UNCHANGED <<decoder, device, plan>>
      /\ truth' = {t \in truth : t.to <= Len(received)}
           \union {[from |-> t.from + 1, to |-> t.to + 1] :
                       t \in {t \in truth : t.from >= Len(received)}}
  BY DEF StrayHead
<1>2. received' = received /\ items' = items /\ buf' = buf
  BY <1>1 DEF decoder
<1>3. Inv'
  BY <1>1, NextInv DEF DInv
<1>4. received \in Seq(Byte) /\ air \in Seq(Byte) /\ RX_HEAD_BB \in Byte
  BY DialogueTypes, SmallIsByte DEF RX_HEAD_BB
<1>5. <<RX_HEAD_BB>> \o air \in Seq(Byte)
  BY <1>4, ShortSequences, ConcatProperties
<1>6. Covered'
  BY <1>2 DEF DInv, Covered, consumed
<1>7. Sent'
  <2> SUFFICES ASSUME NEW u \in truth' PROVE Lies(received \o (<<RX_HEAD_BB>> \o air), u)
    BY <1>1, <1>2 DEF Sent, Stream
  <2>1. \A t \in truth : Lies(received \o air, t)
    BY DEF DInv, Sent, Stream
  <2>2. CASE u \in truth /\ u.to <= Len(received)
    <3>1. Lies(received, u)
      BY <1>4, <2>1, <2>2, LiesWithin
    <3> QED BY <1>4, <1>5, <3>1, LiesLonger
  <2>3. ASSUME NEW t \in truth, t.from >= Len(received), u = [from |-> t.from + 1, to |-> t.to + 1]
        PROVE  Lies(received \o (<<RX_HEAD_BB>> \o air), u)
    BY <1>4, <2>1, <2>3, LiesLater
  <2> QED BY <1>1, <2>2, <2>3
<1> QED BY <1>1, <1>3, <1>5, <1>6, <1>7 DEF DInv

\* A sequence is what comes first and what is left.
LEMMA Divided ==
    ASSUME NEW s \in Seq(Byte), NEW m \in 0..Len(s)
    PROVE  /\ SubSeq(s, 1, m) \in Seq(Byte) /\ SubSeq(s, m + 1, Len(s)) \in Seq(Byte)
           /\ SubSeq(s, 1, m) \o SubSeq(s, m + 1, Len(s)) = s
<1> DEFINE x == SubSeq(s, 1, m)
           y == SubSeq(s, m + 1, Len(s))
<1>1. PICK n \in Nat : n = Len(s)
  BY LenProperties
<1>2. m \in Nat /\ m <= n
  BY <1>1
<1>3. \A i \in 1..n : s[i] \in Byte
  BY <1>1, ElementOfSeq
<1>4. x \in Seq(Byte) /\ Len(x) = m /\ \A i \in 1..m : x[i] = s[i]
  <2>1. \A i \in 1..m : s[i] \in Byte
    BY <1>2, <1>3
  <2>2. /\ x \in Seq(Byte) /\ Len(x) = IF 1 <= m THEN m - 1 + 1 ELSE 0
        /\ \A i \in 1..(m - 1 + 1) : x[i] = s[1 + i - 1]
    BY <1>2, <2>1, SubSeqProperties
  <2> HIDE DEF x
  <2>3. Len(x) = m
    BY <1>2, <2>2
  <2>4. ASSUME NEW i \in 1..m PROVE x[i] = s[i]
    <3>1. i \in 1..(m - 1 + 1) /\ 1 + i - 1 = i
      BY <1>2
    <3> QED BY <2>2, <3>1
  <2> QED BY <2>2, <2>3, <2>4
<1>5. y \in Seq(Byte) /\ Len(y) = n - m /\ \A i \in 1..(n - m) : y[i] = s[m + i]
  <2>1. \A i \in (m + 1)..n : s[i] \in Byte
    BY <1>2, <1>3
  <2>2. y = SubSeq(s, m + 1, n)
    BY <1>1
  <2> HIDE DEF y
  <2>3. /\ y \in Seq(Byte) /\ Len(y) = IF m + 1 <= n THEN n - (m + 1) + 1 ELSE 0
        /\ \A i \in 1..(n - (m + 1) + 1) : y[i] = s[(m + 1) + i - 1]
    BY <1>2, <2>1, <2>2, SubSeqProperties
  <2>4. Len(y) = n - m
    BY <1>2, <2>3
  <2>5. ASSUME NEW i \in 1..(n - m) PROVE y[i] = s[m + i]
    <3>1. i \in 1..(n - (m + 1) + 1) /\ (m + 1) + i - 1 = m + i
      BY <1>2
    <3> QED BY <2>3, <3>1
  <2> QED BY <2>3, <2>4, <2>5
<1> HIDE DEF x, y
<1> DEFINE z == x \o y
<1>6. /\ z \in Seq(Byte) /\ Len(z) = Len(x) + Len(y)
      /\ \A i \in 1..(Len(x) + Len(y)) : z[i] = IF i <= Len(x) THEN x[i] ELSE y[i - Len(x)]
  BY <1>4, <1>5, ConcatProperties
<1> HIDE DEF z
<1>7. Len(z) = n
  BY <1>2, <1>4, <1>5, <1>6
<1>8. ASSUME NEW i \in 1..n
      PROVE  z[i] = s[i]
  <2>1. i \in 1..(Len(x) + Len(y))
    BY <1>6, <1>7
  <2>2. CASE i <= m
    <3>1. i \in 1..m
      BY <1>2, <2>2
    <3> QED BY <1>4, <1>6, <2>1, <2>2, <3>1
  <2>3. CASE ~(i <= m)
    <3>1. i - m \in 1..(n - m) /\ m + (i - m) = i
      BY <1>2, <2>3
    <3> QED BY <1>4, <1>5, <1>6, <2>1, <2>3, <3>1
  <2> QED BY <2>2, <2>3
<1>9. z = s
  BY <1>1, <1>6, <1>7, <1>8, SeqEqual
<1> QED BY <1>4, <1>5, <1>9 DEF x, y, z

\* Bytes that arrive only change hands.
LEMMA ArriveKeeps ==
    ASSUME DInv, NEW n \in Pieces, Arrive(n)
    PROVE  DInv'
<1>1. /\ received \in Seq(Byte) /\ air \in Seq(Byte) /\ buf \in Seq(Byte)
      /\ Len(received) \in Nat /\ Len(air) \in Nat /\ Len(buf) \in Nat
  BY DialogueTypes
<1>2. n \in Nat
  BY PieceAssumption
<1>3. PICK m \in 0..Len(air) :
        /\ Push(SubSeq(air, 1, m)) /\ air' = SubSeq(air, m + 1, Len(air))
        /\ UNCHANGED <<device, plan, damaged, truth>>
  <2>1. CASE n <= Len(air)
    <3>1. n \in 0..Len(air)
      BY <1>1, <1>2, <2>1
    <3> QED BY <2>1, <3>1 DEF Arrive
  <2>2. CASE ~(n <= Len(air))
    <3>1. Len(air) \in 0..Len(air)
      BY <1>1
    <3> QED BY <2>2, <3>1 DEF Arrive
  <2> QED BY <2>1, <2>2
<1>4. PICK x \in Seq(Byte), y \in Seq(Byte) :
        x = SubSeq(air, 1, m) /\ y = SubSeq(air, m + 1, Len(air)) /\ x \o y = air
  BY <1>1, <1>3, Divided, ZenonT(30)
<1>5. /\ received' = received \o x /\ buf' = buf \o x /\ items' = items /\ air' = y
      /\ device' = device /\ plan' = plan /\ damaged' = damaged /\ truth' = truth
  BY <1>3, <1>4 DEF Push
<1>6. Inv'
  BY <1>3, <1>4, PushKeeps DEF DInv
<1>7. Stream' = Stream
  <2>1. (received \o x) \o y = received \o (x \o y)
    <3>1. received \in Seq(Byte) /\ x \in Seq(Byte) /\ y \in Seq(Byte)
      BY <1>1
    <3> HIDE DEF Byte
    <3> QED BY ONLY <3>1, ConcatAssociative
  <2> QED BY <1>4, <1>5, <2>1 DEF Stream
<1>8. consumed' = consumed /\ End' = End
  <2>1. Len(received \o x) = Len(received) + Len(x) /\ Len(buf \o x) = Len(buf) + Len(x)
    BY <1>1, ConcatProperties
  <2>2. Len(air) = Len(x) + Len(y)
    BY <1>4, ConcatProperties
  <2>3. PICK a \in Nat, b \in Nat, c \in Nat, d \in Nat :
           a = Len(received) /\ b = Len(buf) /\ c = Len(x) /\ d = Len(y)
    BY <1>1, LenProperties
  <2>4. consumed' = (a + c) - (b + c) /\ End' = (a + c) + d
    BY <1>5, <2>1, <2>3 DEF consumed, End
  <2>5. consumed = a - b /\ End = a + (c + d)
    BY <2>2, <2>3 DEF consumed, End
  <2>6. (a + c) - (b + c) = a - b /\ (a + c) + d = a + (c + d)
    BY <2>3
  <2> QED BY <2>4, <2>5, <2>6
<1>9. Covered' /\ Sent' /\ (~damaged' => Tiled')
  BY <1>5, <1>7, <1>8 DEF DInv, Covered, Sent, Tiled, Answered
<1> QED BY <1>4, <1>5, <1>6, <1>9 DEF DInv

\* What the headset answers is added to the stream, and follows what is there.
LEMMA SendKeeps ==
    ASSUME DInv, Send
    PROVE  DInv'
<1> DEFINE c == Head(plan)
           body == to_body(c)
           heard == Encodable(c) /\ Accepts(encode_tx(body))
           answer == IF heard THEN Answer(device, body) ELSE <<>>
           at == Len(received) + Len(air)
           frame == [from |-> at, to |-> at + Len(answer)]
<1>1. /\ plan # <<>> /\ plan' = Tail(plan)
      /\ device' = IF heard THEN Executed(device, body) ELSE device
      /\ air' = air \o answer
      /\ truth' = IF heard THEN truth \union {frame} ELSE truth
      /\ UNCHANGED <<decoder, damaged>>
  BY DEF Send
<1>2. received' = received /\ items' = items /\ buf' = buf /\ damaged' = damaged
  BY <1>1 DEF decoder
<1>3. Inv'
  BY <1>1, NextInv DEF DInv
<1>4. /\ received \in Seq(Byte) /\ air \in Seq(Byte) /\ Stream \in Seq(Byte) /\ at \in Nat
      /\ Len(Stream) = at /\ End = at /\ consumed \in Nat
  BY DialogueTypes DEF End
<1>5. plan' \in Seq(Command) /\ c \in Command
  BY <1>1, HeadTailProperties DEF DInv
<1>6. Covered'
  BY <1>2 DEF DInv, Covered, consumed
<1>7. consumed' = consumed
  BY <1>2 DEF consumed
<1> HIDE DEF c
<1>8. CASE ~heard
  <2>1. air' = air /\ truth' = truth /\ device' = device
    BY <1>1, <1>4, <1>8, ConcatEmptySeq
  <2> HIDE DEF heard, frame, answer, body, at
  <2>2. Stream' = Stream /\ End' = End
    BY <1>2, <2>1 DEF Stream, End
  <2>3. Sent' /\ (~damaged' => Tiled')
    BY <1>2, <1>7, <2>1, <2>2 DEF DInv, Sent, Tiled, Answered
  <2> QED BY <1>3, <1>5, <1>6, <2>1, <2>3 DEF DInv
<1>9. CASE heard
  <2>1. body \in Reply
    <3>1. body \in Seq(Byte) /\ Len(body) <= 255
      BY <1>5, <1>9, CommandMembers, BodiesAreBytes
    <3>2. Len(body) > 0
      <4>1. encode_tx(body)[2] = Len(body)
        BY <3>1, FramesAreSealed
      <4>2. encode_tx(body)[2] > 0
        BY <1>9 DEF Accepts
      <4> QED BY <4>1, <4>2
    <3> HIDE DEF body
    <3>3. Len(body) \in Nat
      BY <3>1, LenProperties
    <3> QED BY <3>1, <3>2, <3>3 DEF Reply
  <2>2. device' = Executed(device, body) /\ air' = air \o answer /\ answer = Answer(device, body)
        /\ truth' = truth \union {frame}
    BY <1>1, <1>9
  <2>3. IsDevice(device)
    BY DEF DInv
  <2>4. IsDevice(device')
    BY <2>1, <2>2, <2>3, ExecutedType
  <2>5. PICK head \in RxHeads, reply \in Reply : IsFrame(answer, head, reply)
    BY <2>1, <2>2, <2>3, AnswerType
  <2> HIDE DEF heard, answer, body, at
  <2>6. answer \in Seq(Byte)
    BY <2>5 DEF IsFrame
  <2>7. air' \in Seq(Byte)
    BY <1>4, <2>2, <2>6, ConcatProperties
  <2>8. Stream' = Stream \o answer
    <3>1. (received \o air) \o answer = received \o (air \o answer)
      BY <1>4, <2>6, ConcatAssociative
    <3> QED BY <1>2, <2>2, <3>1 DEF Stream
  <2>9. Lies(Stream', frame) /\ Len(answer) \in Nat /\ Len(answer) > 4
    BY <1>4, <2>5, <2>8, LiesAtTheEnd
  <2>10. End' = at + Len(answer) /\ frame.from = at /\ frame.to = at + Len(answer)
    <3>1. Len(air') = Len(air) + Len(answer)
      BY <1>4, <2>2, <2>6, ConcatProperties
    <3>2. PICK a \in Nat, b \in Nat, d \in Nat : a = Len(received) /\ b = Len(air) /\ d = Len(answer)
      BY <1>4, <2>9, LenProperties
    <3>3. End' = a + (b + d) /\ at + Len(answer) = (a + b) + d
      BY <1>2, <3>1, <3>2 DEF End, at
    <3>4. a + (b + d) = (a + b) + d
      BY <3>2
    <3> QED BY <3>3, <3>4
  <2> HIDE DEF frame
  <2>11. \A t \in truth : /\ Lies(Stream, t) /\ Lies(Stream', t)
                          /\ t.from \in Nat /\ t.to \in Nat /\ t.to <= at
    <3> SUFFICES ASSUME NEW t \in truth
                 PROVE  /\ Lies(Stream, t) /\ Lies(Stream', t)
                        /\ t.from \in Nat /\ t.to \in Nat /\ t.to <= at
      OBVIOUS
    <3>1. Lies(Stream, t)
      BY DEF DInv, Sent
    <3>2. Lies(Stream \o answer, t)
      BY <1>4, <2>6, <3>1, LiesLonger
    <3> QED BY <1>4, <2>8, <3>1, <3>2, LiesIsCut
  <2>12. Sent'
    BY <2>2, <2>9, <2>11 DEF Sent
  <2>13. ASSUME ~damaged
         PROVE  Tiled'
    <3>1. Tiled
      BY <2>13 DEF DInv
    <3>2. \A t, u \in truth' : t = u \/ t.to <= u.from \/ u.to <= t.from
      BY <2>2, <2>10, <2>11, <3>1 DEF Tiled
    <3>3. \A t \in truth' : t.to = End' \/ \E u \in truth' : u.from = t.to
      BY <1>4, <2>2, <2>10, <3>1 DEF Tiled
    <3>4. Answered'
      BY <1>2, <2>2, <3>1 DEF Tiled, Answered
    <3>5. consumed' = End' \/ \E t \in truth' : t.from = consumed'
      BY <1>4, <1>7, <2>2, <2>10, <3>1 DEF Tiled
    <3> QED BY <3>2, <3>3, <3>4, <3>5 DEF Tiled
  <2> QED BY <1>2, <1>3, <1>5, <1>6, <2>4, <2>7, <2>12, <2>13 DEF DInv
<1> QED BY <1>8, <1>9

LEMMA DialogueInitInv == DialogueInit => DInv
<1> SUFFICES ASSUME DialogueInit PROVE DInv
  OBVIOUS
<1>1. /\ Init /\ device = NewDevice /\ plan = <<>> /\ air = <<>> /\ truth = {}
  BY DEF DialogueInit
<1>2. received = <<>> /\ buf = <<>> /\ items = <<>>
  BY <1>1 DEF Init
<1>3. consumed = 0 /\ End = 0
  <2>1. Len(<<>>) = 0
    OBVIOUS
  <2> QED BY <1>1, <1>2, <2>1 DEF consumed, End
<1>4. Covered /\ Sent /\ Tiled
  BY <1>1, <1>2, <1>3 DEF Covered, Sent, Tiled, Answered
<1> QED BY <1>1, <1>4, InitInv, NewDeviceType DEF DInv

LEMMA DialogueNextInv == DInv /\ [DialogueNext]_dialogue => DInv'
<1> SUFFICES ASSUME DInv, [DialogueNext]_dialogue PROVE DInv'
  OBVIOUS
<1>1. CASE UNCHANGED dialogue
  BY <1>1, PlanKeeps DEF dialogue, DInv
<1>2. CASE DialogueNext
  BY <1>2, RequestKeeps, ImportKeeps, ReadoutKeeps, SendKeeps, LoseByteKeeps, StrayHeadKeeps,
     ReconnectKeeps, ArriveKeeps, DecodeKeeps DEF DialogueNext
<1> QED BY <1>1, <1>2

LEMMA DialogueInvariant == DialogueSpec => []DInv
BY DialogueInitInv, DialogueNextInv, PTL DEF DialogueSpec

\* Whatever is asked of the headset, in whatever pieces its answers come and
\* whatever gets lost between, the decoder keeps bytes and cuts them into items
\* (packet.rs:115).
THEOREM DialogueTypeCorrect == DialogueSpec => []TypeOK
<1>1. DInv => TypeOK
  BY DEF DInv, Inv
<1> QED BY <1>1, DialogueInvariant, PTL

\* Every cut of the answers of a headset is where the bytes alone say it is, however
\* they were split on the way (packet.rs:128).
THEOREM DialogueSplitting == DialogueSpec => []CutsIgnoreChunks
<1>1. DInv => CutsIgnoreChunks
  BY InvCuts DEF DInv
<1> QED BY <1>1, DialogueInvariant, PTL

\* Every answer of the headset that is past the decoder was cut out as the frame it
\* is; only a stream that lost or gained a byte can hide one, and only behind a
\* false frame that began before it (packet.rs:142).
THEOREM AnswersArrive == DialogueSpec => []FramesArrive
BY Arrived, DialogueInvariant, PTL

-----------------------------------------------------------------------------
(***************************************************************************)
(* What is set, part by part.  A body sets some parts, whatever they were  *)
(* before, and leaves the others; so the last body that sets a part        *)
(* decides it, in the headset and in what was asked for.                   *)
(***************************************************************************)

Parts ==
    {"mode", "volume", "name", "effect", "game", "controls", "ldac", "prompt", "timer",
     "power", "identity"}

\* The body b sets the part k.
Sets(b, k) ==
    LET is(first, n) == b[1] = first /\ Len(b) = n
    IN  \/ k = "mode" /\ (is(193, 2) \/ is(193, 3))
        \/ k = "volume" /\ is(193, 3)
        \/ k = "name" /\ b[1] = 202
        \/ k = "effect" /\ is(196, 2)
        \/ k = "game" /\ is(9, 2)
        \/ k = "controls" /\ is(241, 3)
        \/ k = "ldac" /\ is(73, 2)
        \/ k = "prompt" /\ is(6, 2)
        \/ k = "timer" /\ (is(209, 3) \/ is(210, 1))
        \/ k = "power" /\ is(214, 2)

\* What it sets it to, as the headset says it.
SetTo(b, k) ==
    CASE k = "mode" -> <<204, b[2]>>
      [] k = "volume" -> b[3]
      [] k = "name" -> <<201>> \o Tail(b)
      [] k = "effect" -> <<213, b[2]>>
      [] k = "game" -> <<8, b[2]>>
      [] k = "controls" -> <<240, 10, b[3]>>
      [] k = "ldac" -> <<72, b[2]>>
      [] k = "prompt" -> <<5, b[2]>>
      [] k = "timer" -> IF Len(b) = 3 THEN <<211, 0, b[3]>> ELSE <<211, 0>>
      [] k = "power" -> <<215, b[2]>>
      [] k = "identity" -> b

\* What the headset d says of a part.
Said(d, k) ==
    CASE k = "mode" -> <<d[<<204>>][1], d[<<204>>][2]>>
      [] k = "volume" -> d[<<204>>][3]
      [] k = "name" -> d[<<201>>]
      [] k = "effect" -> d[<<213>>]
      [] k = "game" -> d[<<8>>]
      [] k = "controls" -> d[<<240, 10>>]
      [] k = "ldac" -> d[<<72>>]
      [] k = "prompt" -> d[<<5>>]
      [] k = "timer" -> d[<<211>>]
      [] k = "power" -> d[<<215>>]
      [] k = "identity" -> <<d[<<208>>], d[<<200>>], d[<<198>>]>>

\* What it should say, when m is what was asked for.
Wanted(m, k) ==
    CASE k = "mode" -> <<204, m["Noise"][1] + 1>>
      [] k = "volume" -> m["Noise"][2] + 6
      [] k = "name" -> <<201>> \o m["Name"]
      [] k = "effect" -> <<213, m["SoundEffect"][1]>>
      [] k = "game" -> <<8, m["GameMode"][1]>>
      [] k = "controls" -> <<240, 10, mask(m["ControlSettings"])>>
      [] k = "ldac" -> <<72, m["Ldac"][1]>>
      [] k = "prompt" -> <<5, m["PromptVolume"][1]>>
      [] k = "timer" -> IF "ShutdownTimer" \in DOMAIN m THEN <<211, 0, m["ShutdownTimer"][1]>>
                        ELSE <<211, 0>>
      [] k = "power" -> <<215, m["AutoPowerOff"][1]>>
      [] k = "identity" -> << <<208, 77>>, <<200, 1, 2, 3, 4, 5, 6>>, <<198, 3, 0, 2>> >>

Agree(d, m) == \A k \in Parts : Said(d, k) = Wanted(m, k)

\* What can be asked for, kind by kind.  The timer is one of two kinds.
Kinds ==
    {"Noise", "Name", "SoundEffect", "GameMode", "ControlSettings", "Ldac", "PromptVolume",
     "AutoPowerOff"}
Values(kind) ==
    CASE kind = "Noise" -> (0..2) \X (-3..3)
      [] kind = "Name" -> {name \in Seq(Byte) : Lossy(name) = name}
      [] kind = "SoundEffect" -> {<<i>> : i \in 0..3}
      [] kind = "Ldac" -> {<<i>> : i \in 0..2}
      [] kind = "ControlSettings" -> Flag \X Flag \X Flag
      [] kind \in {"GameMode", "AutoPowerOff"} -> {<<on>> : on \in Flag}
      [] kind = "ShutdownTimerEnabled" -> {<<0>>}
      [] kind \in {"PromptVolume", "ShutdownTimer"} -> {<<v>> : v \in Byte}
Value == UNION {Values(kind) : kind \in Kinds \union {"ShutdownTimer", "ShutdownTimerEnabled"}}
Meaning ==
    {m \in [Kinds \union {"ShutdownTimer"} -> Value]
              \union [Kinds \union {"ShutdownTimerEnabled"} -> Value] :
        \A kind \in DOMAIN m : m[kind] \in Values(kind)}

-----------------------------------------------------------------------------
(***************************************************************************)
(* The last element of a sequence that is in a set.  Choosing elements and *)
(* joining the choices keeps it, if all that is in the set is chosen once. *)
(***************************************************************************)

\* x is the last element of s in W.
Final(s, W, x) ==
    \E j \in 1..Len(s) : s[j] = x /\ x \in W /\ \A i \in 1..Len(s) : i > j => s[i] \notin W
Without(s, W) == \A i \in 1..Len(s) : s[i] \notin W

LEMMA FinalAppend ==
    ASSUME NEW V, NEW s \in Seq(V), NEW y \in V, NEW W
    PROVE  /\ y \in W => Final(Append(s, y), W, y)
           /\ \A x : y \notin W /\ Final(s, W, x) => Final(Append(s, y), W, x)
           /\ y \notin W /\ Without(s, W) => Without(Append(s, y), W)
<1> DEFINE t == Append(s, y)
<1>1. PICK n \in Nat : n = Len(s)
  BY LenProperties
<1>2. /\ Len(t) = n + 1 /\ t[n + 1] = y
      /\ \A i \in 1..n : t[i] = s[i]
  BY <1>1, AppendProperties
<1> HIDE DEF t
<1>3. n + 1 \in 1..(n + 1) /\ \A i \in 1..(n + 1) : i \in 1..n \/ i = n + 1
  BY <1>1
<1>4. y \in W => Final(t, W, y)
  <2>1. \A i \in 1..(n + 1) : ~(i > n + 1)
    BY <1>1
  <2> QED BY <1>2, <1>3, <2>1 DEF Final
<1>5. ASSUME NEW x, y \notin W, Final(s, W, x)
      PROVE  Final(t, W, x)
  <2>1. PICK j \in 1..n : s[j] = x /\ x \in W /\ \A i \in 1..n : i > j => s[i] \notin W
    BY <1>1, <1>5 DEF Final
  <2>2. j \in 1..(n + 1) /\ t[j] = x
    BY <1>1, <1>2, <2>1
  <2>3. \A i \in 1..(n + 1) : i > j => t[i] \notin W
    BY <1>2, <1>3, <1>5, <2>1
  <2> QED BY <1>2, <2>1, <2>2, <2>3 DEF Final
<1>6. y \notin W /\ Without(s, W) => Without(t, W)
  BY <1>1, <1>2, <1>3 DEF Without
<1> QED BY <1>4, <1>5, <1>6 DEF t

LEMMA FinalConcat ==
    ASSUME NEW V, NEW s \in Seq(V), NEW t \in Seq(V), NEW W
    PROVE  /\ \A x : Final(t, W, x) => Final(s \o t, W, x)
           /\ \A x : Final(s, W, x) /\ Without(t, W) => Final(s \o t, W, x)
           /\ Without(s, W) /\ Without(t, W) => Without(s \o t, W)
<1> DEFINE u == s \o t
<1>1. PICK n \in Nat, m \in Nat : n = Len(s) /\ m = Len(t)
  BY LenProperties
<1>2. /\ Len(u) = n + m
      /\ \A i \in 1..(n + m) : u[i] = IF i <= n THEN s[i] ELSE t[i - n]
  BY <1>1, ConcatProperties
<1> HIDE DEF u
<1>3. \A i \in 1..n : i \in 1..(n + m) /\ u[i] = s[i]
  BY <1>1, <1>2
<1>4. \A i \in 1..m : n + i \in 1..(n + m) /\ u[n + i] = t[i]
  <2> SUFFICES ASSUME NEW i \in 1..m PROVE n + i \in 1..(n + m) /\ u[n + i] = t[i]
    OBVIOUS
  <2>1. n + i \in 1..(n + m) /\ ~(n + i <= n) /\ (n + i) - n = i
    BY <1>1
  <2> QED BY <1>2, <2>1
<1>5. \A i \in 1..(n + m) : i \in 1..n \/ (i - n \in 1..m /\ u[i] = t[i - n] /\ i > n)
  BY <1>1, <1>2
<1>6. ASSUME NEW x, Final(t, W, x)
      PROVE  Final(u, W, x)
  <2>1. PICK j \in 1..m : t[j] = x /\ x \in W /\ \A i \in 1..m : i > j => t[i] \notin W
    BY <1>1, <1>6 DEF Final
  <2>2. n + j \in 1..(n + m) /\ u[n + j] = x
    BY <1>4, <2>1
  <2>3. ASSUME NEW i \in 1..(n + m), i > n + j
        PROVE  u[i] \notin W
    <3>1. i - n \in 1..m /\ i - n > j
      BY <1>1, <2>3
    <3>2. u[i] = t[i - n]
      BY <1>1, <1>5, <2>3
    <3> QED BY <2>1, <3>1, <3>2
  <2> QED BY <1>2, <2>1, <2>2, <2>3 DEF Final
<1>7. ASSUME NEW x, Final(s, W, x), Without(t, W)
      PROVE  Final(u, W, x)
  <2>1. PICK j \in 1..n : s[j] = x /\ x \in W /\ \A i \in 1..n : i > j => s[i] \notin W
    BY <1>1, <1>7 DEF Final
  <2>2. j \in 1..(n + m) /\ u[j] = x
    BY <1>3, <2>1
  <2>3. \A i \in 1..m : t[i] \notin W
    BY <1>1, <1>7 DEF Without
  <2>4. \A i \in 1..(n + m) : i > j => u[i] \notin W
    BY <1>3, <1>5, <2>1, <2>3
  <2> QED BY <1>2, <2>1, <2>2, <2>4 DEF Final
<1>8. Without(s, W) /\ Without(t, W) => Without(u, W)
  BY <1>1, <1>2, <1>3, <1>5 DEF Without
<1> QED BY <1>6, <1>7, <1>8 DEF u

\* Keeping whatever is in W keeps the last such element.
LEMMA FinalKept ==
    ASSUME NEW V, NEW s \in Seq(V), NEW S, NEW W, V \cap W \subseteq S
    PROVE  /\ \A x : Final(s, W, x) => Final(Kept(s, S), W, x)
           /\ Without(s, W) => Without(Kept(s, S), W)
<1>1. PICK N \in Nat : N = Len(s) /\ \A i \in 1..N : s[i] \in V
  BY LenProperties, ElementOfSeq
<1>2. PICK g \in [0..N -> Seq(V \cap S)] : Keeps(g, s, S) /\ Kept(s, S) = g[N]
  BY <1>1, KeptSteps
<1> DEFINE UpTo(n, x) == \E j \in 1..n : s[j] = x /\ x \in W /\ \A i \in 1..n : i > j => s[i] \notin W
           Free(n) == \A i \in 1..n : s[i] \notin W
           X == {n \in 0..N : /\ \A x : UpTo(n, x) => Final(g[n], W, x)
                              /\ Free(n) => Without(g[n], W)}
<1>3. /\ \A n \in 0..N : g[n] \in Seq(V \cap S)
      /\ g[0] = <<>>
      /\ \A n \in 1..N : g[n] = IF s[n] \in S THEN Append(g[n - 1], s[n]) ELSE g[n - 1]
  <2>1. g = [i \in 0..N |-> IF i = 0 THEN <<>>
                            ELSE IF s[i] \in S THEN Append(g[i - 1], s[i]) ELSE g[i - 1]]
    BY <1>1, <1>2 DEF Keeps
  <2>2. \A n \in 1..N : n \in 0..N /\ n # 0
    BY <1>1
  <2>3. 0 \in 0..N
    BY <1>1
  <2> QED BY <1>2, <2>1, <2>2, <2>3
<1>4. 0 \in X
  <2>1. Without(<<>>, W)
    BY DEF Without
  <2>2. 1..0 = {}
    OBVIOUS
  <2> QED BY <1>1, <1>3, <2>1, <2>2
<1>5. ASSUME NEW n \in 0..N, n < N, n \in X
      PROVE  n + 1 \in X
  <2>1. n + 1 \in 1..N /\ n + 1 \in 0..N /\ (n + 1) - 1 = n /\ n \in Nat
    BY <1>1, <1>5
  <2>2. PICK y \in V : y = s[n + 1]
    BY <1>1, <2>1
  <2>3. g[n + 1] = IF y \in S THEN Append(g[n], y) ELSE g[n]
    BY <1>3, <2>1, <2>2
  <2>4. g[n] \in Seq(V \cap S)
    BY <1>3
  <2>5. /\ \A x : UpTo(n, x) => Final(g[n], W, x)
        /\ Free(n) => Without(g[n], W)
    BY <1>5
  <2>6. n + 1 \in 1..(n + 1) /\ \A i \in 1..(n + 1) : i \in 1..n \/ i = n + 1
    BY <2>1
  <2>7. \A i \in 1..n : i \in 1..(n + 1)
    BY <2>1
  <2>8. /\ Free(n + 1) => Free(n) /\ y \notin W
        /\ \A x : UpTo(n + 1, x) => (x = y /\ y \in W) \/ (y \notin W /\ UpTo(n, x))
    <3>1. Free(n + 1) => Free(n) /\ y \notin W
      BY <2>2, <2>6, <2>7
    <3>2. ASSUME NEW x, UpTo(n + 1, x)
          PROVE  (x = y /\ y \in W) \/ (y \notin W /\ UpTo(n, x))
      <4>1. PICK j \in 1..(n + 1) : s[j] = x /\ x \in W /\ \A i \in 1..(n + 1) : i > j => s[i] \notin W
        BY <3>2
      <4>2. CASE j = n + 1
        BY <2>2, <4>1, <4>2
      <4>3. CASE j \in 1..n
        <5>1. n + 1 > j
          BY <2>1, <4>3
        <5>2. y \notin W
          BY <2>2, <2>6, <4>1, <5>1
        <5>3. UpTo(n, x)
          BY <2>7, <4>1, <4>3
        <5> QED BY <5>2, <5>3
      <4> QED BY <2>6, <4>2, <4>3
    <3> QED BY <3>1, <3>2
  <2> HIDE DEF UpTo, Free, X
  <2>9. CASE y \in S
    <3>1. /\ y \in W => Final(g[n + 1], W, y)
          /\ \A x : y \notin W /\ Final(g[n], W, x) => Final(g[n + 1], W, x)
          /\ y \notin W /\ Without(g[n], W) => Without(g[n + 1], W)
      <4>1. y \in V \cap S /\ g[n + 1] = Append(g[n], y)
        BY <2>3, <2>9
      <4>2. PICK r \in Seq(V \cap S) : r = g[n]
        BY <2>4
      <4>3. /\ y \in W => Final(Append(r, y), W, y)
            /\ \A x : y \notin W /\ Final(r, W, x) => Final(Append(r, y), W, x)
            /\ y \notin W /\ Without(r, W) => Without(Append(r, y), W)
        BY <4>1, FinalAppend
      <4> QED BY <4>1, <4>2, <4>3
    <3>2. ASSUME NEW x, UpTo(n + 1, x) PROVE Final(g[n + 1], W, x)
      <4>1. CASE x = y /\ y \in W
        BY <3>1, <4>1
      <4>2. CASE y \notin W /\ UpTo(n, x)
        BY <2>5, <3>1, <4>2
      <4> QED BY <2>8, <3>2, <4>1, <4>2
    <3>3. Free(n + 1) => Without(g[n + 1], W)
      BY <2>5, <2>8, <3>1
    <3> QED BY <2>1, <3>2, <3>3 DEF X
  <2>10. CASE y \notin S
    <3>1. y \notin W /\ g[n + 1] = g[n]
      BY <2>2, <2>3, <2>10
    <3> QED BY <2>1, <2>5, <2>8, <3>1 DEF X
  <2> QED BY <2>9, <2>10
<1> HIDE DEF X
<1>6. 0..N \subseteq X
  BY <1>4, <1>5, CountingUp
<1>7. N \in X
  BY <1>6
<1> QED BY <1>1, <1>2, <1>7 DEF X, Final, Without

\* What a headset says when it remembers an answer in the place of another.
LEMMA SaysOf ==
    ASSUME NEW d, IsDevice(d), NEW key \in Queried, NEW v
    PROVE  /\ Put(d, key, v)[key] = v
           /\ \A ask \in Queried : ask # key => Put(d, key, v)[ask] = d[ask]
BY DEF IsDevice, Put

\* The queries are told apart.
LEMMA QueriesDiffer ==
    /\ \A a \in {204, 201, 213, 8, 72, 5, 211, 215, 208, 200, 198} :
          /\ <<a>> \in Queried /\ <<a>> # <<240, 10>>
          /\ \A b \in {204, 201, 213, 8, 72, 5, 211, 215, 208, 200, 198} : a # b => <<a>> # <<b>>
    /\ <<240, 10>> \in Queried
BY DEF Queried


\* Answers other than the one to a query.
Elsewhere(e, d, key) == \A ask \in Queried : ask # key => e[ask] = d[ask]

\* The query whose answer tells a part.
AskOf(k) ==
    CASE k \in {"mode", "volume"} -> <<204>> [] k = "name" -> <<201>> [] k = "effect" -> <<213>>
      [] k = "game" -> <<8>> [] k = "controls" -> <<240, 10>> [] k = "ldac" -> <<72>>
      [] k = "prompt" -> <<5>> [] k = "timer" -> <<211>> [] k = "power" -> <<215>>
      [] k = "identity" -> <<208>>

LEMMA SaidElsewhere ==
    ASSUME NEW d, NEW e, NEW key \in Queried, Elsewhere(e, d, key), NEW k \in Parts, AskOf(k) # key,
           key \notin {<< 208 >>, << 200 >>, << 198 >>}
    PROVE  Said(e, k) = Said(d, k)
<1>1. AskOf(k) \in Queried
  BY QueriesDiffer DEF AskOf, Parts
<1>2. PICK ask : ask = AskOf(k) /\ e[ask] = d[ask]
  BY <1>1 DEF Elsewhere
<1>3. CASE k = "mode"
  <2>1. AskOf(k) = <<204>>
    BY <1>3 DEF AskOf
  <2> QED BY <1>2, <1>3, <2>1 DEF Said
<1>4. CASE k = "volume"
  <2>1. AskOf(k) = <<204>>
    BY <1>4 DEF AskOf
  <2> QED BY <1>2, <1>4, <2>1 DEF Said
<1>5. CASE k = "name"
  <2>1. AskOf(k) = <<201>>
    BY <1>5 DEF AskOf
  <2> QED BY <1>2, <1>5, <2>1 DEF Said
<1>6. CASE k = "effect"
  <2>1. AskOf(k) = <<213>>
    BY <1>6 DEF AskOf
  <2> QED BY <1>2, <1>6, <2>1 DEF Said
<1>7. CASE k = "game"
  <2>1. AskOf(k) = <<8>>
    BY <1>7 DEF AskOf
  <2> QED BY <1>2, <1>7, <2>1 DEF Said
<1>8. CASE k = "controls"
  <2>1. AskOf(k) = <<240, 10>>
    BY <1>8 DEF AskOf
  <2> QED BY <1>2, <1>8, <2>1 DEF Said
<1>9. CASE k = "ldac"
  <2>1. AskOf(k) = <<72>>
    BY <1>9 DEF AskOf
  <2> QED BY <1>2, <1>9, <2>1 DEF Said
<1>10. CASE k = "prompt"
  <2>1. AskOf(k) = <<5>>
    BY <1>10 DEF AskOf
  <2> QED BY <1>2, <1>10, <2>1 DEF Said
<1>11. CASE k = "timer"
  <2>1. AskOf(k) = <<211>>
    BY <1>11 DEF AskOf
  <2> QED BY <1>2, <1>11, <2>1 DEF Said
<1>12. CASE k = "power"
  <2>1. AskOf(k) = <<215>>
    BY <1>12 DEF AskOf
  <2> QED BY <1>2, <1>12, <2>1 DEF Said
<1>13. CASE k = "identity"
  BY <1>13, QueriesDiffer DEF Said, Elsewhere
<1> QED BY <1>3, <1>4, <1>5, <1>6, <1>7, <1>8, <1>9, <1>10, <1>11, <1>12, <1>13 DEF Parts

\* What the headset says of a part after the body b.
Now(d, b, k) == IF Sets(b, k) THEN SetTo(b, k) ELSE Said(d, k)

LEMMA SaidNow ==
    ASSUME NEW d, IsDevice(d), NEW b, NEW k \in Parts,
           NEW key \in Queried, key \notin {<< 208 >>, << 200 >>, << 198 >>}, NEW v,
           AskOf(k) # key => ~Sets(b, k),
           AskOf(k) = key => \A e : e[key] = v => Said(e, k) = Now(d, b, k)
    PROVE  Said(Put(d, key, v), k) = Now(d, b, k)
<1> DEFINE e == Put(d, key, v)
<1>1. e[key] = v /\ Elsewhere(e, d, key)
  BY SaysOf DEF Elsewhere
<1> SUFFICES Said(e, k) = Now(d, b, k)
  OBVIOUS
<1> HIDE DEF e
<1>2. CASE AskOf(k) = key
  BY <1>1, <1>2
<1>3. CASE AskOf(k) # key
  <2>1. Said(e, k) = Said(d, k)
    BY <1>1, <1>3, SaidElsewhere
  <2> QED BY <1>3, <2>1 DEF Now
<1> QED BY <1>2, <1>3

\* A body sets the parts it sets in the headset, and leaves the others.
LEMMA ExecutedSets ==
    ASSUME NEW d, IsDevice(d), NEW b \in Reply, NEW k \in Parts
    PROVE  Said(Executed(d, b), k) = Now(d, b, k)
<1> DEFINE is(first, n) == b[1] = first /\ Len(b) = n
<1>1. CASE is(193, 2)
  <2> DEFINE key == <<204>>
             v == <<204, b[2], d[<<204>>][3]>>
  <2>1. Executed(d, b) = Put(d, key, v)
    BY <1>1 DEF Executed, Put
  <2>2. key \in Queried /\ key \notin {<<208>>, <<200>>, <<198>>}
    BY QueriesDiffer
  <2>3. AskOf(k) # key => ~Sets(b, k)
    BY <1>1 DEF AskOf, Sets, Parts
  <2>4. AskOf(k) = key => \A e : e[key] = v => Said(e, k) = Now(d, b, k)
    <3>1. AskOf(k) = key => k \in {"mode", "volume"}
      BY QueriesDiffer DEF AskOf, Parts
    <3>2. k \in {"mode", "volume"} => \A e : e[key] = v => Said(e, k) = Now(d, b, k)
      BY <1>1 DEF Said, Sets, SetTo, Now
    <3> QED BY <3>1, <3>2
  <2> HIDE DEF key, v
  <2> QED BY <2>1, <2>2, <2>3, <2>4, SaidNow
<1>2. CASE is(193, 3)
  <2> DEFINE key == <<204>>
             v == <<204, b[2], b[3]>>
  <2>1. Executed(d, b) = Put(d, key, v)
    BY <1>2 DEF Executed, Put
  <2>2. key \in Queried /\ key \notin {<<208>>, <<200>>, <<198>>}
    BY QueriesDiffer
  <2>3. AskOf(k) # key => ~Sets(b, k)
    BY <1>2 DEF AskOf, Sets, Parts
  <2>4. AskOf(k) = key => \A e : e[key] = v => Said(e, k) = Now(d, b, k)
    <3>1. AskOf(k) = key => k \in {"mode", "volume"}
      BY QueriesDiffer DEF AskOf, Parts
    <3>2. k \in {"mode", "volume"} => \A e : e[key] = v => Said(e, k) = Now(d, b, k)
      BY <1>2 DEF Said, Sets, SetTo, Now
    <3> QED BY <3>1, <3>2
  <2> HIDE DEF key, v
  <2> QED BY <2>1, <2>2, <2>3, <2>4, SaidNow
<1>3. CASE is(196, 2)
  <2> DEFINE key == <<213>>
             v == <<213, b[2]>>
  <2>1. Executed(d, b) = Put(d, key, v)
    BY <1>3 DEF Executed, Put
  <2>2. key \in Queried /\ key \notin {<<208>>, <<200>>, <<198>>}
    BY QueriesDiffer
  <2>3. AskOf(k) # key => ~Sets(b, k)
    BY <1>3 DEF AskOf, Sets, Parts
  <2>4. AskOf(k) = key => \A e : e[key] = v => Said(e, k) = Now(d, b, k)
    <3>1. AskOf(k) = key => k \in {"effect"}
      BY QueriesDiffer DEF AskOf, Parts
    <3>2. k \in {"effect"} => \A e : e[key] = v => Said(e, k) = Now(d, b, k)
      BY <1>3 DEF Said, Sets, SetTo, Now
    <3> QED BY <3>1, <3>2
  <2> HIDE DEF key, v
  <2> QED BY <2>1, <2>2, <2>3, <2>4, SaidNow
<1>4. CASE is(241, 3)
  <2> DEFINE key == <<240, 10>>
             v == <<240, 10, b[3]>>
  <2>1. Executed(d, b) = Put(d, key, v)
    BY <1>4 DEF Executed, Put
  <2>2. key \in Queried /\ key \notin {<<208>>, <<200>>, <<198>>}
    BY QueriesDiffer
  <2>3. AskOf(k) # key => ~Sets(b, k)
    BY <1>4 DEF AskOf, Sets, Parts
  <2>4. AskOf(k) = key => \A e : e[key] = v => Said(e, k) = Now(d, b, k)
    <3>1. AskOf(k) = key => k \in {"controls"}
      BY QueriesDiffer DEF AskOf, Parts
    <3>2. k \in {"controls"} => \A e : e[key] = v => Said(e, k) = Now(d, b, k)
      BY <1>4 DEF Said, Sets, SetTo, Now
    <3> QED BY <3>1, <3>2
  <2> HIDE DEF key, v
  <2> QED BY <2>1, <2>2, <2>3, <2>4, SaidNow
<1>5. CASE is(73, 2)
  <2> DEFINE key == <<72>>
             v == <<72, b[2]>>
  <2>1. Executed(d, b) = Put(d, key, v)
    BY <1>5 DEF Executed, Put
  <2>2. key \in Queried /\ key \notin {<<208>>, <<200>>, <<198>>}
    BY QueriesDiffer
  <2>3. AskOf(k) # key => ~Sets(b, k)
    BY <1>5 DEF AskOf, Sets, Parts
  <2>4. AskOf(k) = key => \A e : e[key] = v => Said(e, k) = Now(d, b, k)
    <3>1. AskOf(k) = key => k \in {"ldac"}
      BY QueriesDiffer DEF AskOf, Parts
    <3>2. k \in {"ldac"} => \A e : e[key] = v => Said(e, k) = Now(d, b, k)
      BY <1>5 DEF Said, Sets, SetTo, Now
    <3> QED BY <3>1, <3>2
  <2> HIDE DEF key, v
  <2> QED BY <2>1, <2>2, <2>3, <2>4, SaidNow
<1>6. CASE is(9, 2)
  <2> DEFINE key == <<8>>
             v == <<8, b[2]>>
  <2>1. Executed(d, b) = Put(d, key, v)
    BY <1>6 DEF Executed, Put
  <2>2. key \in Queried /\ key \notin {<<208>>, <<200>>, <<198>>}
    BY QueriesDiffer
  <2>3. AskOf(k) # key => ~Sets(b, k)
    BY <1>6 DEF AskOf, Sets, Parts
  <2>4. AskOf(k) = key => \A e : e[key] = v => Said(e, k) = Now(d, b, k)
    <3>1. AskOf(k) = key => k \in {"game"}
      BY QueriesDiffer DEF AskOf, Parts
    <3>2. k \in {"game"} => \A e : e[key] = v => Said(e, k) = Now(d, b, k)
      BY <1>6 DEF Said, Sets, SetTo, Now
    <3> QED BY <3>1, <3>2
  <2> HIDE DEF key, v
  <2> QED BY <2>1, <2>2, <2>3, <2>4, SaidNow
<1>7. CASE is(6, 2)
  <2> DEFINE key == <<5>>
             v == <<5, b[2]>>
  <2>1. Executed(d, b) = Put(d, key, v)
    BY <1>7 DEF Executed, Put
  <2>2. key \in Queried /\ key \notin {<<208>>, <<200>>, <<198>>}
    BY QueriesDiffer
  <2>3. AskOf(k) # key => ~Sets(b, k)
    BY <1>7 DEF AskOf, Sets, Parts
  <2>4. AskOf(k) = key => \A e : e[key] = v => Said(e, k) = Now(d, b, k)
    <3>1. AskOf(k) = key => k \in {"prompt"}
      BY QueriesDiffer DEF AskOf, Parts
    <3>2. k \in {"prompt"} => \A e : e[key] = v => Said(e, k) = Now(d, b, k)
      BY <1>7 DEF Said, Sets, SetTo, Now
    <3> QED BY <3>1, <3>2
  <2> HIDE DEF key, v
  <2> QED BY <2>1, <2>2, <2>3, <2>4, SaidNow
<1>8. CASE is(209, 3)
  <2> DEFINE key == <<211>>
             v == <<211, 0, b[3]>>
  <2>1. Executed(d, b) = Put(d, key, v)
    BY <1>8 DEF Executed, Put
  <2>2. key \in Queried /\ key \notin {<<208>>, <<200>>, <<198>>}
    BY QueriesDiffer
  <2>3. AskOf(k) # key => ~Sets(b, k)
    BY <1>8 DEF AskOf, Sets, Parts
  <2>4. AskOf(k) = key => \A e : e[key] = v => Said(e, k) = Now(d, b, k)
    <3>1. AskOf(k) = key => k \in {"timer"}
      BY QueriesDiffer DEF AskOf, Parts
    <3>2. k \in {"timer"} => \A e : e[key] = v => Said(e, k) = Now(d, b, k)
      BY <1>8 DEF Said, Sets, SetTo, Now
    <3> QED BY <3>1, <3>2
  <2> HIDE DEF key, v
  <2> QED BY <2>1, <2>2, <2>3, <2>4, SaidNow
<1>9. CASE is(210, 1)
  <2> DEFINE key == <<211>>
             v == <<211, 0>>
  <2>1. Executed(d, b) = Put(d, key, v)
    BY <1>9 DEF Executed, Put
  <2>2. key \in Queried /\ key \notin {<<208>>, <<200>>, <<198>>}
    BY QueriesDiffer
  <2>3. AskOf(k) # key => ~Sets(b, k)
    BY <1>9 DEF AskOf, Sets, Parts
  <2>4. AskOf(k) = key => \A e : e[key] = v => Said(e, k) = Now(d, b, k)
    <3>1. AskOf(k) = key => k \in {"timer"}
      BY QueriesDiffer DEF AskOf, Parts
    <3>2. k \in {"timer"} => \A e : e[key] = v => Said(e, k) = Now(d, b, k)
      BY <1>9 DEF Said, Sets, SetTo, Now
    <3> QED BY <3>1, <3>2
  <2> HIDE DEF key, v
  <2> QED BY <2>1, <2>2, <2>3, <2>4, SaidNow
<1>10. CASE is(214, 2)
  <2> DEFINE key == <<215>>
             v == <<215, b[2]>>
  <2>1. Executed(d, b) = Put(d, key, v)
    BY <1>10 DEF Executed, Put
  <2>2. key \in Queried /\ key \notin {<<208>>, <<200>>, <<198>>}
    BY QueriesDiffer
  <2>3. AskOf(k) # key => ~Sets(b, k)
    BY <1>10 DEF AskOf, Sets, Parts
  <2>4. AskOf(k) = key => \A e : e[key] = v => Said(e, k) = Now(d, b, k)
    <3>1. AskOf(k) = key => k \in {"power"}
      BY QueriesDiffer DEF AskOf, Parts
    <3>2. k \in {"power"} => \A e : e[key] = v => Said(e, k) = Now(d, b, k)
      BY <1>10 DEF Said, Sets, SetTo, Now
    <3> QED BY <3>1, <3>2
  <2> HIDE DEF key, v
  <2> QED BY <2>1, <2>2, <2>3, <2>4, SaidNow
<1>11. CASE b[1] = 202
  <2> DEFINE key == <<201>>
             v == <<201>> \o Tail(b)
  <2>1. Executed(d, b) = Put(d, key, v)
    BY <1>11 DEF Executed, Put
  <2>2. key \in Queried /\ key \notin {<<208>>, <<200>>, <<198>>}
    BY QueriesDiffer
  <2>3. AskOf(k) # key => ~Sets(b, k)
    BY <1>11 DEF AskOf, Sets, Parts
  <2>4. AskOf(k) = key => \A e : e[key] = v => Said(e, k) = Now(d, b, k)
    <3>1. AskOf(k) = key => k \in {"name"}
      BY QueriesDiffer DEF AskOf, Parts
    <3>2. k \in {"name"} => \A e : e[key] = v => Said(e, k) = Now(d, b, k)
      BY <1>11 DEF Said, Sets, SetTo, Now
    <3> QED BY <3>1, <3>2
  <2> HIDE DEF key, v
  <2> QED BY <2>1, <2>2, <2>3, <2>4, SaidNow
<1>12. CASE /\ ~is(193, 2) /\ ~is(193, 3) /\ ~is(196, 2) /\ ~is(241, 3) /\ ~is(73, 2) /\ ~is(9, 2)
            /\ ~is(6, 2) /\ ~is(209, 3) /\ ~is(210, 1) /\ ~is(214, 2) /\ b[1] # 202
  <2>1. Executed(d, b) = d
    BY <1>12 DEF Executed
  <2>2. ~Sets(b, k)
    BY <1>12 DEF Sets
  <2> QED BY <2>1, <2>2 DEF Now
<1> QED BY <1>1, <1>2, <1>3, <1>4, <1>5, <1>6, <1>7, <1>8, <1>9, <1>10, <1>11, <1>12

\* Short sequences, one after the other.
LEMMA Joined ==
    /\ \A x \in Byte : <<x>> \o <<>> = <<x>>
    /\ \A x, y \in Byte : <<x>> \o <<y>> = <<x, y>>
    /\ \A x, y, z \in Byte : <<x, y>> \o <<z>> = <<x, y, z>>
<1>1. \A x \in Byte : <<x>> \o <<>> = <<x>>
  BY ConcatEmptySeq, ShortSequences
<1>2. ASSUME NEW x \in Byte, NEW y \in Byte
      PROVE  <<x>> \o <<y>> = <<x, y>>
  <2> DEFINE s == <<x>> \o <<y>>
             t == <<x, y>>
  <2>1. s \in Seq(Byte) /\ Len(s) = 2 /\ s[1] = x /\ s[2] = y
    OBVIOUS
  <2>2. t \in Seq(Byte) /\ Len(t) = 2 /\ t[1] = x /\ t[2] = y
    OBVIOUS
  <2> HIDE DEF s, t
  <2>3. s = t
    BY <2>1, <2>2
  <2> QED BY <2>3 DEF s, t
<1>3. \A x, y, z \in Byte : <<x, y>> \o <<z>> = <<x, y, z>>
  BY TwoAndOne
<1> QED BY <1>1, <1>2, <1>3

\* The body of what a user asks for, and what it holds.
Plainly(c) ==
    /\ c.op = "SetNoiseMode" =>
          \E a \in 0..2 : c.arg = <<a>> /\ to_body(c) = <<193, a + 1>>
    /\ c.op = "SetAmbientVolume" =>
          \E v \in -3..3 : c.arg = <<v>> /\ to_body(c) = <<193, 3, v + 6>>
    /\ c.op = "SetSoundEffect" => \E a \in 0..3 : c.arg = <<a>> /\ to_body(c) = <<196, a>>
    /\ c.op = "SetControlSettings" =>
          \E x, y, z \in Flag : c.arg = <<x, y, z>> /\ to_body(c) = <<241, 10, mask(c.arg)>>
    /\ c.op = "SetLdac" => \E a \in 0..2 : c.arg = <<a>> /\ to_body(c) = <<73, a>>
    /\ c.op = "SetGameMode" => \E a \in Flag : c.arg = <<a>> /\ to_body(c) = <<9, a>>
    /\ c.op = "SetPromptVolume" => \E v \in Byte : c.arg = <<v>> /\ to_body(c) = <<6, v>>
    /\ c.op = "SetShutdownTimer" => \E v \in Byte : c.arg = <<v>> /\ to_body(c) = <<209, 0, v>>
    /\ c.op = "DisableShutdownTimer" => to_body(c) = <<210>>
    /\ c.op = "SetAutoPowerOff" => \E a \in Flag : c.arg = <<a>> /\ to_body(c) = <<214, a>>
    /\ c.op = "SetName" => c.arg \in Seq(Byte) /\ to_body(c) = <<202>> \o c.arg

\* The commands that set something.
Setter ==
    {"SetNoiseMode", "SetAmbientVolume", "SetSoundEffect", "SetControlSettings", "SetLdac",
     "SetGameMode", "SetPromptVolume", "SetShutdownTimer", "DisableShutdownTimer",
     "SetAutoPowerOff", "SetName"}

LEMMA WishPlainly ==
    ASSUME NEW c, IsWish(c)
    PROVE  Plainly(c)
<1>1. /\ IsCommand(c) /\ c.op # "Raw" /\ to_body(c) = Opcode[c.op] \o Argument(c)
      /\ c.op = "SetAmbientVolume" => c.arg[1] \in -3..3
  BY DEF IsWish, Encodable, to_body
<1>2. c.op \in DOMAIN Opcode /\ c.arg \in Held(c.op)
  BY <1>1 DEF IsCommand
<1>3. \A n \in 0..255 : n \in Byte
  BY SmallIsByte
<1>4. CASE c.op = "SetNoiseMode"
  <2>1. PICK a \in 0..2 : c.arg = <<a>>
    BY <1>2, <1>4, WordsType DEF Held
  <2>2. Opcode[c.op] = <<193>> /\ Argument(c) = <<a + 1>>
    BY <1>4, <2>1 DEF Opcode, Argument
  <2>3. a + 1 \in Byte /\ 193 \in Byte
    BY <1>3
  <2>4. to_body(c) = <<193, a + 1>>
    BY <1>1, <2>2, <2>3, Joined
  <2> QED BY <1>4, <2>1, <2>4 DEF Plainly
<1>5. CASE c.op = "SetAmbientVolume"
  <2>1. PICK v \in -3..3 : c.arg = <<v>>
    <3>1. c.arg \in {<<v>> : v \in -128..127}
      BY <1>2, <1>5, WordsType DEF Held, Fields
    <3> QED BY <1>1, <1>5, <3>1
  <2>2. Opcode[c.op] = <<193, 3>> /\ Argument(c) = <<v + 6>>
    BY <1>5, <2>1 DEF Opcode, Argument, AMBIENT_VOLUME_OFFSET
  <2>3. v + 6 \in Byte /\ 193 \in Byte /\ 3 \in Byte
    BY <1>3
  <2>4. to_body(c) = <<193, 3, v + 6>>
    BY <1>1, <2>2, <2>3, Joined
  <2> QED BY <1>5, <2>1, <2>4 DEF Plainly
<1>6. CASE c.op = "SetControlSettings"
  <2>1. PICK x \in Flag, y \in Flag, z \in Flag : c.arg = <<x, y, z>>
    BY <1>2, <1>6, WordsType DEF Held, Fields
  <2>2. Opcode[c.op] = <<241, 10>> /\ Argument(c) = <<mask(c.arg)>>
    BY <1>6 DEF Opcode, Argument
  <2>3. mask(c.arg) \in Byte /\ 241 \in Byte /\ 10 \in Byte
    BY <1>3, <2>1 DEF mask, Flag
  <2>4. to_body(c) = <<241, 10, mask(c.arg)>>
    BY <1>1, <2>2, <2>3, Joined
  <2> QED BY <1>6, <2>1, <2>4 DEF Plainly
<1>7. CASE c.op = "SetSoundEffect"
  <2>1. PICK a \in 0..3 : c.arg = <<a>>
    BY <1>2, <1>7, WordsType DEF Held
  <2>2. Opcode[c.op] = <<196>> /\ Argument(c) = <<a>>
    BY <1>7, <2>1 DEF Opcode, Argument
  <2>3. a \in Byte /\ 196 \in Byte
    BY <1>3
  <2>4. to_body(c) = <<196, a>>
    BY <1>1, <2>2, <2>3, Joined
  <2> QED BY <1>7, <2>1, <2>4 DEF Plainly
<1>14. CASE c.op = "SetLdac"
  <2>1. PICK a \in 0..2 : c.arg = <<a>>
    BY <1>2, <1>14, WordsType DEF Held
  <2>2. Opcode[c.op] = <<73>> /\ Argument(c) = <<a>>
    BY <1>14, <2>1 DEF Opcode, Argument
  <2>3. a \in Byte /\ 73 \in Byte
    BY <1>3
  <2>4. to_body(c) = <<73, a>>
    BY <1>1, <2>2, <2>3, Joined
  <2> QED BY <1>14, <2>1, <2>4 DEF Plainly
<1>8. CASE c.op = "SetGameMode"
  <2>1. PICK a \in Flag : c.arg = <<a>>
    BY <1>2, <1>8, WordsType DEF Held, Fields
  <2>2. Opcode[c.op] = <<9>> /\ Argument(c) = <<a>>
    BY <1>8, <2>1 DEF Opcode, Argument
  <2>3. a \in Byte /\ 9 \in Byte
    BY <1>3 DEF Flag
  <2>4. to_body(c) = <<9, a>>
    BY <1>1, <2>2, <2>3, Joined
  <2> QED BY <1>8, <2>1, <2>4 DEF Plainly
<1>15. CASE c.op = "SetAutoPowerOff"
  <2>1. PICK a \in Flag : c.arg = <<a>>
    BY <1>2, <1>15, WordsType DEF Held, Fields
  <2>2. Opcode[c.op] = <<214>> /\ Argument(c) = <<a>>
    BY <1>15, <2>1 DEF Opcode, Argument
  <2>3. a \in Byte /\ 214 \in Byte
    BY <1>3 DEF Flag
  <2>4. to_body(c) = <<214, a>>
    BY <1>1, <2>2, <2>3, Joined
  <2> QED BY <1>15, <2>1, <2>4 DEF Plainly
<1>9. CASE c.op = "SetPromptVolume"
  <2>1. PICK v \in Byte : c.arg = <<v>>
    BY <1>2, <1>9, WordsType DEF Held, Fields
  <2>2. Opcode[c.op] = <<6>> /\ Argument(c) = <<v>>
    BY <1>9, <2>1 DEF Opcode, Argument
  <2>3. to_body(c) = <<6, v>>
    BY <1>1, <1>3, <2>2, Joined
  <2> QED BY <1>9, <2>1, <2>3 DEF Plainly
<1>10. CASE c.op = "SetShutdownTimer"
  <2>1. PICK v \in Byte : c.arg = <<v>>
    BY <1>2, <1>10, WordsType DEF Held, Fields
  <2>2. Opcode[c.op] = <<209, 0>> /\ Argument(c) = <<v>>
    BY <1>10, <2>1 DEF Opcode, Argument
  <2>3. to_body(c) = <<209, 0, v>>
    BY <1>1, <1>3, <2>2, Joined
  <2> QED BY <1>10, <2>1, <2>3 DEF Plainly
<1>11. CASE c.op = "DisableShutdownTimer"
  <2>1. c.arg = <<>>
    BY <1>2, <1>11, WordsType DEF Held, Fields
  <2>2. Opcode[c.op] = <<210>> /\ Argument(c) = <<>>
    BY <1>11, <2>1 DEF Opcode, Argument
  <2>3. to_body(c) = <<210>>
    BY <1>1, <1>3, <2>2, Joined
  <2> QED BY <1>11, <2>3 DEF Plainly
<1>12. CASE c.op = "SetName"
  <2>1. c.arg \in Seq(Byte)
    BY <1>2, <1>12, WordsType DEF Held, Fields
  <2>2. Opcode[c.op] = <<202>> /\ Argument(c) = c.arg
    BY <1>12 DEF Opcode, Argument
  <2> QED BY <1>1, <1>12, <2>1, <2>2 DEF Plainly
<1>13. CASE c.op \notin Setter
  BY <1>13 DEF Plainly, Setter
<1> QED BY <1>4, <1>5, <1>6, <1>7, <1>8, <1>9, <1>10, <1>11, <1>12, <1>13, <1>14, <1>15 DEF Setter

\* The first bytes of the bodies that set something.
Setting == {193, 196, 241, 73, 9, 6, 209, 210, 214, 202}

\* What bodies start with.
LEMMA OpcodeStart ==
    \A op \in DOMAIN Opcode \ {"Raw"} :
        Len(Opcode[op]) \in {1, 2} /\ (op \notin Setter => Opcode[op][1] \notin Setting)
<1> DEFINE Long(op) == Len(Opcode[op]) \in {1, 2}
           Apart(op) == Opcode[op][1] \notin Setting
           Rest == {"PowerOff", "DisconnectHost", "RePair", "FactoryReset", "Playback",
           "QueryBattery", "QueryMac", "QueryFirmware", "QueryNoise", "QueryName",
           "QuerySoundEffect", "QueryGameMode", "QueryControlSettings", "QueryLdac",
           "QueryPromptVolume", "QueryShutdownTimer", "QueryAutoPowerOff",
           "QueryFingerprint", "QueryPlayback"}
<1>1. DOMAIN Opcode \ {"Raw"} = Setter \union Rest
  BY DEF Opcode, Setter
<1>2. /\ Long("SetNoiseMode") /\ Long("SetAmbientVolume")
      /\ Long("SetSoundEffect") /\ Long("SetControlSettings")
      /\ Long("SetLdac") /\ Long("SetGameMode")
      /\ Long("SetPromptVolume") /\ Long("DisableShutdownTimer")
      /\ Long("SetShutdownTimer") /\ Long("PowerOff")
      /\ Long("DisconnectHost") /\ Long("RePair")
      /\ Long("FactoryReset") /\ Long("SetName")
      /\ Long("Playback") /\ Long("SetAutoPowerOff")
      /\ Long("QueryBattery") /\ Long("QueryMac")
      /\ Long("QueryFirmware") /\ Long("QueryNoise")
      /\ Long("QueryName") /\ Long("QuerySoundEffect")
      /\ Long("QueryGameMode") /\ Long("QueryControlSettings")
      /\ Long("QueryLdac") /\ Long("QueryPromptVolume")
      /\ Long("QueryShutdownTimer") /\ Long("QueryAutoPowerOff")
      /\ Long("QueryFingerprint") /\ Long("QueryPlayback")
  BY DEF Opcode
<1>3. /\ Apart("PowerOff") /\ Apart("DisconnectHost")
      /\ Apart("RePair") /\ Apart("FactoryReset")
      /\ Apart("Playback") /\ Apart("QueryBattery")
      /\ Apart("QueryMac") /\ Apart("QueryFirmware")
      /\ Apart("QueryNoise") /\ Apart("QueryName")
      /\ Apart("QuerySoundEffect") /\ Apart("QueryGameMode")
      /\ Apart("QueryControlSettings") /\ Apart("QueryLdac")
      /\ Apart("QueryPromptVolume") /\ Apart("QueryShutdownTimer")
      /\ Apart("QueryAutoPowerOff") /\ Apart("QueryFingerprint")
      /\ Apart("QueryPlayback")
  BY DEF Opcode, Setting
<1> HIDE DEF Long, Apart
<1>4. \A op \in Setter \union Rest : Long(op)
  BY <1>2, Zenon DEF Setter
<1>5. \A op \in Rest : Apart(op)
  BY <1>3, Zenon
<1> QED BY <1>1, <1>4, <1>5 DEF Long, Apart

LEMMA WishBody ==
    ASSUME NEW c, IsWish(c)
    PROVE  /\ to_body(c) \in Reply
           /\ c.op \notin Setter => to_body(c)[1] \notin Setting
<1>1. /\ IsCommand(c) /\ c.op \in DOMAIN Opcode /\ c.op # "Raw" /\ Encodable(c)
      /\ to_body(c) = Opcode[c.op] \o Argument(c)
  BY DEF IsWish, IsCommand, to_body
<1>2. to_body(c) \in Seq(Byte) /\ Len(to_body(c)) <= 255
  BY <1>1, BodiesAreBytes
<1>3. PICK start \in Seq(Byte), rest \in Seq(Byte) :
         start = Opcode[c.op] /\ rest = Argument(c)
  BY <1>1, OpcodeType, ArgumentType DEF Encodable
<1>4. Len(start) \in {1, 2}
  BY <1>1, <1>3, OpcodeStart
<1>5. Len(rest) \in Nat /\ Len(start \o rest) = Len(start) + Len(rest) /\ (start \o rest)[1] = start[1]
  <2>1. Len(rest) \in Nat /\ Len(start \o rest) = Len(start) + Len(rest)
    BY ConcatProperties, LenProperties
  <2>2. PICK n \in {1, 2}, r \in Nat : n = Len(start) /\ r = Len(rest)
    BY <1>4, <2>1
  <2>3. 1 \in 1..(n + r) /\ 1 <= n
    OBVIOUS
  <2>4. 1 \in 1..(Len(start) + Len(rest)) /\ 1 <= Len(start)
    BY <2>2, <2>3
  <2> QED BY <2>1, <2>4, ConcatProperties
<1>6. c.op \notin Setter => start[1] \notin Setting
  BY <1>1, <1>3, OpcodeStart
<1>7. Len(to_body(c)) >= 1
  BY <1>1, <1>3, <1>4, <1>5
<1> QED BY <1>1, <1>2, <1>3, <1>5, <1>6, <1>7 DEF Reply

\* The kinds that can be shown have a value that can be asked for.
LEMMA MeaningHas ==
    ASSUME NEW m \in Meaning
    PROVE  /\ \A kind \in Kinds : m[kind] \in Values(kind)
           /\ \/ m \in [Kinds \union {"ShutdownTimer"} -> Value]
              \/ m \in [Kinds \union {"ShutdownTimerEnabled"} -> Value]
           /\ "ShutdownTimer" \in DOMAIN m => m["ShutdownTimer"] \in Values("ShutdownTimer")
           /\ "ShutdownTimerEnabled" \in DOMAIN m => m["ShutdownTimerEnabled"] \in Values("ShutdownTimerEnabled")
BY DEF Meaning

LEMMA MeaningPut ==
    ASSUME NEW m \in Meaning, NEW kind \in Kinds, NEW v \in Values(kind)
    PROVE  Put(m, kind, v) \in Meaning
<1>1. v \in Value
  BY DEF Value
<1>2. CASE m \in [Kinds \union {"ShutdownTimer"} -> Value]
  BY <1>1, <1>2 DEF Meaning, Put
<1>3. CASE m \in [Kinds \union {"ShutdownTimerEnabled"} -> Value]
  BY <1>1, <1>3 DEF Meaning, Put
<1> QED BY <1>2, <1>3, MeaningHas

\* The kind of notification that tells a part.
KindOf(k) ==
    CASE k \in {"mode", "volume"} -> "Noise" [] k = "name" -> "Name" [] k = "effect" -> "SoundEffect"
      [] k = "game" -> "GameMode" [] k = "controls" -> "ControlSettings" [] k = "ldac" -> "Ldac"
      [] k = "prompt" -> "PromptVolume" [] k = "timer" -> "Timer" [] k = "power" -> "AutoPowerOff"
      [] k = "identity" -> "Identity"

\* e means what m means, but for one kind.
Besides(e, m, kind) ==
    /\ \A other \in Kinds : other # kind => e[other] = m[other]
    /\ kind # "Timer" =>
          /\ "ShutdownTimer" \in DOMAIN e <=> "ShutdownTimer" \in DOMAIN m
          /\ "ShutdownTimer" \in DOMAIN m => e["ShutdownTimer"] = m["ShutdownTimer"]

LEMMA WantedBesides ==
    ASSUME NEW m, NEW e, NEW kind, Besides(e, m, kind), NEW k \in Parts, KindOf(k) # kind
    PROVE  Wanted(e, k) = Wanted(m, k)
<1>1. k \in {"mode", "volume"} => e["Noise"] = m["Noise"]
  BY DEF Besides, KindOf, Kinds
<1>2. k = "name" => e["Name"] = m["Name"]
  BY DEF Besides, KindOf, Kinds
<1>3. k = "effect" => e["SoundEffect"] = m["SoundEffect"]
  BY DEF Besides, KindOf, Kinds
<1>4. k = "game" => e["GameMode"] = m["GameMode"]
  BY DEF Besides, KindOf, Kinds
<1>5. k = "controls" => e["ControlSettings"] = m["ControlSettings"]
  BY DEF Besides, KindOf, Kinds
<1>6. k = "ldac" => e["Ldac"] = m["Ldac"]
  BY DEF Besides, KindOf, Kinds
<1>7. k = "prompt" => e["PromptVolume"] = m["PromptVolume"]
  BY DEF Besides, KindOf, Kinds
<1>8. k = "power" => e["AutoPowerOff"] = m["AutoPowerOff"]
  BY DEF Besides, KindOf, Kinds
<1>9. k = "timer" => /\ "ShutdownTimer" \in DOMAIN e <=> "ShutdownTimer" \in DOMAIN m
                     /\ "ShutdownTimer" \in DOMAIN m => e["ShutdownTimer"] = m["ShutdownTimer"]
  BY DEF Besides, KindOf
<1>10. CASE k \in {"mode", "volume", "name", "effect", "game"}
  BY <1>1, <1>2, <1>3, <1>4, <1>10, SMTT(30) DEF Wanted
<1>11. CASE k \in {"controls", "ldac", "prompt", "power", "identity"}
  BY <1>5, <1>6, <1>7, <1>8, <1>11, SMTT(30) DEF Wanted
<1>12. CASE k = "timer"
  BY <1>9, <1>12 DEF Wanted
<1> QED BY <1>10, <1>11, <1>12 DEF Parts

\* What should be said of a part after the body b.
Wants(m, b, k) == IF Sets(b, k) THEN SetTo(b, k) ELSE Wanted(m, k)

LEMMA WantsNow ==
    ASSUME NEW m, NEW e, NEW kind, Besides(e, m, kind), NEW b, NEW k \in Parts,
           KindOf(k) # kind => ~Sets(b, k),
           KindOf(k) = kind => Wanted(e, k) = Wants(m, b, k)
    PROVE  Wanted(e, k) = Wants(m, b, k)
<1>1. CASE KindOf(k) = kind
  BY <1>1
<1>2. CASE KindOf(k) # kind
  <2>1. Wanted(e, k) = Wanted(m, k)
    BY <1>2, WantedBesides
  <2> QED BY <1>2, <2>1 DEF Wants
<1> QED BY <1>1, <1>2

\* Asking for another value of a kind.
LEMMA PutBesides ==
    ASSUME NEW m \in Meaning, NEW kind \in Kinds, NEW v
    PROVE  Besides(Put(m, kind, v), m, kind) /\ Put(m, kind, v)[kind] = v
<1> DEFINE e == Put(m, kind, v)
<1>1. Kinds \subseteq DOMAIN m
  BY DEF Meaning
<1>2. DOMAIN e = DOMAIN m /\ e[kind] = v /\ \A x \in DOMAIN m : x # kind => e[x] = m[x]
  BY <1>1 DEF Put
<1>3. "ShutdownTimer" # kind
  BY DEF Kinds
<1> HIDE DEF e
<1>4. Besides(e, m, kind)
  BY <1>1, <1>2, <1>3 DEF Besides
<1> QED BY <1>2, <1>4 DEF e

\* v is what the body b says of a kind.
Tells(m, b, kind, v) ==
    \A k \in Parts :
        /\ KindOf(k) # kind => ~Sets(b, k)
        /\ KindOf(k) = kind => \A f : f[kind] = v => Wanted(f, k) = Wants(m, b, k)

LEMMA PutSets ==
    ASSUME NEW m \in Meaning, NEW kind \in Kinds, NEW v \in Values(kind), NEW b, Tells(m, b, kind, v)
    PROVE  /\ Put(m, kind, v) \in Meaning
           /\ \A k \in Parts : Wanted(Put(m, kind, v), k) = Wants(m, b, k)
<1> DEFINE e == Put(m, kind, v)
<1>1. e \in Meaning /\ Besides(e, m, kind) /\ e[kind] = v
  BY MeaningPut, PutBesides
<1> HIDE DEF e
<1>2. ASSUME NEW k \in Parts PROVE Wanted(e, k) = Wants(m, b, k)
  BY <1>1, WantsNow DEF Tells
<1> QED BY <1>1, <1>2 DEF e

\* A byte before a sequence.
LEMMA Prefixed ==
    ASSUME NEW x \in Byte, NEW s \in Seq(Byte)
    PROVE  (<<x>> \o s)[1] = x /\ Tail(<<x>> \o s) = s /\ Len(<<x>> \o s) = 1 + Len(s)
<1> DEFINE u == <<x>> \o s
           t == Tail(u)
<1>1. PICK n \in Nat : n = Len(s)
  BY LenProperties
<1>2. PICK one \in Seq(Byte) : one = <<x>> /\ Len(one) = 1 /\ one[1] = x
  BY ShortSequences
<1>3. /\ one \o s \in Seq(Byte) /\ Len(one \o s) = 1 + n
      /\ \A i \in 1..(1 + n) : (one \o s)[i] = IF i <= 1 THEN one[i] ELSE s[i - 1]
  BY <1>1, <1>2, ConcatProperties
<1>4. /\ u \in Seq(Byte) /\ Len(u) = 1 + n
      /\ \A i \in 1..(1 + n) : u[i] = IF i <= 1 THEN x ELSE s[i - 1]
  BY <1>2, <1>3
<1> HIDE DEF u
<1>5. u[1] = x
  BY <1>1, <1>4
<1>6. u # <<>>
  BY <1>1, <1>4
<1>7. t \in Seq(Byte) /\ Len(t) = n /\ \A i \in 1..n : t[i] = u[i + 1]
  <2>1. Len(u) - 1 = n
    BY <1>1, <1>4
  <2> QED BY <1>4, <1>6, <2>1, HeadTailProperties
<1>8. \A i \in 1..n : t[i] = s[i]
  <2> SUFFICES ASSUME NEW i \in 1..n PROVE t[i] = s[i]
    OBVIOUS
  <2>1. i + 1 \in 1..(1 + n) /\ ~(i + 1 <= 1) /\ (i + 1) - 1 = i
    BY <1>1
  <2> QED BY <1>4, <1>7, <2>1
<1> HIDE DEF t
<1>9. t = s
  BY <1>1, <1>7, <1>8
<1> QED BY <1>1, <1>4, <1>5, <1>9 DEF u, t

\* A wish sets the parts its body sets in what is asked for, and leaves the others.
LEMMA AskedSets ==
    ASSUME NEW m \in Meaning, NEW c, IsWish(c)
    PROVE  /\ Asked(m, c) \in Meaning
           /\ \A k \in Parts : Wanted(Asked(m, c), k) = Wants(m, to_body(c), k)
<1>0. Plainly(c)
  BY WishPlainly
<1>1. PICK b : b = to_body(c)
  OBVIOUS
<1>2. CASE c.op = "SetSoundEffect"
  <2>1. PICK a \in 0..3 : c.arg = <<a>> /\ b = <<196, a>>
    BY <1>0, <1>1, <1>2 DEF Plainly
  <2>2. Asked(m, c) = Put(m, "SoundEffect", <<a>>)
    BY <1>2, <2>1 DEF Asked, KindSet, Put
  <2>3. "SoundEffect" \in Kinds /\ <<a>> \in Values("SoundEffect")
    BY DEF Kinds, Values
  <2>4. \A k \in Parts : k # "effect" => KindOf(k) # "SoundEffect" /\ ~Sets(b, k)
    BY <2>1 DEF Parts, KindOf, Sets
  <2>5. \A f : f["SoundEffect"] = <<a>> => Wanted(f, "effect") = Wants(m, b, "effect")
    BY <2>1 DEF Wanted, Wants, Sets, SetTo
  <2>6. Tells(m, b, "SoundEffect", <<a>>)
    <3>1. KindOf("effect") = "SoundEffect"
      BY DEF KindOf
    <3> QED BY <2>4, <2>5, <3>1 DEF Tells
  <2>7. /\ Put(m, "SoundEffect", <<a>>) \in Meaning
        /\ \A k \in Parts : Wanted(Put(m, "SoundEffect", <<a>>), k) = Wants(m, b, k)
    BY <2>3, <2>6, PutSets
  <2> QED BY <1>1, <2>2, <2>7
<1>3. CASE c.op = "SetLdac"
  <2>1. PICK a \in 0..2 : c.arg = <<a>> /\ b = <<73, a>>
    BY <1>0, <1>1, <1>3 DEF Plainly
  <2>2. Asked(m, c) = Put(m, "Ldac", <<a>>)
    BY <1>3, <2>1 DEF Asked, KindSet, Put
  <2>3. "Ldac" \in Kinds /\ <<a>> \in Values("Ldac")
    BY DEF Kinds, Values
  <2>4. \A k \in Parts : k # "ldac" => KindOf(k) # "Ldac" /\ ~Sets(b, k)
    BY <2>1 DEF Parts, KindOf, Sets
  <2>5. \A f : f["Ldac"] = <<a>> => Wanted(f, "ldac") = Wants(m, b, "ldac")
    BY <2>1 DEF Wanted, Wants, Sets, SetTo
  <2>6. Tells(m, b, "Ldac", <<a>>)
    <3>1. KindOf("ldac") = "Ldac"
      BY DEF KindOf
    <3> QED BY <2>4, <2>5, <3>1 DEF Tells
  <2>7. /\ Put(m, "Ldac", <<a>>) \in Meaning
        /\ \A k \in Parts : Wanted(Put(m, "Ldac", <<a>>), k) = Wants(m, b, k)
    BY <2>3, <2>6, PutSets
  <2> QED BY <1>1, <2>2, <2>7
<1>4. CASE c.op = "SetGameMode"
  <2>1. PICK a \in Flag : c.arg = <<a>> /\ b = <<9, a>>
    BY <1>0, <1>1, <1>4 DEF Plainly
  <2>2. Asked(m, c) = Put(m, "GameMode", <<a>>)
    BY <1>4, <2>1 DEF Asked, KindSet, Put
  <2>3. "GameMode" \in Kinds /\ <<a>> \in Values("GameMode")
    BY DEF Kinds, Values
  <2>4. \A k \in Parts : k # "game" => KindOf(k) # "GameMode" /\ ~Sets(b, k)
    BY <2>1 DEF Parts, KindOf, Sets
  <2>5. \A f : f["GameMode"] = <<a>> => Wanted(f, "game") = Wants(m, b, "game")
    BY <2>1 DEF Wanted, Wants, Sets, SetTo
  <2>6. Tells(m, b, "GameMode", <<a>>)
    <3>1. KindOf("game") = "GameMode"
      BY DEF KindOf
    <3> QED BY <2>4, <2>5, <3>1 DEF Tells
  <2>7. /\ Put(m, "GameMode", <<a>>) \in Meaning
        /\ \A k \in Parts : Wanted(Put(m, "GameMode", <<a>>), k) = Wants(m, b, k)
    BY <2>3, <2>6, PutSets
  <2> QED BY <1>1, <2>2, <2>7
<1>5. CASE c.op = "SetPromptVolume"
  <2>1. PICK a \in Byte : c.arg = <<a>> /\ b = <<6, a>>
    BY <1>0, <1>1, <1>5 DEF Plainly
  <2>2. Asked(m, c) = Put(m, "PromptVolume", <<a>>)
    BY <1>5, <2>1 DEF Asked, KindSet, Put
  <2>3. "PromptVolume" \in Kinds /\ <<a>> \in Values("PromptVolume")
    BY DEF Kinds, Values
  <2>4. \A k \in Parts : k # "prompt" => KindOf(k) # "PromptVolume" /\ ~Sets(b, k)
    BY <2>1 DEF Parts, KindOf, Sets
  <2>5. \A f : f["PromptVolume"] = <<a>> => Wanted(f, "prompt") = Wants(m, b, "prompt")
    BY <2>1 DEF Wanted, Wants, Sets, SetTo
  <2>6. Tells(m, b, "PromptVolume", <<a>>)
    <3>1. KindOf("prompt") = "PromptVolume"
      BY DEF KindOf
    <3> QED BY <2>4, <2>5, <3>1 DEF Tells
  <2>7. /\ Put(m, "PromptVolume", <<a>>) \in Meaning
        /\ \A k \in Parts : Wanted(Put(m, "PromptVolume", <<a>>), k) = Wants(m, b, k)
    BY <2>3, <2>6, PutSets
  <2> QED BY <1>1, <2>2, <2>7
<1>6. CASE c.op = "SetAutoPowerOff"
  <2>1. PICK a \in Flag : c.arg = <<a>> /\ b = <<214, a>>
    BY <1>0, <1>1, <1>6 DEF Plainly
  <2>2. Asked(m, c) = Put(m, "AutoPowerOff", <<a>>)
    BY <1>6, <2>1 DEF Asked, KindSet, Put
  <2>3. "AutoPowerOff" \in Kinds /\ <<a>> \in Values("AutoPowerOff")
    BY DEF Kinds, Values
  <2>4. \A k \in Parts : k # "power" => KindOf(k) # "AutoPowerOff" /\ ~Sets(b, k)
    BY <2>1 DEF Parts, KindOf, Sets
  <2>5. \A f : f["AutoPowerOff"] = <<a>> => Wanted(f, "power") = Wants(m, b, "power")
    BY <2>1 DEF Wanted, Wants, Sets, SetTo
  <2>6. Tells(m, b, "AutoPowerOff", <<a>>)
    <3>1. KindOf("power") = "AutoPowerOff"
      BY DEF KindOf
    <3> QED BY <2>4, <2>5, <3>1 DEF Tells
  <2>7. /\ Put(m, "AutoPowerOff", <<a>>) \in Meaning
        /\ \A k \in Parts : Wanted(Put(m, "AutoPowerOff", <<a>>), k) = Wants(m, b, k)
    BY <2>3, <2>6, PutSets
  <2> QED BY <1>1, <2>2, <2>7
<1>7. CASE c.op = "SetName"
  <2>1. c.arg \in Seq(Byte) /\ b = <<202>> \o c.arg /\ Lossy(c.arg) = c.arg
    BY <1>0, <1>1, <1>7 DEF Plainly, IsWish
  <2>2. PICK name \in Seq(Byte) : name = c.arg
    BY <2>1
  <2>3. b[1] = 202 /\ Tail(b) = name
    BY <2>1, <2>2, SmallIsByte, Prefixed
  <2>4. Asked(m, c) = Put(m, "Name", name)
    BY <1>7, <2>2 DEF Asked, KindSet, Put
  <2>5. "Name" \in Kinds /\ name \in Values("Name")
    BY <2>1, <2>2 DEF Kinds, Values
  <2>6. \A k \in Parts : k # "name" => KindOf(k) # "Name" /\ ~Sets(b, k)
    BY <2>3 DEF Parts, KindOf, Sets
  <2>7. \A f : f["Name"] = name => Wanted(f, "name") = Wants(m, b, "name")
    BY <2>3, ZenonT(30) DEF Wanted, Wants, Sets, SetTo
  <2>8. Tells(m, b, "Name", name)
    <3>1. KindOf("name") = "Name"
      BY DEF KindOf
    <3> QED BY <2>6, <2>7, <3>1 DEF Tells
  <2>9. /\ Put(m, "Name", name) \in Meaning
        /\ \A k \in Parts : Wanted(Put(m, "Name", name), k) = Wants(m, b, k)
    BY <2>5, <2>8, PutSets
  <2> QED BY <1>1, <2>4, <2>9
<1>8. CASE c.op = "SetControlSettings"
  <2>1. PICK x \in Flag, y \in Flag, z \in Flag :
          c.arg = <<x, y, z>> /\ b = <<241, 10, mask(c.arg)>>
    BY <1>0, <1>1, <1>8 DEF Plainly
  <2>2. PICK v : v = c.arg
    OBVIOUS
  <2>3. Asked(m, c) = Put(m, "ControlSettings", v)
    BY <1>8, <2>2 DEF Asked, KindSet, Put
  <2>4. "ControlSettings" \in Kinds /\ v \in Values("ControlSettings")
    BY <2>1, <2>2 DEF Kinds, Values
  <2>5. b = <<241, 10, mask(v)>>
    BY <2>1, <2>2
  <2>6. \A k \in Parts : k # "controls" => KindOf(k) # "ControlSettings" /\ ~Sets(b, k)
    BY <2>5 DEF Parts, KindOf, Sets
  <2>7. \A f : f["ControlSettings"] = v => Wanted(f, "controls") = Wants(m, b, "controls")
    BY <2>5 DEF Wanted, Wants, Sets, SetTo
  <2>8. Tells(m, b, "ControlSettings", v)
    <3>1. KindOf("controls") = "ControlSettings"
      BY DEF KindOf
    <3> QED BY <2>6, <2>7, <3>1 DEF Tells
  <2>9. /\ Put(m, "ControlSettings", v) \in Meaning
        /\ \A k \in Parts : Wanted(Put(m, "ControlSettings", v), k) = Wants(m, b, k)
    BY <2>4, <2>8, PutSets
  <2> QED BY <1>1, <2>3, <2>9
<1>9. PICK mode \in 0..2, volume \in -3..3 : m["Noise"] = <<mode, volume>>
  <2>1. "Noise" \in Kinds
    BY DEF Kinds
  <2>2. m["Noise"] \in Values("Noise")
    BY <2>1, MeaningHas
  <2> QED BY <2>2 DEF Values
<1>10. "Noise" \in Kinds /\ \A x \in 0..2, y \in -3..3 : <<x, y>> \in Values("Noise")
  BY DEF Kinds, Values
<1>11. CASE c.op = "SetAmbientVolume"
  <2>1. PICK v \in -3..3 : c.arg = <<v>> /\ b = <<193, 3, v + 6>>
    BY <1>0, <1>1, <1>11 DEF Plainly
  <2>2. Asked(m, c) = Put(m, "Noise", <<2, v>>)
    <3>1. Asked(m, c) = [m EXCEPT !.Noise = <<Ambient, c.arg[1]>>]
      BY <1>11 DEF Asked, KindSet
    <3>2. c.arg[1] = v /\ Ambient = 2
      BY <2>1 DEF Ambient
    <3> QED BY <3>1, <3>2 DEF Put
  <2>3. \A k \in Parts : k \notin {"mode", "volume"} => KindOf(k) # "Noise" /\ ~Sets(b, k)
    BY <2>1 DEF Parts, KindOf, Sets
  <2>4. \A f : f["Noise"] = <<2, v>> => /\ Wanted(f, "mode") = Wants(m, b, "mode")
                                        /\ Wanted(f, "volume") = Wants(m, b, "volume")
    BY <2>1 DEF Wanted, Wants, Sets, SetTo
  <2>5. Tells(m, b, "Noise", <<2, v>>)
    <3>1. KindOf("mode") = "Noise" /\ KindOf("volume") = "Noise"
      BY DEF KindOf
    <3> QED BY <2>3, <2>4, <3>1 DEF Tells
  <2>6. /\ Put(m, "Noise", <<2, v>>) \in Meaning
        /\ \A k \in Parts : Wanted(Put(m, "Noise", <<2, v>>), k) = Wants(m, b, k)
    BY <1>10, <2>5, PutSets
  <2> QED BY <1>1, <2>2, <2>6
<1>12. CASE c.op = "SetNoiseMode"
  <2>1. PICK a \in 0..2 : c.arg = <<a>> /\ b = <<193, a + 1>>
    BY <1>0, <1>1, <1>12 DEF Plainly
  <2>2. Asked(m, c) = Put(m, "Noise", <<a, volume>>)
    <3>1. Asked(m, c) = [m EXCEPT !.Noise[1] = c.arg[1]]
      BY <1>12 DEF Asked, KindSet
    <3>2. c.arg[1] = a /\ [<<mode, volume>> EXCEPT ![1] = a] = <<a, volume>>
      BY <2>1
    <3> QED BY <1>9, <3>1, <3>2 DEF Put
  <2>3. \A k \in Parts : k \notin {"mode", "volume"} => KindOf(k) # "Noise" /\ ~Sets(b, k)
    BY <2>1 DEF Parts, KindOf, Sets
  <2>4. \A f : f["Noise"] = <<a, volume>> => /\ Wanted(f, "mode") = Wants(m, b, "mode")
                                             /\ Wanted(f, "volume") = Wants(m, b, "volume")
    BY <1>9, <2>1 DEF Wanted, Wants, Sets, SetTo
  <2>5. Tells(m, b, "Noise", <<a, volume>>)
    <3>1. KindOf("mode") = "Noise" /\ KindOf("volume") = "Noise"
      BY DEF KindOf
    <3> QED BY <2>3, <2>4, <3>1 DEF Tells
  <2>6. /\ Put(m, "Noise", <<a, volume>>) \in Meaning
        /\ \A k \in Parts : Wanted(Put(m, "Noise", <<a, volume>>), k) = Wants(m, b, k)
    BY <1>10, <2>5, PutSets
  <2> QED BY <1>1, <2>2, <2>6
<1>13. /\ Kinds \subseteq DOMAIN m
       /\ DOMAIN m \in {Kinds \union {"ShutdownTimer"}, Kinds \union {"ShutdownTimerEnabled"}}
       /\ \A kind \in DOMAIN m : m[kind] \in Values(kind)
  BY DEF Meaning
<1>14. "ShutdownTimer" \notin Kinds /\ "ShutdownTimerEnabled" \notin Kinds
  BY DEF Kinds
<1>15. CASE c.op = "SetShutdownTimer"
  <2>1. PICK v \in Byte : c.arg = <<v>> /\ b = <<209, 0, v>>
    BY <1>0, <1>1, <1>15 DEF Plainly
  <2> DEFINE e == [k \in Kinds \union {"ShutdownTimer"} |->
                      IF k = "ShutdownTimer" THEN <<v>> ELSE m[k]]
  <2>2. (DOMAIN m \ {"ShutdownTimerEnabled"}) \union {"ShutdownTimer"} = Kinds \union {"ShutdownTimer"}
    BY <1>13, <1>14
  <2>3. Asked(m, c) = e
    <3>1. Asked(m, c) = [k \in (DOMAIN m \ {"ShutdownTimerEnabled"}) \union {"ShutdownTimer"} |->
                            IF k = "ShutdownTimer" THEN c.arg ELSE m[k]]
      BY <1>15 DEF Asked, KindSet
    <3> QED BY <2>1, <2>2, <3>1
  <2>4. <<v>> \in Values("ShutdownTimer")
    BY DEF Values
  <2>5. e["ShutdownTimer"] = <<v>> /\ DOMAIN e = Kinds \union {"ShutdownTimer"}
        /\ \A kind \in Kinds : e[kind] = m[kind]
    BY <1>14
  <2>6. \A kind \in DOMAIN e : e[kind] \in Values(kind) /\ e[kind] \in Value
    BY <1>13, <2>4, <2>5 DEF Value
  <2>7. e = [kind \in Kinds \union {"ShutdownTimer"} |-> e[kind]]
    OBVIOUS
  <2> HIDE DEF e
  <2>8. e \in Meaning
    BY <2>5, <2>6, <2>7 DEF Meaning
  <2>9. Besides(e, m, "Timer")
    BY <2>5 DEF Besides
  <2>10. \A k \in Parts : k # "timer" => KindOf(k) # "Timer" /\ ~Sets(b, k)
    BY <2>1 DEF Parts, KindOf, Sets
  <2>11. Wanted(e, "timer") = Wants(m, b, "timer")
    BY <2>1, <2>5 DEF Wanted, Wants, Sets, SetTo
  <2>12. ASSUME NEW k \in Parts PROVE Wanted(e, k) = Wants(m, b, k)
    <3>1. KindOf("timer") = "Timer"
      BY DEF KindOf
    <3> QED BY <2>9, <2>10, <2>11, <3>1, WantsNow
  <2> QED BY <1>1, <2>3, <2>8, <2>12
<1>16. CASE c.op = "DisableShutdownTimer"
  <2>1. b = <<210>>
    BY <1>0, <1>1, <1>16 DEF Plainly
  <2> DEFINE e == [k \in Kinds \union {"ShutdownTimerEnabled"} |->
                      IF k = "ShutdownTimerEnabled" THEN <<0>> ELSE m[k]]
  <2>2. (DOMAIN m \ {"ShutdownTimer"}) \union {"ShutdownTimerEnabled"}
          = Kinds \union {"ShutdownTimerEnabled"}
    BY <1>13, <1>14
  <2>3. Asked(m, c) = e
    <3>1. Asked(m, c) = [k \in (DOMAIN m \ {"ShutdownTimer"}) \union {"ShutdownTimerEnabled"} |->
                            IF k = "ShutdownTimerEnabled" THEN <<0>> ELSE m[k]]
      BY <1>16 DEF Asked, KindSet
    <3> QED BY <2>1, <2>2, <3>1
  <2>4. <<0>> \in Values("ShutdownTimerEnabled")
    BY DEF Values
  <2>5. e["ShutdownTimerEnabled"] = <<0>> /\ DOMAIN e = Kinds \union {"ShutdownTimerEnabled"}
        /\ \A kind \in Kinds : e[kind] = m[kind]
    BY <1>14
  <2>6. \A kind \in DOMAIN e : e[kind] \in Values(kind) /\ e[kind] \in Value
    BY <1>13, <2>4, <2>5 DEF Value
  <2>7. e = [kind \in Kinds \union {"ShutdownTimerEnabled"} |-> e[kind]]
    OBVIOUS
  <2> HIDE DEF e
  <2>8. e \in Meaning
    BY <2>5, <2>6, <2>7 DEF Meaning
  <2>9. Besides(e, m, "Timer")
    BY <2>5 DEF Besides
  <2>10. \A k \in Parts : k # "timer" => KindOf(k) # "Timer" /\ ~Sets(b, k)
    BY <2>1 DEF Parts, KindOf, Sets
  <2>11. Wanted(e, "timer") = Wants(m, b, "timer")
    BY <1>14, <2>1, <2>5 DEF Wanted, Wants, Sets, SetTo
  <2>12. ASSUME NEW k \in Parts PROVE Wanted(e, k) = Wants(m, b, k)
    <3>1. KindOf("timer") = "Timer"
      BY DEF KindOf
    <3> QED BY <2>9, <2>10, <2>11, <3>1, WantsNow
  <2> QED BY <1>1, <2>3, <2>8, <2>12
<1>17. CASE c.op \notin Setter
  <2>1. Asked(m, c) = m
    BY <1>17 DEF Asked, KindSet, Setter
  <2>2. b[1] \notin Setting
    BY <1>1, <1>17, WishBody
  <2>3. \A k \in Parts : ~Sets(b, k)
    BY <2>2 DEF Sets, Setting
  <2> QED BY <1>1, <2>1, <2>3 DEF Wants
<1> QED BY <1>2, <1>3, <1>4, <1>5, <1>6, <1>7, <1>8, <1>11, <1>12, <1>15, <1>16, <1>17 DEF Setter

-----------------------------------------------------------------------------
(* Plans that do what was asked for *)

\* The JSON of a request says what the user asks for.
LEMMA RequestedBody ==
    ASSUME NEW json, IsCommandJson(json), Readable(json), NEW c, IsWish(c), Writes(json, c)
    PROVE  to_body(to_command(json)) = to_body(c)
<1>0. IsCommand(c) /\ c.op # "Raw" /\ c = [op |-> c.op, arg |-> c.arg]
  BY DEF IsWish, IsCommand
<1>1. to_body(c) \in Seq(Byte)
  BY <1>0, BodiesAreBytes DEF IsWish
<1>2. CASE json.op = "Raw" /\ parse_hex(json.arg) = to_body(c)
  <2>1. to_command(json) = Cmd("Raw", to_body(c))
    BY <1>2, WordsType DEF to_command
  <2> DEFINE q == Cmd("Raw", to_body(c))
  <2>2. Opcode[q.op] = <<>> /\ Argument(q) = to_body(c)
    BY DEF Opcode, Argument, Cmd
  <2> QED BY <1>1, <2>1, <2>2, ConcatEmptySeq DEF to_body
<1>3. CASE /\ json.op = c.op /\ json.arg = from_command(c).arg
           /\ Spelled(json) = from_command(c).word
  <2>1. CASE c.op \in DOMAIN Words
    <3> DEFINE words == Words[c.op]
    <3>1. from_command(c) = [op |-> c.op, word |-> words[c.arg[1] + 1], arg |-> <<>>]
      BY <2>1 DEF from_command
    <3>2. to_command(from_command(c)) = c
      BY <1>0, JsonRoundTrips
    <3>3. Spelled(from_command(c)) = from_command(c).word
      <4>1. c.arg[1] + 1 \in DOMAIN words
        <5>1. PICK n \in 3..6 : n = Len(words) /\ DOMAIN words = 1..n
          BY <2>1, WordsType
        <5>2. PICK i \in 0..(n - 1) : c.arg = <<i>>
          BY <1>0, <2>1, <5>1 DEF Held, IsCommand
        <5> QED BY <5>1, <5>2
      <4> QED BY <2>1, <3>1, <4>1, WordsDiffer DEF Spelled
    <3> DEFINE place(word) == CHOOSE i \in DOMAIN words : words[i] = word
    <3>4. \A w : w.op = c.op => to_command(w) = Cmd(c.op, <<place(Spelled(w)) - 1>>)
      BY <2>1 DEF to_command
    <3> HIDE DEF place
    <3>5. to_command(json) = to_command(from_command(c))
      <4>1. from_command(c).op = c.op
        BY <3>1
      <4> QED BY <1>3, <3>3, <3>4, <4>1
    <3> QED BY <3>2, <3>5
  <2>2. CASE c.op \notin DOMAIN Words
    <3>1. from_command(c).arg = c.arg
      BY <1>0, <2>2 DEF from_command
    <3>2. to_command(json) = [op |-> c.op, arg |-> c.arg]
      BY <1>0, <1>3, <2>2, <3>1 DEF to_command, Cmd
    <3> QED BY <1>0, <3>2
  <2> QED BY <2>1, <2>2
<1> QED BY <1>2, <1>3 DEF Writes

\* The commands whose bodies set a part.
Setters(k) == {c \in Command : Sets(to_body(c), k)}

\* After the plan p, the headset d says what m asks for: the last command that
\* sets a part sets it to that, or the headset says it already.
Leads(d, p, m) ==
    \A k \in Parts :
        \/ \E c \in Setters(k) : Final(p, Setters(k), c) /\ SetTo(to_body(c), k) = Wanted(m, k)
        \/ Without(p, Setters(k)) /\ Said(d, k) = Wanted(m, k)

LEMMA NothingLeads == \A d, m : Leads(d, <<>>, m) <=> Agree(d, m)
<1>1. \A W : Without(<<>>, W) /\ \A x : ~Final(<<>>, W, x)
  BY DEF Without, Final
<1> QED BY <1>1 DEF Leads, Agree

\* One command with the body of a wish.
LEMMA OneLeads ==
    ASSUME NEW d, NEW m \in Meaning, Agree(d, m), NEW c, IsWish(c),
           NEW q \in Command, to_body(q) = to_body(c)
    PROVE  Leads(d, <<q>>, Asked(m, c))
<1> DEFINE p == <<q>>
<1>1. Len(p) = 1 /\ p[1] = q
  OBVIOUS
<1> HIDE DEF p
<1>2. ASSUME NEW k \in Parts
      PROVE  \/ \E x \in Setters(k) : Final(p, Setters(k), x)
                                      /\ SetTo(to_body(x), k) = Wanted(Asked(m, c), k)
             \/ Without(p, Setters(k)) /\ Said(d, k) = Wanted(Asked(m, c), k)
  <2>1. Wanted(Asked(m, c), k) = Wants(m, to_body(q), k)
    BY AskedSets
  <2>2. Said(d, k) = Wanted(m, k)
    BY DEF Agree
  <2>3. CASE Sets(to_body(q), k)
    <3>1. q \in Setters(k)
      BY <2>3 DEF Setters
    <3>2. Final(p, Setters(k), q)
      BY <1>1, <3>1 DEF Final
    <3> QED BY <2>1, <2>3, <3>1, <3>2 DEF Wants
  <2>4. CASE ~Sets(to_body(q), k)
    <3>1. Without(p, Setters(k))
      BY <1>1, <2>4 DEF Without, Setters
    <3> QED BY <2>1, <2>2, <2>4, <3>1 DEF Wants
  <2> QED BY <2>3, <2>4
<1> QED BY <1>2 DEF Leads, p

\* Sending the next command leaves the rest to do the same.
LEMMA LeadsOn ==
    ASSUME NEW d, IsDevice(d), NEW p \in Seq(Command), p # <<>>, NEW m, Leads(d, p, m),
           to_body(Head(p)) \in Reply
    PROVE  Leads(Executed(d, to_body(Head(p))), Tail(p), m)
<1> DEFINE t == Tail(p)
           b == to_body(Head(p))
<1>1. PICK n \in Nat : n = Len(p) /\ n >= 1 /\ Head(p) = p[1]
  BY HeadTailProperties, LenProperties, EmptySeq
<1>2. Len(t) = n - 1 /\ \A i \in 1..(n - 1) : t[i] = p[i + 1]
  BY <1>1, HeadTailProperties
<1>3. PICK q \in Command : q = p[1] /\ b = to_body(q)
  BY <1>1, ElementOfSeq
<1> HIDE DEF t, b
<1>4. ASSUME NEW W, NEW x, Final(p, W, x)
      PROVE  Final(t, W, x) \/ (x = q /\ Without(t, W))
  <2>1. PICK j \in 1..n : p[j] = x /\ x \in W /\ \A i \in 1..n : i > j => p[i] \notin W
    BY <1>1, <1>4 DEF Final
  <2>2. CASE j = 1
    <3>1. \A i \in 1..(n - 1) : i + 1 \in 1..n /\ i + 1 > 1
      BY <1>1
    <3>2. \A i \in 1..(n - 1) : t[i] \notin W
      BY <1>2, <2>1, <2>2, <3>1
    <3> QED BY <1>2, <1>3, <2>1, <2>2, <3>2 DEF Without
  <2>3. CASE j # 1
    <3>1. PICK l \in 1..(n - 1) : j = l + 1
      <4>1. j - 1 \in 1..(n - 1) /\ j = (j - 1) + 1
        BY <2>3
      <4> QED BY <4>1
    <3>2. t[l] = x
      BY <1>2, <2>1, <3>1
    <3>3. \A i \in 1..(n - 1) : i > l => i + 1 \in 1..n /\ i + 1 > j
      BY <3>1
    <3>4. \A i \in 1..(n - 1) : i > l => t[i] \notin W
      BY <1>2, <2>1, <3>3
    <3> QED BY <1>2, <2>1, <3>2, <3>4 DEF Final
  <2> QED BY <2>2, <2>3
<1>5. ASSUME NEW W, Without(p, W)
      PROVE  Without(t, W) /\ q \notin W
  <2>1. \A i \in 1..(n - 1) : i + 1 \in 1..n
    BY <1>1
  <2>2. 1 \in 1..n
    BY <1>1
  <2> QED BY <1>1, <1>2, <1>3, <1>5, <2>1, <2>2 DEF Without
<1>6. ASSUME NEW k \in Parts
      PROVE  \/ \E c \in Setters(k) : Final(t, Setters(k), c) /\ SetTo(to_body(c), k) = Wanted(m, k)
             \/ Without(t, Setters(k)) /\ Said(Executed(d, b), k) = Wanted(m, k)
  <2>1. Said(Executed(d, b), k) = Now(d, b, k)
    BY ExecutedSets DEF b
  <2>2. ASSUME NEW c \in Setters(k), Final(p, Setters(k), c), SetTo(to_body(c), k) = Wanted(m, k)
        PROVE  \/ \E x \in Setters(k) : Final(t, Setters(k), x) /\ SetTo(to_body(x), k) = Wanted(m, k)
               \/ Without(t, Setters(k)) /\ Said(Executed(d, b), k) = Wanted(m, k)
    <3>1. CASE Final(t, Setters(k), c)
      BY <2>2, <3>1
    <3>2. CASE c = q /\ Without(t, Setters(k))
      <4>1. Sets(b, k)
        BY <1>3, <2>2, <3>2 DEF Setters
      <4> QED BY <1>3, <2>1, <2>2, <3>2, <4>1 DEF Now
    <3> QED BY <1>4, <2>2, <3>1, <3>2
  <2>3. ASSUME Without(p, Setters(k)), Said(d, k) = Wanted(m, k)
        PROVE  Without(t, Setters(k)) /\ Said(Executed(d, b), k) = Wanted(m, k)
    <3>1. Without(t, Setters(k)) /\ q \notin Setters(k)
      BY <1>5, <2>3
    <3>2. ~Sets(b, k)
      BY <1>3, <3>1 DEF Setters
    <3> QED BY <2>1, <2>3, <3>1, <3>2 DEF Now
  <2> QED BY <2>2, <2>3 DEF Leads
<1> QED BY <1>6 DEF Leads, t, b

\* g is the function AskedAll defines.
Asks(g, m, cmds) ==
    g = [i \in 0..Len(cmds) |-> IF i = 0 THEN m ELSE Asked(g[i - 1], cmds[i])]

\* What is asked for in the end is the last value of a function that asks one by one.
LEMMA AskedSteps ==
    ASSUME NEW m \in Meaning, NEW cmds \in Seq(Command), \A i \in 1..Len(cmds) : IsWish(cmds[i])
    PROVE  \E g \in [0..Len(cmds) -> Meaning] :
              /\ g[0] = m /\ \A i \in 1..Len(cmds) : g[i] = Asked(g[i - 1], cmds[i])
              /\ AskedAll(m, cmds) = g[Len(cmds)]
<1> DEFINE N == Len(cmds)
           A == Meaning
           step == [x \in (1..N) \X A |-> Asked(x[2], cmds[x[1]])]
           asked == CHOOSE g : Asks(g, m, cmds)
<1>1. N \in Nat
  BY LenProperties
<1>2. m \in A
  OBVIOUS
<1>3. \A i \in 1..N : \A x \in A : step[<<i, x>>] = Asked(x, cmds[i])
  OBVIOUS
<1>4. \A i \in 1..N : \A x \in A : step[<<i, x>>] \in A
  <2> SUFFICES ASSUME NEW i \in 1..N, NEW x \in A PROVE step[<<i, x>>] \in A
    OBVIOUS
  <2>1. Asked(x, cmds[i]) \in A
    BY AskedSets
  <2> QED BY <1>3, <2>1
<1> HIDE DEF step, A
<1>5. PICK g \in [0..N -> A] :
        g[0] = m /\ \A i \in 1..N : g[i] = step[<<i, g[i - 1]>>]
  <2> HIDE DEF N
  <2>1. Closed(step, A, N)
    BY <1>4 DEF Closed
  <2>2. \E g \in [0..N -> A] : Recursive(g, m, step, N)
    BY <1>1, <1>2, <2>1, Recursion
  <2> QED BY <2>2 DEF Recursive
<1>6. \A i \in 1..N : g[i] = Asked(g[i - 1], cmds[i])
  <2> SUFFICES ASSUME NEW i \in 1..N PROVE g[i] = Asked(g[i - 1], cmds[i])
    OBVIOUS
  <2>1. i - 1 \in 0..N
    BY <1>1
  <2> HIDE DEF N
  <2>2. g[i - 1] \in A
    BY <1>5, <2>1
  <2> QED BY <1>3, <1>5, <2>2
<1>7. Asks(g, m, cmds)
  <2>1. ASSUME NEW i \in 0..N
        PROVE  g[i] = IF i = 0 THEN m ELSE Asked(g[i - 1], cmds[i])
    <3>1. i # 0 => i \in 1..N
      BY <1>1
    <3> QED BY <1>5, <1>6, <3>1
  <2> QED BY <1>5, <2>1 DEF Asks
<1>8. Asks(asked, m, cmds)
  BY <1>7, Zenon
<1>9. AskedAll(m, cmds) = asked[N]
  BY DEF AskedAll, Asks
<1> HIDE DEF asked
<1>10. \A i \in 0..N : asked[i] = g[i]
  <2>1. asked[0] = g[0]
    BY <1>1, <1>5, <1>8 DEF Asks
  <2>2. ASSUME NEW i \in 1..N, asked[i - 1] = g[i - 1]
        PROVE  asked[i] = g[i]
    <3>1. i \in 0..N /\ i # 0
      BY <1>1
    <3>2. asked[i] = Asked(asked[i - 1], cmds[i])
      BY <1>8, <3>1 DEF Asks
    <3> QED BY <1>6, <2>2, <3>2
  <2>3. \A i \in 1..N : asked[i - 1] = g[i - 1] => asked[i] = g[i]
    BY <2>2
  <2> HIDE DEF N
  <2>4. Alike(asked, g, N)
    BY <2>1, <2>3 DEF Alike
  <2> QED BY <1>1, <2>4, AlikeEqual
<1>11. N \in 0..N
  BY <1>1
<1> QED BY <1>5, <1>6, <1>9, <1>10, <1>11 DEF A

\* What is asked for in the end, part by part.
Decides(m, cmds, result) ==
    \A k \in Parts :
        \/ \E c \in Setters(k) : Final(cmds, Setters(k), c) /\ SetTo(to_body(c), k) = Wanted(result, k)
        \/ Without(cmds, Setters(k)) /\ Wanted(m, k) = Wanted(result, k)

LEMMA AskedDecides ==
    ASSUME NEW m \in Meaning, NEW cmds \in Seq(Command), \A i \in 1..Len(cmds) : IsWish(cmds[i])
    PROVE  AskedAll(m, cmds) \in Meaning /\ Decides(m, cmds, AskedAll(m, cmds))
<1>1. PICK N \in Nat : N = Len(cmds)
  BY LenProperties
<1>2. PICK g \in [0..N -> Meaning] :
        /\ g[0] = m /\ \A i \in 1..N : g[i] = Asked(g[i - 1], cmds[i])
        /\ AskedAll(m, cmds) = g[N]
  BY <1>1, AskedSteps
<1>3. \A i \in 1..N : cmds[i] \in Command /\ IsWish(cmds[i])
  BY <1>1, ElementOfSeq
<1> DEFINE UpTo(n, k) == \E j \in 1..n : /\ cmds[j] \in Setters(k)
                                         /\ \A i \in 1..n : i > j => cmds[i] \notin Setters(k)
                                         /\ SetTo(to_body(cmds[j]), k) = Wanted(g[n], k)
           Free(n, k) == /\ \A i \in 1..n : cmds[i] \notin Setters(k)
                         /\ Wanted(m, k) = Wanted(g[n], k)
           X == {n \in 0..N : \A k \in Parts : UpTo(n, k) \/ Free(n, k)}
<1>4. 0 \in X
  <2>1. 1..0 = {} /\ 0 \in 0..N
    BY <1>1
  <2> QED BY <1>2, <2>1
<1>5. ASSUME NEW n \in 0..N, n < N, n \in X
      PROVE  n + 1 \in X
  <2>1. n + 1 \in 1..N /\ n + 1 \in 0..N /\ (n + 1) - 1 = n /\ n \in Nat
    BY <1>1, <1>5
  <2>2. PICK c \in Command : c = cmds[n + 1] /\ IsWish(c)
    BY <1>3, <2>1
  <2>3. g[n] \in Meaning /\ g[n + 1] = Asked(g[n], c)
    BY <1>2, <2>1, <2>2
  <2>4. n + 1 \in 1..(n + 1) /\ \A i \in 1..(n + 1) : i \in 1..n \/ i = n + 1
    BY <2>1
  <2>5. \A i \in 1..n : i \in 1..(n + 1) /\ n + 1 > i
    BY <2>1
  <2> SUFFICES ASSUME NEW k \in Parts PROVE UpTo(n + 1, k) \/ Free(n + 1, k)
    BY <2>1
  <2>6. Wanted(g[n + 1], k) = Wants(g[n], to_body(c), k)
    BY <2>2, <2>3, AskedSets
  <2>7. CASE c \in Setters(k)
    <3>1. Wanted(g[n + 1], k) = SetTo(to_body(c), k)
      BY <2>6, <2>7 DEF Wants, Setters
    <3>2. \A i \in 1..(n + 1) : ~(i > n + 1)
      BY <2>1
    <3> QED BY <2>2, <2>4, <2>7, <3>1, <3>2
  <2>8. CASE c \notin Setters(k)
    <3>1. Wanted(g[n + 1], k) = Wanted(g[n], k)
      BY <2>2, <2>6, <2>8 DEF Wants, Setters
    <3>2. UpTo(n, k) \/ Free(n, k)
      BY <1>5
    <3>3. CASE UpTo(n, k)
      <4>1. PICK j \in 1..n : /\ cmds[j] \in Setters(k)
                              /\ \A i \in 1..n : i > j => cmds[i] \notin Setters(k)
                              /\ SetTo(to_body(cmds[j]), k) = Wanted(g[n], k)
        BY <3>3
      <4>2. \A i \in 1..(n + 1) : i > j => cmds[i] \notin Setters(k)
        BY <2>2, <2>4, <2>8, <4>1
      <4> QED BY <2>5, <3>1, <4>1, <4>2
    <3>4. CASE Free(n, k)
      BY <2>2, <2>4, <2>8, <3>1, <3>4
    <3> QED BY <3>2, <3>3, <3>4
  <2> QED BY <2>7, <2>8
<1> HIDE DEF X
<1>6. 0..N \subseteq X
  BY <1>4, <1>5, CountingUp
<1>7. N \in X /\ N \in 0..N
  BY <1>1, <1>6
<1>8. ASSUME NEW k \in Parts
      PROVE  \/ \E c \in Setters(k) : Final(cmds, Setters(k), c) /\ SetTo(to_body(c), k) = Wanted(g[N], k)
             \/ Without(cmds, Setters(k)) /\ Wanted(m, k) = Wanted(g[N], k)
  <2>1. UpTo(N, k) \/ Free(N, k)
    BY <1>7 DEF X
  <2>2. CASE UpTo(N, k)
    BY <1>1, <2>2 DEF Final
  <2>3. CASE Free(N, k)
    BY <1>1, <2>3 DEF Without
  <2> QED BY <2>1, <2>2, <2>3
<1> QED BY <1>2, <1>7, <1>8 DEF Decides

\* Two sequences that have their members of W and of U in the same places.
LEMMA FinalAlike ==
    ASSUME NEW s, NEW t, Len(t) = Len(s), NEW W, NEW U,
           \A i \in 1..Len(s) : s[i] \in W <=> t[i] \in U
    PROVE  /\ \A x : Final(s, W, x) => \E i \in 1..Len(s) : s[i] = x /\ x \in W /\ Final(t, U, t[i])
           /\ Without(s, W) => Without(t, U)
<1> DEFINE N == Len(s)
<1>1. ASSUME NEW x, Final(s, W, x)
      PROVE  \E i \in 1..N : s[i] = x /\ x \in W /\ Final(t, U, t[i])
  <2>1. PICK j \in 1..N : s[j] = x /\ x \in W /\ \A i \in 1..N : i > j => s[i] \notin W
    BY <1>1 DEF Final
  <2> HIDE DEF N
  <2>2. Final(t, U, t[j])
    BY <2>1 DEF Final, N
  <2> QED BY <2>1, <2>2
<1>2. Without(s, W) => Without(t, U)
  BY DEF Without
<1> QED BY <1>1, <1>2

\* The last of a kind in one of three groups is the last in all, if the others
\* have none.
LEMMA FinalGrouped ==
    ASSUME NEW V, NEW grp \in [0..2 -> Seq(V)], NEW W, NEW r \in 0..2,
           \A p \in 0..2 : p # r => Without(grp[p], W)
    PROVE  /\ \A x : Final(grp[r], W, x) => Final(grp[0] \o grp[1] \o grp[2], W, x)
           /\ Without(grp[r], W) => Without(grp[0] \o grp[1] \o grp[2], W)
<1>1. PICK a \in Seq(V), b \in Seq(V), c \in Seq(V) : a = grp[0] /\ b = grp[1] /\ c = grp[2]
  OBVIOUS
<1>2. PICK ab \in Seq(V) : ab = a \o b
  BY ConcatProperties
<1>3. /\ \A x : Final(b, W, x) => Final(ab, W, x)
      /\ \A x : Final(a, W, x) /\ Without(b, W) => Final(ab, W, x)
      /\ Without(a, W) /\ Without(b, W) => Without(ab, W)
  BY <1>2, FinalConcat
<1>4. /\ \A x : Final(c, W, x) => Final(ab \o c, W, x)
      /\ \A x : Final(ab, W, x) /\ Without(c, W) => Final(ab \o c, W, x)
      /\ Without(ab, W) /\ Without(c, W) => Without(ab \o c, W)
  BY FinalConcat
<1>5. r \in {0, 1, 2}
  OBVIOUS
<1>6. /\ r # 0 => Without(a, W)
      /\ r # 1 => Without(b, W)
      /\ r # 2 => Without(c, W)
  BY <1>1
<1>7. (grp[0] \o grp[1]) \o grp[2] = ab \o c
  BY <1>1, <1>2
<1>8. CASE r = 0
  BY <1>1, <1>3, <1>4, <1>6, <1>7, <1>8
<1>9. CASE r = 1
  BY <1>1, <1>3, <1>4, <1>6, <1>7, <1>9
<1>10. CASE r = 2
  BY <1>1, <1>3, <1>4, <1>6, <1>7, <1>10
<1> QED BY <1>5, <1>8, <1>9, <1>10

\* All that sets a part belongs to one group of an export.
Rank(k) == IF k \in {"mode", "volume", "timer"} THEN 1 ELSE IF k = "ldac" THEN 2 ELSE 0

LEMMA OneRank ==
    ASSUME NEW c, IsWish(c), NEW k \in Parts, Sets(to_body(c), k)
    PROVE  Bucket(export_priority(c)) = Rank(k)
<1>0. Plainly(c)
  BY WishPlainly
<1>1. CASE c.op \notin Setter
  <2>1. to_body(c)[1] \notin Setting
    BY <1>1, WishBody
  <2> QED BY <2>1 DEF Sets, Setting
<1>2. CASE c.op \in {"SetNoiseMode", "SetAmbientVolume", "SetShutdownTimer", "DisableShutdownTimer"}
  <2>1. to_body(c)[1] \in {193, 209, 210}
    BY <1>0, <1>2 DEF Plainly
  <2>2. k \in {"mode", "volume", "timer"}
    BY <2>1 DEF Sets
  <2>3. export_priority(c) = 1
    BY <1>2 DEF export_priority
  <2> QED BY <2>2, <2>3 DEF Bucket, Rank
<1>3. CASE c.op = "SetLdac"
  <2>1. to_body(c)[1] = 73
    BY <1>0, <1>3 DEF Plainly
  <2>2. k = "ldac"
    BY <2>1 DEF Sets
  <2>3. export_priority(c) = 2
    BY <1>3 DEF export_priority
  <2> QED BY <2>2, <2>3 DEF Bucket, Rank
<1>4. CASE c.op \in {"SetSoundEffect", "SetControlSettings", "SetGameMode", "SetPromptVolume",
                     "SetAutoPowerOff", "SetName"}
  <2>1. to_body(c)[1] \in {196, 241, 9, 6, 214, 202}
    <3>1. CASE c.op # "SetName"
      BY <1>0, <1>4, <3>1 DEF Plainly
    <3>2. CASE c.op = "SetName"
      BY <1>0, <3>2, SmallIsByte, Prefixed DEF Plainly
    <3> QED BY <3>1, <3>2
  <2>2. k \notin {"mode", "volume", "timer", "ldac"}
    BY <2>1 DEF Sets
  <2>3. export_priority(c) = 0
    BY <1>4 DEF export_priority
  <2> QED BY <2>2, <2>3 DEF Bucket, Rank
<1> QED BY <1>1, <1>2, <1>3, <1>4 DEF Setter

\* The host can send it: its body is bytes that fit in a frame, and not nothing.
Speakable(q) == q \in Command /\ Encodable(q) /\ to_body(q) \in Reply

LEMMA RawSpeaks ==
    ASSUME NEW body \in Reply
    PROVE  Speakable(Cmd("Raw", body)) /\ to_body(Cmd("Raw", body)) = body
<1> DEFINE q == Cmd("Raw", body)
<1>1. q.op = "Raw" /\ q.arg = body /\ q = [op |-> q.op, arg |-> q.arg] /\ body \in Seq(Byte)
  BY DEF Cmd, Reply
<1> HIDE DEF q
<1>2. "Raw" \in DOMAIN Opcode /\ Opcode["Raw"] = <<>>
  BY DEF Opcode
<1>3. q \in Command
  BY <1>1, <1>2, WordsType, CommandMembers DEF IsCommand, Held
<1>4. Argument(q) = body
  BY <1>1 DEF Argument
<1>5. to_body(q) = body
  BY <1>1, <1>2, <1>4, ConcatEmptySeq DEF to_body
<1>6. Encodable(q)
  BY <1>1, <1>5 DEF Encodable, Reply
<1> QED BY <1>3, <1>5, <1>6 DEF Speakable, q

\* The items of an export.
LEMMA ExportItems ==
    ASSUME NEW file, IsSettingsFile(file), Importable(file), NEW cmds, IsExport(file, cmds)
    PROVE  /\ cmds \in Seq(Command) /\ Len(file.commands) = Len(cmds)
           /\ file.commands \in Seq(ToSet(file.commands)) /\ Len(cmds) \in Nat
           /\ \A i \in 1..Len(cmds) :
                 /\ IsWish(cmds[i])
                 /\ parse_hex(file.commands[i].cmd) = to_body(cmds[i])
                 /\ file.commands[i].cmd # <<>>
                 /\ file.commands[i].priority = export_priority(cmds[i])
<1> DEFINE items_ == file.commands
           item(i) == [cmd |-> to_hex(to_body(cmds[i])), priority |-> export_priority(cmds[i])]
<1>1. cmds \in Seq([op : DOMAIN Opcode, arg : Seq(Int)]) /\ \A i \in DOMAIN cmds : IsWish(cmds[i])
  BY DEF IsExport
<1>2. PICK N \in Nat : N = Len(cmds) /\ DOMAIN cmds = 1..N
  BY <1>1, LenProperties
<1>3. items_ = [i \in 1..N |-> item(i)]
  <2>1. items_ = [i \in DOMAIN cmds |-> item(i)]
    BY DEF IsExport, from_commands
  <2> QED BY <1>2, <2>1
<1> HIDE DEF items_
<1>4. DOMAIN items_ = 1..N /\ \A i \in 1..N : items_[i] = item(i)
  BY <1>3
<1>5. \A i \in 1..N : cmds[i] \in Command
  BY <1>1, <1>2, CommandMembers DEF IsWish
<1>6. cmds \in Seq(Command)
  <2>1. cmds = [i \in 1..N |-> cmds[i]]
    BY <1>1, <1>2, LenProperties
  <2> QED BY <1>5, <2>1
<1>7. \A i \in 1..N : items_[i] \in ToSet(items_)
  BY <1>4 DEF ToSet
<1>8. items_ \in Seq(ToSet(items_)) /\ Len(items_) = N
  <2> DEFINE all == ToSet(items_)
  <2>1. \A i \in 1..N : item(i) \in all
    BY <1>4, <1>7
  <2> HIDE DEF all, item
  <2>2. items_ \in Seq(all) /\ Len(items_) = N
    BY <1>3, <2>1
  <2> QED BY <2>2 DEF all
<1>9. ASSUME NEW i \in 1..N
      PROVE  /\ IsWish(cmds[i])
             /\ parse_hex(items_[i].cmd) = to_body(cmds[i])
             /\ items_[i].cmd # <<>>
             /\ items_[i].priority = export_priority(cmds[i])
  <2>1. PICK c : c = cmds[i] /\ IsWish(c)
    BY <1>1, <1>2
  <2>2. PICK body \in Seq(Byte) : body = to_body(c) /\ Len(body) \in Nat /\ Len(body) >= 1
    BY <2>1, WishBody, LenProperties DEF Reply
  <2>3. items_[i] = [cmd |-> to_hex(body), priority |-> export_priority(c)]
    BY <1>4, <2>1, <2>2
  <2>4. parse_hex(to_hex(body)) = body
    BY HexRoundTrips
  <2>5. Len(to_hex(body)) = 2 * Len(body)
    BY WrittenInHex
  <2>6. Len(to_hex(body)) # 0
    BY <2>2, <2>5
  <2>7. to_hex(body) # <<>>
    BY <2>6
  <2> QED BY <2>1, <2>2, <2>3, <2>4, <2>7
<1> QED BY <1>2, <1>6, <1>8, <1>9 DEF items_

\* What an import sends decides every part as the commands that were exported do.
LEMMA ImportLeads ==
    ASSUME NEW file, IsSettingsFile(file), Importable(file), NEW cmds, IsExport(file, cmds),
           NEW d, NEW m \in Meaning, Agree(d, m)
    PROVE  /\ AskedAll(m, cmds) \in Meaning
           /\ Leads(d, import_plan(file), AskedAll(m, cmds))
           /\ \A i \in 1..Len(import_plan(file)) : Speakable(import_plan(file)[i])
<1> DEFINE its == file.commands
           all == ToSet(file.commands)
           Chosen(p) == {it \in ToSet(file.commands) : Bucket(it.priority) = p /\ it.cmd # <<>>}
           group(p) == Kept(file.commands, Chosen(p))
           grp == [p \in 0..2 |-> group(p)]
           ordered == grp[0] \o grp[1] \o grp[2]
           plan_ == import_plan(file)
           result == AskedAll(m, cmds)
           Wk(k) == {it \in ToSet(file.commands) : Sets(parse_hex(it.cmd), k)}
<1>1. /\ cmds \in Seq(Command) /\ Len(its) = Len(cmds) /\ its \in Seq(all) /\ Len(cmds) \in Nat
      /\ \A i \in 1..Len(cmds) :
            /\ IsWish(cmds[i])
            /\ parse_hex(its[i].cmd) = to_body(cmds[i])
            /\ its[i].cmd # <<>>
            /\ its[i].priority = export_priority(cmds[i])
  BY ExportItems
<1>2. result \in Meaning /\ Decides(m, cmds, result)
  BY <1>1, AskedDecides
<1>3. \A it \in all : \E i \in 1..Len(cmds) : it = its[i]
  BY <1>1, LenProperties DEF ToSet
<1>4. \A p \in 0..2 : group(p) \in Seq(all \cap Chosen(p)) /\ group(p) \in Seq(all)
  <2> SUFFICES ASSUME NEW p \in 0..2
               PROVE  group(p) \in Seq(all \cap Chosen(p)) /\ group(p) \in Seq(all)
    OBVIOUS
  <2>1. group(p) \in Seq(all \cap Chosen(p))
    BY <1>1, KeptType
  <2> DEFINE g == group(p)
             small == all \cap Chosen(p)
  <2>2. g \in Seq(small) /\ small \subseteq all
    BY <2>1
  <2> HIDE DEF g, small, all
  <2>3. g \in Seq(all)
    BY <2>2, WiderSeq
  <2> QED BY <2>1, <2>3 DEF g
<1>5. grp \in [0..2 -> Seq(all)] /\ \A p \in 0..2 : grp[p] = group(p)
  BY <1>4
<1>6. command_bodies(file) = [i \in DOMAIN ordered |-> parse_hex(ordered[i].cmd)]
  <2>1. ordered = group(0) \o group(1) \o group(2)
    BY <1>5
  <2> HIDE DEF ordered
  <2> QED BY <2>1 DEF command_bodies
<1> HIDE DEF group, grp
<1>7. ordered \in Seq(all)
  BY <1>5, ConcatProperties
<1> HIDE DEF ordered, all, its
<1>8. PICK n \in Nat : n = Len(ordered) /\ DOMAIN ordered = 1..n
  BY <1>7, LenProperties
<1>9. plan_ = [i \in 1..n |-> Cmd("Raw", parse_hex(ordered[i].cmd))]
  <2>1. command_bodies(file) = [i \in 1..n |-> parse_hex(ordered[i].cmd)]
    BY <1>6, <1>8
  <2> QED BY <2>1 DEF import_plan
<1> HIDE DEF plan_
<1>10. ASSUME NEW i \in 1..n
       PROVE  Speakable(plan_[i]) /\ to_body(plan_[i]) = parse_hex(ordered[i].cmd)
  <2>1. ordered[i] \in all
    BY <1>7, <1>8, ElementOfSeq
  <2>2. PICK j \in 1..Len(cmds) : ordered[i] = its[j]
    BY <1>3, <2>1
  <2>3. parse_hex(ordered[i].cmd) \in Reply
    BY <1>1, <2>2, WishBody
  <2>4. plan_[i] = Cmd("Raw", parse_hex(ordered[i].cmd))
    BY <1>9
  <2> QED BY <2>3, <2>4, RawSpeaks
<1>11. Len(plan_) = n
  BY <1>9
<1> HIDE DEF result
<1>12. ASSUME NEW k \in Parts
       PROVE  \/ \E c \in Setters(k) : Final(plan_, Setters(k), c) /\ SetTo(to_body(c), k) = Wanted(result, k)
              \/ Without(plan_, Setters(k)) /\ Said(d, k) = Wanted(result, k)
  <2> DEFINE W == Setters(k)
             U == Wk(k)
             r == Rank(k)
  <2>1. r \in 0..2
    BY DEF Rank
  <2>2. \A i \in 1..Len(cmds) : cmds[i] \in W <=> its[i] \in U
    <3>1. \A i \in 1..Len(cmds) : cmds[i] \in Command
      BY <1>1, ElementOfSeq
    <3>2. \A i \in 1..Len(its) : its[i] \in ToSet(file.commands)
      BY <1>1, ElementOfSeq DEF all
    <3> QED BY <1>1, <3>1, <3>2 DEF Setters
  <2>3. \A it \in U : it \in Chosen(r) /\ \A p \in 0..2 : p # r => it \notin Chosen(p)
    <3> SUFFICES ASSUME NEW it \in U
                 PROVE  it \in Chosen(r) /\ \A p \in 0..2 : p # r => it \notin Chosen(p)
      OBVIOUS
    <3>1. PICK i \in 1..Len(cmds) : it = its[i]
      BY <1>3 DEF all
    <3>2. Sets(to_body(cmds[i]), k) /\ IsWish(cmds[i])
      BY <1>1, <3>1
    <3>3. Bucket(it.priority) = r /\ it.cmd # <<>>
      BY <1>1, <3>1, <3>2, OneRank
    <3> QED BY <3>3
  <2>4. PICK S : S = Chosen(r)
    OBVIOUS
  <2>5. all \cap U \subseteq S
    BY <2>3, <2>4
  <2>6. /\ \A x : Final(its, U, x) => Final(grp[r], U, x)
        /\ Without(its, U) => Without(grp[r], U)
    <3>1. grp[r] = Kept(its, S)
      BY <1>5, <2>1, <2>4 DEF group, its
    <3> HIDE DEF U, r
    <3>2. /\ \A x : Final(its, U, x) => Final(Kept(its, S), U, x)
          /\ Without(its, U) => Without(Kept(its, S), U)
      BY <1>1, <2>5, FinalKept
    <3> QED BY <3>1, <3>2
  <2>7. ASSUME NEW p \in 0..2, p # r
        PROVE  Without(grp[p], U)
    <3>1. grp[p] \in Seq(all \cap Chosen(p))
      BY <1>4, <1>5
    <3>2. \A i \in 1..Len(grp[p]) : grp[p][i] \in all \cap Chosen(p)
      BY <3>1, ElementOfSeq
    <3>3. \A i \in 1..Len(grp[p]) : grp[p][i] \notin U
      BY <2>3, <2>7, <3>2
    <3> QED BY <3>3 DEF Without
  <2> HIDE DEF U, r, W
  <2>8. /\ \A x : Final(grp[r], U, x) => Final(ordered, U, x)
        /\ Without(grp[r], U) => Without(ordered, U)
    BY <1>5, <2>1, <2>7, FinalGrouped DEF ordered
  <2>9. \A i \in 1..n : /\ ordered[i] \in U <=> plan_[i] \in W
                        /\ SetTo(to_body(plan_[i]), k) = SetTo(parse_hex(ordered[i].cmd), k)
    <3> SUFFICES ASSUME NEW i \in 1..n
                 PROVE  /\ ordered[i] \in U <=> plan_[i] \in W
                        /\ SetTo(to_body(plan_[i]), k) = SetTo(parse_hex(ordered[i].cmd), k)
      OBVIOUS
    <3>1. ordered[i] \in ToSet(file.commands)
      BY <1>7, <1>8, ElementOfSeq DEF all
    <3>2. plan_[i] \in Command /\ to_body(plan_[i]) = parse_hex(ordered[i].cmd)
      BY <1>10 DEF Speakable
    <3>3. SetTo(to_body(plan_[i]), k) = SetTo(parse_hex(ordered[i].cmd), k)
      BY <3>2
    <3>4. plan_[i] \in W <=> Sets(parse_hex(ordered[i].cmd), k)
      BY <3>2 DEF W, Setters
    <3>5. ordered[i] \in U <=> Sets(parse_hex(ordered[i].cmd), k)
      BY <3>1 DEF U, all
    <3> QED BY <3>3, <3>4, <3>5
  <2>10. /\ \A x : Final(cmds, W, x) => \E i \in 1..Len(cmds) : cmds[i] = x /\ x \in W /\ Final(its, U, its[i])
         /\ Without(cmds, W) => Without(its, U)
    BY <1>1, <2>2, FinalAlike
  <2>11. /\ \A x : Final(ordered, U, x) =>
                     \E i \in 1..n : ordered[i] = x /\ x \in U /\ Final(plan_, W, plan_[i])
         /\ Without(ordered, U) => Without(plan_, W)
    <3>1. Len(plan_) = Len(ordered)
      BY <1>8, <1>11
    <3>2. \A i \in 1..Len(ordered) : ordered[i] \in U <=> plan_[i] \in W
      BY <1>8, <2>9
    <3>3. /\ \A x : Final(ordered, U, x) =>
                     \E i \in 1..Len(ordered) : ordered[i] = x /\ x \in U /\ Final(plan_, W, plan_[i])
          /\ Without(ordered, U) => Without(plan_, W)
      <4> HIDE DEF U, W, plan_
      <4> QED BY <3>1, <3>2, FinalAlike
    <3> QED BY <1>8, <3>3
  <2>12. ASSUME NEW c \in W, Final(cmds, W, c), SetTo(to_body(c), k) = Wanted(result, k)
         PROVE  \E q \in W : Final(plan_, W, q) /\ SetTo(to_body(q), k) = Wanted(result, k)
    <3>1. PICK i \in 1..Len(cmds) : cmds[i] = c /\ Final(its, U, its[i])
      BY <2>10, <2>12
    <3>2. Final(ordered, U, its[i])
      BY <2>6, <2>8, <3>1
    <3>3. PICK j \in 1..n : ordered[j] = its[i] /\ its[i] \in U /\ Final(plan_, W, plan_[j])
      BY <2>11, <3>2
    <3>4. plan_[j] \in W
      BY <2>9, <3>3
    <3>5. SetTo(to_body(plan_[j]), k) = SetTo(to_body(c), k)
      BY <1>1, <2>9, <3>1, <3>3
    <3> QED BY <2>12, <3>3, <3>4, <3>5
  <2>13. ASSUME Without(cmds, W), Wanted(m, k) = Wanted(result, k)
         PROVE  Without(plan_, W) /\ Said(d, k) = Wanted(result, k)
    <3>1. Without(plan_, W)
      BY <2>6, <2>8, <2>10, <2>11, <2>13
    <3> QED BY <2>13, <3>1 DEF Agree
  <2> QED BY <1>2, <2>12, <2>13 DEF Decides, W
<1>13. Leads(d, plan_, result)
  BY <1>12 DEF Leads
<1> QED BY <1>2, <1>10, <1>11, <1>13 DEF result, plan_

-----------------------------------------------------------------------------
(***************************************************************************)
(* What is told.  The notification made of an answer is the one of what    *)
(* was asked for, and what is shown of it can be written again.            *)
(***************************************************************************)

\* The query whose answer tells a kind.
AskFor(kind) ==
    CASE kind = "Noise" -> <<204>> [] kind = "Name" -> <<201>> [] kind = "SoundEffect" -> <<213>>
      [] kind = "GameMode" -> <<8>> [] kind = "ControlSettings" -> <<240, 10>>
      [] kind = "Ldac" -> <<72>> [] kind = "PromptVolume" -> <<5>>
      [] kind \in {"ShutdownTimer", "ShutdownTimerEnabled"} -> <<211>>
      [] kind = "AutoPowerOff" -> <<215>>

\* The notification made of the answer to a query.
Tell(d, ask) == parse_notification(RX_HEAD_BB, d[ask])

LEMMA ReportSays ==
    ASSUME NEW cmd \in DOMAIN OneByteReport, NEW v, InRange(OneByteReport[cmd], v)
    PROVE  parse_notification(RX_HEAD_BB, <<cmd, v>>)
             = Note(OneByteReport[cmd], <<OneByteValue(OneByteReport[cmd], v)>>)
<1> DEFINE body == <<cmd, v>>
<1>1. body # <<>> /\ Len(body) = 2 /\ body[1] = cmd /\ body[2] = v
  OBVIOUS
<1> HIDE DEF body
<1>2. Response(body) = Note(OneByteReport[cmd], <<OneByteValue(OneByteReport[cmd], v)>>)
  <2>1. Len(body) = 2 /\ body[1] \in DOMAIN OneByteReport /\ InRange(OneByteReport[body[1]], body[2])
    BY <1>1
  <2>2. Response(body) = Note(OneByteReport[body[1]], <<OneByteValue(OneByteReport[body[1]], body[2])>>)
    <3>1. body[1] # 201
      BY <2>1 DEF OneByteReport
    <3> QED BY <2>1, <3>1 DEF Response
  <2> QED BY <1>1, <2>2
<1>3. parse_notification(RX_HEAD_BB, body) = Response(body)
  BY <1>1 DEF parse_notification, RX_HEAD_BB
<1> QED BY <1>2, <1>3 DEF body

\* An answer that is no report of one byte.
LEMMA ResponseParsed ==
    ASSUME NEW body, body # <<>>
    PROVE  parse_notification(RX_HEAD_BB, body) = Response(body)
BY DEF parse_notification, RX_HEAD_BB

LEMMA AnswersSay ==
    ASSUME NEW d, IsDevice(d), NEW m \in Meaning, Agree(d, m)
    PROVE  /\ \A kind \in DOMAIN m : Tell(d, AskFor(kind)) = Note(kind, m[kind])
           /\ Tell(d, << 208 >>).kind = "Battery"
           /\ Tell(d, << 200 >>).kind = "Mac"
           /\ Tell(d, << 198 >>).kind = "Firmware"
<1>0. /\ \A kind \in Kinds : m[kind] \in Values(kind)
      /\ \A k \in Parts : Said(d, k) = Wanted(m, k)
  BY MeaningHas DEF Agree
<1>1. Tell(d, <<204>>) = Note("Noise", m["Noise"])
  <2>1. PICK a \in 0..2, v \in -3..3 : m["Noise"] = <<a, v>>
    BY <1>0 DEF Kinds, Values
  <2>2. Said(d, "mode") = <<204, a + 1>> /\ Said(d, "volume") = v + 6
    BY <1>0, <2>1 DEF Parts, Wanted
  <2> DEFINE body == d[<<204>>]
  <2>3. Len(body) = 3
    BY DEF IsDevice
  <2>4. body[1] = 204 /\ body[2] = a + 1 /\ body[3] = v + 6
    BY <2>2 DEF Said
  <2>5. body # <<>>
    BY <2>3
  <2> HIDE DEF body
  <2>6. AmbientVolume(v + 6) = v
    <3>1. v \in Int /\ -3 <= v /\ v <= 3 /\ (v + 6) - AMBIENT_VOLUME_OFFSET = v
      BY DEF AMBIENT_VOLUME_OFFSET
    <3>2. v >= 0 => v % 256 = v
      BY <3>1
    <3>3. v < 0 => v % 256 = v + 256
      BY <3>1
    <3> QED BY <3>1, <3>2, <3>3 DEF AmbientVolume
  <2>7. a + 1 \in 1..Len(NoiseMode)
    BY DEF NoiseMode
  <2>8. Response(body) = Note("Noise", <<(a + 1) - 1, v>>)
    BY <2>3, <2>4, <2>6, <2>7 DEF Response
  <2>9. (a + 1) - 1 = a
    OBVIOUS
  <2>10. Tell(d, <<204>>) = Response(body)
    BY <2>5, ResponseParsed DEF Tell, body
  <2> QED BY <2>1, <2>8, <2>9, <2>10
<1>2. Tell(d, <<201>>) = Note("Name", m["Name"])
  <2>1. PICK name \in Seq(Byte) : m["Name"] = name /\ Lossy(name) = name
    BY <1>0 DEF Kinds, Values
  <2>2. PICK body : body = d[<<201>>] /\ body = <<201>> \o name
    <3>1. Said(d, "name") = Wanted(m, "name")
      BY <1>0 DEF Parts
    <3>2. d[<<201>>] = <<201>> \o m["Name"]
      BY <3>1 DEF Wanted, Said
    <3> QED BY <2>1, <3>2
  <2>3. body[1] = 201 /\ Tail(body) = name /\ Len(body) = 1 + Len(name)
    <3>1. 201 \in Byte
      BY SmallIsByte
    <3> QED BY <2>2, <3>1, Prefixed
  <2>4. body # <<>>
    <3>1. Len(name) \in Nat
      BY LenProperties
    <3> QED BY <2>3, <3>1
  <2>5. 201 \notin DOMAIN OneByteReport
    BY DEF OneByteReport
  <2>6. Response(body) = Note("Name", Lossy(Tail(body)))
    BY <2>3, <2>5 DEF Response
  <2> QED BY <2>1, <2>2, <2>3, <2>4, <2>6, ResponseParsed, ZenonT(30) DEF Tell
<1>3. Tell(d, <<213>>) = Note("SoundEffect", m["SoundEffect"])
  <2>1. PICK i \in 0..3 : m["SoundEffect"] = <<i>>
    BY <1>0 DEF Kinds, Values
  <2>2. d[<<213>>] = <<213, i>>
    BY <1>0, <2>1, SMTT(30) DEF Parts, Wanted, Said
  <2>3. 213 \in DOMAIN OneByteReport /\ OneByteReport[213] = "SoundEffect"
    BY DEF OneByteReport
  <2>4. InRange("SoundEffect", i) /\ OneByteValue("SoundEffect", i) = i
    BY DEF InRange, OneByteValue, SoundEffect
  <2> QED BY <2>1, <2>2, <2>3, <2>4, ReportSays DEF Tell
<1>4. Tell(d, <<8>>) = Note("GameMode", m["GameMode"])
  <2>1. PICK i \in {0, 1} : m["GameMode"] = <<i>>
    BY <1>0 DEF Kinds, Values, Flag
  <2>2. d[<<8>>] = <<8, i>>
    BY <1>0, <2>1 DEF Parts, Wanted, Said
  <2>3. 8 \in DOMAIN OneByteReport /\ OneByteReport[8] = "GameMode"
    BY DEF OneByteReport
  <2>4. InRange("GameMode", i) /\ OneByteValue("GameMode", i) = i
    BY DEF InRange, OneByteValue
  <2> QED BY <2>1, <2>2, <2>3, <2>4, ReportSays DEF Tell
<1>5. Tell(d, <<240, 10>>) = Note("ControlSettings", m["ControlSettings"])
  <2>1. PICK x \in {0, 1}, y \in {0, 1}, z \in {0, 1} : m["ControlSettings"] = <<x, y, z>>
    BY <1>0 DEF Kinds, Values, Flag
  <2>2. PICK b : b = x + 2 * y + 4 * z
    OBVIOUS
  <2>3. PICK body : body = d[<<240, 10>>] /\ body = <<240, 10, b>>
    <3>1. Said(d, "controls") = Wanted(m, "controls")
      BY <1>0 DEF Parts
    <3>2. d[<<240, 10>>] = <<240, 10, mask(m["ControlSettings"])>>
      BY <3>1 DEF Wanted, Said
    <3>3. mask(m["ControlSettings"]) = b
      BY <2>1, <2>2 DEF mask
    <3> QED BY <3>2, <3>3
  <2>4. body # <<>> /\ Len(body) = 3 /\ body[1] = 240 /\ body[2] = 10 /\ body[3] = b
    BY <2>3
  <2>5. Response(body) = Note("ControlSettings", from_mask(b))
    BY <2>4 DEF Response
  <2>6. b % 2 = x /\ (b \div 2) % 2 = y /\ (b \div 4) % 2 = z
    BY <2>2
  <2>7. from_mask(b) = <<x, y, z>>
    BY <2>6 DEF from_mask
  <2> QED BY <2>1, <2>3, <2>4, <2>5, <2>7, ResponseParsed DEF Tell
<1>6. Tell(d, <<72>>) = Note("Ldac", m["Ldac"])
  <2>1. PICK i \in 0..2 : m["Ldac"] = <<i>>
    BY <1>0 DEF Kinds, Values
  <2>2. d[<<72>>] = <<72, i>>
    BY <1>0, <2>1, SMTT(30) DEF Parts, Wanted, Said
  <2>3. 72 \in DOMAIN OneByteReport /\ OneByteReport[72] = "Ldac"
    BY DEF OneByteReport
  <2>4. InRange("Ldac", i) /\ OneByteValue("Ldac", i) = i
    BY DEF InRange, OneByteValue, LdacMode
  <2> QED BY <2>1, <2>2, <2>3, <2>4, ReportSays DEF Tell
<1>7. Tell(d, <<5>>) = Note("PromptVolume", m["PromptVolume"])
  <2>1. PICK i \in Byte : m["PromptVolume"] = <<i>>
    BY <1>0 DEF Kinds, Values
  <2>2. d[<<5>>] = <<5, i>>
    BY <1>0, <2>1 DEF Parts, Wanted, Said
  <2>3. 5 \in DOMAIN OneByteReport /\ OneByteReport[5] = "PromptVolume"
    BY DEF OneByteReport
  <2>4. InRange("PromptVolume", i) /\ OneByteValue("PromptVolume", i) = i
    BY DEF InRange, OneByteValue
  <2> QED BY <2>1, <2>2, <2>3, <2>4, ReportSays DEF Tell
<1>8. Tell(d, <<215>>) = Note("AutoPowerOff", m["AutoPowerOff"])
  <2>1. PICK i \in {0, 1} : m["AutoPowerOff"] = <<i>>
    BY <1>0 DEF Kinds, Values, Flag
  <2>2. d[<<215>>] = <<215, i>>
    BY <1>0, <2>1 DEF Parts, Wanted, Said
  <2>3. 215 \in DOMAIN OneByteReport /\ OneByteReport[215] = "AutoPowerOff"
    BY DEF OneByteReport
  <2>4. InRange("AutoPowerOff", i) /\ OneByteValue("AutoPowerOff", i) = i
    BY DEF InRange, OneByteValue
  <2> QED BY <2>1, <2>2, <2>3, <2>4, ReportSays DEF Tell
<1>9. ASSUME "ShutdownTimer" \in DOMAIN m
      PROVE  Tell(d, <<211>>) = Note("ShutdownTimer", m["ShutdownTimer"])
  <2>1. PICK v \in Byte : m["ShutdownTimer"] = <<v>>
    BY <1>9, MeaningHas DEF Values
  <2>2. PICK body : body = d[<<211>>] /\ body = <<211, 0, v>>
    <3>1. Said(d, "timer") = Wanted(m, "timer")
      BY <1>0 DEF Parts
    <3>2. d[<<211>>] = <<211, 0, m["ShutdownTimer"][1]>>
      BY <1>9, <3>1 DEF Wanted, Said
    <3> QED BY <2>1, <3>2
  <2>3. body # <<>> /\ Len(body) = 3 /\ body[1] = 211 /\ body[3] = v
    BY <2>2
  <2>4. Response(body) = Note("ShutdownTimer", <<v>>)
    BY <2>3 DEF Response
  <2> QED BY <2>1, <2>2, <2>3, <2>4, ResponseParsed DEF Tell
<1>10. ASSUME "ShutdownTimerEnabled" \in DOMAIN m
       PROVE  Tell(d, <<211>>) = Note("ShutdownTimerEnabled", m["ShutdownTimerEnabled"])
  <2>1. m["ShutdownTimerEnabled"] = <<0>>
    BY <1>10, MeaningHas DEF Values
  <2>2. "ShutdownTimer" \notin DOMAIN m
    BY <1>10, MeaningHas DEF Kinds
  <2>3. d[<<211>>] = <<211, 0>>
    BY <1>0, <2>2 DEF Parts, Wanted, Said
  <2>4. 211 \in DOMAIN OneByteReport /\ OneByteReport[211] = "ShutdownTimerEnabled"
    BY DEF OneByteReport
  <2>5. InRange("ShutdownTimerEnabled", 0) /\ OneByteValue("ShutdownTimerEnabled", 0) = 0
    BY DEF InRange, OneByteValue
  <2> QED BY <2>1, <2>3, <2>4, <2>5, ReportSays DEF Tell
<1>11. Tell(d, <<208>>).kind = "Battery" /\ Tell(d, <<200>>).kind = "Mac" /\ Tell(d, <<198>>).kind = "Firmware"
  <2>1. <<d[<<208>>], d[<<200>>], d[<<198>>]>> = << <<208, 77>>, <<200, 1, 2, 3, 4, 5, 6>>, <<198, 3, 0, 2>> >>
    <3>1. Said(d, "identity") = Wanted(m, "identity")
      BY <1>0 DEF Parts
    <3> QED BY <3>1 DEF Wanted, Said
  <2>2. d[<<208>>] = <<208, 77>> /\ d[<<200>>] = <<200, 1, 2, 3, 4, 5, 6>> /\ d[<<198>>] = <<198, 3, 0, 2>>
    BY <2>1
  <2>3. Tell(d, <<208>>).kind = "Battery"
    <3>1. 208 \in DOMAIN OneByteReport /\ OneByteReport[208] = "Battery"
      BY DEF OneByteReport
    <3>2. InRange("Battery", 77)
      BY DEF InRange
    <3>3. parse_notification(RX_HEAD_BB, <<208, 77>>)
             = Note(OneByteReport[208], <<OneByteValue(OneByteReport[208], 77)>>)
      BY <3>1, <3>2, ReportSays
    <3>4. Tell(d, <<208>>) = Note("Battery", <<OneByteValue("Battery", 77)>>)
      BY <2>2, <3>1, <3>3 DEF Tell
    <3> QED BY <3>4 DEF Note
  <2>4. Tell(d, <<200>>).kind = "Mac"
    <3>1. PICK body : body = d[<<200>>] /\ body = <<200, 1, 2, 3, 4, 5, 6>>
      BY <2>2
    <3>2. body # <<>> /\ Len(body) = 7 /\ body[1] = 200
      BY <3>1
    <3>3. Response(body).kind = "Mac"
      BY <3>2 DEF Response, Note
    <3> QED BY <3>1, <3>2, <3>3, ResponseParsed, SMTT(30) DEF Tell
  <2>5. Tell(d, <<198>>).kind = "Firmware"
    <3>1. PICK body : body = d[<<198>>] /\ body = <<198, 3, 0, 2>>
      BY <2>2
    <3>2. body # <<>> /\ Len(body) = 4 /\ body[1] = 198
      BY <3>1
    <3>3. Response(body) = Note("Firmware", Tail(body))
      BY <3>2 DEF Response
    <3>4. Tell(d, <<198>>) = Response(body)
      BY <3>1, <3>2, ResponseParsed DEF Tell
    <3> QED BY <3>3, <3>4 DEF Note
  <2> QED BY <2>3, <2>4, <2>5
<1>12. ASSUME NEW kind \in DOMAIN m
       PROVE  Tell(d, AskFor(kind)) = Note(kind, m[kind])
  <2>1. kind \in Kinds \union {"ShutdownTimer", "ShutdownTimerEnabled"}
    BY MeaningHas
  <2>2. \/ kind \in {"Noise", "Name", "SoundEffect", "GameMode"}
        \/ kind \in {"ControlSettings", "Ldac", "PromptVolume", "AutoPowerOff"}
        \/ kind = "ShutdownTimer" \/ kind = "ShutdownTimerEnabled"
    BY <2>1 DEF Kinds
  <2>3. CASE kind \in {"Noise", "Name", "SoundEffect", "GameMode"}
    BY <1>1, <1>2, <1>3, <1>4, <2>3 DEF AskFor
  <2>4. CASE kind \in {"ControlSettings", "Ldac", "PromptVolume", "AutoPowerOff"}
    BY <1>5, <1>6, <1>7, <1>8, <2>4 DEF AskFor
  <2>5. CASE kind = "ShutdownTimer"
    BY <1>9, <2>5 DEF AskFor
  <2>6. CASE kind = "ShutdownTimerEnabled"
    BY <1>10, <2>6 DEF AskFor
  <2> QED BY <2>2, <2>3, <2>4, <2>5, <2>6
<1> QED BY <1>11, <1>12

\* Two elements, one after the other, and what is left of short sequences.
LEMMA Shorter ==
    /\ \A x, y \in Int : <<x>> \o <<y>> = <<x, y>>
    /\ \A x \in Int : <<x>> \o <<>> = <<x>> /\ Tail(<<x>>) = <<>>
    /\ \A x, y \in Int : Tail(<<x, y>>) = <<y>>
<1>1. ASSUME NEW x \in Int, NEW y \in Int
      PROVE  <<x>> \o <<y>> = <<x, y>>
  <2> DEFINE s == <<x>> \o <<y>>
             t == <<x, y>>
  <2>1. s \in Seq(Int) /\ Len(s) = 2 /\ s[1] = x /\ s[2] = y
    OBVIOUS
  <2>2. t \in Seq(Int) /\ Len(t) = 2 /\ t[1] = x /\ t[2] = y
    OBVIOUS
  <2> HIDE DEF s, t
  <2>3. Len(s) = Len(t) /\ \A i \in 1..Len(s) : s[i] = t[i]
    <3>1. \A i \in 1..2 : i = 1 \/ i = 2
      OBVIOUS
    <3>2. s[1] = t[1] /\ s[2] = t[2] /\ Len(s) = 2 /\ Len(t) = 2
      BY <2>1, <2>2
    <3> QED BY <3>1, <3>2
  <2>4. s = t
    BY <2>1, <2>2, <2>3, SeqEqual
  <2> QED BY <2>4 DEF s, t
<1>2. ASSUME NEW x \in Int
      PROVE  <<x>> \o <<>> = <<x>> /\ Tail(<<x>>) = <<>>
  <2>1. <<x>> \in Seq(Int) /\ Len(<<x>>) = 1
    OBVIOUS
  <2>2. <<x>> \o <<>> = <<x>>
    BY <2>1, ConcatEmptySeq
  <2>3. Tail(<<x>>) = <<>>
    BY <2>1, HeadTailProperties
  <2> QED BY <2>2, <2>3
<1>3. ASSUME NEW x \in Int, NEW y \in Int
      PROVE  Tail(<<x, y>>) = <<y>>
  <2> DEFINE s == Tail(<<x, y>>)
             t == <<y>>
  <2>1. s \in Seq(Int) /\ Len(s) = 1 /\ s[1] = y
    OBVIOUS
  <2>2. t \in Seq(Int) /\ Len(t) = 1 /\ t[1] = y
    OBVIOUS
  <2> HIDE DEF s, t
  <2>3. Len(s) = Len(t) /\ \A i \in 1..Len(s) : s[i] = t[i]
    <3>1. \A i \in 1..1 : i = 1
      OBVIOUS
    <3>2. s[1] = t[1] /\ Len(s) = 1 /\ Len(t) = 1
      BY <2>1, <2>2
    <3> QED BY <3>1, <3>2
  <2>4. s = t
    BY <2>1, <2>2, <2>3, SeqEqual
  <2> QED BY <2>4 DEF s, t
<1> QED BY <1>1, <1>2, <1>3

\* A value of an enumeration that is shown is read again as what it was.
LEMMA WordAgain ==
    ASSUME NEW op \in DOMAIN Words, NEW i \in 0..(Len(Words[op]) - 1), NEW json,
           json = [op |-> op, word |-> Words[op][i + 1], arg |-> <<>>]
    PROVE  Readable(json) /\ to_command(json).arg = <<i>>
<1> DEFINE c == Cmd(op, <<i>>)
<1>1. c.op = op /\ c.arg = <<i>> /\ c.arg[1] = i /\ c = [op |-> c.op, arg |-> c.arg]
  BY DEF Cmd
<1>2. op \in DOMAIN Opcode
  BY WordsType DEF Opcode
<1> HIDE DEF c
<1>3. IsCommand(c)
  BY <1>1, <1>2 DEF IsCommand, Held
<1>4. from_command(c) = json
  BY <1>1 DEF from_command
<1> QED BY <1>1, <1>3, <1>4, JsonRoundTrips

\* Whatever was asked for may be written again as it is shown.
LEMMA WrittenAgain ==
    ASSUME NEW m \in Meaning, NEW kind \in DOMAIN m
    PROVE  Again(kind, from_notification(Note(kind, m[kind]))) = m[kind]
<1> DEFINE note == Note(kind, m[kind])
           json == from_notification(note)
<1>0. note.kind = kind /\ note.value = m[kind]
  BY DEF Note
<1>1. DOMAIN VariantNames = {"Noise", "SoundEffect", "Ldac"}
  BY DEF VariantNames
<1>2. kind \in Kinds \union {"ShutdownTimer", "ShutdownTimerEnabled"}
  BY MeaningHas
<1> HIDE DEF note
<1>3. ASSUME NEW op \in DOMAIN Words, NEW i \in 0..(Len(Words[op]) - 1), NEW rest,
             kind \in DOMAIN VariantNames, VariantNames[kind] = Words[op],
             [Noise |-> "SetNoiseMode", SoundEffect |-> "SetSoundEffect", Ldac |-> "SetLdac"][kind] = op,
             m[kind][1] = i, Tail(m[kind]) = rest
      PROVE  Again(kind, json) = <<i>> \o rest
  <2>0. kind \notin {"Mac", "Firmware", "Ack", "Unknown"}
    BY <1>1, <1>3
  <2>1. json = [word |-> VariantNames[note.kind][note.value[1] + 1], value |-> Tail(note.value)]
    BY <1>0, <1>3, <2>0 DEF from_notification
  <2>2. json.word = Words[op][i + 1] /\ json.value = rest
    <3>1. json.word = VariantNames[note.kind][note.value[1] + 1] /\ json.value = Tail(note.value)
      BY <2>1
    <3> HIDE DEF json
    <3> QED BY <1>0, <1>3, <3>1
  <2> HIDE DEF json
  <2> DEFINE again == [op |-> op, word |-> json.word, arg |-> <<>>]
  <2>3. Readable(again) /\ to_command(again).arg = <<i>>
    BY <2>2, WordAgain
  <2> HIDE DEF again
  <2>4. kind \in {"Noise", "SoundEffect", "Ldac"}
    BY <1>1, <1>3
  <2> QED BY <1>3, <2>2, <2>3, <2>4 DEF Again, again
<1>4. CASE kind = "Noise"
  <2>1. PICK a \in 0..2, v \in -3..3 : m[kind] = <<a, v>>
    BY <1>4, MeaningHas DEF Kinds, Values
  <2>2. "SetNoiseMode" \in DOMAIN Words /\ VariantNames["Noise"] = Words["SetNoiseMode"]
    BY DEF VariantNames, Words
  <2>3. a \in 0..(Len(Words["SetNoiseMode"]) - 1)
    BY WordsType
  <2>4. Tail(m[kind]) = <<v>> /\ <<a>> \o <<v>> = m[kind] /\ m[kind][1] = a
    BY <2>1, Shorter
  <2>5. Again(kind, json) = <<a>> \o <<v>>
    BY <1>1, <1>3, <1>4, <2>2, <2>3, <2>4
  <2> QED BY <2>4, <2>5 DEF note
<1>5. ASSUME NEW op \in DOMAIN Words, NEW i \in 0..(Len(Words[op]) - 1),
             kind \in DOMAIN VariantNames, VariantNames[kind] = Words[op],
             [Noise |-> "SetNoiseMode", SoundEffect |-> "SetSoundEffect", Ldac |-> "SetLdac"][kind] = op,
             m[kind] = <<i>>
      PROVE  Again(kind, json) = m[kind]
  <2>1. i \in Int
    BY <1>5, WordsType
  <2>2. m[kind][1] = i /\ Tail(m[kind]) = <<>> /\ <<i>> \o <<>> = m[kind]
    BY <1>5, <2>1, Shorter
  <2>3. Again(kind, json) = <<i>> \o <<>>
    BY <1>3, <1>5, <2>2
  <2> QED BY <2>2, <2>3
<1>6. CASE kind = "SoundEffect"
  <2>1. PICK i \in 0..3 : m[kind] = <<i>>
    BY <1>6, MeaningHas DEF Kinds, Values
  <2>2. "SetSoundEffect" \in DOMAIN Words /\ VariantNames["SoundEffect"] = Words["SetSoundEffect"]
    BY DEF VariantNames, Words
  <2>3. i \in 0..(Len(Words["SetSoundEffect"]) - 1)
    BY WordsType
  <2>4. Again(kind, json) = m[kind]
    BY <1>1, <1>5, <1>6, <2>1, <2>2, <2>3
  <2> QED BY <2>4 DEF note
<1>7. CASE kind = "Ldac"
  <2>1. PICK i \in 0..2 : m[kind] = <<i>>
    BY <1>7, MeaningHas DEF Kinds, Values
  <2>2. "SetLdac" \in DOMAIN Words /\ VariantNames["Ldac"] = Words["SetLdac"]
    BY DEF VariantNames, Words, LdacMode
  <2>3. i \in 0..(Len(Words["SetLdac"]) - 1)
    BY WordsType
  <2>4. Again(kind, json) = m[kind]
    BY <1>1, <1>5, <1>7, <2>1, <2>2, <2>3
  <2> QED BY <2>4 DEF note
<1>8. CASE kind \notin {"Noise", "SoundEffect", "Ldac"}
  <2>1. kind \notin {"Mac", "Firmware", "Ack", "Unknown"}
    BY <1>2 DEF Kinds
  <2>2. json = [word |-> "", value |-> note.value]
    <3>1. note.kind \notin DOMAIN VariantNames /\ note.kind \notin {"Mac", "Firmware", "Ack", "Unknown"}
      BY <1>0, <1>1, <1>8, <2>1
    <3> QED BY ONLY <3>1 DEF from_notification
  <2> HIDE DEF json
  <2>3. json.value = m[kind]
    BY <1>0, <2>2
  <2>4. Again(kind, json) = m[kind]
    BY <1>8, <2>3 DEF Again
  <2> QED BY <2>4 DEF note, json
<1> QED BY <1>4, <1>6, <1>7, <1>8

\* A query is a command the headset answers, and nothing is set by it.
LEMMA QuerySpeaks ==
    ASSUME NEW op \in Queries
    PROVE  /\ Speakable(Cmd(op, <<>>))
           /\ to_body(Cmd(op, <<>>)) = Opcode[op]
           /\ Opcode[op] \in Queried
<1> DEFINE q == Cmd(op, <<>>)
<1>1. q \in Command /\ q.op = op /\ q.arg = <<>>
  BY QueryIsCommand DEF Cmd
<1> HIDE DEF q
<1>2. Argument(q) = <<>>
  BY <1>1 DEF Argument, Queries
<1>3. op \in DOMAIN Opcode
  BY <1>1, CommandMembers DEF IsCommand
<1>4. PICK body \in Seq(Byte) : body = Opcode[op]
  BY <1>3, OpcodeType
<1>5. to_body(q) = body
  <2>1. to_body(q) = body \o <<>>
    BY <1>1, <1>2, <1>4 DEF to_body
  <2> QED BY <1>4, <2>1, ConcatEmptySeq
<1>6. body \in Queried
  <2> DEFINE Asked_(o) == Opcode[o] \in Queried
  <2>1. /\ Opcode["QueryBattery"] = <<208>> /\ Opcode["QueryMac"] = <<200>>
        /\ Opcode["QueryFirmware"] = <<198>> /\ Opcode["QueryNoise"] = <<204>>
        /\ Opcode["QueryName"] = <<201>> /\ Opcode["QuerySoundEffect"] = <<213>>
        /\ Opcode["QueryGameMode"] = <<8>> /\ Opcode["QueryControlSettings"] = <<240, 10>>
        /\ Opcode["QueryLdac"] = <<72>> /\ Opcode["QueryPromptVolume"] = <<5>>
        /\ Opcode["QueryShutdownTimer"] = <<211>> /\ Opcode["QueryAutoPowerOff"] = <<215>>
    BY DEF Opcode
  <2>2. /\ <<208>> \in Queried /\ <<200>> \in Queried /\ <<198>> \in Queried
        /\ <<204>> \in Queried /\ <<201>> \in Queried /\ <<213>> \in Queried
        /\ <<8>> \in Queried /\ <<240, 10>> \in Queried /\ <<72>> \in Queried
        /\ <<5>> \in Queried /\ <<211>> \in Queried /\ <<215>> \in Queried
    BY DEF Queried
  <2>3. /\ Asked_("QueryBattery") /\ Asked_("QueryMac") /\ Asked_("QueryFirmware")
        /\ Asked_("QueryNoise") /\ Asked_("QueryName") /\ Asked_("QuerySoundEffect")
        /\ Asked_("QueryGameMode") /\ Asked_("QueryControlSettings") /\ Asked_("QueryLdac")
        /\ Asked_("QueryPromptVolume") /\ Asked_("QueryShutdownTimer") /\ Asked_("QueryAutoPowerOff")
    BY <2>1, <2>2
  <2> HIDE DEF Asked_
  <2>4. Asked_(op)
    BY <2>3, Zenon DEF Queries
  <2> QED BY <1>4, <2>4 DEF Asked_
<1>7. Len(body) \in {1, 2}
  BY <1>3, <1>4, OpcodeStart DEF Queries
<1>8. body \in Reply
  <2>1. Len(body) >= 1 /\ Len(body) <= 255
    <3>1. PICK n \in {1, 2} : n = Len(body)
      BY <1>7
    <3>2. n >= 1 /\ n <= 255
      OBVIOUS
    <3> QED BY <3>1, <3>2
  <2> QED BY <1>4, <2>1 DEF Reply
<1>9. Encodable(q)
  <2>1. Len(to_body(q)) <= 255
    BY <1>5, <1>8 DEF Reply
  <2>2. q.op # "SetAmbientVolume"
    BY <1>1 DEF Queries
  <2> QED BY <2>1, <2>2 DEF Encodable
<1> QED BY <1>1, <1>4, <1>5, <1>6, <1>8, <1>9 DEF Speakable, q

LEMMA QuerySetsNothing ==
    ASSUME NEW d, NEW body \in Queried
    PROVE  Executed(d, body) = d
<1>1. body[1] \in {204, 201, 213, 8, 240, 72, 5, 211, 215, 208, 200, 198}
  BY DEF Queried
<1>2. PICK x : x = body[1]
  OBVIOUS
<1>3. x \notin {193, 196, 241, 73, 9, 6, 209, 210, 214, 202}
  BY <1>1, <1>2
<1> QED BY <1>2, <1>3 DEF Executed

\* The steps of a readout are told apart by the query they ask with.
LEMMA StepsDiffer ==
    \A i, j \in 1..9 : i > j => ReadoutStep[i][1] # ReadoutStep[j][1]
<1> SUFFICES ASSUME NEW i \in 1..9, NEW j \in 1..9, i > j
             PROVE  ReadoutStep[i][1] # ReadoutStep[j][1]
  OBVIOUS
<1> DEFINE name(n) == ReadoutStep[n][1]
<1>1. /\ name(1) = "QueryNoise" /\ name(2) = "QueryName" /\ name(3) = "QuerySoundEffect"
      /\ name(4) = "QueryGameMode" /\ name(5) = "QueryControlSettings" /\ name(6) = "QueryLdac"
      /\ name(7) = "QueryPromptVolume" /\ name(8) = "QueryShutdownTimer"
      /\ name(9) = "QueryAutoPowerOff"
  BY DEF ReadoutStep
<1> HIDE DEF name
<1>2. \A n \in 1..9 : n \in {1, 2, 3, 4, 5, 6, 7, 8, 9}
  OBVIOUS
<1>3. name(i) # name(j)
  BY <1>1, <1>2
<1> QED BY <1>3 DEF name

\* The step that reads out a kind.
StepFor(kind) ==
    CASE kind = "Noise" -> 1 [] kind = "Name" -> 2 [] kind = "SoundEffect" -> 3
      [] kind = "GameMode" -> 4 [] kind = "ControlSettings" -> 5 [] kind = "Ldac" -> 6
      [] kind = "PromptVolume" -> 7 [] kind \in {"ShutdownTimer", "ShutdownTimerEnabled"} -> 8
      [] kind = "AutoPowerOff" -> 9

LEMMA StepAsks ==
    ASSUME NEW kind \in Kinds \union {"ShutdownTimer", "ShutdownTimerEnabled"},
           NEW profile, Visible(kind, profile)
    PROVE  /\ StepFor(kind) \in 1..9
           /\ \E f \in ReadoutStep[StepFor(kind)][2] : supports(profile, f)
           /\ Opcode[ReadoutStep[StepFor(kind)][1]] = AskFor(kind)
<1> DEFINE Right(j, f) ==
             /\ StepFor(kind) = j /\ j \in 1..9
             /\ f \in ReadoutStep[j][2] /\ supports(profile, f)
             /\ Opcode[ReadoutStep[j][1]] = AskFor(kind)
<1>0. SUFFICES \E j, f : Right(j, f)
  OBVIOUS
<1>1. CASE kind = "Noise"
  <2>1. supports(profile, "noise") \/ supports(profile, "ambient_sound")
    BY <1>1 DEF Visible, FeatureOf
  <2>2. StepFor(kind) = 1 /\ ReadoutStep[1][2] = {"ambient_sound", "noise"}
        /\ Opcode[ReadoutStep[1][1]] = AskFor(kind)
    BY <1>1 DEF StepFor, ReadoutStep, Opcode, AskFor
  <2>3. Right(1, "noise") \/ Right(1, "ambient_sound")
    BY <2>1, <2>2
  <2> QED BY <2>3
<1>2. ASSUME NEW j \in 1..9, NEW f, kind # "Noise", FeatureOf[kind] = f, StepFor(kind) = j,
             f \in ReadoutStep[j][2], Opcode[ReadoutStep[j][1]] = AskFor(kind)
      PROVE  \E i, g : Right(i, g)
  <2>1. supports(profile, f)
    BY <1>2 DEF Visible
  <2>2. Right(j, f)
    BY <1>2, <2>1
  <2> QED BY <2>2
<1> HIDE DEF Right
<1>3. CASE kind = "Name"
  <2>1. FeatureOf[kind] = "name" /\ StepFor(kind) = 2 /\ "name" \in ReadoutStep[2][2]
        /\ Opcode[ReadoutStep[2][1]] = AskFor(kind)
    BY <1>3 DEF FeatureOf, StepFor, ReadoutStep, Opcode, AskFor
  <2> QED BY <1>2, <1>3, <2>1
<1>4. CASE kind = "SoundEffect"
  <2>1. FeatureOf[kind] = "sound_effect" /\ StepFor(kind) = 3 /\ "sound_effect" \in ReadoutStep[3][2]
        /\ Opcode[ReadoutStep[3][1]] = AskFor(kind)
    BY <1>4 DEF FeatureOf, StepFor, ReadoutStep, Opcode, AskFor
  <2> QED BY <1>2, <1>4, <2>1
<1>5. CASE kind = "GameMode"
  <2>1. FeatureOf[kind] = "game_mode" /\ StepFor(kind) = 4 /\ "game_mode" \in ReadoutStep[4][2]
        /\ Opcode[ReadoutStep[4][1]] = AskFor(kind)
    BY <1>5 DEF FeatureOf, StepFor, ReadoutStep, Opcode, AskFor
  <2> QED BY <1>2, <1>5, <2>1
<1>6. CASE kind = "ControlSettings"
  <2>1. FeatureOf[kind] = "control_settings" /\ StepFor(kind) = 5 /\ "control_settings" \in ReadoutStep[5][2]
        /\ Opcode[ReadoutStep[5][1]] = AskFor(kind)
    BY <1>6 DEF FeatureOf, StepFor, ReadoutStep, Opcode, AskFor
  <2> QED BY <1>2, <1>6, <2>1
<1>7. CASE kind = "Ldac"
  <2>1. FeatureOf[kind] = "ldac" /\ StepFor(kind) = 6 /\ "ldac" \in ReadoutStep[6][2]
        /\ Opcode[ReadoutStep[6][1]] = AskFor(kind)
    BY <1>7 DEF FeatureOf, StepFor, ReadoutStep, Opcode, AskFor
  <2> QED BY <1>2, <1>7, <2>1
<1>8. CASE kind = "PromptVolume"
  <2>1. FeatureOf[kind] = "prompt_volume" /\ StepFor(kind) = 7 /\ "prompt_volume" \in ReadoutStep[7][2]
        /\ Opcode[ReadoutStep[7][1]] = AskFor(kind)
    BY <1>8 DEF FeatureOf, StepFor, ReadoutStep, Opcode, AskFor
  <2> QED BY <1>2, <1>8, <2>1
<1>9. CASE kind \in {"ShutdownTimer", "ShutdownTimerEnabled"}
  <2>1. FeatureOf[kind] = "shutdown_timer" /\ StepFor(kind) = 8 /\ "shutdown_timer" \in ReadoutStep[8][2]
        /\ Opcode[ReadoutStep[8][1]] = AskFor(kind)
    <3>1. FeatureOf[kind] = "shutdown_timer"
      BY <1>9 DEF FeatureOf
    <3>2. StepFor(kind) = 8 /\ AskFor(kind) = <<211>>
      BY <1>9 DEF StepFor, AskFor
    <3>3. "shutdown_timer" \in ReadoutStep[8][2] /\ Opcode[ReadoutStep[8][1]] = <<211>>
      BY DEF ReadoutStep, Opcode
    <3> QED BY <3>1, <3>2, <3>3
  <2> QED BY <1>2, <1>9, <2>1
<1>10. CASE kind = "AutoPowerOff"
  <2>1. FeatureOf[kind] = "auto_power_off" /\ StepFor(kind) = 9 /\ "auto_power_off" \in ReadoutStep[9][2]
        /\ Opcode[ReadoutStep[9][1]] = AskFor(kind)
    BY <1>10 DEF FeatureOf, StepFor, ReadoutStep, Opcode, AskFor
  <2> QED BY <1>2, <1>10, <2>1
<1> QED BY <1>1, <1>3, <1>4, <1>5, <1>6, <1>7, <1>8, <1>9, <1>10 DEF Kinds

\* A readout is a plan of queries, with the one for every kind the profile shows.
LEMMA ReadoutAsks ==
    ASSUME NEW profile \in Profile
    PROVE  /\ \A i \in 1..Len(readout_plan(profile)) :
                \E op \in Queries : readout_plan(profile)[i] = Cmd(op, <<>>)
           /\ \A kind \in Kinds \union {"ShutdownTimer", "ShutdownTimerEnabled"} :
                Visible(kind, profile) =>
                    \E i \in 1..Len(readout_plan(profile)) :
                        to_body(readout_plan(profile)[i]) = AskFor(kind)
<1> DEFINE V == ToSet(ReadoutStep)
           S == {s \in ToSet(ReadoutStep) : \E f \in s[2] : supports(profile, f)}
           visible == Kept(ReadoutStep, S)
           n == Len(visible)
           first == <<"QueryBattery", "QueryMac", "QueryFirmware">>
           name(i) == IF i <= 3 THEN first[i] ELSE visible[i - 3][1]
           query(i) == Cmd(name(i), <<>>)
           plan_ == readout_plan(profile)
<1>1. visible \in Seq(V \cap S)
  BY StepsAreQueries, KeptType
<1>2. n \in Nat /\ \A j \in 1..n : visible[j] \in V
  BY <1>1, LenProperties, ElementOfSeq
<1>3. plan_ = [i \in 1..(3 + n) |-> query(i)]
  <2> DEFINE at(i) == IF i <= 3 THEN Cmd(first[i], <<>>) ELSE Cmd(visible[i - 3][1], <<>>)
  <2>1. plan_ = [i \in 1..(3 + n) |-> at(i)]
    BY DEF readout_plan
  <2>2. \A i \in 1..(3 + n) : at(i) = query(i)
    OBVIOUS
  <2> HIDE DEF at, query, plan_, n
  <2> QED BY <2>1, <2>2
<1> HIDE DEF plan_, visible
<1>4. \A i \in 1..(3 + n) : name(i) \in Queries
  <2> SUFFICES ASSUME NEW i \in 1..(3 + n) PROVE name(i) \in Queries
    OBVIOUS
  <2>1. CASE i <= 3
    <3>1. i \in {1, 2, 3}
      BY <1>2, <2>1
    <3> QED BY <2>1, <3>1 DEF Queries
  <2>2. CASE ~(i <= 3)
    <3>1. i - 3 \in 1..n
      BY <1>2, <2>2
    <3> QED BY <1>2, <2>2, <3>1, StepsAreQueries
  <2> QED BY <2>1, <2>2
<1>5. Len(plan_) = 3 + n /\ \A i \in 1..(3 + n) : plan_[i] = query(i)
  <2> HIDE DEF query
  <2>1. 3 + n \in Nat
    BY <1>2
  <2> HIDE DEF n
  <2> QED BY <1>3, <2>1
<1>6. ASSUME NEW kind \in Kinds \union {"ShutdownTimer", "ShutdownTimerEnabled"},
             Visible(kind, profile)
      PROVE  \E i \in 1..Len(plan_) : to_body(plan_[i]) = AskFor(kind)
  <2>1. PICK k \in 1..9 : /\ k = StepFor(kind)
                          /\ \E f \in ReadoutStep[k][2] : supports(profile, f)
                          /\ Opcode[ReadoutStep[k][1]] = AskFor(kind)
    BY <1>6, StepAsks
  <2>2. PICK step : step = ReadoutStep[k]
    OBVIOUS
  <2>3. DOMAIN ReadoutStep = 1..9 /\ Len(ReadoutStep) = 9
    BY DEF ReadoutStep
  <2>4. step \in V /\ step \in S
    BY <2>1, <2>2, <2>3 DEF ToSet
  <2>5. Final(ReadoutStep, {step}, step)
    <3>1. \A i \in 1..9 : i > k => ReadoutStep[i] # step
      BY <2>2, StepsDiffer
    <3> QED BY <2>2, <2>3, <3>1 DEF Final
  <2>6. Final(visible, {step}, step)
    <3>1. ReadoutStep \in Seq(V) /\ V \cap {step} \subseteq S
      BY <2>4, StepsAreQueries
    <3> HIDE DEF V, S
    <3>2. Final(Kept(ReadoutStep, S), {step}, step)
      BY <2>5, <3>1, FinalKept
    <3> QED BY <3>2 DEF visible
  <2>7. PICK j \in 1..n : visible[j] = step
    BY <2>6 DEF Final
  <2>8. PICK i : i = j + 3 /\ i \in 1..(3 + n) /\ ~(i <= 3) /\ i - 3 = j
    BY <1>2, <2>7
  <2>9. name(i) = step[1]
    BY <2>7, <2>8
  <2>10. plan_[i] = Cmd(step[1], <<>>) /\ step[1] \in Queries
    BY <1>4, <1>5, <2>8, <2>9
  <2>11. to_body(plan_[i]) = AskFor(kind)
    BY <2>1, <2>2, <2>10, QuerySpeaks
  <2> QED BY <1>5, <2>8, <2>11
<1> QED BY <1>4, <1>5, <1>6 DEF plan_

-----------------------------------------------------------------------------
(***************************************************************************)
(* What the frames in a stream tell.                                       *)
(***************************************************************************)

\* The notification made of the frame that lies at t.
NoteOf(s, t) == parse_notification(s[t.from + 1], SubSeq(s, t.from + 3, t.to - 2))

\* A part of a sequence is what it says at its places.
LEMMA PartIs ==
    ASSUME NEW s \in Seq(Byte), NEW r \in Seq(Byte), NEW a \in Nat, a >= 1,
           a + Len(r) - 1 <= Len(s), \A i \in 1..Len(r) : s[(a - 1) + i] = r[i]
    PROVE  SubSeq(s, a, a + Len(r) - 1) = r
<1> DEFINE n == Len(r)
           b == a + n - 1
           part == SubSeq(s, a, b)
<1>1. PICK m \in Nat, l \in Nat : m = n /\ l = Len(s) /\ a + m - 1 <= l /\ b = a + m - 1
  BY LenProperties
<1>2. \A i \in a..b : s[i] \in Byte
  <2>1. \A i \in a..b : i \in 1..l
    BY <1>1
  <2> QED BY <1>1, <2>1, ElementOfSeq
<1>3. a \in Int /\ b \in Int /\ Len(s) \in Nat
  BY <1>1
<1>4. /\ part \in Seq(Byte)
      /\ Len(part) = IF a <= b THEN b - a + 1 ELSE 0
      /\ \A i \in 1..(b - a + 1) : part[i] = s[a + i - 1]
  <2> HIDE DEF b, n
  <2> QED BY <1>2, <1>3, SubSeqProperties
<1>5. b - a + 1 = m /\ (a <= b <=> m >= 1)
  BY <1>1
<1> HIDE DEF part, b, n
<1>6. Len(part) = m /\ \A i \in 1..m : part[i] = s[a + i - 1]
  BY <1>1, <1>4, <1>5
<1>7. \A i \in 1..m : part[i] = r[i]
  <2> SUFFICES ASSUME NEW i \in 1..m PROVE part[i] = r[i]
    OBVIOUS
  <2>1. a + i - 1 = (a - 1) + i
    BY <1>1
  <2>2. s[(a - 1) + i] = r[i]
    BY <1>1 DEF n
  <2> QED BY <1>6, <2>1, <2>2
<1>8. part = r
  <2>1. Len(part) = Len(r)
    BY <1>1, <1>6 DEF n
  <2>2. \A i \in 1..Len(part) : part[i] = r[i]
    BY <1>6, <1>7
  <2> QED BY <1>4, <2>1, <2>2, SeqEqual
<1> QED BY <1>8 DEF part, b, n

\* Whatever follows, a frame tells the same.
LEMMA NoteLonger ==
    ASSUME NEW s \in Seq(Byte), NEW x \in Seq(Byte), NEW t, Lies(s, t)
    PROVE  NoteOf(s \o x, t) = NoteOf(s, t)
<1> DEFINE u == s \o x
           r == SubSeq(s, t.from + 3, t.to - 2)
<1>1. /\ u \in Seq(Byte) /\ Len(u) = Len(s) + Len(x)
      /\ \A i \in 1..(Len(s) + Len(x)) : u[i] = IF i <= Len(s) THEN s[i] ELSE x[i - Len(s)]
  BY ConcatProperties
<1>2. PICK p \in Nat, e \in Nat, n \in Nat, m \in Nat :
        /\ p = t.from /\ e = t.to /\ n = Len(s) /\ m = Len(x)
        /\ p + 4 <= e /\ e <= n
  <2>1. /\ t.from \in Nat /\ t.to \in Nat /\ t.from + 4 <= t.to /\ t.to <= Len(s)
    BY LiesIsCut
  <2> QED BY <2>1, LenProperties
<1>0. p + 4 <= e /\ e <= n
  BY <1>2
<1> HIDE DEF u
<1>3. \A i \in 1..n : u[i] = s[i]
  <2> SUFFICES ASSUME NEW i \in 1..n PROVE u[i] = s[i]
    OBVIOUS
  <2>1. i \in 1..(n + m) /\ i <= n
    BY <1>2
  <2> QED BY <1>1, <1>2, <2>1
<1>4. u[p + 1] = s[p + 1]
  BY <1>2, <1>3
<1>5. /\ r \in Seq(Byte) /\ Len(r) = e - p - 4
      /\ \A i \in 1..(e - p - 4) : r[i] = s[(p + 3) + i - 1]
  <2>1. \A i \in (p + 3)..(e - 2) : s[i] \in Byte
    <3>1. \A i \in (p + 3)..(e - 2) : i \in 1..n
      BY <1>2, SMTT(30)
    <3> QED BY <1>2, <3>1, ElementOfSeq
  <2>2. p + 3 \in Int /\ e - 2 \in Int
    BY <1>2
  <2>3. PICK a \in Int, b \in Int : a = p + 3 /\ b = e - 2
    BY <2>2
  <2>4. r = SubSeq(s, a, b)
    BY <1>2, <2>3
  <2>5. /\ SubSeq(s, a, b) \in Seq(Byte)
        /\ Len(SubSeq(s, a, b)) = IF a <= b THEN b - a + 1 ELSE 0
        /\ \A i \in 1..(b - a + 1) : SubSeq(s, a, b)[i] = s[a + i - 1]
    BY <2>1, <2>3, SubSeqProperties
  <2>6. b - a + 1 = e - p - 4 /\ (a <= b \/ e - p - 4 = 0)
    BY <1>0, <2>3
  <2> HIDE DEF r
  <2> QED BY <2>3, <2>4, <2>5, <2>6
<1>6. SubSeq(u, t.from + 3, t.to - 2) = r
  <2>1. PICK k \in Nat : k = Len(r) /\ k = e - p - 4
    <3>1. e - p - 4 \in Nat
      BY <1>0
    <3> QED BY <1>5, <3>1
  <2> HIDE DEF r
  <2>0. k = e - p - 4
    BY <2>1
  <2>2. (p + 3) + k - 1 = e - 2 /\ p + 3 \in Nat /\ p + 3 >= 1 /\ (p + 3) + k - 1 <= n + m
    BY <1>0, <2>0
  <2>3. ASSUME NEW i \in 1..k
        PROVE  u[((p + 3) - 1) + i] = r[i]
    <3>1. PICK j \in 1..n : j = (p + 3) + i - 1 /\ j = ((p + 3) - 1) + i
      BY <1>0, <2>0
    <3> QED BY <1>3, <1>5, <2>1, <3>1
  <2>4. SubSeq(u, p + 3, (p + 3) + Len(r) - 1) = r
    <3>1. PICK a \in Nat : a = p + 3
      BY <2>2
    <3>2. a >= 1 /\ a + Len(r) - 1 <= Len(u) /\ \A i \in 1..Len(r) : u[(a - 1) + i] = r[i]
      BY <1>1, <1>2, <2>1, <2>2, <2>3, <3>1
    <3>3. SubSeq(u, a, a + Len(r) - 1) = r
      BY <1>1, <1>5, <3>2, PartIs
    <3> QED BY <3>1, <3>3
  <2> QED BY <1>2, <2>1, <2>2, <2>4
<1> QED BY <1>2, <1>4, <1>6 DEF NoteOf, u

\* A frame at the end of a stream tells what its body says.
LEMMA NoteAtTheEnd ==
    ASSUME NEW s \in Seq(Byte), NEW head, NEW reply \in Reply,
           NEW frame, IsFrame(frame, head, reply)
    PROVE  NoteOf(s \o frame, [from |-> Len(s), to |-> Len(s) + Len(frame)])
             = parse_notification(head, reply)
<1> DEFINE u == s \o frame
           t == [from |-> Len(s), to |-> Len(s) + Len(frame)]
<1>1. /\ frame \in Seq(Byte) /\ frame[1] = head /\ reply \in Seq(Byte)
      /\ Len(frame) = Len(reply) + 4
      /\ \A i \in 1..Len(reply) : frame[i + 2] = reply[i]
  BY DEF IsFrame, Reply, Overhead
<1>2. /\ u \in Seq(Byte) /\ Len(u) = Len(s) + Len(frame)
      /\ \A i \in 1..(Len(s) + Len(frame)) : u[i] = IF i <= Len(s) THEN s[i] ELSE frame[i - Len(s)]
  BY <1>1, ConcatProperties
<1>3. PICK n \in Nat, k \in Nat : n = Len(s) /\ k = Len(reply) /\ Len(frame) = k + 4
  BY <1>1, LenProperties
<1> HIDE DEF u
<1>4. ASSUME NEW i \in 1..(k + 4)
      PROVE  u[n + i] = frame[i]
  <2>1. n + i \in 1..(n + (k + 4)) /\ ~(n + i <= n) /\ (n + i) - n = i
    BY <1>3
  <2> QED BY <1>2, <1>3, <2>1
<1>5. u[n + 1] = head
  BY <1>1, <1>3, <1>4
<1>6. t.from = n /\ t.to = n + (k + 4) /\ t.from + 3 = n + 3 /\ t.to - 2 = n + k + 2
  BY <1>3
<1> HIDE DEF t
<1>7. SubSeq(u, n + 3, n + k + 2) = reply
  <2>1. PICK a \in Nat : a = n + 3 /\ a >= 1 /\ a + k - 1 = n + k + 2 /\ a + k - 1 <= n + (k + 4)
    BY <1>3
  <2>2. ASSUME NEW i \in 1..k
        PROVE  u[(a - 1) + i] = reply[i]
    <3>1. PICK j \in 1..(k + 4) : j = i + 2 /\ (a - 1) + i = n + j
      BY <1>3, <2>1
    <3> QED BY <1>1, <1>3, <1>4, <3>1
  <2>3. SubSeq(u, a, a + Len(reply) - 1) = reply
    <3>1. a + Len(reply) - 1 <= Len(u) /\ \A i \in 1..Len(reply) : u[(a - 1) + i] = reply[i]
      BY <1>2, <1>3, <2>1, <2>2
    <3> QED BY <1>1, <1>2, <2>1, <3>1, PartIs
  <2> QED BY <1>3, <2>1, <2>3
<1>8. NoteOf(u, t) = parse_notification(head, reply)
  <2>1. u[t.from + 1] = head
    BY <1>5, <1>6
  <2>2. SubSeq(u, t.from + 3, t.to - 2) = reply
    BY <1>6, <1>7
  <2> QED BY <2>1, <2>2 DEF NoteOf
<1> QED BY <1>8 DEF u, t

\* The answer to a query is a frame of what the headset remembers.
LEMMA AnswerTells ==
    ASSUME NEW d, IsDevice(d), NEW body \in Queried
    PROVE  d[body] \in Reply /\ IsFrame(Answer(d, body), RX_HEAD_BB, d[body])
<1>1. PICK reply \in Reply : reply = d[body] /\ body \in DOMAIN d
  BY DEF IsDevice
<1>2. Answer(d, body) = append_checksum(<<RX_HEAD_BB, Len(reply)>> \o reply)
  BY <1>1 DEF Answer
<1>3. reply \in Seq(Byte) /\ Len(reply) <= 255 /\ RX_HEAD_BB \in Byte
  BY SmallIsByte DEF Reply, RX_HEAD_BB
<1> QED BY <1>1, <1>2, <1>3, Sealed

\* What can be sent is heard.
LEMMA SpeakableHeard ==
    ASSUME NEW q, Speakable(q)
    PROVE  Encodable(q) /\ Accepts(encode_tx(to_body(q)))
<1>1. PICK body \in Reply : body = to_body(q)
  BY DEF Speakable
<1>2. body \in Seq(Byte) /\ Len(body) <= 255 /\ Len(body) >= 1
  BY DEF Reply
<1>3. /\ Len(encode_tx(body)) = Len(body) + Overhead /\ encode_tx(body)[1] = TX_HEAD
      /\ encode_tx(body)[2] = Len(body) /\ verify_checksum(encode_tx(body))
  BY <1>2, FramesAreSealed
<1>4. PICK n \in Nat : n = Len(body) /\ n >= 1
  BY <1>2, LenProperties
<1>5. encode_tx(body)[2] > 0
  BY <1>3, <1>4
<1> QED BY <1>1, <1>3, <1>5 DEF Accepts, Speakable

-----------------------------------------------------------------------------
(***************************************************************************)
(* What was asked for.  The plan leads the headset to what is meant; while *)
(* a readout runs it says so already, and nothing is sent but queries.     *)
(***************************************************************************)

Understood ==
    /\ meant \in Meaning
    /\ read = "none" => Leads(device, plan, meant) /\ \A i \in 1..Len(plan) : Speakable(plan[i])
    /\ read # "none" => /\ read \in Profile /\ Agree(device, meant)
                        /\ \A i \in 1..Len(plan) : \E op \in Queries : plan[i] = Cmd(op, <<>>)

LEMMA UnderstoodAtRest == Understood /\ plan = <<>> => Agree(device, meant)
BY NothingLeads DEF Understood

LEMMA NewIsMeant == NewMeaning \in Meaning /\ Agree(NewDevice, NewMeaning)
<1> DEFINE m == NewMeaning
           d == NewDevice
<1>1. /\ DOMAIN m = Kinds \union {"ShutdownTimerEnabled"}
      /\ m["Noise"] = <<0, 0>> /\ m["Name"] = <<194, 187, 2>> /\ m["SoundEffect"] = <<0>>
      /\ m["GameMode"] = <<0>> /\ m["ControlSettings"] = <<1, 1, 1>> /\ m["Ldac"] = <<0>>
      /\ m["PromptVolume"] = <<9>> /\ m["ShutdownTimerEnabled"] = <<0>> /\ m["AutoPowerOff"] = <<1>>
      /\ m = [kind \in DOMAIN m |-> m[kind]]
  BY DEF NewMeaning, Kinds
<1> HIDE DEF m
<1>2. <<194, 187, 2>> \in Values("Name")
  <2>1. <<194, 187, 2>> \in Seq(Byte)
    BY ShortSequences, SmallIsByte
  <2> DEFINE name == <<194, 187, 2>>
  <2>2. DOMAIN name = 1..3 /\ Len(name) = 3 /\ name[1] = 194 /\ name[2] = 187 /\ name[3] = 2
    OBVIOUS
  <2>3. name = [i \in 1..3 |-> name[i]]
    OBVIOUS
  <2> HIDE DEF name
  <2> DEFINE Whole(i) == \E first \in 1..i, last \in i..Len(name) :
                            last - first < 4 /\ IsCharacter(SubSeq(name, first, last))
  <2>4. name \in Seq(Byte)
    BY <2>1 DEF name
  <2>5. IsCharacter(SubSeq(name, 1, 2))
    <3>1. Len(SubSeq(name, 1, 2)) = 2 /\ \A i \in 1..2 : SubSeq(name, 1, 2)[i] = name[i]
      BY <2>2, <2>4
    <3>2. SubSeq(name, 1, 2)[1] = 194 /\ SubSeq(name, 1, 2)[2] = 187
      BY <2>2, <3>1
    <3> QED BY <3>1, <3>2 DEF IsCharacter, Following
  <2>6. IsCharacter(SubSeq(name, 3, 3))
    <3>1. Len(SubSeq(name, 3, 3)) = 1 /\ SubSeq(name, 3, 3)[1] = 2
      BY <2>2, <2>4
    <3> QED BY <3>1 DEF IsCharacter
  <2>7. \A i \in 1..3 : Whole(i)
    <3>1. ASSUME NEW i \in 1..2 PROVE Whole(i)
      BY <2>2, <2>5, 1 \in 1..i /\ 2 \in i..Len(name)
    <3>2. Whole(3)
      BY <2>2, <2>6, 3 \in 1..3 /\ 3 \in 3..Len(name)
    <3>3. \A i \in 1..3 : i \in 1..2 \/ i = 3
      OBVIOUS
    <3> QED BY <3>1, <3>2, <3>3
  <2>8. Lossy(name) = [i \in DOMAIN name |-> IF Whole(i) THEN name[i] ELSE 65533]
    BY DEF Lossy
  <2>9. Lossy(name) = name
    <3> HIDE DEF Whole
    <3> QED BY <2>2, <2>3, <2>7, <2>8
  <2> QED BY <2>1, <2>9 DEF Values, name
<1>3. \A kind \in DOMAIN m : m[kind] \in Values(kind)
  <2>1. m["Noise"] \in Values("Noise")
    BY <1>1 DEF Values
  <2>2. m["SoundEffect"] \in Values("SoundEffect") /\ m["Ldac"] \in Values("Ldac")
    BY <1>1 DEF Values
  <2>3. m["GameMode"] \in Values("GameMode") /\ m["AutoPowerOff"] \in Values("AutoPowerOff")
    BY <1>1 DEF Values, Flag
  <2>4. m["ControlSettings"] \in Values("ControlSettings")
    BY <1>1 DEF Values, Flag
  <2>5. m["PromptVolume"] \in Values("PromptVolume")
    <3>1. 9 \in Byte
      BY SmallIsByte
    <3> QED BY <1>1, <3>1 DEF Values
  <2>6. m["ShutdownTimerEnabled"] \in Values("ShutdownTimerEnabled")
    BY <1>1 DEF Values
  <2> QED BY <1>1, <1>2, <2>1, <2>2, <2>3, <2>4, <2>5, <2>6 DEF Kinds
<1>4. m \in Meaning
  <2>1. DOMAIN m \subseteq Kinds \union {"ShutdownTimer", "ShutdownTimerEnabled"}
    BY <1>1
  <2>2. \A kind \in DOMAIN m : m[kind] \in Value
    BY <1>3, <2>1 DEF Value
  <2>3. m \in [Kinds \union {"ShutdownTimerEnabled"} -> Value]
    BY <1>1, <2>2
  <2> QED BY <1>3, <2>3 DEF Meaning
<1>5. "ShutdownTimer" \notin DOMAIN m
  BY <1>1 DEF Kinds
<1>6. /\ d[<<204>>] = <<204, 1, 6>> /\ d[<<201>>] = <<201, 194, 187, 2>> /\ d[<<213>>] = <<213, 0>>
      /\ d[<<8>>] = <<8, 0>> /\ d[<<240, 10>>] = <<240, 10, 7>> /\ d[<<72>>] = <<72, 0>>
      /\ d[<<5>>] = <<5, 9>> /\ d[<<211>>] = <<211, 0>> /\ d[<<215>>] = <<215, 1>>
      /\ d[<<208>>] = <<208, 77>> /\ d[<<200>>] = <<200, 1, 2, 3, 4, 5, 6>> /\ d[<<198>>] = <<198, 3, 0, 2>>
  <2> DEFINE answer(ask) == CASE ask = <<204>> -> <<204, 1, 6>>
                              [] ask = <<201>> -> <<201, 194, 187, 2>>
                              [] ask = <<240, 10>> -> <<240, 10, 7>>
                              [] ask = <<5>> -> <<5, 9>>
                              [] ask = <<215>> -> <<215, 1>>
                              [] ask = <<208>> -> <<208, 77>>
                              [] ask = <<200>> -> <<200, 1, 2, 3, 4, 5, 6>>
                              [] ask = <<198>> -> <<198, 3, 0, 2>>
                              [] OTHER -> <<ask[1], 0>>
  <2>1. d = [ask \in Queried |-> answer(ask)]
    BY DEF NewDevice
  <2>2. answer(<<204>>) = <<204, 1, 6>>
    OBVIOUS
  <2>3. answer(<<201>>) = <<201, 194, 187, 2>>
    OBVIOUS
  <2>4. answer(<<240, 10>>) = <<240, 10, 7>>
    OBVIOUS
  <2>5. answer(<<5>>) = <<5, 9>>
    OBVIOUS
  <2>6. answer(<<215>>) = <<215, 1>>
    OBVIOUS
  <2>7. answer(<<208>>) = <<208, 77>>
    OBVIOUS
  <2>8. answer(<<200>>) = <<200, 1, 2, 3, 4, 5, 6>>
    OBVIOUS
  <2>9. answer(<<198>>) = <<198, 3, 0, 2>>
    OBVIOUS
  <2>10. ASSUME NEW b \in {213, 8, 72, 211} PROVE answer(<<b>>) = <<b, 0>>
    BY QueriesDiffer
  <2>11. /\ <<204>> \in Queried /\ <<201>> \in Queried /\ <<213>> \in Queried /\ <<8>> \in Queried
         /\ <<240, 10>> \in Queried /\ <<72>> \in Queried /\ <<5>> \in Queried /\ <<211>> \in Queried
         /\ <<215>> \in Queried /\ <<208>> \in Queried /\ <<200>> \in Queried /\ <<198>> \in Queried
    BY DEF Queried
  <2>12. answer(<<213>>) = <<213, 0>> /\ answer(<<8>>) = <<8, 0>> /\ answer(<<72>>) = <<72, 0>>
         /\ answer(<<211>>) = <<211, 0>>
    BY <2>10
  <2> HIDE DEF answer, d
  <2> QED BY <2>1, <2>2, <2>3, <2>4, <2>5, <2>6, <2>7, <2>8, <2>9, <2>11, <2>12
<1> HIDE DEF d
<1>7. Said(d, "mode") = Wanted(m, "mode") /\ Said(d, "volume") = Wanted(m, "volume")
  <2>1. d[<<204>>][1] = 204 /\ d[<<204>>][2] = 1 /\ d[<<204>>][3] = 6
    BY <1>6
  <2>2. m["Noise"][1] = 0 /\ m["Noise"][2] = 0
    BY <1>1
  <2> QED BY <2>1, <2>2 DEF Said, Wanted
<1>8. Said(d, "name") = Wanted(m, "name")
  <2>1. <<201>> \o <<194, 187, 2>> = <<201, 194, 187, 2>>
    <3> DEFINE x == <<201>> \o <<194, 187, 2>>
               y == <<201, 194, 187, 2>>
    <3>1. x \in Seq(Int) /\ Len(x) = 4 /\ x[1] = 201 /\ x[2] = 194 /\ x[3] = 187 /\ x[4] = 2
      OBVIOUS
    <3>2. y \in Seq(Int) /\ Len(y) = 4 /\ y[1] = 201 /\ y[2] = 194 /\ y[3] = 187 /\ y[4] = 2
      OBVIOUS
    <3> HIDE DEF x, y
    <3>3. \A i \in 1..Len(x) : x[i] = y[i]
      <4>1. \A i \in 1..4 : i = 1 \/ i = 2 \/ i = 3 \/ i = 4
        OBVIOUS
      <4> QED BY <3>1, <3>2, <4>1
    <3>4. x = y
      <4>1. x \in Seq(Int) /\ y \in Seq(Int) /\ Len(x) = Len(y)
        BY <3>1, <3>2
      <4> QED BY <3>3, <4>1, SeqEqual
    <3> QED BY <3>4 DEF x, y
  <2> QED BY <1>1, <1>6, <2>1 DEF Said, Wanted
<1>9. Said(d, "effect") = Wanted(m, "effect") /\ Said(d, "game") = Wanted(m, "game")
  BY <1>1, <1>6 DEF Said, Wanted
<1>10. Said(d, "controls") = Wanted(m, "controls")
  <2>1. mask(m["ControlSettings"]) = 7
    BY <1>1 DEF mask
  <2> QED BY <1>6, <2>1 DEF Said, Wanted
<1>11. Said(d, "ldac") = Wanted(m, "ldac") /\ Said(d, "prompt") = Wanted(m, "prompt")
  BY <1>1, <1>6 DEF Said, Wanted
<1>12. Said(d, "timer") = Wanted(m, "timer") /\ Said(d, "power") = Wanted(m, "power")
  BY <1>1, <1>5, <1>6 DEF Said, Wanted
<1>13. Said(d, "identity") = Wanted(m, "identity")
  BY <1>6 DEF Said, Wanted
<1>14. Agree(d, m)
  BY <1>7, <1>8, <1>9, <1>10, <1>11, <1>12, <1>13 DEF Agree, Parts
<1> QED BY <1>4, <1>14 DEF d, m

LEMMA RequestUnderstood ==
    ASSUME Understood, NEW r \in Requests, Request(r)
    PROVE  Understood'
<1>1. /\ plan = <<>> /\ device' = device /\ Readable(r.json) /\ Encodable(to_command(r.json))
      /\ plan' = <<to_command(r.json)>> /\ meant' = Asked(meant, r.asks) /\ read' = "none"
  BY DEF Request, Quiet
<1>2. IsWish(r.asks) /\ Writes(r.json, r.asks) /\ IsCommandJson(r.json)
  BY <1>1, WishAssumption, RequestAssumption
<1>3. Agree(device, meant) /\ meant \in Meaning
  BY <1>1, UnderstoodAtRest DEF Understood
<1>4. PICK q \in Command : q = to_command(r.json)
  BY <1>1, <1>2, JsonIsCommand, CommandMembers
<1>5. to_body(q) = to_body(r.asks)
  BY <1>1, <1>2, <1>4, RequestedBody
<1>6. PICK c : c = r.asks /\ IsWish(c)
  BY <1>2
<1>7. Leads(device, <<q>>, Asked(meant, c))
  BY <1>3, <1>5, <1>6, OneLeads
<1>8. Asked(meant, c) \in Meaning
  BY <1>3, <1>6, AskedSets
<1>9. Speakable(q)
  BY <1>1, <1>4, <1>5, <1>6, WishBody DEF Speakable
<1>10. \A i \in 1..Len(plan') : Speakable(plan'[i])
  <2>1. plan' = <<q>>
    BY <1>1, <1>4
  <2>2. Len(plan') = 1 /\ plan'[1] = q
    BY <2>1
  <2> QED BY <1>9, <2>2
<1> QED BY <1>1, <1>4, <1>6, <1>7, <1>8, <1>10 DEF Understood

LEMMA ImportUnderstood ==
    ASSUME Understood, NEW f \in Files, Import(f)
    PROVE  Understood'
<1>1. /\ plan = <<>> /\ device' = device /\ Importable(f.file)
      /\ plan' \in {import_plan(f.file),
                   [i \in DOMAIN settings_parse(f.file) |->
                      to_command([op |-> "Raw", word |-> "", arg |-> settings_parse(f.file)[i]])]}
      /\ meant' = AskedAll(meant, f.asks) /\ read' = "none"
  BY DEF Import, Quiet
<1>2. PICK file, cmds : file = f.file /\ cmds = f.asks
  OBVIOUS
<1>3. IsExport(file, cmds) /\ IsSettingsFile(file) /\ Importable(file)
  BY <1>1, <1>2, ExportAssumption, FileAssumption
<1>4. Agree(device, meant) /\ meant \in Meaning
  BY <1>1, UnderstoodAtRest DEF Understood
<1>5. plan' = import_plan(file)
  BY <1>1, <1>2, <1>3, ImportsAgree
<1>6. /\ AskedAll(meant, cmds) \in Meaning
      /\ Leads(device, import_plan(file), AskedAll(meant, cmds))
      /\ \A i \in 1..Len(import_plan(file)) : Speakable(import_plan(file)[i])
  BY <1>3, <1>4, ImportLeads
<1> QED BY <1>1, <1>2, <1>5, <1>6 DEF Understood

LEMMA ReadoutUnderstood ==
    ASSUME Understood, NEW profile \in Profiles, Readout(profile)
    PROVE  /\ Understood' /\ plan' = readout_plan(profile) /\ read' = profile
           /\ profile \in Profile /\ meant' = meant
<1>1. /\ plan = <<>> /\ device' = device /\ meant' = meant /\ read' = profile
      /\ plan' \in {readout_plan(profile),
                   [i \in DOMAIN readout_json(profile) |-> to_command(readout_json(profile)[i].op)]}
  BY DEF Readout, Quiet
<1>2. profile \in Profile
  BY ProfileAssumption
<1>3. plan' = readout_plan(profile)
  BY <1>1, <1>2, ReadoutsAgree
<1>4. Agree(device, meant) /\ meant \in Meaning
  BY <1>1, UnderstoodAtRest DEF Understood
<1>5. "none" \notin Profile
  BY DEF Profile, Hidden
<1>6. \A i \in 1..Len(plan') : \E op \in Queries : plan'[i] = Cmd(op, <<>>)
  BY <1>2, <1>3, ReadoutAsks
<1>7. Understood'
  BY <1>1, <1>2, <1>4, <1>5, <1>6 DEF Understood
<1> QED BY <1>1, <1>2, <1>3, <1>7

LEMMA ReconnectUnderstood ==
    ASSUME Understood, Reconnect
    PROVE  Understood'
<1>1. /\ plan = <<>> \/ read # "none"
      /\ plan' = <<>> /\ read' = "none" /\ device' = device /\ meant' = meant
  BY DEF Reconnect
<1>2. Agree(device, meant) /\ meant \in Meaning
  BY <1>1, UnderstoodAtRest DEF Understood
<1>3. Leads(device, <<>>, meant)
  BY <1>2, NothingLeads
<1>4. \A i \in 1..Len(plan') : Speakable(plan'[i])
  BY <1>1
<1> QED BY <1>1, <1>2, <1>3, <1>4 DEF Understood

\* The answer that is under way after a command was sent.
Replied(body) ==
    /\ device' = Executed(device, body)
    /\ air' = air \o Answer(device, body)
    /\ truth' = truth \union {[from |-> Len(received) + Len(air),
                               to |-> Len(received) + Len(air) + Len(Answer(device, body))]}

\* Whatever is sent is heard.
LEMMA SendHeard ==
    ASSUME DInv, Understood, Send
    PROVE  /\ plan # <<>> /\ plan' = Tail(plan) /\ Head(plan) \in Command
           /\ Speakable(Head(plan)) /\ Replied(to_body(Head(plan)))
           /\ read # "none" => \E op \in Queries : Head(plan) = Cmd(op, <<>>)
<1> DEFINE body == to_body(Head(plan))
           heard == Encodable(Head(plan)) /\ Accepts(encode_tx(body))
           answer == IF heard THEN Answer(device, body) ELSE <<>>
           at == Len(received) + Len(air)
           frame == [from |-> at, to |-> at + Len(answer)]
<1>1. /\ plan # <<>> /\ plan' = Tail(plan)
      /\ device' = IF heard THEN Executed(device, body) ELSE device
      /\ air' = air \o answer
      /\ truth' = IF heard THEN truth \union {frame} ELSE truth
  BY DEF Send
<1>2. plan \in Seq(Command)
  BY DEF DInv
<1>3. PICK n \in Nat : n = Len(plan) /\ n >= 1 /\ Head(plan) = plan[1]
  BY <1>1, <1>2, HeadTailProperties, LenProperties, EmptySeq
<1>4. Head(plan) \in Command
  BY <1>2, <1>3, ElementOfSeq
<1>5. read # "none" => \E op \in Queries : Head(plan) = Cmd(op, <<>>)
  BY <1>3 DEF Understood
<1>6. Speakable(Head(plan))
  <2>1. CASE read = "none"
    BY <1>3, <2>1 DEF Understood
  <2>2. CASE read # "none"
    BY <1>5, <2>2, QuerySpeaks
  <2> QED BY <2>1, <2>2
<1>7. heard
  BY <1>6, SpeakableHeard
<1>8. answer = Answer(device, body)
  BY <1>7
<1>9. /\ device' = Executed(device, body) /\ air' = air \o answer /\ truth' = truth \union {frame}
  BY <1>1, <1>7
<1> HIDE DEF heard, answer
<1>10. Replied(body)
  BY <1>8, <1>9 DEF Replied
<1> QED BY <1>1, <1>4, <1>5, <1>6, <1>10

LEMMA SendUnderstood ==
    ASSUME DInv, Understood, Send
    PROVE  Understood'
<1> DEFINE body == to_body(Head(plan))
<1>1. /\ plan # <<>> /\ plan' = Tail(plan) /\ Speakable(Head(plan)) /\ device' = Executed(device, body)
      /\ read # "none" => \E op \in Queries : Head(plan) = Cmd(op, <<>>)
  BY SendHeard DEF Replied
<1>2. meant' = meant /\ read' = read
  BY DEF Send, user
<1>3. plan \in Seq(Command) /\ IsDevice(device)
  BY DEF DInv
<1>4. PICK n \in Nat : /\ n = Len(plan) /\ n >= 1 /\ Len(plan') = n - 1
                       /\ \A i \in 1..(n - 1) : plan'[i] = plan[i + 1]
  BY <1>1, <1>3, HeadTailProperties, LenProperties, EmptySeq
<1>5. \A i \in 1..Len(plan') : i + 1 \in 1..Len(plan) /\ plan'[i] = plan[i + 1]
  BY <1>4
<1>6. body \in Reply
  BY <1>1 DEF Speakable
<1> HIDE DEF body
<1>7. CASE read = "none"
  <2>1. Leads(device, plan, meant) /\ \A i \in 1..Len(plan) : Speakable(plan[i])
    BY <1>7 DEF Understood
  <2>2. Leads(device', plan', meant)
    BY <1>1, <1>3, <1>6, <2>1, LeadsOn DEF body
  <2>3. \A i \in 1..Len(plan') : Speakable(plan'[i])
    BY <1>5, <2>1
  <2> QED BY <1>2, <1>7, <2>2, <2>3 DEF Understood
<1>8. CASE read # "none"
  <2>1. PICK op \in Queries : Head(plan) = Cmd(op, <<>>)
    BY <1>1, <1>8
  <2>2. body \in Queried
    BY <2>1, QuerySpeaks DEF body
  <2>3. device' = device
    BY <1>1, <2>2, QuerySetsNothing
  <2>4. \A i \in 1..Len(plan') : \E o \in Queries : plan'[i] = Cmd(o, <<>>)
    BY <1>5, <1>8 DEF Understood
  <2> QED BY <1>2, <1>8, <2>3, <2>4 DEF Understood
<1> QED BY <1>7, <1>8

-----------------------------------------------------------------------------
(***************************************************************************)
(* What is passed on.  The items follow one another, each tells what its   *)
(* frame in the stream tells, and of those that tell a kind the last one   *)
(* is shown.                                                               *)
(***************************************************************************)

\* The items are in the order of the stream.
LEMMA ItemsInOrder ==
    ASSUME DInv
    PROVE  /\ \A i \in 1..Len(items) : /\ items[i].from \in Nat /\ items[i].to \in Nat
                                       /\ items[i].from < items[i].to
                                       /\ items[i].to <= Len(received)
           /\ \A i, j \in 1..Len(items) : i < j => items[i].from < items[j].from
<1>1. /\ received \in Seq(Byte) /\ items \in Seq(Item) /\ Len(items) \in Nat /\ Len(received) \in Nat
  BY DialogueTypes
<1>2. PICK n \in Nat, l \in Nat : n = Len(items) /\ l = Len(received) /\ DOMAIN items = 1..n
  BY <1>1
<1>3. \A i \in 1..n : IsCut(i) /\ items[i] \in Item
  BY <1>1, <1>2, ElementOfSeq DEF DInv, Inv, Chain
<1>4. ASSUME NEW i \in 1..n
      PROVE  items[i].from \in Nat /\ items[i].to \in Nat /\ items[i].from < items[i].to
             /\ items[i].to <= l
  <2>1. PICK p \in Nat : p = items[i].from
    BY <1>3 DEF Item
  <2>2. CanCut(received, p) /\ items[i] = CutItem(received, p)
    BY <1>3, <2>1 DEF IsCut
  <2>3. CutEnd(received, p) \in (p + 1)..Len(received)
    <3>1. <<>> \in Seq(Byte)
      OBVIOUS
    <3> QED BY <1>1, <2>2, <3>1, CutStable
  <2>4. items[i].to = CutEnd(received, p)
    BY <2>2 DEF CutItem
  <2> QED BY <1>2, <2>1, <2>3, <2>4
<1>5. \A i \in 1..n : i > 1 => items[i].from = items[i - 1].to
  BY <1>3 DEF IsCut
<1>6. ASSUME NEW i \in 1..n
      PROVE  \A j \in 1..n : i < j => items[i].from < items[j].from
  <2> DEFINE Y == {j \in 0..n : j > i => items[i].from < items[j].from}
  <2>1. 0 \in Y
    BY <1>2
  <2>2. ASSUME NEW j \in 0..n, j < n, j \in Y
        PROVE  j + 1 \in Y
    <3> SUFFICES ASSUME j + 1 > i PROVE items[i].from < items[j + 1].from
      BY <1>2, <2>2
    <3>1. j \in 1..n /\ j + 1 \in 1..n /\ j + 1 > 1 /\ (j + 1) - 1 = j /\ (j = i \/ j > i)
      BY <1>2, <2>2
    <3>2. PICK a \in Nat, b \in Nat, c \in Nat :
             a = items[i].from /\ b = items[j].from /\ c = items[j].to /\ b < c
      BY <1>4, <3>1
    <3>3. items[j + 1].from = c
      BY <1>5, <3>1, <3>2
    <3>4. a <= b
      BY <2>2, <3>1, <3>2
    <3> QED BY <3>2, <3>3, <3>4
  <2> HIDE DEF Y
  <2>3. 0..n \subseteq Y
    BY <1>2, <2>1, <2>2, CountingUp
  <2>4. ASSUME NEW j \in 1..n, i < j
        PROVE  items[i].from < items[j].from
    <3>1. j \in Y
      BY <2>3
    <3> QED BY <2>4, <3>1 DEF Y
  <2> QED BY <2>4
<1> QED BY <1>2, <1>4, <1>6

\* As long as the stream is undamaged an item tells what an answer in it does.
LEMMA ItemTells ==
    ASSUME DInv, ~damaged, NEW i \in 1..Len(items)
    PROVE  /\ items[i].kind = "frame"
           /\ \E u \in truth : /\ u.from = items[i].from /\ u.to = items[i].to
                               /\ Told(items[i]) = NoteOf(Stream, u)
<1>1. /\ received \in Seq(Byte) /\ air \in Seq(Byte) /\ DOMAIN items = 1..Len(items)
  BY DialogueTypes
<1>2. PICK u \in truth : items[i] = [kind |-> "frame", from |-> u.from, to |-> u.to]
  BY <1>1 DEF DInv, Tiled, Answered
<1>3. items[i].kind = "frame" /\ items[i].from = u.from /\ items[i].to = u.to
  BY <1>2
<1>4. Lies(received \o air, u)
  BY DEF DInv, Sent, Stream
<1>5. u.to <= Len(received)
  BY <1>3, ItemsInOrder
<1>6. Lies(received, u)
  BY <1>1, <1>4, <1>5, LiesWithin
<1>7. NoteOf(received \o air, u) = NoteOf(received, u)
  BY <1>1, <1>6, NoteLonger
<1>8. Told(items[i]) = NoteOf(received, u)
  BY <1>3 DEF Told, Body, NoteOf
<1> QED BY <1>3, <1>7, <1>8 DEF Stream

\* The last frame that tells a kind is what is shown of it; what no frame tells stays.
LEMMA PassedOn ==
    ASSUME NEW known, NEW new, NEW n \in Nat, DOMAIN new = 1..n,
           \A i \in 1..n : new[i].kind = "frame", NEW k
    PROVE  /\ \A i \in 1..n :
                Told(new[i]).kind = k /\ (\A j \in 1..n : j > i => Told(new[j]).kind # k) =>
                    /\ k \in DOMAIN PassOn(known, new)
                    /\ PassOn(known, new)[k] = from_notification(Told(new[i]))
           /\ (\A i \in 1..n : Told(new[i]).kind # k) /\ k \in DOMAIN known =>
                    /\ k \in DOMAIN PassOn(known, new)
                    /\ PassOn(known, new)[k] = known[k]
<1> DEFINE frames == {i \in DOMAIN new : new[i].kind = "frame"}
           telling(x) == {i \in frames : Told(new[i]).kind = x}
           kinds == DOMAIN known \union {Told(new[i]).kind : i \in frames}
           value(x) == IF telling(x) = {} THEN known[x]
                       ELSE from_notification(Told(new[Max(telling(x))]))
<1>1. PassOn(known, new) = [x \in kinds |-> value(x)]
  BY DEF PassOn
<1>2. frames = 1..n
  OBVIOUS
<1>3. telling(k) = {i \in 1..n : Told(new[i]).kind = k}
  BY <1>2
<1>4. kinds = DOMAIN known \union {Told(new[i]).kind : i \in 1..n}
  BY <1>2
<1> HIDE DEF frames
<1>5. value(k) = IF telling(k) = {} THEN known[k] ELSE from_notification(Told(new[Max(telling(k))]))
  OBVIOUS
<1> HIDE DEF kinds, value
<1>6. ASSUME NEW i \in 1..n, Told(new[i]).kind = k, \A j \in 1..n : j > i => Told(new[j]).kind # k
      PROVE  k \in DOMAIN PassOn(known, new) /\ PassOn(known, new)[k] = from_notification(Told(new[i]))
  <2>1. i \in telling(k) /\ \A j \in telling(k) : j \in 1..n /\ Told(new[j]).kind = k
    BY <1>3, <1>6
  <2> HIDE DEF telling
  <2>2. \A j \in telling(k) : i >= j
    BY <1>6, <2>1
  <2>3. \A x \in telling(k) : (\A y \in telling(k) : x >= y) => x = i
    BY <2>1, <2>2
  <2>4. Max(telling(k)) = i
    BY <2>1, <2>2, <2>3, Zenon DEF Max
  <2>5. k \in kinds
    BY <1>4, <1>6
  <2> QED BY <1>1, <1>5, <2>1, <2>4, <2>5
<1>7. ASSUME \A i \in 1..n : Told(new[i]).kind # k, k \in DOMAIN known
      PROVE  k \in DOMAIN PassOn(known, new) /\ PassOn(known, new)[k] = known[k]
  <2>1. telling(k) = {}
    BY <1>3, <1>7
  <2> HIDE DEF telling
  <2> QED BY <1>1, <1>4, <1>5, <1>7, <2>1
<1> QED BY <1>6, <1>7

\* No answer but the one to its own query tells a kind.
LEMMA OnlyAsked ==
    ASSUME NEW d, IsDevice(d), NEW m \in Meaning, Agree(d, m), NEW body \in Queried,
           NEW kind \in DOMAIN m, Tell(d, body).kind = kind
    PROVE  body = AskFor(kind)
<1>1. /\ \A k \in DOMAIN m : Tell(d, AskFor(k)).kind = k
      /\ Tell(d, << 208 >>).kind = "Battery" /\ Tell(d, << 200 >>).kind = "Mac"
      /\ Tell(d, << 198 >>).kind = "Firmware"
  BY AnswersSay DEF Note
<1>2. /\ Kinds \subseteq DOMAIN m /\ DOMAIN m \subseteq Kinds \union {"ShutdownTimer", "ShutdownTimerEnabled"}
      /\ "ShutdownTimer" \in DOMAIN m \/ "ShutdownTimerEnabled" \in DOMAIN m
  BY MeaningHas
<1>3. kind \notin {"Battery", "Mac", "Firmware"}
  BY <1>2 DEF Kinds
<1>4. body \notin {<< 208 >>, << 200 >>, << 198 >>}
  BY <1>1, <1>3
<1>5. \E k \in DOMAIN m : body = AskFor(k)
  <2>1. /\ AskFor("Noise") = << 204 >> /\ AskFor("Name") = << 201 >> /\ AskFor("SoundEffect") = << 213 >>
        /\ AskFor("GameMode") = << 8 >> /\ AskFor("ControlSettings") = <<240, 10>>
        /\ AskFor("Ldac") = << 72 >> /\ AskFor("PromptVolume") = << 5 >> /\ AskFor("AutoPowerOff") = << 215 >>
        /\ AskFor("ShutdownTimer") = << 211 >> /\ AskFor("ShutdownTimerEnabled") = << 211 >>
    BY DEF AskFor
  <2>2. /\ "Noise" \in DOMAIN m /\ "Name" \in DOMAIN m /\ "SoundEffect" \in DOMAIN m
        /\ "GameMode" \in DOMAIN m /\ "ControlSettings" \in DOMAIN m /\ "Ldac" \in DOMAIN m
        /\ "PromptVolume" \in DOMAIN m /\ "AutoPowerOff" \in DOMAIN m
    BY <1>2 DEF Kinds
  <2>3. \/ body = << 204 >> \/ body = << 201 >> \/ body = << 213 >> \/ body = << 8 >>
        \/ body = <<240, 10>> \/ body = << 72 >> \/ body = << 5 >> \/ body = << 211 >> \/ body = << 215 >>
    BY <1>4 DEF Queried
  <2>4. body = << 204 >> => body = AskFor("Noise") /\ "Noise" \in DOMAIN m
    BY <2>1, <2>2
  <2>5. body = << 201 >> => body = AskFor("Name") /\ "Name" \in DOMAIN m
    BY <2>1, <2>2
  <2>6. body = << 213 >> => body = AskFor("SoundEffect") /\ "SoundEffect" \in DOMAIN m
    BY <2>1, <2>2
  <2>7. body = << 8 >> => body = AskFor("GameMode") /\ "GameMode" \in DOMAIN m
    BY <2>1, <2>2
  <2>8. body = <<240, 10>> => body = AskFor("ControlSettings") /\ "ControlSettings" \in DOMAIN m
    BY <2>1, <2>2
  <2>9. body = << 72 >> => body = AskFor("Ldac") /\ "Ldac" \in DOMAIN m
    BY <2>1, <2>2
  <2>10. body = << 5 >> => body = AskFor("PromptVolume") /\ "PromptVolume" \in DOMAIN m
    BY <2>1, <2>2
  <2>11. body = << 215 >> => body = AskFor("AutoPowerOff") /\ "AutoPowerOff" \in DOMAIN m
    BY <2>1, <2>2
  <2>12. body = << 211 >> => body = AskFor("ShutdownTimer") /\ body = AskFor("ShutdownTimerEnabled")
    BY <2>1
  <2> QED BY <1>2, <2>3, <2>4, <2>5, <2>6, <2>7, <2>8, <2>9, <2>10, <2>11, <2>12
<1> QED BY <1>1, <1>5

-----------------------------------------------------------------------------
(***************************************************************************)
(* What is reported.  During a readout whatever the profile shows is still *)
(* to be asked for, or the answer is in the stream, no later frame tells   *)
(* of it, and once it is passed on it is what is shown.                    *)
(***************************************************************************)

Pending(k) == \E i \in 1..Len(plan) : to_body(plan[i]) = AskFor(k)

Displays(view, k, note) == k \in DOMAIN view /\ view[k] = from_notification(note)

Latest(k, t) ==
    /\ NoteOf(Stream, t) = Tell(device, AskFor(k))
    /\ \A u \in truth : u.from > t.from => NoteOf(Stream, u).kind # k
    /\ \A i \in 1..seen : items[i].from = t.from =>
         /\ Displays(shown, k, Tell(device, AskFor(k)))
         /\ Displays(handed, k, Tell(device, AskFor(k)))

Counted == seen \in Nat /\ seen <= Len(items) /\ (~draining => seen = Len(items))

Reported ==
    read # "none" /\ ~damaged =>
        \A k \in DOMAIN meant : Visible(k, read) => Pending(k) \/ \E t \in truth : Latest(k, t)

RInv == DInv /\ Understood /\ Counted /\ Reported

LEMMA ReportedInit == DialogueInit => RInv
<1> SUFFICES ASSUME DialogueInit PROVE RInv
  OBVIOUS
<1>1. /\ Init /\ device = NewDevice /\ meant = NewMeaning /\ plan = <<>> /\ seen = 0 /\ read = "none"
  BY DEF DialogueInit
<1>2. DInv
  BY DialogueInitInv
<1>3. Understood
  <2>1. Leads(device, plan, meant)
    BY <1>1, NewIsMeant, NothingLeads
  <2>2. \A i \in 1..Len(plan) : Speakable(plan[i])
    BY <1>1
  <2> QED BY <1>1, <2>1, <2>2, NewIsMeant DEF Understood
<1>4. Counted
  <2>1. items = <<>> /\ Len(<<>>) = 0
    BY <1>1 DEF Init
  <2> QED BY <1>1, <2>1 DEF Counted
<1>5. Reported
  BY <1>1 DEF Reported
<1> QED BY <1>2, <1>3, <1>4, <1>5 DEF RInv

\* What happens to the decoder's items when nothing is renewed.
LEMMA Extracted ==
    ASSUME DInv, Decode
    PROVE  /\ received' = received
           /\ items' = items \/ \E it : items' = Append(items, it)
           /\ ~draining' => items' = items
<1>1. Extract
  BY DEF Decode
<1>2. /\ received' = received
      /\ \/ items' = items
         \/ \E it : items' = Append(items, it)
  <2>1. Inv
    BY DEF DInv
  <2> QED BY <1>1, <2>1, Cuts
<1>3. ~draining' => items' = items
  BY <1>1 DEF Extract, DropHead, TakeFrame, NeedMore, Consume
<1> QED BY <1>2, <1>3

LEMMA DecodeCounts ==
    ASSUME DInv, Counted, Decode
    PROVE  Counted'
<1>1. items \in Seq(Item) /\ Len(items) \in Nat
  BY DialogueTypes
<1>2. CASE draining'
  <2>1. seen' = seen
    BY <1>2 DEF Decode, views
  <2>2. Len(items') = Len(items) \/ Len(items') = Len(items) + 1
    BY <1>1, Extracted
  <2>3. PICK n \in Nat : n = Len(items)
    BY <1>1
  <2> QED BY <1>2, <2>1, <2>2, <2>3 DEF Counted
<1>3. CASE ~draining'
  <2>1. seen' = Len(items)
    BY <1>3 DEF Decode
  <2>2. items' = items
    BY <1>3, Extracted
  <2>3. PICK n \in Nat : n = Len(items)
    BY <1>1
  <2> QED BY <2>1, <2>2, <2>3 DEF Counted
<1> QED BY <1>2, <1>3

LEMMA CountedNext ==
    ASSUME DInv, Counted, DialogueNext
    PROVE  Counted'
<1>1. ASSUME UNCHANGED <<decoder, views>>
      PROVE  Counted'
  BY <1>1 DEF decoder, views, Counted
<1>2. ASSUME NEW r \in Requests, Request(r) PROVE Counted'
  BY <1>1, <1>2 DEF Request, Quiet
<1>3. ASSUME NEW f \in Files, Import(f) PROVE Counted'
  BY <1>1, <1>3 DEF Import, Quiet
<1>4. ASSUME NEW profile \in Profiles, Readout(profile) PROVE Counted'
  BY <1>1, <1>4 DEF Readout, Quiet
<1>5. CASE Send
  BY <1>1, <1>5 DEF Send
<1>6. CASE LoseByte
  BY <1>1, <1>6 DEF LoseByte
<1>7. CASE StrayHead
  BY <1>1, <1>7 DEF StrayHead
<1>8. CASE Reconnect
  <2>1. seen' = 0 /\ items' = <<>>
    BY <1>8 DEF Reconnect, Renew
  <2>2. Len(<<>>) = 0
    OBVIOUS
  <2> QED BY <2>1, <2>2 DEF Counted
<1>9. ASSUME NEW n \in Pieces, Arrive(n) PROVE Counted'
  <2>1. draining' = TRUE /\ items' = items /\ seen' = seen
    BY <1>9 DEF Arrive, Push, views
  <2> QED BY <2>1 DEF Counted
<1>10. CASE Decode
  BY <1>10, DecodeCounts
<1> QED BY <1>2, <1>3, <1>4, <1>5, <1>6, <1>7, <1>8, <1>9, <1>10 DEF DialogueNext

LEMMA UnderstoodNext ==
    ASSUME DInv, Understood, DialogueNext
    PROVE  Understood'
<1>1. ASSUME UNCHANGED <<device, plan, user>>
      PROVE  Understood'
  BY <1>1 DEF user, Understood
<1>2. CASE LoseByte
  BY <1>1, <1>2 DEF LoseByte
<1>3. CASE StrayHead
  BY <1>1, <1>3 DEF StrayHead
<1>4. ASSUME NEW n \in Pieces, Arrive(n) PROVE Understood'
  BY <1>1, <1>4 DEF Arrive
<1>5. CASE Decode
  BY <1>1, <1>5 DEF Decode
<1> QED BY <1>2, <1>3, <1>4, <1>5, RequestUnderstood, ImportUnderstood, ReadoutUnderstood,
       SendUnderstood, ReconnectUnderstood DEF DialogueNext

\* A readout plans a query for whatever its profile shows.
LEMMA ReadoutReported ==
    ASSUME Understood, NEW profile \in Profiles, Readout(profile)
    PROVE  Reported'
<1>1. plan' = readout_plan(profile) /\ read' = profile /\ profile \in Profile /\ meant' = meant
  BY ReadoutUnderstood
<1>2. ASSUME NEW k \in DOMAIN meant, Visible(k, profile)
      PROVE  Pending(k)'
  <2>1. k \in Kinds \union {"ShutdownTimer", "ShutdownTimerEnabled"}
    BY MeaningHas DEF Understood
  <2>2. \E i \in 1..Len(readout_plan(profile)) : to_body(readout_plan(profile)[i]) = AskFor(k)
    BY <1>1, <1>2, <2>1, ReadoutAsks
  <2> QED BY <1>1, <2>2 DEF Pending
<1> QED BY <1>1, <1>2 DEF Reported

\* Bytes that arrive tell nothing new.
LEMMA ArriveReported ==
    ASSUME DInv, Counted, Reported, NEW n \in Pieces, Arrive(n)
    PROVE  Reported'
<1>1. /\ received \in Seq(Byte) /\ air \in Seq(Byte) /\ Len(air) \in Nat
  BY DialogueTypes
<1>2. n \in Nat
  BY PieceAssumption
<1>3. PICK m \in 0..Len(air) :
        /\ Push(SubSeq(air, 1, m)) /\ air' = SubSeq(air, m + 1, Len(air))
        /\ UNCHANGED <<device, plan, views, user, damaged, truth>>
  <2>1. CASE n <= Len(air)
    <3>1. n \in 0..Len(air)
      BY <1>1, <1>2, <2>1
    <3> QED BY <2>1, <3>1 DEF Arrive
  <2>2. CASE ~(n <= Len(air))
    <3>1. Len(air) \in 0..Len(air)
      BY <1>1
    <3> QED BY <2>2, <3>1 DEF Arrive
  <2> QED BY <2>1, <2>2
<1>4. PICK x \in Seq(Byte), y \in Seq(Byte) :
        x = SubSeq(air, 1, m) /\ y = SubSeq(air, m + 1, Len(air)) /\ x \o y = air
  BY <1>1, <1>3, Divided, ZenonT(30)
<1>5. received' = received \o x /\ items' = items /\ air' = y
  BY <1>3, <1>4 DEF Push
<1>6. Stream' = Stream
  <2>1. (received \o x) \o y = received \o (x \o y)
    <3>1. received \in Seq(Byte) /\ x \in Seq(Byte) /\ y \in Seq(Byte)
      BY <1>1
    <3> HIDE DEF Byte
    <3> QED BY ONLY <3>1, ConcatAssociative
  <2> QED BY <1>4, <1>5, <2>1 DEF Stream
<1>7. /\ device' = device /\ plan' = plan /\ shown' = shown /\ handed' = handed /\ seen' = seen
      /\ meant' = meant /\ read' = read /\ damaged' = damaged /\ truth' = truth
  BY <1>3 DEF views, user
<1>8. \A k, t : Latest(k, t)' <=> Latest(k, t)
  BY <1>5, <1>6, <1>7 DEF Latest
<1>9. \A k : Pending(k)' <=> Pending(k)
  BY <1>7 DEF Pending
<1> QED BY <1>7, <1>8, <1>9 DEF Reported

\* A query that goes out makes its answer the latest one; the others stay what they are.
LEMMA SendReported ==
    ASSUME DInv, Understood, Counted, Reported, Send
    PROVE  Reported'
<1>1. /\ meant' = meant /\ read' = read /\ damaged' = damaged /\ seen' = seen
      /\ shown' = shown /\ handed' = handed /\ items' = items /\ received' = received
  BY DEF Send, user, views, decoder
<1> SUFFICES ASSUME read # "none", ~damaged, NEW k \in DOMAIN meant, Visible(k, read)
             PROVE  Pending(k)' \/ \E t \in truth' : Latest(k, t)'
  BY <1>1 DEF Reported
<1>2. /\ plan # <<>> /\ plan' = Tail(plan) /\ Replied(to_body(Head(plan)))
      /\ \E op \in Queries : Head(plan) = Cmd(op, <<>>)
  BY SendHeard
<1>3. PICK body \in Queried : body = to_body(Head(plan))
  BY <1>2, QuerySpeaks
<1>4. PICK d : d = device /\ IsDevice(d) /\ meant \in Meaning /\ Agree(d, meant)
  BY DEF DInv, Understood
<1>5. PICK answer : answer = Answer(d, body)
  OBVIOUS
<1>6. /\ device' = d /\ air' = air \o answer
      /\ truth' = truth \union {[from |-> Len(received) + Len(air),
                                 to |-> Len(received) + Len(air) + Len(answer)]}
  BY <1>2, <1>3, <1>4, <1>5, QuerySetsNothing DEF Replied
<1>7. d[body] \in Reply /\ IsFrame(answer, RX_HEAD_BB, d[body])
  BY <1>4, <1>5, AnswerTells
<1>8. /\ received \in Seq(Byte) /\ air \in Seq(Byte) /\ Stream \in Seq(Byte) /\ answer \in Seq(Byte)
      /\ Len(Stream) = Len(received) + Len(air) /\ Len(received) \in Nat /\ Len(air) \in Nat
  BY <1>7, DialogueTypes DEF End, IsFrame
<1>9. Stream' = Stream \o answer
  <2>1. (received \o air) \o answer = received \o (air \o answer)
    BY <1>8, ConcatAssociative, SMTT(30)
  <2> QED BY <1>1, <1>6, <2>1 DEF Stream
<1>10. PICK n \in Nat, l \in Nat : n = Len(Stream) /\ l = Len(received) /\ l <= n
  BY <1>8
<1>11. PICK new : /\ new = [from |-> Len(Stream), to |-> Len(Stream) + Len(answer)]
                  /\ truth' = truth \union {new} /\ new.from = n
  <2>1. PICK at, w : at = Len(Stream) /\ w = Len(Stream) + Len(answer)
    BY <1>10
  <2>2. at = Len(received) + Len(air) /\ w = Len(received) + Len(air) + Len(answer) /\ at = n
    BY <1>8, <1>10, <2>1
  <2>3. truth' = truth \union {[from |-> at, to |-> w]}
    BY <1>6, <2>2
  <2>4. PICK new : new = [from |-> at, to |-> w]
    OBVIOUS
  <2>5. new.from = n /\ truth' = truth \union {new}
    BY <2>2, <2>3, <2>4
  <2>6. new = [from |-> Len(Stream), to |-> Len(Stream) + Len(answer)]
    BY <2>1, <2>4
  <2> QED BY <2>5, <2>6
<1>12. NoteOf(Stream', new) = Tell(d, body)
  <2>1. PICK s \in Seq(Byte), reply \in Reply : s = Stream /\ reply = d[body]
    BY <1>7, <1>8
  <2>2. NoteOf(s \o answer, [from |-> Len(s), to |-> Len(s) + Len(answer)])
          = parse_notification(RX_HEAD_BB, reply)
    BY <1>7, <2>1, NoteAtTheEnd
  <2>3. NoteOf(s \o answer, new) = parse_notification(RX_HEAD_BB, reply)
    BY <1>11, <2>1, <2>2
  <2> QED BY <1>9, <2>1, <2>3 DEF Tell
<1>13. ASSUME NEW u \in truth
       PROVE  NoteOf(Stream', u) = NoteOf(Stream, u) /\ u.from \in Nat /\ u.from < n
  <2>1. Lies(Stream, u)
    BY DEF DInv, Sent
  <2>2. u.from \in Nat /\ u.to \in Nat /\ u.from + 4 <= u.to /\ u.to <= n
    BY <1>8, <1>10, <2>1, LiesIsCut
  <2>3. u.from < n
    BY <2>2
  <2> QED BY <1>8, <1>9, <2>1, <2>2, <2>3, NoteLonger
<1>14. CASE body = AskFor(k)
  <2>1. NoteOf(Stream', new) = Tell(device', AskFor(k))
    BY <1>6, <1>12, <1>14
  <2>2. \A u \in truth' : ~(u.from > new.from)
    BY <1>10, <1>11, <1>13
  <2>3. ASSUME NEW i \in 1..seen'
        PROVE  items'[i].from # new.from
    <3>1. i \in 1..Len(items)
      <4>1. seen \in Nat /\ seen <= Len(items) /\ Len(items) \in Nat
        BY DialogueTypes DEF Counted
      <4> QED BY <1>1, <4>1
    <3>2. items[i].from \in Nat /\ items[i].to \in Nat /\ items[i].from < items[i].to /\ items[i].to <= l
      BY <1>10, <3>1, ItemsInOrder
    <3>3. items[i].from < n
      BY <1>10, <3>2
    <3> QED BY <1>1, <1>10, <1>11, <3>2, <3>3
  <2>4. Latest(k, new)'
    BY <2>1, <2>2, <2>3 DEF Latest
  <2> QED BY <1>11, <2>4
<1>15. CASE body # AskFor(k)
  <2>1. CASE Pending(k)
    <3>1. PICK i \in 1..Len(plan) : to_body(plan[i]) = AskFor(k)
      BY <2>1 DEF Pending
    <3>2. plan \in Seq(Command)
      BY DEF DInv
    <3>3. PICK m \in Nat : /\ m = Len(plan) /\ m >= 1 /\ Len(plan') = m - 1 /\ Head(plan) = plan[1]
                           /\ \A j \in 1..(m - 1) : plan'[j] = plan[j + 1]
      BY <1>2, <3>2, HeadTailProperties, LenProperties, EmptySeq
    <3>4. i # 1
      BY <1>3, <1>15, <3>1, <3>3
    <3>5. PICK j \in 1..(m - 1) : i = j + 1
      <4>1. i - 1 \in 1..(m - 1) /\ i = (i - 1) + 1
        BY <3>3, <3>4
      <4> QED BY <4>1
    <3>6. j \in 1..Len(plan') /\ to_body(plan'[j]) = AskFor(k)
      BY <3>1, <3>3, <3>5
    <3> QED BY <3>6 DEF Pending
  <2>2. ASSUME NEW t \in truth, Latest(k, t)
        PROVE  Latest(k, t)'
    <3>1. NoteOf(Stream', t) = Tell(device', AskFor(k))
      BY <1>4, <1>6, <1>13, <2>2 DEF Latest
    <3>2. Tell(d, body).kind # k
      BY <1>4, <1>15, OnlyAsked
    <3>3. \A u \in truth' : u.from > t.from => NoteOf(Stream', u).kind # k
      BY <1>11, <1>12, <1>13, <2>2, <3>2 DEF Latest
    <3> QED BY <1>1, <1>4, <1>6, <2>2, <3>1, <3>3 DEF Latest
  <2>3. Pending(k) \/ \E t \in truth : Latest(k, t)
    BY DEF Reported
  <2> QED BY <1>11, <2>1, <2>2, <2>3
<1> QED BY <1>14, <1>15

\* What is passed on of the items, and by what.
LEMMA HandedOn ==
    ASSUME DInv, Counted, Decode, ~draining', ~damaged
    PROVE  \E new : \E m \in Nat :
              /\ seen' = Len(items) /\ Len(items) = seen + m
              /\ DOMAIN new = 1..m /\ \A j \in 1..m : new[j] = items[seen + j] /\ new[j].kind = "frame"
              /\ shown' = PassOn(shown, new) /\ handed' = PassOn(handed, new)
<1>1. items \in Seq(Item) /\ Len(items) \in Nat /\ seen \in Nat /\ seen <= Len(items)
  BY DialogueTypes DEF Counted
<1>2. PICK n \in Nat, a \in Nat, m \in Nat : n = Len(items) /\ a = seen /\ n = a + m
  <2>1. Len(items) - seen \in Nat /\ Len(items) = seen + (Len(items) - seen)
    BY <1>1
  <2> QED BY <1>1, <2>1
<1>3. PICK new : new = SubSeq(items, seen + 1, Len(items))
  OBVIOUS
<1>4. seen' = Len(items) /\ shown' = PassOn(shown, new) /\ handed' = HandOut(handed, new)
  BY <1>3 DEF Decode
<1>5. /\ new \in Seq(Item) /\ Len(new) = m /\ \A j \in 1..m : new[j] = items[a + j]
  <2>1. \A i \in (a + 1)..n : items[i] \in Item
    <3>1. \A i \in (a + 1)..n : i \in 1..n
      BY <1>2
    <3> QED BY <1>1, <1>2, <3>1, ElementOfSeq
  <2>2. PICK b \in Int : b = a + 1
    BY <1>2
  <2>3. /\ SubSeq(items, b, n) \in Seq(Item)
        /\ Len(SubSeq(items, b, n)) = IF b <= n THEN n - b + 1 ELSE 0
        /\ \A j \in 1..(n - b + 1) : SubSeq(items, b, n)[j] = items[b + j - 1]
    BY <2>1, <2>2, SubSeqProperties
  <2>4. new = SubSeq(items, b, n)
    BY <1>2, <1>3, <2>2
  <2>5. n - b + 1 = m /\ (b <= n <=> m # 0) /\ \A j \in 1..m : b + j - 1 = a + j
    BY <1>2, <2>2
  <2> QED BY <2>3, <2>4, <2>5
<1>6. DOMAIN new = 1..m
  BY <1>5
<1>7. \A j \in 1..m : new[j].kind = "frame"
  <2>1. ASSUME NEW j \in 1..m PROVE items[a + j].kind = "frame"
    <3>1. a + j \in 1..Len(items)
      BY <1>2
    <3> QED BY <3>1, ItemTells
  <2> QED BY <1>5, <2>1
<1>8. handed' = PassOn(handed, new)
  BY <1>4, <1>6, <1>7 DEF HandOut
<1>9. \A j \in 1..m : new[j] = items[seen + j] /\ new[j].kind = "frame"
  BY <1>2, <1>5, <1>7
<1> QED BY <1>2, <1>4, <1>6, <1>8, <1>9

\* What is passed on shows the latest of each kind.
LEMMA DecodeReported ==
    ASSUME DInv, Understood, Counted, Reported, Decode
    PROVE  Reported'
<1>1. /\ device' = device /\ plan' = plan /\ air' = air /\ meant' = meant /\ read' = read
      /\ damaged' = damaged /\ truth' = truth
  BY DEF Decode, user
<1>2. Stream' = Stream
  BY <1>1, Extracted DEF Stream
<1> SUFFICES ASSUME read # "none", ~damaged, NEW k \in DOMAIN meant, Visible(k, read)
             PROVE  Pending(k)' \/ \E t \in truth' : Latest(k, t)'
  BY <1>1 DEF Reported
<1>3. CASE Pending(k)
  BY <1>1, <1>3 DEF Pending
<1>4. ASSUME NEW t \in truth, Latest(k, t)
      PROVE  Latest(k, t)'
  <2>1. PICK note : note = Tell(device, AskFor(k)) /\ note.kind = k
    <3>1. IsDevice(device) /\ meant \in Meaning /\ Agree(device, meant)
      BY DEF DInv, Understood
    <3>2. Tell(device, AskFor(k)) = Note(k, meant[k])
      BY <3>1, AnswersSay
    <3> QED BY <3>2 DEF Note
  <2>2. /\ NoteOf(Stream, t) = note
        /\ \A u \in truth : u.from > t.from => NoteOf(Stream, u).kind # k
        /\ \A i \in 1..seen : items[i].from = t.from => Displays(shown, k, note) /\ Displays(handed, k, note)
    BY <1>4, <2>1 DEF Latest
  <2>3. /\ items \in Seq(Item) /\ Len(items) \in Nat /\ seen \in Nat /\ seen <= Len(items)
    BY DialogueTypes DEF Counted
  <2>4. SUFFICES ASSUME NEW i \in 1..seen', items'[i].from = t.from
                 PROVE  Displays(shown', k, note) /\ Displays(handed', k, note)
    <3>1. /\ NoteOf(Stream', t) = note
          /\ \A u \in truth' : u.from > t.from => NoteOf(Stream', u).kind # k
          /\ Tell(device', AskFor(k)) = note
      BY <1>1, <1>2, <2>1, <2>2
    <3>2. \A i \in 1..seen' : items'[i].from = t.from =>
              Displays(shown', k, note) /\ Displays(handed', k, note)
      BY <2>4
    <3> QED BY <3>1, <3>2 DEF Latest
  <2>5. CASE draining'
    <3>1. seen' = seen /\ shown' = shown /\ handed' = handed
      BY <2>5 DEF Decode, views
    <3>2. i \in 1..Len(items)
      BY <2>3, <3>1
    <3>3. items'[i] = items[i]
      BY <2>3, <3>2, Extracted
    <3> QED BY <2>2, <2>4, <3>1, <3>3
  <2>6. CASE ~draining'
    <3>1. PICK new : \E m \in Nat :
              /\ seen' = Len(items) /\ Len(items) = seen + m
              /\ DOMAIN new = 1..m /\ \A j \in 1..m : new[j] = items[seen + j] /\ new[j].kind = "frame"
              /\ shown' = PassOn(shown, new) /\ handed' = PassOn(handed, new)
      BY <2>6, HandedOn
    <3>0. PICK m \in Nat :
              /\ seen' = Len(items) /\ Len(items) = seen + m
              /\ DOMAIN new = 1..m /\ \A j \in 1..m : new[j] = items[seen + j] /\ new[j].kind = "frame"
              /\ shown' = PassOn(shown, new) /\ handed' = PassOn(handed, new)
      BY <3>1
    <3>2. PICK n \in Nat, a \in Nat : n = Len(items) /\ a = seen /\ n = a + m
      BY <2>3, <3>0
    <3>3. i \in 1..n /\ items[i].from = t.from
      BY <2>4, <2>6, <3>0, <3>2, Extracted
    <3>4. ASSUME NEW j \in 1..n, j > i
          PROVE  Told(items[j]).kind # k
      <4>1. PICK u \in truth : u.from = items[j].from /\ Told(items[j]) = NoteOf(Stream, u)
        BY <3>2, ItemTells
      <4>2. items[i].from < items[j].from /\ items[i].from \in Nat /\ items[j].from \in Nat
        BY <3>2, <3>3, <3>4, ItemsInOrder
      <4>3. u.from > t.from
        BY <3>3, <4>1, <4>2
      <4> QED BY <2>2, <4>1, <4>3
    <3>5. Told(items[i]) = note
      <4>1. PICK u \in truth : u.from = items[i].from /\ u.to = items[i].to /\ Told(items[i]) = NoteOf(Stream, u)
        BY <3>2, <3>3, ItemTells
      <4>2. t = u \/ t.to <= u.from \/ u.to <= t.from
        BY DEF DInv, Tiled
      <4>3. t.from \in Nat /\ t.to \in Nat /\ t.from < t.to
        <5>1. Stream \in Seq(Byte) /\ Lies(Stream, t)
          BY DialogueTypes DEF DInv, Sent
        <5>2. t.from \in Nat /\ t.to \in Nat /\ t.from + 4 <= t.to
          BY <5>1, LiesIsCut
        <5> QED BY <5>2
      <4>4. items[i].from \in Nat /\ items[i].to \in Nat /\ items[i].from < items[i].to
        BY <3>2, <3>3, ItemsInOrder
      <4>5. t = u
        BY <3>3, <4>1, <4>2, <4>3, <4>4
      <4> QED BY <2>2, <4>1, <4>5
    <3>6. CASE i <= a
      <4>1. ASSUME NEW j \in 1..m PROVE Told(new[j]).kind # k
        <5>1. a + j \in 1..n /\ a + j > i
          BY <3>2, <3>3, <3>6
        <5> QED BY <3>0, <3>2, <3>4, <5>1
      <4>2. Displays(shown, k, note) /\ Displays(handed, k, note)
        <5>1. i \in 1..seen
          BY <3>2, <3>3, <3>6
        <5> QED BY <2>2, <3>3, <5>1
      <4>3. k \in DOMAIN shown /\ k \in DOMAIN handed
        BY <4>2 DEF Displays
      <4>4. /\ k \in DOMAIN PassOn(shown, new) /\ PassOn(shown, new)[k] = shown[k]
            /\ k \in DOMAIN PassOn(handed, new) /\ PassOn(handed, new)[k] = handed[k]
        BY <3>0, <4>1, <4>3, PassedOn
      <4> QED BY <3>0, <4>2, <4>4 DEF Displays
    <3>7. CASE ~(i <= a)
      <4>1. PICK j \in 1..m : i = a + j
        <5>1. i - a \in 1..m /\ i = a + (i - a)
          BY <3>2, <3>3, <3>7
        <5> QED BY <5>1
      <4>2. Told(new[j]) = note
        BY <3>0, <3>2, <3>5, <4>1
      <4>3. ASSUME NEW l \in 1..m, l > j PROVE Told(new[l]).kind # k
        <5>1. a + l \in 1..n /\ a + l > i
          BY <3>2, <4>1, <4>3
        <5> QED BY <3>0, <3>2, <3>4, <5>1
      <4>4. Told(new[j]).kind = k
        BY <2>1, <4>2
      <4>5. /\ k \in DOMAIN PassOn(shown, new) /\ PassOn(shown, new)[k] = from_notification(Told(new[j]))
            /\ k \in DOMAIN PassOn(handed, new) /\ PassOn(handed, new)[k] = from_notification(Told(new[j]))
        BY <3>0, <4>3, <4>4, PassedOn
      <4> QED BY <3>0, <4>2, <4>5 DEF Displays
    <3> QED BY <3>6, <3>7
  <2> QED BY <2>5, <2>6
<1>5. Pending(k) \/ \E t \in truth : Latest(k, t)
  BY DEF Reported
<1> QED BY <1>1, <1>3, <1>4, <1>5

LEMMA ReportedNext ==
    ASSUME RInv, DialogueNext
    PROVE  RInv'
<1>1. DInv /\ Understood /\ Counted /\ Reported
  BY DEF RInv
<1>2. DInv' /\ Understood' /\ Counted'
  BY <1>1, DialogueNextInv, UnderstoodNext, CountedNext
<1> SUFFICES Reported'
  BY <1>2 DEF RInv
<1>3. ASSUME read' = "none" \/ damaged'
      PROVE  Reported'
  BY <1>3 DEF Reported
<1>4. ASSUME NEW r \in Requests, Request(r) PROVE Reported'
  BY <1>3, <1>4 DEF Request
<1>5. ASSUME NEW f \in Files, Import(f) PROVE Reported'
  BY <1>3, <1>5 DEF Import
<1>6. ASSUME NEW profile \in Profiles, Readout(profile) PROVE Reported'
  BY <1>1, <1>6, ReadoutReported
<1>7. CASE Send
  BY <1>1, <1>7, SendReported
<1>8. CASE LoseByte
  BY <1>3, <1>8 DEF LoseByte
<1>9. CASE StrayHead
  BY <1>3, <1>9 DEF StrayHead
<1>10. CASE Reconnect
  BY <1>3, <1>10 DEF Reconnect
<1>11. ASSUME NEW n \in Pieces, Arrive(n) PROVE Reported'
  BY <1>1, <1>11, ArriveReported
<1>12. CASE Decode
  BY <1>1, <1>12, DecodeReported
<1> QED BY <1>4, <1>5, <1>6, <1>7, <1>8, <1>9, <1>10, <1>11, <1>12 DEF DialogueNext

LEMMA ReportedStutters ==
    ASSUME RInv, UNCHANGED dialogue
    PROVE  RInv'
<1>1. DInv'
  BY DialogueNextInv DEF RInv
<1>2. /\ received' = received /\ draining' = draining /\ items' = items /\ device' = device
      /\ plan' = plan /\ air' = air /\ shown' = shown /\ handed' = handed /\ seen' = seen
      /\ meant' = meant /\ read' = read /\ damaged' = damaged /\ truth' = truth
  BY DEF dialogue, decoder, views, user
<1>3. Stream' = Stream
  BY <1>2 DEF Stream
<1>4. Understood' /\ Counted'
  BY <1>2 DEF RInv, Understood, Counted
<1>5. \A k, t : Latest(k, t)' <=> Latest(k, t)
  BY <1>2, <1>3 DEF Latest
<1>6. \A k : Pending(k)' <=> Pending(k)
  BY <1>2 DEF Pending
<1>7. Reported'
  BY <1>2, <1>5, <1>6 DEF RInv, Reported
<1> QED BY <1>1, <1>4, <1>7 DEF RInv

\* A decoder at rest that has received all there is has consumed it.
LEMMA AllConsumed ==
    ASSUME DInv, air = <<>>, ~draining, ~damaged
    PROVE  Len(items) \in Nat /\ \A t \in truth : t.to <= consumed
<1>1. /\ received \in Seq(Byte) /\ Stream \in Seq(Byte) /\ Len(Stream) = End /\ End \in Nat
      /\ Len(items) \in Nat
  BY DialogueTypes
<1>2. Stream = received
  BY <1>1, DialogueTypes, ConcatEmptySeq DEF Stream
<1>3. \A t \in truth : Lies(Stream, t)
  BY DEF DInv, Sent
<1>4. ~CanCut(received, consumed)
  BY InvCuts DEF DInv, CutsIgnoreChunks
<1>5. consumed = End
  <2>1. ASSUME NEW t \in truth, t.from = consumed
        PROVE  FALSE
    BY <1>1, <1>2, <1>3, <1>4, <2>1, LiesIsCut
  <2> QED BY <2>1 DEF DInv, Tiled
<1>6. ASSUME NEW t \in truth
      PROVE  t.to <= consumed
  BY <1>1, <1>3, <1>5, LiesIsCut
<1> QED BY <1>1, <1>6

LEMMA ReportedIsMeant == RInv => ShownIsMeant
<1> SUFFICES ASSUME RInv, read # "none", plan = <<>>, air = <<>>, ~draining, ~damaged,
                    NEW k \in DOMAIN meant, Visible(k, read), NEW view \in {shown, handed}
             PROVE  k \in DOMAIN view /\ Again(k, view[k]) = meant[k]
  BY DEF ShownIsMeant
<1>1. DInv /\ Understood /\ Counted /\ Reported
  BY DEF RInv
<1>2. ~Pending(k)
  <2>1. Len(plan) = 0
    OBVIOUS
  <2> QED BY <2>1 DEF Pending
<1>3. PICK t \in truth : Latest(k, t)
  BY <1>1, <1>2 DEF Reported
<1>4. t.to <= consumed
  BY <1>1, AllConsumed
<1>5. [kind |-> "frame", from |-> t.from, to |-> t.to] \in ToSet(items)
  BY <1>1, <1>4, Arrived DEF FramesArrive
<1>6. PICK i \in 1..Len(items) : items[i].from = t.from
  <2>1. DOMAIN items = 1..Len(items)
    BY <1>1, DialogueTypes
  <2> QED BY <1>5, <2>1 DEF ToSet
<1>7. Displays(view, k, Tell(device, AskFor(k)))
  <2>1. i \in 1..seen
    BY <1>1, <1>6 DEF Counted
  <2> QED BY <1>3, <1>6, <2>1 DEF Latest
<1>8. meant \in Meaning /\ Tell(device, AskFor(k)) = Note(k, meant[k])
  <2>1. IsDevice(device) /\ meant \in Meaning /\ Agree(device, meant)
    BY <1>1 DEF DInv, Understood
  <2> QED BY <2>1, AnswersSay
<1>9. Again(k, from_notification(Note(k, meant[k]))) = meant[k]
  BY <1>8, WrittenAgain
<1> QED BY <1>7, <1>8, <1>9 DEF Displays

\* After a readout over an undamaged link whatever the profile shows is what was last
\* asked for, and may be written again as it is shown, whichever requests, files and
\* readouts came before, in pieces of any size and after any damage to earlier links
\* (notification.rs:85, notify_json.rs:43).
THEOREM ReadoutsShowWhatIsMeant == DialogueSpec => []ShownIsMeant
<1>1. RInv /\ [DialogueNext]_dialogue => RInv'
  BY ReportedNext, ReportedStutters
<1> QED BY <1>1, ReportedInit, ReportedIsMeant, PTL DEF DialogueSpec
=============================================================================
