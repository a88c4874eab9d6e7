----------------------------- MODULE InputProofs ------------------------------
(***************************************************************************)
(* However the bytes of keyboard and mouse are interleaved, for any number *)
(* of keys and packets: no key is lost, packets are put together whole,    *)
(* and no click is invented.                                               *)
(***************************************************************************)
EXTENDS Input, SequenceTheorems, TLAPS

LEMMA KeyBytesAre ==
  ASSUME NEW b \in KeyBytes
  PROVE  ~ FromMouse(b) /\ b.key \in 1..MaxKeys /\ b.up \in BOOLEAN
BY DEF KeyBytes, FromMouse

LEMMA MouseBytesAre ==
  ASSUME NEW b \in MouseBytes
  PROVE  /\ FromMouse(b) /\ b.n \in 1..MaxMoves /\ b.i \in 1..3
         /\ b.sync \in BOOLEAN /\ b.down \in BOOLEAN /\ b.char \in BOOLEAN
BY DEF MouseBytes, FromMouse

(* A byte that is offered is of the one or of the other.                   *)
LEMMA OfferedIs ==
  ASSUME TypeOK, out # <<>>
  PROVE  /\ Len(out) = 1
         /\ \/ out[1] \in KeyBytes /\ ~ FromMouse(out[1]) /\ ~ ForMouse
            \/ out[1] \in MouseBytes /\ FromMouse(out[1]) /\ ForMouse
<1> DEFINE S == KeyBytes \cup MouseBytes
<1>1. out \in Seq(S) /\ Len(out) <= 1
  BY DEF TypeOK
<1> HIDE DEF S
<1>2. Len(out) = 1
  <2> DEFINE n == Len(out)
  <2>1. n \in Nat \ {0} /\ n <= 1
    BY <1>1, EmptySeq
  <2> HIDE DEF n
  <2>2. n = 1
    BY <2>1
  <2> QED
    BY <2>2 DEF n
<1>3. out[1] \in S
  <2>1. 1 \in 1..Len(out)
    BY <1>2
  <2> QED
    BY <1>1, <2>1, ElementOfSeq
<1>4. out[1] \in KeyBytes \/ out[1] \in MouseBytes
  BY <1>3 DEF S
<1>5. ASSUME out[1] \in KeyBytes PROVE ~ FromMouse(out[1])
  BY <1>5, KeyBytesAre
<1>6. ASSUME out[1] \in MouseBytes PROVE FromMouse(out[1])
  BY <1>6, MouseBytesAre
<1> QED
  BY <1>2, <1>4, <1>5, <1>6 DEF ForMouse

(* One character more is typed.                                            *)
LEMMA OneTyped ==
  ASSUME TypeOK, NEW k \in 0..MaxKeys,
         typed' = Append(typed, k) \/ typed' = typed \o <<k>>
  PROVE  /\ typed' \in Seq(0..MaxKeys) /\ Len(typed') = Len(typed) + 1
         /\ \A i \in 1..Len(typed) : typed'[i] = typed[i]
         /\ typed'[Len(typed) + 1] = k
<1> DEFINE S == 0..MaxKeys
<1>1. typed \in Seq(S) /\ k \in S
  BY DEF TypeOK
<1> HIDE DEF S
<1>2. typed' = Append(typed, k)
  BY <1>1, AppendIsConcat
<1>3. /\ typed' \in Seq(S) /\ Len(typed') = Len(typed) + 1
      /\ \A i \in 1..Len(typed) : typed'[i] = typed[i]
      /\ typed'[Len(typed) + 1] = k
  BY <1>1, <1>2, AppendProperties
<1> QED
  BY <1>3 DEF S

(* What kbd_getc types of a byte                                           *)
LEMMA CharacterIs ==
  ASSUME TypeOK, out # <<>>
  PROVE  \/ Character(out[1]) = <<>> /\ KeyOf(out[1]) = 0
         \/ KeyOf(out[1]) \in 0..MaxKeys /\ Character(out[1]) = <<KeyOf(out[1])>>
<1>1. CASE out[1] \in KeyBytes /\ ~ FromMouse(out[1])
  BY <1>1, KeyBytesAre, InputAssumption DEF Character, KeyOf
<1>2. CASE out[1] \in MouseBytes /\ FromMouse(out[1])
  BY <1>2, MouseBytesAre, InputAssumption DEF Character, KeyOf
<1> QED
  BY <1>1, <1>2, OfferedIs

LEMMA KbdTypes ==
  ASSUME TypeOK, kbd_getc, out # <<>>
  PROVE  \/ typed' = typed /\ KeyOf(out[1]) = 0
         \/ KeyOf(out[1]) \in 0..MaxKeys /\ typed' = typed \o <<KeyOf(out[1])>>
<1>1. typed' = typed \o Character(out[1])
  BY DEF kbd_getc
<1>2. typed \o <<>> = typed
  BY ConcatEmptySeq DEF TypeOK
<1> QED
  BY <1>1, <1>2, CharacterIs

LEMMA PacketByte ==
  ASSUME TypeOK, NEW j \in 1..Len(pkt)
  PROVE  pkt[j] \in MouseBytes
<1>1. pkt \in Seq(MouseBytes)
  BY DEF TypeOK
<1> QED
  BY <1>1, ElementOfSeq

(* The three things mouse_poll does with a byte                            *)
LEMMA ByteIsTaken ==
  ASSUME TypeOK, mouse_byte
  PROVE  /\ out[1] \in MouseBytes /\ Len(out) = 1 /\ out # <<>> /\ ForMouse
         /\ \/ pkt = <<>> /\ ~ out[1].sync /\ UNCHANGED mouse
            \/ /\ Len(pkt) < 2 /\ ~ (pkt = <<>> /\ ~ out[1].sync)
               /\ pkt' = Append(pkt, out[1]) /\ UNCHANGED <<buttons, last>>
            \/ /\ Len(pkt) = 2 /\ pkt' = <<>> /\ buttons' = pkt[1].down
               /\ last' = pkt[1].n
<1>1. out # <<>> /\ ForMouse
  BY DEF mouse_byte, ForMouse
<1>2. Len(pkt) \in Nat /\ Len(pkt) <= 2
  BY LenProperties DEF TypeOK
<1>3. out[1] \in MouseBytes /\ Len(out) = 1 /\ out[1].sync \in BOOLEAN
  BY <1>1, OfferedIs, MouseBytesAre
<1>4. CASE pkt = <<>> /\ ~ out[1].sync
  BY <1>1, <1>3, <1>4 DEF mouse_byte
<1>5. CASE ~ (pkt = <<>> /\ ~ out[1].sync) /\ Len(pkt) < 2
  BY <1>1, <1>3, <1>5 DEF mouse_byte
<1>6. CASE ~ (pkt = <<>> /\ ~ out[1].sync) /\ ~ (Len(pkt) < 2)
  <2>1. Len(pkt) = 2
    <3> DEFINE n == Len(pkt)
    <3>1. n \in Nat /\ n <= 2 /\ ~ (n < 2)
      BY <1>2, <1>6
    <3> HIDE DEF n
    <3>2. n = 2
      BY <3>1
    <3> QED
      BY <3>2 DEF n
  <2>2. /\ pkt' = <<>> /\ buttons' = pkt[1].down
        /\ last' = pkt[1].n
    BY <1>6 DEF mouse_byte
  <2> QED
    BY <1>1, <1>3, <2>1, <2>2
<1> QED
  BY <1>4, <1>5, <1>6

-----------------------------------------------------------------------------
(* The press of a key, and the bytes it sends                              *)
LEMMA TypeHolds ==
  ASSUME TypeOK, [Next]_vars
  PROVE  TypeOK'
<1> USE InputAssumption
<1>1. CASE press
  <2>1. pressed' \in 1..MaxKeys
    BY <1>1 DEF press, TypeOK
  <2>2. /\ [key |-> pressed', up |-> FALSE] \in KeyBytes
        /\ [key |-> pressed', up |-> TRUE] \in KeyBytes
    BY <2>1 DEF KeyBytes
  <2>3. kbd' \in Seq(KeyBytes)
    BY <1>1, <2>2 DEF press, TypeOK
  <2> QED
    BY <1>1, <2>1, <2>3 DEF press, TypeOK, mouse
<1>2. ASSUME NEW down \in BOOLEAN, NEW b2 \in BODY, NEW b3 \in BODY,
             move(down, b2, b3)
      PROVE  TypeOK'
  <2> DEFINE byte(i, b) == [n |-> moved', i |-> i, sync |-> b.sync,
                            down |-> b.down, char |-> b.char]
             b1 == first_byte(down)
  <2>1. moved' \in 1..MaxMoves
    BY <1>2 DEF move, TypeOK
  <2>2. b1 \in [sync : BOOLEAN, down : BOOLEAN, char : BOOLEAN]
    BY DEF first_byte
  <2>6. button' \in [1..MaxMoves -> BOOLEAN]
    BY <1>2, <2>1 DEF move, TypeOK
  <2>3. /\ byte(1, b1) \in MouseBytes /\ byte(2, b2) \in MouseBytes
        /\ byte(3, b3) \in MouseBytes
    BY <2>1, <2>2 DEF MouseBytes
  <2>4. aux' = aux \o <<byte(1, b1), byte(2, b2), byte(3, b3)>>
    BY <1>2 DEF move
  <2> HIDE DEF byte, b1
  <2>5. aux' \in Seq(MouseBytes)
    BY <2>3, <2>4 DEF TypeOK
  <2> QED
    BY <1>2, <2>1, <2>5, <2>6 DEF move, TypeOK, mouse
<1>3. CASE deliver_key
  <2>1. Head(kbd) \in KeyBytes /\ Tail(kbd) \in Seq(KeyBytes)
    BY <1>3 DEF deliver_key, TypeOK
  <2> QED
    BY <1>3, <2>1 DEF deliver_key, TypeOK, mouse
<1>4. CASE deliver_mouse
  <2>1. Head(aux) \in MouseBytes /\ Tail(aux) \in Seq(MouseBytes)
    BY <1>4 DEF deliver_mouse, TypeOK
  <2> QED
    BY <1>4, <2>1 DEF deliver_mouse, TypeOK, mouse
<1>5. CASE mouse_byte
  <2>1. CASE UNCHANGED mouse
    BY <1>5, <2>1 DEF mouse_byte, mouse, TypeOK, devices
  <2>2. CASE /\ Len(pkt) < 2 /\ pkt' = Append(pkt, out[1])
             /\ UNCHANGED <<buttons, last>>
    <3>1. pkt' \in Seq(MouseBytes) /\ Len(pkt') <= 2
      BY <1>5, <2>2, ByteIsTaken, AppendProperties, LenProperties DEF TypeOK
    <3> QED
      BY <1>5, <2>2, <3>1 DEF mouse_byte, TypeOK, devices
  <2>3. CASE /\ Len(pkt) = 2 /\ pkt' = <<>> /\ buttons' = pkt[1].down
             /\ last' = pkt[1].n
    <3>1. pkt[1] \in MouseBytes
      BY <2>3, PacketByte
    <3>2. buttons' \in BOOLEAN
      BY <2>3, <3>1, MouseBytesAre
    <3>3. last' \in 0..MaxMoves
      BY <2>3, <3>1, MouseBytesAre
    <3> QED
      BY <1>5, <2>3, <3>2, <3>3 DEF mouse_byte, TypeOK, devices
  <2> QED
    BY <1>5, <2>1, <2>2, <2>3, ByteIsTaken
<1>6. CASE mouse_done
  <2>1. clicks' \in Seq(0..MaxMoves)
    <3> DEFINE S == 0..MaxMoves
    <3>1. clicks' = clicks \/ clicks' = Append(clicks, last)
      BY <1>6 DEF mouse_done
    <3>2. clicks \in Seq(S) /\ last \in S
      BY DEF TypeOK
    <3> HIDE DEF S
    <3>3. clicks' \in Seq(S)
      BY <3>1, <3>2, AppendProperties
    <3> QED
      BY <3>3 DEF S
  <2> QED
    BY <1>6, <2>1 DEF mouse_done, TypeOK, devices, mouse
<1>7. CASE serial_trygetc
  <2>1. CASE out = <<>> \/ ForMouse
    BY <1>7, <2>1 DEF serial_trygetc, TypeOK, devices, mouse
  <2>2. CASE ~ (out = <<>> \/ ForMouse)
    <3>1. out[1].key \in 0..MaxKeys
      BY <2>2, OfferedIs, KeyBytesAre
    <3>2. typed' = typed \/ typed' = Append(typed, out[1].key)
      BY <1>7, <2>2 DEF serial_trygetc
    <3>3. typed' \in Seq(0..MaxKeys)
      BY <3>1, <3>2, OneTyped DEF TypeOK
    <3> QED
      BY <1>7, <2>2, <3>3 DEF serial_trygetc, TypeOK, devices, mouse
  <2> QED
    BY <2>1, <2>2
<1>8. CASE kbd_getc
  <2>1. CASE out = <<>>
    BY <1>8, <2>1 DEF kbd_getc, TypeOK, devices, mouse
  <2>2. CASE out # <<>>
    <3>2. typed' \in Seq(0..MaxKeys)
      BY <1>8, <2>2, KbdTypes, OneTyped DEF TypeOK
    <3>3. stolen' \in BOOLEAN
      BY <1>8, <2>2 DEF kbd_getc
    <3> QED
      BY <1>8, <3>2, <3>3 DEF kbd_getc, TypeOK, devices, mouse
  <2> QED
    BY <2>1, <2>2
<1>9. CASE UNCHANGED vars
  BY <1>9 DEF vars, TypeOK, devices, mouse
<1> QED
  BY <1>1, <1>2, <1>3, <1>4, <1>5, <1>6, <1>7, <1>8, <1>9 DEF Next, Loop

-----------------------------------------------------------------------------
(* The bytes of the keyboard are numbered as they are sent: key k is byte  *)
(* 2k-1 when it goes down and 2k when it goes up.                          *)
KeySerial(b) == 2 * b.key - (IF b.up THEN 0 ELSE 1)

OutKeys == IF out # <<>> /\ ~ ForMouse THEN 1 ELSE 0

(* The number of the last that was read                                    *)
KeysRead == 2 * pressed - Len(kbd) - OutKeys

(* What was typed of them is every key that went down, in order.           *)
TypedInv ==
  /\ \A k \in 1..pressed :
       (\E j \in 1..Len(typed) : typed[j] = k) <=> 2 * k - 1 <= KeysRead
  /\ \A j \in 1..Len(typed) : typed[j] \in 0..pressed
  /\ \A i, j \in 1..Len(typed) :
       i < j /\ typed[i] # 0 /\ typed[j] # 0 => typed[i] < typed[j]

(* What is to be read are the bytes that follow, without a gap.            *)
KeyInv ==
  /\ \A j \in 1..Len(kbd) : KeySerial(kbd[j]) = 2 * pressed - Len(kbd) + j
  /\ OutKeys = 1 => KeySerial(out[1]) = 2 * pressed - Len(kbd)
  /\ TypedInv

LEMMA Lengths ==
  ASSUME TypeOK
  PROVE  /\ Len(kbd) \in Nat /\ Len(aux) \in Nat /\ Len(typed) \in Nat
         /\ Len(pkt) \in Nat /\ Len(out) \in Nat
         /\ pressed \in Nat /\ moved \in Nat
         /\ \A j \in 1..Len(kbd) : kbd[j] \in KeyBytes
         /\ \A j \in 1..Len(aux) : aux[j] \in MouseBytes
         /\ \A j \in 1..Len(typed) : typed[j] \in 0..MaxKeys
<1>1. /\ kbd \in Seq(KeyBytes) /\ aux \in Seq(MouseBytes)
      /\ typed \in Seq(0..MaxKeys) /\ pkt \in Seq(MouseBytes)
      /\ out \in Seq(KeyBytes \cup MouseBytes)
      /\ pressed \in Nat /\ moved \in Nat
  BY InputAssumption DEF TypeOK
<1> QED
  BY <1>1, LenProperties, ElementOfSeq

LEMMA SerialIs ==
  ASSUME NEW b \in KeyBytes
  PROVE  /\ b.key \in Nat /\ b.key >= 1
         /\ b.up \in BOOLEAN
         /\ b.up => KeySerial(b) = 2 * b.key /\ KeyOf(b) = 0
         /\ ~ b.up => KeySerial(b) = 2 * b.key - 1 /\ KeyOf(b) = b.key
BY KeyBytesAre, InputAssumption DEF KeySerial, KeyOf

LEMMA KeysRest ==
  ASSUME KeyInv, UNCHANGED <<kbd, pressed, typed>>, OutKeys' = OutKeys,
         OutKeys = 1 => out' = out
  PROVE  KeyInv'
BY DEF KeyInv, TypedInv, KeysRead

-----------------------------------------------------------------------------
(* The bytes of the mouse are numbered as they are sent.                   *)
ByteSerial(b) == 3 * (b.n - 1) + b.i

OutBytes == IF ForMouse THEN 1 ELSE 0

(* The number of the last that was read, by whichever of the two           *)
BytesRead == 3 * moved - Len(aux) - OutBytes

(* The first byte of a packet can start one, and tells of the left button. *)
FirstIsTrue(b) == b.i = 1 => b.sync /\ b.down = button[b.n]

(* mouse_poll stands in packet q + 1.                                      *)
InPacket(q) ==
  /\ BytesRead - Len(pkt) = 3 * q
  /\ \A j \in 1..Len(pkt) :
       ByteSerial(pkt[j]) = 3 * q + j /\ FirstIsTrue(pkt[j])

(* What is to be read are the bytes that follow, without a gap.            *)
BytesFollow ==
  /\ \A j \in 1..Len(aux) :
       ByteSerial(aux[j]) = 3 * moved - Len(aux) + j /\ FirstIsTrue(aux[j])
  /\ ForMouse => ByteSerial(out[1]) = 3 * moved - Len(aux) /\ FirstIsTrue(out[1])

MouseInv == BytesFollow /\ (~ stolen => InPacket(last))

LEMMA BytesRest ==
  ASSUME BytesFollow, UNCHANGED <<aux, moved, button>>,
         ForMouse' => ForMouse /\ out' = out
  PROVE  BytesFollow'
BY DEF BytesFollow, ByteSerial, FirstIsTrue

LEMMA PacketRests ==
  ASSUME MouseInv, UNCHANGED <<pkt, stolen, last, button>>,
         BytesRead' = BytesRead
  PROVE  ~ stolen' => InPacket(last)'
BY DEF MouseInv, InPacket, ByteSerial, FirstIsTrue

(* A packet that is sent changes nothing about those that were sent before.*)
LEMMA SentStays ==
  ASSUME TypeOK, NEW down \in BOOLEAN, NEW b2 \in BODY, NEW b3 \in BODY,
         move(down, b2, b3)
  PROVE  /\ \A b \in MouseBytes :
              ByteSerial(b) <= 3 * moved /\ FirstIsTrue(b) => FirstIsTrue(b)'
         /\ \A n \in 1..moved : Released(n) => Released(n)'
<1>1. /\ moved \in Nat /\ moved' = moved + 1 /\ moved' \in 1..MaxMoves
      /\ button' = [button EXCEPT ![moved + 1] = down]
      /\ button \in [1..MaxMoves -> BOOLEAN] /\ MaxMoves \in Nat
  BY InputAssumption DEF move, TypeOK
<1>2. \A n \in 1..moved : n \in 1..MaxMoves /\ button'[n] = button[n]
  BY <1>1
<1>3. ASSUME NEW b \in MouseBytes, ByteSerial(b) <= 3 * moved, FirstIsTrue(b)
      PROVE  FirstIsTrue(b)'
  <2>1. b.n \in Nat /\ b.n >= 1 /\ b.i \in 1..3
    BY <1>1, MouseBytesAre
  <2>2. b.n \in 1..moved
    BY <1>1, <1>3, <2>1 DEF ByteSerial
  <2> QED
    BY <1>2, <1>3, <2>2 DEF FirstIsTrue
<1>4. ASSUME NEW n \in 1..moved, Released(n)
      PROVE  Released(n)'
  <2>1. n - 1 \in 1..moved
    BY <1>1, <1>4 DEF Released
  <2> QED
    BY <1>2, <1>4, <2>1 DEF Released
<1> QED
  BY <1>3, <1>4

LEMMA MoveStays ==
  ASSUME TypeOK, MouseInv, NEW down \in BOOLEAN, NEW b2 \in BODY, NEW b3 \in BODY,
         move(down, b2, b3)
  PROVE  MouseInv'
<1> DEFINE byte(i, b) == [n |-> moved', i |-> i, sync |-> b.sync,
                          down |-> b.down, char |-> b.char]
           b1 == first_byte(down)
           n  == Len(aux)
           fine(b) == b.i = 1 => b.sync /\ b.down = button'[b.n]
<1>1. moved' = moved + 1 /\ moved' \in 1..MaxMoves /\ moved \in Nat
  BY InputAssumption DEF move, TypeOK
<1>2. /\ byte(1, b1) \in MouseBytes /\ byte(2, b2) \in MouseBytes
      /\ byte(3, b3) \in MouseBytes
  <2>1. b1 \in [sync : BOOLEAN, down : BOOLEAN, char : BOOLEAN]
    BY DEF first_byte
  <2> QED
    BY <1>1, <2>1, InputAssumption DEF MouseBytes
<1>3. /\ ByteSerial(byte(1, b1)) = 3 * moved + 1 /\ fine(byte(1, b1))
      /\ ByteSerial(byte(2, b2)) = 3 * moved + 2 /\ fine(byte(2, b2))
      /\ ByteSerial(byte(3, b3)) = 3 * moved + 3 /\ fine(byte(3, b3))
  <2>1. button'[moved'] = down
    BY <1>1 DEF move, TypeOK
  <2> QED
    BY <1>1, <2>1 DEF ByteSerial, first_byte
<1>4. aux' = aux \o <<byte(1, b1), byte(2, b2), byte(3, b3)>>
  BY DEF move
<1> HIDE DEF byte, b1
<1> DEFINE t == <<byte(1, b1), byte(2, b2), byte(3, b3)>>
<1>5. t \in Seq(MouseBytes) /\ Len(t) = 3 /\ t[1] = byte(1, b1)
      /\ t[2] = byte(2, b2) /\ t[3] = byte(3, b3)
  BY <1>2
<1> HIDE DEF t
<1>6. aux \in Seq(MouseBytes) /\ n \in Nat
  BY Lengths DEF TypeOK
<1>7. /\ Len(aux') = n + 3
      /\ \A j \in 1..(n + 3) : aux'[j] = IF j <= n THEN aux[j] ELSE t[j - n]
  BY <1>4, <1>5, <1>6, ConcatProperties DEF t
<1>8. UNCHANGED <<out, pkt, stolen>> /\ (ForMouse' <=> ForMouse)
  BY DEF move, mouse, ForMouse
<1>9. BytesRead' = BytesRead
  BY <1>1, <1>6, <1>7, <1>8 DEF BytesRead, OutBytes
<1>10. ASSUME NEW j \in 1..Len(aux')
       PROVE  (ByteSerial(aux[j]) = 3 * moved - Len(aux) + j /\ FirstIsTrue(aux[j]))'
  <2>1. j \in 1..(n + 3)
    BY <1>7
  <2>2. CASE j <= n
    <3>1. aux'[j] = aux[j] /\ j \in 1..Len(aux)
      BY <1>6, <1>7, <2>1, <2>2
    <3>2. ByteSerial(aux[j]) = 3 * moved - Len(aux) + j /\ FirstIsTrue(aux[j])
      BY <3>1 DEF MouseInv, BytesFollow
    <3>3. 3 * moved - n + j = 3 * moved' - Len(aux') + j
      BY <1>1, <1>6, <1>7
    <3>4. aux[j] \in MouseBytes /\ ByteSerial(aux[j]) <= 3 * moved
      BY <1>1, <1>6, <2>2, <3>1, <3>2, Lengths
    <3>5. fine(aux[j])
      BY <3>2, <3>4, SentStays DEF FirstIsTrue
    <3> QED
      BY <3>1, <3>2, <3>3, <3>5 DEF ByteSerial, FirstIsTrue
  <2>3. CASE ~ (j <= n)
    <3> DEFINE i == j - n
    <3>1. i \in {1, 2, 3} /\ aux'[j] = t[i]
      BY <1>6, <1>7, <2>1, <2>3
    <3>2. 3 * moved + i = 3 * moved' - Len(aux') + j
      BY <1>1, <1>6, <1>7, <2>1
    <3> HIDE DEF i
    <3>3. ByteSerial(t[i]) = 3 * moved + i /\ fine(t[i])
      BY <3>1, <1>3, <1>5
    <3> QED
      BY <3>1, <3>2, <3>3 DEF ByteSerial, FirstIsTrue
  <2> QED
    BY <2>2, <2>3
<1>11. ForMouse' => (ByteSerial(out[1]) = 3 * moved - Len(aux) /\ FirstIsTrue(out[1]))'
  <2> SUFFICES ASSUME ForMouse
               PROVE  (ByteSerial(out[1]) = 3 * moved - Len(aux) /\ FirstIsTrue(out[1]))'
    BY <1>8
  <2>1. 3 * moved - n = 3 * moved' - Len(aux')
    BY <1>1, <1>6, <1>7
  <2>2. out[1] \in MouseBytes
    BY OfferedIs DEF ForMouse
  <2>3. ByteSerial(out[1]) = 3 * moved - n /\ FirstIsTrue(out[1])
    BY DEF MouseInv, BytesFollow
  <2>4. fine(out[1])
    BY <1>1, <1>6, <2>2, <2>3, SentStays DEF FirstIsTrue
  <2> QED
    BY <1>8, <2>1, <2>3, <2>4 DEF ByteSerial, FirstIsTrue
<1>12. ~ stolen' => InPacket(last)'
  <2> SUFFICES ASSUME ~ stolen
               PROVE  InPacket(last)'
    BY <1>8
  <2>1. InPacket(last) /\ UNCHANGED <<pkt, last>>
    BY DEF MouseInv, move, mouse
  <2>2. ASSUME NEW j \in 1..Len(pkt)
        PROVE  (ByteSerial(pkt[j]) = 3 * last + j /\ FirstIsTrue(pkt[j]))'
    <3>1. /\ pkt[j] \in MouseBytes /\ ByteSerial(pkt[j]) = 3 * last + j
          /\ FirstIsTrue(pkt[j]) /\ last \in Nat
      BY <2>1, PacketByte, InputAssumption DEF InPacket, TypeOK
    <3> DEFINE l == Len(pkt)
               c == BytesRead
    <3>2. c - l = 3 * last /\ c <= 3 * moved /\ c \in Int /\ l \in Nat /\ j \in 1..l
      BY <1>1, <1>6, <2>1, Lengths DEF InPacket, BytesRead, OutBytes
    <3> HIDE DEF l, c
    <3>3. ByteSerial(pkt[j]) <= 3 * moved
      BY <1>1, <3>1, <3>2
    <3>4. fine(pkt[j])
      BY <3>1, <3>3, SentStays DEF FirstIsTrue
    <3> QED
      BY <2>1, <3>1, <3>4 DEF ByteSerial, FirstIsTrue
  <2> QED
    BY <1>9, <2>1, <2>2 DEF InPacket
<1> QED
  BY <1>8, <1>9, <1>10, <1>11, <1>12 DEF MouseInv, BytesFollow

LEMMA DeliverMouseStays ==
  ASSUME TypeOK, MouseInv, deliver_mouse
  PROVE  MouseInv'
<1> DEFINE n == Len(aux)
<1>1. /\ out = <<>> /\ aux # <<>> /\ out' = <<Head(aux)>> /\ aux' = Tail(aux)
      /\ UNCHANGED <<moved, button, pkt, stolen, last>>
  BY DEF deliver_mouse, mouse
<1>2. aux \in Seq(MouseBytes) /\ moved \in Nat
  BY Lengths DEF TypeOK
<1>3. /\ Head(aux) \in MouseBytes /\ Len(aux') = n - 1 /\ n \in Nat \ {0}
      /\ Head(aux) = aux[1] /\ \A j \in 1..(n - 1) : aux'[j] = aux[j + 1]
  BY <1>1, <1>2, HeadTailProperties, EmptySeq, LenProperties
<1>4. out' # <<>> /\ out'[1] = aux[1] /\ ForMouse' /\ ~ ForMouse
  BY <1>1, <1>3, MouseBytesAre DEF ForMouse
<1>5. BytesRead' = BytesRead
  BY <1>1, <1>2, <1>3, <1>4 DEF BytesRead, OutBytes
<1>6. \A j \in 1..n : ByteSerial(aux[j]) = 3 * moved - n + j /\ FirstIsTrue(aux[j])
  BY DEF MouseInv, BytesFollow
<1> HIDE DEF n
<1>7. ASSUME NEW j \in 1..Len(aux')
      PROVE  (ByteSerial(aux[j]) = 3 * moved - Len(aux) + j /\ FirstIsTrue(aux[j]))'
  <2>1. j + 1 \in 1..n /\ aux'[j] = aux[j + 1]
    BY <1>3
  <2>2. ByteSerial(aux[j + 1]) = 3 * moved - n + (j + 1) /\ FirstIsTrue(aux[j + 1])
    BY <1>6, <2>1
  <2>3. 3 * moved - n + (j + 1) = 3 * moved' - Len(aux') + j
    BY <1>1, <1>2, <1>3
  <2> QED
    BY <1>1, <2>1, <2>2, <2>3 DEF ByteSerial, FirstIsTrue
<1>8. (ByteSerial(out[1]) = 3 * moved - Len(aux) /\ FirstIsTrue(out[1]))'
  <2>1. ByteSerial(aux[1]) = 3 * moved - n + 1 /\ FirstIsTrue(aux[1])
    BY <1>3, <1>6
  <2>2. 3 * moved - n + 1 = 3 * moved' - Len(aux')
    BY <1>1, <1>2, <1>3
  <2> QED
    BY <1>1, <1>4, <2>1, <2>2 DEF ByteSerial, FirstIsTrue
<1> QED
  BY <1>1, <1>5, <1>7, <1>8, PacketRests DEF MouseInv, BytesFollow

(* What mouse_poll takes for a packet's first byte is one, of the packet   *)
(* that follows the one it handled last.                                   *)
LEMMA FirstOfPacket ==
  ASSUME TypeOK, InPacket(last), Len(pkt) >= 1
  PROVE  pkt[1].n = last + 1 /\ pkt[1].i = 1 /\ pkt[1].down = button[last + 1]
<1> DEFINE m == pkt[1].n
           r == pkt[1].i
<1>1. 1 \in 1..Len(pkt) /\ last \in Nat
  BY Lengths, InputAssumption DEF TypeOK
<1>2. m \in Int /\ r \in 1..3
  BY <1>1, PacketByte, MouseBytesAre, InputAssumption
<1>3. 3 * (m - 1) + r = 3 * last + 1 /\ FirstIsTrue(pkt[1])
  BY <1>1 DEF InPacket, ByteSerial
<1> HIDE DEF m, r
<1>4. m = last + 1 /\ r = 1
  <2>1. r = 1 \/ r = 2 \/ r = 3
    BY <1>2
  <2> QED
    BY <1>1, <1>2, <1>3, <2>1
<1> QED
  BY <1>3, <1>4 DEF FirstIsTrue, m, r

(* mouse_poll reads the byte that follows.                                 *)
LEMMA ByteStays ==
  ASSUME TypeOK, MouseInv, mouse_byte
  PROVE  MouseInv'
<1> DEFINE n == Len(pkt)
           b == out[1]
<1>1. /\ UNCHANGED <<aux, moved, button, stolen>> /\ out' = <<>>
      /\ ~ ForMouse' /\ ForMouse
      /\ b \in MouseBytes
  BY ByteIsTaken DEF mouse_byte, devices, ForMouse
<1>2. n \in Nat /\ moved \in Nat /\ Len(aux) \in Nat
      /\ pkt \in Seq(MouseBytes) /\ b.i \in 1..3 /\ b.n \in Nat
  BY <1>1, Lengths, MouseBytesAre, InputAssumption DEF TypeOK
<1>3. BytesRead' = BytesRead + 1 /\ BytesRead \in Int
  BY <1>1, <1>2 DEF BytesRead, OutBytes
<1>4. ByteSerial(b) = BytesRead + 1 /\ FirstIsTrue(b)
  BY <1>1, <1>2 DEF MouseInv, BytesFollow, BytesRead, OutBytes
<1>5. BytesFollow'
  BY <1>1, BytesRest DEF MouseInv
<1>6. ASSUME ~ stolen
      PROVE  InPacket(last)'
  <2> DEFINE q == last
  <2>1. /\ BytesRead - n = 3 * q /\ q \in Nat
        /\ \A j \in 1..n : ByteSerial(pkt[j]) = 3 * q + j /\ FirstIsTrue(pkt[j])
    BY <1>6, InputAssumption DEF MouseInv, InPacket, TypeOK
  <2>2. CASE pkt = <<>> /\ ~ b.sync
    <3>1. n = 0
      BY <2>2
    <3>2. b.i # 1
      BY <1>4, <2>2 DEF FirstIsTrue
    <3> HIDE DEF n
    <3>3. 3 * (b.n - 1) + b.i = 3 * q + 1
      BY <1>3, <1>4, <2>1, <3>1 DEF ByteSerial
    <3> HIDE DEF q, b
    <3> QED
      BY <1>2, <2>1, <3>2, <3>3
  <2>3. CASE n < 2 /\ pkt' = Append(pkt, b) /\ last' = last
    <3>1. /\ Len(pkt') = n + 1 /\ pkt'[n + 1] = b
          /\ \A j \in 1..n : pkt'[j] = pkt[j]
      BY <1>1, <1>2, <2>3, AppendProperties
    <3> HIDE DEF n, b
    <3>2. BytesRead' - Len(pkt') = 3 * q
      BY <1>2, <1>3, <2>1, <3>1
    <3>3. ASSUME NEW j \in 1..Len(pkt')
          PROVE  (ByteSerial(pkt[j]) = 3 * last + j /\ FirstIsTrue(pkt[j]))'
      <4>1. CASE j \in 1..n
        BY <1>1, <2>1, <2>3, <3>1, <4>1 DEF ByteSerial, FirstIsTrue
      <4>2. CASE j = n + 1
        <5>1. ByteSerial(b) = 3 * q + j
          BY <1>2, <1>3, <1>4, <2>1, <4>2
        <5> QED
          BY <1>1, <1>4, <2>3, <3>1, <4>2, <5>1 DEF ByteSerial, FirstIsTrue
      <4> QED
        BY <1>2, <3>1, <4>1, <4>2
    <3> QED
      BY <2>3, <3>2, <3>3 DEF InPacket
  <2>4. CASE n = 2 /\ pkt' = <<>> /\ last' = pkt[1].n
    <3>1. Len(pkt') = 0
      BY <2>4
    <3>2. last' = q + 1
      BY <1>6, <2>4, FirstOfPacket DEF MouseInv
    <3> HIDE DEF n, q
    <3>3. BytesRead' - Len(pkt') = 3 * last'
      BY <1>3, <2>1, <2>4, <3>1, <3>2
    <3>4. \A j \in 1..Len(pkt') :
            (ByteSerial(pkt[j]) = 3 * last + j /\ FirstIsTrue(pkt[j]))'
      BY <3>1
    <3> QED
      BY <3>3, <3>4 DEF InPacket
  <2>5. CASE pkt = <<>> /\ ~ b.sync /\ UNCHANGED mouse
    BY <2>2, <2>5
  <2> QED
    BY <2>3, <2>4, <2>5, ByteIsTaken
<1> QED
  BY <1>1, <1>5, <1>6 DEF MouseInv

LEMMA MouseStays ==
  ASSUME TypeOK, MouseInv, [Next]_vars
  PROVE  MouseInv'
<1>1. CASE UNCHANGED <<aux, moved, button, out, pkt, stolen, last>>
  BY <1>1 DEF MouseInv, BytesFollow, InPacket, BytesRead, OutBytes, ForMouse,
     ByteSerial, FirstIsTrue
<1>2. ASSUME UNCHANGED <<aux, moved, button, pkt, stolen, last>>, ~ ForMouse,
             ~ ForMouse'
      PROVE  MouseInv'
  <2>1. BytesRead' = BytesRead
    BY <1>2 DEF BytesRead, OutBytes
  <2> QED
    BY <1>2, <2>1, BytesRest, PacketRests DEF MouseInv
<1>3. ASSUME NEW down \in BOOLEAN, NEW b2 \in BODY, NEW b3 \in BODY,
             move(down, b2, b3)
      PROVE  MouseInv'
  BY <1>3, MoveStays
<1>4. CASE deliver_key
  <2>1. kbd \in Seq(KeyBytes) /\ kbd # <<>> /\ out = <<>> /\ out' = <<Head(kbd)>>
    BY <1>4 DEF deliver_key, TypeOK
  <2>2. Head(kbd) \in KeyBytes
    BY <2>1, HeadTailProperties
  <2>3. ~ ForMouse /\ ~ ForMouse'
    BY <2>1, <2>2, KeyBytesAre DEF ForMouse
  <2> QED
    BY <1>2, <1>4, <2>3 DEF deliver_key, mouse
<1>5. CASE deliver_mouse
  BY <1>5, DeliverMouseStays
<1>6. CASE mouse_byte
  BY <1>6, ByteStays
<1>7. CASE serial_trygetc
  <2>1. CASE out = <<>> \/ ForMouse
    BY <1>1, <1>7, <2>1 DEF serial_trygetc, devices, mouse
  <2>2. CASE ~ (out = <<>> \/ ForMouse)
    BY <1>2, <1>7, <2>2 DEF serial_trygetc, devices, mouse, ForMouse
  <2> QED
    BY <2>1, <2>2
<1>8. CASE kbd_getc
  <2>1. CASE ForMouse
    <3>1. stolen' /\ UNCHANGED <<aux, moved, button>> /\ ~ ForMouse'
      BY <1>8, <2>1 DEF kbd_getc, devices, ForMouse
    <3> QED
      BY <3>1, BytesRest DEF MouseInv
  <2>2. CASE ~ ForMouse
    <3>1. stolen' = stolen
      BY <1>8, <2>2, OfferedIs DEF kbd_getc, ForMouse, TypeOK
    <3> QED
      BY <1>2, <1>8, <2>2, <3>1 DEF kbd_getc, devices, mouse, ForMouse
  <2> QED
    BY <2>1, <2>2
<1> QED
  BY <1>1, <1>3, <1>4, <1>5, <1>6, <1>7, <1>8 DEF Next, Loop, press, mouse_done,
     vars, devices, mouse

(* Bytes of mouse_poll that follow each other are those of one packet.     *)
LEMMA WholeByInv ==
  ASSUME TypeOK, MouseInv
  PROVE  PacketsWhole
<1> SUFFICES ASSUME ~ stolen, NEW i \in DOMAIN pkt
             PROVE  pkt[i].i = i /\ pkt[i].n = pkt[1].n
  BY DEF PacketsWhole
<1> DEFINE q == last
<1>1. InPacket(q) /\ q \in Int
  BY InputAssumption DEF MouseInv, TypeOK
<1>2. i \in 1..Len(pkt) /\ 1 \in 1..Len(pkt) /\ Len(pkt) <= 2
  BY LenProperties DEF TypeOK
<1>3. ASSUME NEW j \in 1..Len(pkt)
      PROVE  pkt[j].i = j /\ pkt[j].n = q + 1
  <2>1. pkt[j].i \in 1..3 /\ pkt[j].n \in Int
    BY PacketByte, MouseBytesAre, InputAssumption
  <2>2. 3 * (pkt[j].n - 1) + pkt[j].i = 3 * q + j
    BY <1>1 DEF InPacket, ByteSerial
  <2>3. j = 1 \/ j = 2
    BY <1>2, Lengths
  <2> DEFINE m == pkt[j].n
             r == pkt[j].i
  <2>4. m \in Int /\ (r = 1 \/ r = 2 \/ r = 3) /\ 3 * (m - 1) + r = 3 * q + j
    BY <2>1, <2>2
  <2> HIDE DEF m, r, q
  <2>5. r = j /\ m = q + 1
    BY <1>1, <2>3, <2>4
  <2> QED
    BY <2>5 DEF m, r
<1> QED
  BY <1>2, <1>3

-----------------------------------------------------------------------------
LastClick == IF clicks = <<>> THEN 0 ELSE clicks[Len(clicks)]

(* The loop and the packets agree: mouse_buttons is what the packet        *)
(* handled last said, and what the loop takes for a click now was a        *)
(* release among the packets handled since it took the click before.       *)
ClickInv ==
  ~ stolen =>
    /\ buttons <=> last > 0 /\ button[last]
    /\ \A i \in 1..Len(clicks) : clicks[i] <= last
    /\ prev_buttons /\ ~ buttons => \E n \in (LastClick + 1)..last : Released(n)
    /\ \A i \in 1..Len(clicks) : \E n \in Since(i) : Released(n)

LEMMA ClickTypes ==
  ASSUME TypeOK
  PROVE  /\ Len(clicks) \in Nat /\ last \in Nat /\ moved \in Nat
         /\ \A i \in 1..Len(clicks) : clicks[i] \in Nat
         /\ LastClick \in Nat
         /\ clicks # <<>> => Len(clicks) \in 1..Len(clicks)
<1>1. clicks \in Seq(0..MaxMoves) /\ last \in Nat /\ moved \in Nat
  BY InputAssumption DEF TypeOK
<1>2. Len(clicks) \in Nat /\ \A i \in 1..Len(clicks) : clicks[i] \in 0..MaxMoves
  BY <1>1, LenProperties, ElementOfSeq
<1>3. ASSUME clicks # <<>> PROVE Len(clicks) \in 1..Len(clicks)
  <2>1. Len(clicks) # 0
    BY <1>1, <1>3, EmptySeq
  <2> QED
    BY <1>2, <2>1
<1> QED
  BY <1>1, <1>2, <1>3, InputAssumption DEF LastClick

LEMMA ClicksBefore ==
  ASSUME TypeOK, ClickInv, ~ stolen
  PROVE  LastClick <= last
BY ClickTypes DEF ClickInv, LastClick

(* mouse_poll is never ahead of the mouse.                                 *)
LEMMA HandledWasSent ==
  ASSUME TypeOK, InPacket(last)
  PROVE  last <= moved
<1> DEFINE l == Len(pkt)
           a == Len(aux)
<1>1. l \in Nat /\ a \in Nat /\ moved \in Nat /\ last \in Nat
  BY Lengths, ClickTypes
<1>2. OutBytes \in Nat /\ 3 * moved - a - OutBytes - l = 3 * last
  BY DEF OutBytes, InPacket, BytesRead
<1> HIDE DEF l, a
<1> QED
  BY <1>1, <1>2

LEMMA ClicksStay ==
  ASSUME TypeOK, MouseInv, ClickInv, [Next]_vars
  PROVE  ClickInv'
<1> SUFFICES ASSUME ~ stolen, ~ stolen'
             PROVE  ClickInv'
  <2>1. stolen => stolen'
    BY DEF Next, Loop, press, move, deliver_key, deliver_mouse, mouse_byte,
       mouse_done, serial_trygetc, kbd_getc, vars, TypeOK
  <2> QED
    BY <2>1 DEF ClickInv
<1>0. InPacket(last)
  BY DEF MouseInv
<1>1. CASE UNCHANGED <<buttons, prev_buttons, button, last, clicks>>
  BY <1>1 DEF ClickInv, LastClick, Since, Released
<1>2. ASSUME NEW down \in BOOLEAN, NEW b2 \in BODY, NEW b3 \in BODY,
             move(down, b2, b3)
      PROVE  ClickInv'
  <2>1. /\ UNCHANGED <<buttons, prev_buttons, last, clicks>>
        /\ moved' = moved + 1 /\ button' = [button EXCEPT ![moved + 1] = down]
    BY <1>2 DEF move, mouse
  <2>2. last <= moved /\ last \in Nat /\ moved \in Nat /\ LastClick \in Nat
    BY <1>0, HandledWasSent, ClickTypes
  <2>3. \A n \in 1..moved : Released(n) => Released(n)'
    BY <1>2, SentStays
  <2>4. (buttons <=> last > 0 /\ button[last])'
    <3>1. last > 0 => button'[last] = button[last]
      BY <2>1, <2>2 DEF TypeOK
    <3> QED
      BY <2>1, <3>1 DEF ClickInv
  <2>5. ASSUME prev_buttons, ~ buttons
        PROVE  \E n \in (LastClick + 1)..last : Released(n)'
    <3>1. PICK n \in (LastClick + 1)..last : Released(n)
      BY <2>5 DEF ClickInv
    <3>2. n \in 1..moved
      BY <2>2
    <3> QED
      BY <2>3, <3>1, <3>2
  <2>6. ASSUME NEW i \in 1..Len(clicks)
        PROVE  \E n \in Since(i) : Released(n)'
    <3>1. PICK n \in Since(i) : Released(n)
      BY DEF ClickInv
    <3>2. clicks[i] <= last /\ clicks[i] \in Nat /\ (i # 1 => clicks[i - 1] \in Nat)
      BY ClickTypes DEF ClickInv
    <3>3. n \in 1..moved
      BY <2>2, <3>2, InputAssumption DEF Since
    <3> QED
      BY <2>3, <3>1, <3>3
  <2>7. LastClick' = LastClick /\ \A i \in 1..Len(clicks) : Since(i)' = Since(i)
    BY <2>1 DEF LastClick, Since
  <2> QED
    BY <2>1, <2>4, <2>5, <2>6, <2>7 DEF ClickInv
<1>3. CASE mouse_byte
  <2>1. UNCHANGED <<prev_buttons, button, clicks>>
    BY <1>3 DEF mouse_byte, devices
  <2>2. CASE UNCHANGED <<buttons, last>>
    BY <1>1, <2>1, <2>2
  <2>3. CASE Len(pkt) = 2 /\ buttons' = pkt[1].down /\ last' = pkt[1].n
    <3>1. Len(pkt) >= 1
      BY <2>3
    <3>2. last' = last + 1 /\ buttons' = button[last + 1]
      BY <1>0, <2>3, <3>1, FirstOfPacket
    <3>3. last \in Nat /\ LastClick \in Nat /\ LastClick <= last
      BY ClickTypes, ClicksBefore
    <3>4. LastClick' = LastClick
      BY <2>1 DEF LastClick
    <3>5. (buttons <=> last > 0 /\ button[last])'
      BY <2>1, <3>2, <3>3
    <3>6. \A i \in 1..Len(clicks') : clicks'[i] <= last'
      BY <2>1, <3>2, <3>3, ClickTypes DEF ClickInv
    <3>7. ASSUME prev_buttons, ~ buttons'
          PROVE  \E n \in (LastClick + 1)..(last + 1) : Released(n)
      <4>1. CASE buttons
        <5>1. Released(last + 1)
          BY <3>2, <3>3, <3>7, <4>1 DEF ClickInv, Released
        <5>2. last + 1 \in (LastClick + 1)..(last + 1)
          BY <3>3
        <5> QED
          BY <5>1, <5>2
      <4>2. CASE ~ buttons
        <5>1. PICK n \in (LastClick + 1)..last : Released(n)
          BY <3>7, <4>2 DEF ClickInv
        <5>2. n \in (LastClick + 1)..(last + 1)
          BY <3>3
        <5> QED
          BY <5>1, <5>2
      <4> QED
        BY <4>1, <4>2
    <3>8. ASSUME prev_buttons', ~ buttons'
          PROVE  \E n \in (LastClick' + 1)..last' : Released(n)'
      BY <2>1, <3>2, <3>4, <3>7, <3>8 DEF Released
    <3>9. \A i \in 1..Len(clicks') : \E n \in Since(i)' : Released(n)'
      BY <2>1 DEF ClickInv, Since, Released
    <3> QED
      BY <3>5, <3>6, <3>8, <3>9 DEF ClickInv
  <2> QED
    BY <1>3, <2>2, <2>3, ByteIsTaken DEF mouse
<1>4. CASE mouse_done
  <2>1. /\ UNCHANGED <<buttons, button, last>> /\ prev_buttons' = buttons
        /\ clicks' = IF prev_buttons /\ ~ buttons
                     THEN Append(clicks, last) ELSE clicks
    BY <1>4 DEF mouse_done, mouse, devices
  <2>2. CASE clicks' = clicks
    BY <2>1, <2>2 DEF ClickInv, LastClick, Since, Released
  <2>3. CASE prev_buttons /\ ~ buttons /\ clicks' = Append(clicks, last)
    <3> DEFINE l == Len(clicks)
    <3>1. /\ Len(clicks') = l + 1 /\ clicks'[l + 1] = last /\ l \in Nat
          /\ \A i \in 1..l : clicks'[i] = clicks[i]
      BY <2>3, AppendProperties, ClickTypes DEF TypeOK
    <3>2. PICK n \in (LastClick + 1)..last : Released(n)
      BY <2>3 DEF ClickInv
    <3>3. LastClick = IF l = 0 THEN 0 ELSE clicks[l]
      BY EmptySeq DEF LastClick, TypeOK
    <3>4. \A i \in 1..l : clicks[i] <= last /\ \E k \in Since(i) : Released(k)
      BY DEF ClickInv
    <3>5. last \in Nat /\ last' = last
      BY <2>1, ClickTypes
    <3> HIDE DEF l
    <3>6. ASSUME NEW i \in 1..(l + 1)
          PROVE  clicks'[i] <= last' /\ \E k \in Since(i)' : Released(k)'
      <4>1. CASE i \in 1..l
        <5>1. i # 1 => i - 1 \in 1..l
          BY <3>1, <4>1
        <5>2. Since(i)' = Since(i)
          BY <3>1, <4>1, <5>1 DEF Since
        <5> QED
          BY <2>1, <3>1, <3>4, <3>5, <4>1, <5>2 DEF Released
      <4>2. CASE i = l + 1
        <5>1. (i = 1 <=> l = 0) /\ (l # 0 => i - 1 = l /\ l \in 1..l)
          BY <3>1, <4>2
        <5>2. Since(i)' = (LastClick + 1)..last
          BY <3>1, <3>3, <4>2, <5>1 DEF Since
        <5>3. Released(n)'
          BY <2>1, <3>2 DEF Released
        <5>4. clicks'[i] <= last'
          BY <3>1, <3>5, <4>2
        <5>5. \E k \in Since(i)' : Released(k)'
          BY <3>2, <5>2, <5>3
        <5> QED
          BY <5>4, <5>5
      <4> QED
        BY <3>1, <4>1, <4>2
    <3>7. (buttons <=> last > 0 /\ button[last])'
      BY <2>1 DEF ClickInv
    <3> QED
      BY <2>1, <2>3, <3>1, <3>6, <3>7 DEF ClickInv
  <2> QED
    BY <2>1, <2>2, <2>3
<1> QED
  BY <1>1, <1>2, <1>3, <1>4 DEF Next, Loop, press, deliver_key, deliver_mouse,
     serial_trygetc, kbd_getc, vars, mouse, devices

-----------------------------------------------------------------------------
(* Nothing is typed by the bytes that are read, if any: by none, by one of *)
(* the mouse, or by a key that goes up.                                    *)
LEMMA NothingTyped ==
  ASSUME TypeOK, TypedInv, UNCHANGED <<pressed, typed>>, KeysRead \in Int,
         \/ KeysRead' = KeysRead
         \/ KeysRead' = KeysRead + 1 /\ \E k \in Nat : KeysRead + 1 = 2 * k
  PROVE  TypedInv'
<1>1. pressed \in Nat
  BY Lengths
<1>2. ASSUME NEW k \in 1..pressed
      PROVE  2 * k - 1 <= KeysRead <=> 2 * k - 1 <= KeysRead'
  BY <1>1
<1> HIDE DEF KeysRead
<1> QED
  BY <1>1, <1>2 DEF TypedInv

(* What is typed stands for the byte that is read.                         *)
LEMMA OneIsTyped ==
  ASSUME TypeOK, TypedInv, NEW k \in 0..MaxKeys, KeysRead \in Int,
         UNCHANGED pressed,
         typed' = Append(typed, k) \/ typed' = typed \o <<k>>,
         \/ k = 0 /\ KeysRead' = KeysRead
         \/ k \in 1..pressed /\ KeysRead = 2 * k - 2 /\ KeysRead' = KeysRead + 1
  PROVE  TypedInv'
<1> DEFINE n == Len(typed)
           c == KeysRead
<1>1. /\ Len(typed') = n + 1 /\ typed'[n + 1] = k
      /\ \A i \in 1..n : typed'[i] = typed[i]
  BY OneTyped
<1>2. n \in Nat /\ pressed \in Nat /\ k \in 0..pressed /\ pressed' = pressed
  BY Lengths
<1>3. /\ \A m \in 1..pressed : (\E j \in 1..n : typed[j] = m) <=> 2 * m - 1 <= c
      /\ \A j \in 1..n : typed[j] \in 0..pressed
      /\ \A i, j \in 1..n :
           i < j /\ typed[i] # 0 /\ typed[j] # 0 => typed[i] < typed[j]
  BY DEF TypedInv
<1>4. c' \in Int /\ c \in Int
      /\ \/ k = 0 /\ c' = c
         \/ k \in 1..pressed /\ c = 2 * k - 2 /\ c' = c + 1
  OBVIOUS
<1> HIDE DEF n, c
<1>5. ASSUME NEW m \in 1..pressed
      PROVE  (\E j \in 1..(n + 1) : typed'[j] = m) <=> 2 * m - 1 <= c'
  <2>1. (\E j \in 1..(n + 1) : typed'[j] = m)
          <=> (\E j \in 1..n : typed[j] = m) \/ k = m
    <3>1. \A j \in 1..(n + 1) : j \in 1..n \/ j = n + 1
      BY <1>2
    <3>2. n + 1 \in 1..(n + 1) /\ \A j \in 1..n : j \in 1..(n + 1)
      BY <1>2
    <3> QED
      BY <1>1, <3>1, <3>2
  <2>2. (2 * m - 1 <= c \/ k = m) <=> 2 * m - 1 <= c'
    BY <1>2, <1>4
  <2> QED
    BY <1>3, <2>1, <2>2
<1>6. ASSUME NEW j \in 1..(n + 1)
      PROVE  typed'[j] \in 0..pressed
  BY <1>1, <1>2, <1>3
<1>7. ASSUME NEW i \in 1..(n + 1), NEW j \in 1..(n + 1), i < j,
             typed'[i] # 0, typed'[j] # 0
      PROVE  typed'[i] < typed'[j]
  <2>1. i \in 1..n /\ typed'[i] = typed[i]
    BY <1>1, <1>2, <1>7
  <2>2. CASE j \in 1..n
    BY <1>1, <1>3, <1>7, <2>1, <2>2
  <2>3. CASE j = n + 1
    <3>1. typed[i] \in 1..pressed /\ k # 0
      BY <1>1, <1>3, <1>7, <2>1, <2>3
    <3>2. 2 * typed[i] - 1 <= c
      BY <1>3, <2>1, <3>1
    <3>3. typed[i] < k
      BY <1>4, <3>1, <3>2
    <3> QED
      BY <1>1, <2>1, <2>3, <3>3
  <2> QED
    BY <1>2, <2>2, <2>3
<1>8. Len(typed') = n + 1 /\ KeysRead' = c' /\ pressed' = pressed
  BY <1>1, <1>2 DEF c
<1>9. /\ \A m \in 1..pressed' :
           (\E j \in 1..Len(typed') : typed'[j] = m) <=> 2 * m - 1 <= KeysRead'
      /\ \A j \in 1..Len(typed') : typed'[j] \in 0..pressed'
      /\ \A i, j \in 1..Len(typed') :
           i < j /\ typed'[i] # 0 /\ typed'[j] # 0 => typed'[i] < typed'[j]
  BY <1>5, <1>6, <1>7, <1>8
<1> QED
  BY <1>9 DEF TypedInv

(* A byte is read, and typed if it is a key that goes down.                *)
LEMMA ByteIsRead ==
  ASSUME TypeOK, KeyInv, out # <<>>, out' = <<>>, UNCHANGED <<kbd, pressed>>,
         \/ typed' = typed /\ KeyOf(out[1]) = 0
         \/ /\ KeyOf(out[1]) \in 0..MaxKeys
            /\ (ForMouse \/ KeyOf(out[1]) # 0)
            /\ \/ typed' = Append(typed, KeyOf(out[1]))
               \/ typed' = typed \o <<KeyOf(out[1])>>
  PROVE  KeyInv'
<1> DEFINE b == out[1]
           k == KeyOf(b)
<1>1. OutKeys' = 0 /\ KeysRead' = 2 * pressed - Len(kbd)
  BY Lengths DEF OutKeys, KeysRead
<1>2. Len(kbd) \in Nat /\ pressed \in Nat /\ KeysRead \in Int
  BY Lengths DEF KeysRead, OutKeys
<1>3. CASE ForMouse
  <2>1. KeysRead' = KeysRead /\ k = 0
    BY <1>1, <1>2, <1>3, OfferedIs DEF KeysRead, OutKeys, KeyOf
  <2>2. 0 \in 0..MaxKeys
    BY InputAssumption
  <2>3. TypedInv'
    BY <1>2, <2>1, <2>2, NothingTyped, OneIsTyped DEF KeyInv
  <2> QED
    BY <1>1, <2>3 DEF KeyInv, KeySerial
<1>4. CASE ~ ForMouse
  <2>1. b \in KeyBytes /\ ~ FromMouse(b)
    BY <1>4, OfferedIs DEF KeyOf
  <2>2. KeysRead' = KeysRead + 1 /\ KeySerial(b) = KeysRead + 1
    BY <1>1, <1>2, <1>4 DEF KeysRead, OutKeys, KeyInv
  <2>3. CASE b.up
    <3>1. KeysRead + 1 = 2 * b.key /\ b.key \in Nat /\ k = 0
      BY <2>1, <2>2, <2>3, SerialIs
    <3>2. TypedInv'
      BY <1>2, <1>4, <2>2, <3>1, NothingTyped DEF KeyInv
    <3> QED
      BY <1>1, <3>2 DEF KeyInv, KeySerial
  <2>4. CASE ~ b.up
    <3>1. KeysRead + 1 = 2 * b.key - 1 /\ b.key \in Nat /\ b.key >= 1 /\ k = b.key
      BY <2>1, <2>2, <2>4, SerialIs
    <3>2. k \in 1..pressed /\ KeysRead = 2 * k - 2
      <4> DEFINE r == KeysRead
                 n == Len(kbd)
                 d == b.key
      <4>1. r + 1 = 2 * pressed - n
        BY <1>1, <2>2
      <4>2. r \in Int /\ n \in Nat /\ pressed \in Nat
        BY <1>2
      <4>3. d \in Nat /\ d >= 1 /\ r + 1 = 2 * d - 1 /\ k = d
        BY <3>1
      <4> HIDE DEF r, n, d, k
      <4>4. d <= pressed /\ r = 2 * d - 2
        BY <4>1, <4>2, <4>3
      <4>5. k \in 1..pressed /\ r = 2 * k - 2
        BY <4>2, <4>3, <4>4
      <4> QED
        BY <4>5 DEF r
    <3>3. k # 0 /\ k \in 0..MaxKeys
      BY <3>1
    <3>4. TypedInv'
      <4>1. TypedInv /\ KeysRead \in Int /\ pressed' = pressed
        BY <1>2 DEF KeyInv
      <4>2. typed' = Append(typed, k) \/ typed' = typed \o <<k>>
        BY <3>3
      <4>3. KeysRead' = KeysRead + 1
        BY <2>2
      <4> HIDE DEF k
      <4> QED
        BY <3>2, <3>3, <4>1, <4>2, <4>3, OneIsTyped
    <3> QED
      BY <1>1, <3>4 DEF KeyInv, KeySerial
  <2> QED
    BY <2>3, <2>4
<1> QED
  BY <1>3, <1>4

LEMMA PressStays ==
  ASSUME TypeOK, KeyInv, press
  PROVE  KeyInv'
<1> DEFINE n == Len(kbd)
           t == <<[key |-> pressed', up |-> FALSE], [key |-> pressed', up |-> TRUE]>>
<1>1. /\ pressed' = pressed + 1 /\ pressed' \in 1..MaxKeys /\ pressed \in Nat
      /\ kbd' = kbd \o t /\ UNCHANGED <<out, typed>>
  BY InputAssumption DEF press, TypeOK
<1>2. /\ t \in Seq(KeyBytes) /\ Len(t) = 2
      /\ KeySerial(t[1]) = 2 * pressed + 1 /\ KeySerial(t[2]) = 2 * pressed + 2
  <2> DEFINE dn == [key |-> pressed', up |-> FALSE]
             up == [key |-> pressed', up |-> TRUE]
  <2>1. dn \in KeyBytes /\ up \in KeyBytes
    BY <1>1 DEF KeyBytes
  <2> HIDE DEF dn, up
  <2>2. t = <<dn, up>>
    BY DEF dn, up
  <2> HIDE DEF t
  <2>3. /\ t \in Seq(KeyBytes) /\ Len(t) = 2
        /\ t[1] = dn /\ t[2] = up
    BY <2>1, <2>2
  <2>4. /\ KeySerial(t[1]) = 2 * pressed + 1
        /\ KeySerial(t[2]) = 2 * pressed + 2
    <3>1. /\ KeySerial(dn) = 2 * pressed' - 1 /\ KeySerial(up) = 2 * pressed'
          /\ pressed' = pressed + 1 /\ pressed \in Nat
      BY <1>1 DEF KeySerial, dn, up
    <3> QED
      BY <2>3, <3>1
  <2> QED
    BY <2>3, <2>4
<1> HIDE DEF t
<1>3. /\ n \in Nat /\ Len(kbd') = n + 2
      /\ \A j \in 1..(n + 2) : kbd'[j] = IF j <= n THEN kbd[j] ELSE t[j - n]
  <2>1. kbd \in Seq(KeyBytes) /\ n \in Nat
    BY Lengths DEF TypeOK
  <2>2. /\ Len(kbd \o t) = n + Len(t)
        /\ \A j \in 1..(n + Len(t)) :
             (kbd \o t)[j] = IF j <= n THEN kbd[j] ELSE t[j - n]
    BY <1>2, <2>1, ConcatProperties
  <2> QED
    BY <1>1, <1>2, <2>1, <2>2
<1>4. OutKeys' = OutKeys /\ OutKeys \in {0, 1} /\ KeysRead' = KeysRead
  BY <1>1, <1>3 DEF OutKeys, ForMouse, KeysRead
<1>5. ASSUME NEW j \in 1..Len(kbd')
      PROVE  (KeySerial(kbd[j]) = 2 * pressed - Len(kbd) + j)'
  <2>1. j \in 1..(n + 2)
    BY <1>3
  <2>2. 2 * pressed' - Len(kbd') + j = 2 * pressed - n + j
    BY <1>1, <1>3, <2>1
  <2>3. CASE j <= n
    <3>1. j \in 1..n /\ kbd'[j] = kbd[j]
      BY <1>3, <2>1, <2>3
    <3> QED
      BY <2>2, <3>1 DEF KeyInv, KeySerial
  <2>4. CASE ~ (j <= n)
    <3> DEFINE i == j - n
    <3>1. i \in {1, 2} /\ kbd'[j] = t[i] /\ 2 * pressed - n + j = 2 * pressed + i
      BY <1>1, <1>3, <2>1, <2>4
    <3> HIDE DEF i
    <3>2. KeySerial(t[i]) = 2 * pressed + i
      BY <3>1, <1>2
    <3> QED
      BY <2>2, <3>1, <3>2 DEF KeySerial
  <2> QED
    BY <2>3, <2>4
<1>6. OutKeys' = 1 => (KeySerial(out[1]) = 2 * pressed - Len(kbd))'
  <2>1. 2 * pressed' - Len(kbd') = 2 * pressed - n
    BY <1>1, <1>3
  <2> QED
    BY <1>1, <1>4, <2>1 DEF KeyInv, KeySerial
<1>7. TypedInv'
  <2>1. KeysRead <= 2 * pressed /\ KeysRead \in Int
    BY <1>1, <1>3, <1>4 DEF KeysRead
  <2>2. ASSUME NEW k \in 1..pressed'
        PROVE  (\E j \in 1..Len(typed) : typed[j] = k) <=> 2 * k - 1 <= KeysRead
    <3>1. CASE k \in 1..pressed
      BY <3>1 DEF KeyInv, TypedInv
    <3>2. CASE k = pressed + 1
      <4>1. ~ \E j \in 1..Len(typed) : typed[j] = k
        BY <1>1, <3>2 DEF KeyInv, TypedInv
      <4>2. ~ (2 * k - 1 <= KeysRead)
        BY <1>1, <2>1, <3>2
      <4> QED
        BY <4>1, <4>2
    <3> QED
      BY <1>1, <3>1, <3>2
  <2>3. \A j \in 1..Len(typed) : typed[j] \in 0..pressed'
    BY <1>1 DEF KeyInv, TypedInv
  <2> HIDE DEF KeysRead
  <2> QED
    BY <1>1, <1>4, <2>2, <2>3 DEF KeyInv, TypedInv
<1> QED
  BY <1>5, <1>6, <1>7 DEF KeyInv

LEMMA DeliverKeyStays ==
  ASSUME TypeOK, KeyInv, deliver_key
  PROVE  KeyInv'
<1> DEFINE n == Len(kbd)
<1>1. /\ out = <<>> /\ kbd # <<>> /\ out' = <<Head(kbd)>> /\ kbd' = Tail(kbd)
      /\ UNCHANGED <<pressed, typed>>
  BY DEF deliver_key
<1>2. kbd \in Seq(KeyBytes) /\ pressed \in Nat
  BY Lengths DEF TypeOK
<1>3. /\ Head(kbd) \in KeyBytes /\ Len(kbd') = n - 1 /\ n \in Nat \ {0}
      /\ Head(kbd) = kbd[1] /\ \A j \in 1..(n - 1) : kbd'[j] = kbd[j + 1]
  BY <1>1, <1>2, HeadTailProperties, EmptySeq, LenProperties
<1>4. out' # <<>> /\ out'[1] = kbd[1] /\ ~ ForMouse' /\ OutKeys' = 1 /\ OutKeys = 0
  BY <1>1, <1>3, KeyBytesAre DEF ForMouse, OutKeys
<1>5. KeysRead' = KeysRead
  BY <1>1, <1>2, <1>3, <1>4 DEF KeysRead
<1>6. \A j \in 1..n : KeySerial(kbd[j]) = 2 * pressed - n + j
  BY DEF KeyInv
<1> HIDE DEF n
<1>7. ASSUME NEW j \in 1..Len(kbd')
      PROVE  (KeySerial(kbd[j]) = 2 * pressed - Len(kbd) + j)'
  <2>1. j + 1 \in 1..n /\ kbd'[j] = kbd[j + 1]
    BY <1>3
  <2>2. KeySerial(kbd[j + 1]) = 2 * pressed - n + (j + 1)
    BY <1>6, <2>1
  <2>3. 2 * pressed - n + (j + 1) = 2 * pressed' - Len(kbd') + j
    BY <1>1, <1>2, <1>3
  <2> QED
    BY <2>1, <2>2, <2>3 DEF KeySerial
<1>8. (KeySerial(out[1]) = 2 * pressed - Len(kbd))'
  <2>1. KeySerial(kbd[1]) = 2 * pressed - n + 1
    BY <1>3, <1>6
  <2>2. 2 * pressed - n + 1 = 2 * pressed' - Len(kbd')
    BY <1>1, <1>2, <1>3
  <2> QED
    BY <1>4, <2>1, <2>2 DEF KeySerial
<1>9. TypedInv'
  BY <1>1, <1>5 DEF KeyInv, TypedInv
<1> QED
  BY <1>7, <1>8, <1>9 DEF KeyInv

LEMMA KeysStay ==
  ASSUME TypeOK, KeyInv, [Next]_vars
  PROVE  KeyInv'
<1>1. CASE UNCHANGED <<kbd, pressed, typed, out>>
  BY <1>1, KeysRest DEF OutKeys, ForMouse
<1>2. CASE press
  BY <1>2, PressStays
<1>3. CASE deliver_key
  BY <1>3, DeliverKeyStays
<1>4. CASE deliver_mouse
  <2>1. /\ out = <<>> /\ aux # <<>> /\ out' = <<Head(aux)>>
        /\ aux \in Seq(MouseBytes) /\ UNCHANGED <<kbd, pressed, typed>>
    BY <1>4 DEF deliver_mouse, TypeOK
  <2>2. Head(aux) \in MouseBytes
    BY <2>1, HeadTailProperties
  <2>3. OutKeys = 0 /\ OutKeys' = 0
    BY <2>1, <2>2, MouseBytesAre DEF OutKeys, ForMouse
  <2> QED
    BY <2>1, <2>3, KeysRest
<1>5. CASE mouse_byte
  <2>1. ForMouse /\ out' = <<>> /\ UNCHANGED <<kbd, pressed, typed>>
    BY <1>5 DEF mouse_byte, devices
  <2> QED
    BY <2>1, KeysRest DEF OutKeys
<1>6. CASE serial_trygetc
  <2>1. CASE out = <<>> \/ ForMouse
    BY <1>1, <1>6, <2>1 DEF serial_trygetc, devices
  <2>2. CASE ~ (out = <<>> \/ ForMouse)
    <3>1. /\ out' = <<>> /\ UNCHANGED <<kbd, pressed>>
          /\ IF out[1].up THEN typed' = typed ELSE typed' = Append(typed, out[1].key)
      BY <1>6, <2>2 DEF serial_trygetc, devices
    <3>2. out[1] \in KeyBytes /\ ~ FromMouse(out[1])
      BY <2>2, OfferedIs
    <3>3. out[1].key \in 1..MaxKeys /\ out[1].up \in BOOLEAN
      BY <3>2, KeyBytesAre
    <3>4. CASE out[1].up
      BY <2>2, <3>1, <3>4, ByteIsRead DEF KeyOf
    <3>5. CASE ~ out[1].up
      <4>1. KeyOf(out[1]) = out[1].key
        BY <3>2, <3>5 DEF KeyOf
      <4>2. KeyOf(out[1]) \in 0..MaxKeys /\ KeyOf(out[1]) # 0
        BY <3>3, <4>1, InputAssumption
      <4> QED
        BY <2>2, <3>1, <3>5, <4>1, <4>2, ByteIsRead
    <3> QED
      BY <3>4, <3>5
  <2> QED
    BY <2>1, <2>2
<1>7. CASE kbd_getc
  <2>1. CASE out = <<>>
    BY <1>1, <1>7, <2>1 DEF kbd_getc, devices
  <2>2. CASE out # <<>>
    <3>1. out' = <<>> /\ UNCHANGED <<kbd, pressed>>
      BY <1>7 DEF kbd_getc, devices
    <3>2. CASE typed' = typed /\ KeyOf(out[1]) = 0
      BY <2>2, <3>1, <3>2, ByteIsRead
    <3>3. CASE KeyOf(out[1]) \in 0..MaxKeys /\ typed' = typed \o <<KeyOf(out[1])>>
      <4>1. CASE ForMouse \/ KeyOf(out[1]) # 0
        BY <2>2, <3>1, <3>3, <4>1, ByteIsRead
      <4>2. CASE ~ ForMouse /\ KeyOf(out[1]) = 0
        <5>1. out[1] \in KeyBytes /\ ~ FromMouse(out[1])
          BY <2>2, <4>2, OfferedIs
        <5>2. Character(out[1]) = <<>>
          BY <4>2, <5>1, SerialIs DEF Character
        <5>3. typed' = typed \o <<>>
          BY <1>7, <2>2, <5>2 DEF kbd_getc
        <5>4. typed' = typed
          BY <5>3, ConcatEmptySeq DEF TypeOK
        <5> QED
          BY <2>2, <3>1, <4>2, <5>4, ByteIsRead
      <4> QED
        BY <4>1, <4>2
    <3> QED
      BY <1>7, <2>2, <3>2, <3>3, KbdTypes
  <2> QED
    BY <2>1, <2>2
<1> QED
  BY <1>1, <1>2, <1>3, <1>4, <1>5, <1>6, <1>7 DEF Next, Loop, move, mouse_done,
     vars, devices

-----------------------------------------------------------------------------
(* The bytes still to be read end with the last that was sent, and none    *)
(* that was not read is missing.                                           *)
LEMMA BytesAre ==
  ASSUME TypeOK, KeyInv
  PROVE  /\ Len(Bytes) \in Nat
         /\ \A j \in 1..Len(Bytes) :
              \/ KeyOf(Bytes[j]) = 0
              \/ /\ Bytes[j] \in KeyBytes
                 /\ KeySerial(Bytes[j]) = 2 * pressed - Len(Bytes) + j
                 /\ KeysRead < KeySerial(Bytes[j])
         /\ \A s \in Int : KeysRead < s /\ s <= 2 * pressed =>
              \E j \in 1..Len(Bytes) :
                Bytes[j] \in KeyBytes /\ KeySerial(Bytes[j]) = s
<1> DEFINE n == Len(kbd)
           m == Len(Bytes)
<1>1. /\ n \in Nat /\ pressed \in Nat
      /\ \A j \in 1..n : kbd[j] \in KeyBytes
                         /\ KeySerial(kbd[j]) = 2 * pressed - n + j
  BY Lengths DEF KeyInv
<1>2. CASE out = <<>>
  <2>1. Bytes = kbd
    BY <1>2, ConcatEmptySeq DEF Bytes, TypeOK
  <2>2. KeysRead = 2 * pressed - n
    BY <1>1, <1>2 DEF KeysRead, OutKeys
  <2>3. ASSUME NEW s \in Int, KeysRead < s, s <= 2 * pressed
        PROVE  \E j \in 1..n : KeySerial(kbd[j]) = s
    <3> DEFINE i == s - 2 * pressed + n
    <3> HIDE DEF n
    <3>1. i \in 1..n /\ 2 * pressed - n + i = s
      BY <1>1, <2>2, <2>3
    <3> HIDE DEF i
    <3> QED
      BY <1>1, <3>1
  <2> HIDE DEF n
  <2>4. \A j \in 1..n : KeysRead < KeySerial(kbd[j])
    BY <1>1, <2>2
  <2> QED
    BY <1>1, <2>1, <2>3, <2>4 DEF n
<1>3. CASE out # <<>>
  <2> DEFINE S == KeyBytes \cup MouseBytes
  <2>1. out \in Seq(S) /\ kbd \in Seq(KeyBytes) /\ Len(out) = 1
    BY <1>3, OfferedIs DEF TypeOK
  <2>2. kbd \in Seq(S)
    BY <2>1, SeqMonotonic
  <2> HIDE DEF S
  <2>3. /\ Len(out \o kbd) = Len(out) + Len(kbd)
        /\ \A j \in 1..(Len(out) + Len(kbd)) :
             (out \o kbd)[j] = IF j <= Len(out) THEN out[j] ELSE kbd[j - Len(out)]
    BY <2>1, <2>2, ConcatProperties
  <2>4. m = n + 1 /\ Bytes[1] = out[1] /\ \A j \in 2..m : Bytes[j] = kbd[j - 1]
    BY <1>1, <2>1, <2>3 DEF Bytes
  <2>5. KeysRead = 2 * pressed - n - OutKeys /\ OutKeys \in {0, 1}
    BY DEF KeysRead, OutKeys
  <2>6. \/ OutKeys = 0 /\ KeyOf(out[1]) = 0
        \/ /\ OutKeys = 1 /\ out[1] \in KeyBytes
           /\ KeySerial(out[1]) = 2 * pressed - n
    BY <1>3, OfferedIs DEF OutKeys, KeyOf, KeyInv
  <2> HIDE DEF n, m
  <2>7. ASSUME NEW j \in 2..m
        PROVE  /\ Bytes[j] \in KeyBytes /\ KeySerial(Bytes[j]) = 2 * pressed - m + j
               /\ KeysRead < 2 * pressed - m + j
    <3> DEFINE i == j - 1
    <3>1. i \in 1..n /\ Bytes[j] = kbd[i] /\ 2 * pressed - n + i = 2 * pressed - m + j
      BY <1>1, <2>4
    <3>2. KeysRead < 2 * pressed - m + j
      BY <1>1, <2>4, <2>5
    <3> HIDE DEF i
    <3> QED
      BY <1>1, <3>1, <3>2
  <2>8. ASSUME NEW j \in 1..m
        PROVE  \/ KeyOf(Bytes[j]) = 0
               \/ /\ Bytes[j] \in KeyBytes
                  /\ KeySerial(Bytes[j]) = 2 * pressed - m + j
                  /\ KeysRead < KeySerial(Bytes[j])
    <3>1. CASE j = 1
      <4>1. 2 * pressed - n = 2 * pressed - m + j /\ KeysRead \in Int
            /\ (OutKeys = 1 => KeysRead < 2 * pressed - n)
        BY <1>1, <2>4, <2>5, <3>1
      <4> QED
        BY <2>4, <2>6, <3>1, <4>1
    <3>2. CASE j \in 2..m
      BY <2>7, <3>2
    <3> QED
      BY <1>1, <2>4, <3>1, <3>2
  <2>9. ASSUME NEW s \in Int, KeysRead < s, s <= 2 * pressed
        PROVE  \E j \in 1..m : Bytes[j] \in KeyBytes /\ KeySerial(Bytes[j]) = s
    <3>1. CASE OutKeys = 1 /\ s = 2 * pressed - n
      <4>1. 1 \in 1..m
        BY <1>1, <2>4
      <4> QED
        BY <2>4, <2>6, <3>1, <4>1
    <3>2. CASE 2 * pressed - n < s
      <4> DEFINE i == s - 2 * pressed + m
      <4>1. i \in 2..m /\ i \in 1..m /\ 2 * pressed - m + i = s
        BY <1>1, <2>4, <2>9, <3>2
      <4> HIDE DEF i
      <4> QED
        BY <2>7, <4>1
    <3>3. \/ OutKeys = 1 /\ s = 2 * pressed - n
          \/ 2 * pressed - n < s
      BY <1>1, <2>5, <2>9
    <3> QED
      BY <3>1, <3>2, <3>3
  <2>10. m \in Nat
    BY <1>1, <2>4
  <2> QED
    BY <2>8, <2>9, <2>10 DEF m
<1> QED
  BY <1>2, <1>3

(* The same, for the keys they stand for                                   *)
LEMMA KeysToCome ==
  ASSUME TypeOK, KeyInv
  PROVE  /\ Len(Bytes) \in Nat
         /\ \A j \in 1..Len(Bytes) :
              LET k == KeyOf(Bytes[j])
              IN  /\ k \in 0..pressed
                  /\ k # 0 => /\ 2 * k - 1 = 2 * pressed - Len(Bytes) + j
                              /\ KeysRead < 2 * k - 1
         /\ \A k \in 1..pressed : KeysRead < 2 * k - 1 =>
              \E j \in 1..Len(Bytes) : KeyOf(Bytes[j]) = k
<1> DEFINE m == Len(Bytes)
<1>1. pressed \in Nat /\ m \in Nat
  BY Lengths, BytesAre
<1>2. ASSUME NEW j \in 1..m
      PROVE  /\ KeyOf(Bytes[j]) \in 0..pressed
             /\ KeyOf(Bytes[j]) # 0 =>
                  /\ 2 * KeyOf(Bytes[j]) - 1 = 2 * pressed - m + j
                  /\ KeysRead < 2 * KeyOf(Bytes[j]) - 1
  <2>1. CASE KeyOf(Bytes[j]) = 0
    BY <1>1, <2>1
  <2>2. CASE KeyOf(Bytes[j]) # 0
    <3>1. /\ Bytes[j] \in KeyBytes /\ KeySerial(Bytes[j]) = 2 * pressed - m + j
          /\ KeysRead < KeySerial(Bytes[j])
      BY <2>2, BytesAre
    <3>2. KeySerial(Bytes[j]) = 2 * KeyOf(Bytes[j]) - 1 /\ KeyOf(Bytes[j]) \in Nat
      BY <2>2, <3>1, SerialIs
    <3> HIDE DEF m
    <3>3. KeyOf(Bytes[j]) <= pressed
      BY <1>1, <3>1, <3>2
    <3> QED
      BY <1>1, <3>1, <3>2, <3>3
  <2> QED
    BY <2>1, <2>2
<1>3. ASSUME NEW k \in 1..pressed, KeysRead < 2 * k - 1
      PROVE  \E j \in 1..m : KeyOf(Bytes[j]) = k
  <2>1. 2 * k - 1 \in Int /\ 2 * k - 1 <= 2 * pressed
    BY <1>1
  <2>2. PICK j \in 1..m : Bytes[j] \in KeyBytes /\ KeySerial(Bytes[j]) = 2 * k - 1
    BY <1>3, <2>1, BytesAre
  <2> DEFINE b == Bytes[j]
  <2>3. /\ b.key \in Nat /\ b.up \in BOOLEAN
        /\ b.up => 2 * k - 1 = 2 * b.key
        /\ ~ b.up => 2 * k - 1 = 2 * b.key - 1 /\ KeyOf(b) = b.key
    BY <2>2, SerialIs
  <2> HIDE DEF b
  <2>4. KeyOf(b) = k
    BY <1>1, <2>3
  <2> QED
    BY <2>4 DEF b
<1> QED
  BY <1>1, <1>2, <1>3

LEMMA LineIs ==
  ASSUME TypeOK, KeyInv
  PROVE  /\ DOMAIN Line = 1..(Len(typed) + Len(Bytes))
         /\ \A j \in 1..(Len(typed) + Len(Bytes)) :
              Line[j] = IF j <= Len(typed) THEN typed[j]
                        ELSE KeyOf(Bytes[j - Len(typed)])
<1> DEFINE S == 0..MaxKeys
           m == Len(Bytes)
           w == [j \in 1..m |-> KeyOf(Bytes[j])]
<1>1. m \in Nat /\ typed \in Seq(S)
  BY KeysToCome DEF TypeOK
<1>2. ASSUME NEW j \in 1..m PROVE KeyOf(Bytes[j]) \in S
  BY KeysToCome, InputAssumption DEF TypeOK
<1> HIDE DEF S, m
<1>3. w \in [1..m -> S]
  BY <1>2
<1>4. w \in Seq(S) /\ Len(w) = m
  BY <1>1, <1>3
<1>5. \A j \in 1..m : w[j] = KeyOf(Bytes[j])
  OBVIOUS
<1> HIDE DEF w
<1>6. Line = typed \o w
  BY DEF Line, w, m
<1>7. /\ Line \in Seq(S) /\ Len(Line) = Len(typed) + m
      /\ \A j \in 1..(Len(typed) + m) :
           Line[j] = IF j <= Len(typed) THEN typed[j] ELSE w[j - Len(typed)]
  BY <1>1, <1>4, <1>6, ConcatProperties
<1>8. DOMAIN Line = 1..(Len(typed) + m)
  BY <1>7, LenProperties
<1>9. ASSUME NEW j \in 1..(Len(typed) + m), ~ (j <= Len(typed))
      PROVE  w[j - Len(typed)] = KeyOf(Bytes[j - Len(typed)])
  <2>1. j - Len(typed) \in 1..m
    BY <1>1, <1>9, Lengths
  <2> QED
    BY <1>5, <2>1
<1> QED
  BY <1>7, <1>8, <1>9 DEF m

(* What was typed are the keys up to the last byte read, what is to come   *)
(* those behind it: together every key, in order.                          *)
LEMMA NoneLostByInv ==
  ASSUME TypeOK, KeyInv
  PROVE  NoKeyLost
<1> DEFINE n == Len(typed)
           m == Len(Bytes)
           c == KeysRead
           K(j) == KeyOf(Bytes[j])
<1>1. n \in Nat /\ m \in Nat /\ pressed \in Nat /\ c \in Int
  BY Lengths, KeysToCome DEF KeysRead, OutKeys
<1>2. /\ DOMAIN Line = 1..(n + m)
      /\ \A j \in 1..(n + m) : Line[j] = IF j <= n THEN typed[j] ELSE K(j - n)
  BY LineIs
<1>3. /\ \A k \in 1..pressed : (\E j \in 1..n : typed[j] = k) <=> 2 * k - 1 <= c
      /\ \A j \in 1..n : typed[j] \in 0..pressed
      /\ \A i, j \in 1..n :
           i < j /\ typed[i] # 0 /\ typed[j] # 0 => typed[i] < typed[j]
  BY DEF KeyInv, TypedInv
<1>4. /\ \A j \in 1..m : K(j) \in 0..pressed
      /\ \A j \in 1..m : K(j) # 0 => 2 * K(j) - 1 = 2 * pressed - m + j
                                     /\ c < 2 * K(j) - 1
      /\ \A k \in 1..pressed : c < 2 * k - 1 => \E j \in 1..m : K(j) = k
  BY KeysToCome
<1> HIDE DEF n, m, c, K
<1>5. ASSUME NEW j \in 1..(n + m)
      PROVE  \/ j \in 1..n /\ Line[j] = typed[j]
             \/ /\ n < j /\ j - n \in 1..m /\ Line[j] = K(j - n)
  BY <1>1, <1>2
<1>6. ASSUME NEW k \in 1..pressed
      PROVE  \E j \in 1..(n + m) : Line[j] = k
  <2>1. CASE 2 * k - 1 <= c
    <3>1. PICK j \in 1..n : typed[j] = k
      BY <1>3, <2>1
    <3>2. j \in 1..(n + m) /\ j <= n
      BY <1>1
    <3> QED
      BY <1>2, <3>1, <3>2
  <2>2. CASE c < 2 * k - 1
    <3>1. PICK j \in 1..m : K(j) = k
      BY <1>4, <2>2
    <3> DEFINE i == n + j
    <3>2. i \in 1..(n + m) /\ ~ (i <= n) /\ i - n = j
      BY <1>1
    <3> HIDE DEF i
    <3> QED
      BY <1>2, <3>1, <3>2
  <2> QED
    BY <1>1, <2>1, <2>2
<1>7. ASSUME NEW j \in 1..(n + m)
      PROVE  Line[j] \in 0..pressed
  BY <1>3, <1>4, <1>5
<1>8. ASSUME NEW i \in 1..(n + m), NEW j \in 1..(n + m), i < j,
             Line[i] # 0, Line[j] # 0
      PROVE  Line[i] < Line[j]
  <2>1. CASE i \in 1..n /\ j \in 1..n
    <3>1. Line[i] = typed[i] /\ Line[j] = typed[j]
      BY <1>1, <1>5, <2>1
    <3> QED
      BY <1>3, <1>8, <2>1, <3>1
  <2>2. CASE i \in 1..n /\ n < j
    <3>1. Line[i] = typed[i] /\ Line[j] = K(j - n) /\ j - n \in 1..m
      BY <1>1, <1>5, <2>2
    <3>2. typed[i] \in 1..pressed
      BY <1>1, <1>3, <1>8, <2>2, <3>1
    <3>3. 2 * typed[i] - 1 <= c
      BY <1>3, <2>2, <3>2
    <3>4. K(j - n) \in 0..pressed /\ c < 2 * K(j - n) - 1
      BY <1>4, <1>8, <3>1
    <3>5. typed[i] < K(j - n)
      BY <1>1, <3>2, <3>3, <3>4
    <3> QED
      BY <3>1, <3>5
  <2>3. CASE n < i /\ n < j
    <3>1. /\ Line[i] = K(i - n) /\ i - n \in 1..m
          /\ Line[j] = K(j - n) /\ j - n \in 1..m
      BY <1>1, <1>5, <2>3
    <3>2. /\ K(i - n) \in 0..pressed /\ 2 * K(i - n) - 1 = 2 * pressed - m + (i - n)
          /\ K(j - n) \in 0..pressed /\ 2 * K(j - n) - 1 = 2 * pressed - m + (j - n)
      BY <1>4, <1>8, <3>1
    <3>3. K(i - n) < K(j - n)
      BY <1>1, <1>8, <3>2
    <3> QED
      BY <3>1, <3>3
  <2> QED
    BY <1>1, <1>5, <1>8, <2>1, <2>2, <2>3
<1>9. \A i, j \in 1..(n + m) :
        i < j /\ 0 \notin {Line[i], Line[j]} => Line[i] < Line[j]
  BY <1>8
<1> QED
  BY <1>2, <1>6, <1>7, <1>9 DEF NoKeyLost

-----------------------------------------------------------------------------
InputInv == TypeOK /\ KeyInv /\ MouseInv /\ ClickInv

LEMMA InitInv == Init => InputInv
<1> SUFFICES ASSUME Init PROVE InputInv
  OBVIOUS
<1>1. TypeOK
  <2>1. /\ kbd \in Seq(KeyBytes) /\ aux \in Seq(MouseBytes)
        /\ pkt \in Seq(MouseBytes) /\ Len(pkt) = 0
        /\ out \in Seq(KeyBytes \cup MouseBytes) /\ Len(out) = 0
        /\ typed \in Seq(0..MaxKeys)
    BY EmptySeq DEF Init
  <2>2. pressed \in 0..MaxKeys /\ moved \in 0..MaxMoves
    BY InputAssumption DEF Init
  <2>3. Len(pkt) <= 2 /\ Len(out) <= 1
    <3>1. \A x : x = 0 => x <= 2 /\ x <= 1
      OBVIOUS
    <3> QED
      BY <2>1, <3>1
  <2>4. /\ pc \in {"mouse", "serial", "kbd"} /\ buttons \in BOOLEAN
        /\ prev_buttons \in BOOLEAN /\ stolen \in BOOLEAN
    BY DEF Init
  <2>5. /\ button \in [1..MaxMoves -> BOOLEAN] /\ last \in 0..MaxMoves
        /\ clicks \in Seq(0..MaxMoves)
    BY InputAssumption, EmptySeq DEF Init
  <2> QED
    BY <2>1, <2>2, <2>3, <2>4, <2>5 DEF TypeOK
<1>2. KeyInv
  <2>1. Len(kbd) = 0 /\ Len(typed) = 0 /\ pressed = 0 /\ OutKeys = 0
    BY DEF Init, OutKeys
  <2>2. TypedInv
    BY <2>1 DEF TypedInv
  <2> QED
    BY <2>1, <2>2 DEF KeyInv
<1>3. MouseInv
  <2>1. ~ ForMouse /\ Len(aux) = 0 /\ Len(pkt) = 0 /\ moved = 0
    BY DEF Init, ForMouse
  <2>2. BytesFollow
    BY <2>1 DEF BytesFollow
  <2>3. BytesRead = 0
    <3>1. OutBytes = 0
      BY <2>1 DEF OutBytes
    <3>2. BytesRead = 3 * 0 - 0 - 0
      BY <2>1, <3>1, Zenon DEF BytesRead
    <3> QED
      BY <3>2
  <2>4. InPacket(last)
    <3>1. last = 0 /\ BytesRead - Len(pkt) = 0
      <4>1. last = 0
        BY DEF Init
      <4> QED
        BY <2>1, <2>3, <4>1
    <3>2. \A j \in 1..Len(pkt) :
            ByteSerial(pkt[j]) = 3 * last + j /\ FirstIsTrue(pkt[j])
      BY <2>1
    <3>3. BytesRead - Len(pkt) = 3 * last
      BY <3>1
    <3> QED
      BY <3>2, <3>3 DEF InPacket
  <2> QED
    BY <2>2, <2>4 DEF MouseInv
<1>4. ClickInv
  <2>1. Len(clicks) = 0 /\ last = 0 /\ buttons = FALSE /\ prev_buttons = FALSE
    BY DEF Init
  <2> QED
    BY <2>1 DEF ClickInv
<1> QED
  BY <1>1, <1>2, <1>3, <1>4 DEF InputInv

LEMMA AlwaysInv == Spec => []InputInv
<1>1. InputInv /\ [Next]_vars => InputInv'
  BY TypeHolds, KeysStay, MouseStays, ClicksStay DEF InputInv
<1> QED
  BY <1>1, InitInv, PTL DEF Spec

(* Bytes, packets and what was typed keep to their types; at most one byte *)
(* is offered, and mouse_poll never holds a whole packet.                  *)
THEOREM InputTypes == Spec => []TypeOK
<1>1. InputInv => TypeOK
  BY DEF InputInv
<1> QED
  BY <1>1, AlwaysInv, PTL

(* However the bytes of the devices mix on the port that they share, and   *)
(* however many there are, every key that is pressed is typed or still to  *)
(* be read, once and in its turn.                                          *)
THEOREM NoKeyIsLost == Spec => []NoKeyLost
<1>1. InputInv => NoKeyLost
  BY NoneLostByInv DEF InputInv
<1> QED
  BY <1>1, AlwaysInv, PTL

(* Until kbd_getc takes a byte of the mouse, mouse_poll puts together the  *)
(* bytes of one packet only, each at its place.                            *)
THEOREM PacketsAreWhole == Spec => []PacketsWhole
<1>1. InputInv => PacketsWhole
  BY WholeByInv DEF InputInv
<1> QED
  BY <1>1, AlwaysInv, PTL

(* Until kbd_getc takes a byte of the mouse, every click the loop sees has *)
(* a release of the left button of its own that the mouse sent since the   *)
(* packets handled at the click before, however the packets arrive.        *)
THEOREM ClicksAreReleases == Spec => []NoFalseClick
<1>1. InputInv => NoFalseClick
  <2>1. ASSUME clicks \in Seq(0..MaxMoves)
        PROVE  DOMAIN clicks = 1..Len(clicks)
    BY <2>1, LenProperties
  <2> QED
    BY <2>1 DEF InputInv, TypeOK, ClickInv, NoFalseClick
<1> QED
  BY <1>1, AlwaysInv, PTL
=============================================================================
