-------------------------- MODULE RoomConfigProofs --------------------------
(* The checksum of config.py against the definition it is meant to be, and *)
(* what it is good for.                                                    *)
EXTENDS RoomConfig, TLAPS

(* The definition of the Wi-Fi Simple Configuration standard: the weighted *)
(* sum of all eight digits is a multiple of ten.                           *)
WscSum(d) == 3 * d[1] + d[2] + 3 * d[3] + d[4] + 3 * d[5] + d[6] + 3 * d[7] + d[8]

Pins == [1 .. 8 -> Digit]

LEMMA PinLength == ASSUME NEW pin \in Pins PROVE Len(pin) = 8
  BY DEF Pins

(* wps_pin_checksum is the checksum of the standard: a PIN of eight digits *)
(* is accepted exactly when its weighted sum is a multiple of ten.         *)
THEOREM ChecksumIsWsc ==
  ASSUME NEW pin \in Pins
  PROVE  IsValidWpsPin(pin) <=> (WscSum(pin) % 10) = 0
<1>1. \A i \in 1 .. 8 : pin[i] \in 0 .. 9
  BY DEF Pins, Digit
<1> DEFINE head == 3 * pin[1] + pin[2] + 3 * pin[3] + pin[4] + 3 * pin[5] + pin[6] + 3 * pin[7]
<1>2. head \in Nat /\ pin[8] \in 0 .. 9
  BY <1>1, SMTT(30)
<1>3. ASSUME NEW h \in Nat, NEW last \in 0 .. 9
      PROVE  (10 - (h % 10)) % 10 = last <=> (h + last) % 10 = 0
  OBVIOUS
<1>4. (10 - (head % 10)) % 10 = pin[8] <=> (head + pin[8]) % 10 = 0
  BY <1>2, <1>3
<1>5. WpsChecksum(pin) = (10 - (head % 10)) % 10 /\ WscSum(pin) = head + pin[8]
  BY DEF WpsChecksum, WscSum
<1> QED
  BY <1>4, <1>5, PinLength DEF IsValidWpsPin

(* A PIN in receiver.conf with one digit mistyped is always refused, so    *)
(* the silent failure that config.py describes cannot come from a typo.    *)
THEOREM WrongDigitRefused ==
  ASSUME NEW pin \in Pins, IsValidWpsPin(pin),
         NEW i \in 1 .. 8, NEW d \in Digit, d # pin[i]
  PROVE  ~ IsValidWpsPin([pin EXCEPT ![i] = d])
<1> DEFINE wrong == [pin EXCEPT ![i] = d]
<1>1. wrong \in Pins
  BY DEF Pins
<1>2. \A j \in 1 .. 8 : pin[j] \in 0 .. 9 /\ wrong[j] = IF j = i THEN d ELSE pin[j]
  BY DEF Pins, Digit
<1>3. d \in 0 .. 9 /\ pin[i] \in 0 .. 9
  BY DEF Pins, Digit
<1>4. \/ WscSum(wrong) = WscSum(pin) + 3 * (d - pin[i])
      \/ WscSum(wrong) = WscSum(pin) + (d - pin[i])
  <2> DEFINE at(j) == IF i = j THEN d - pin[i] ELSE 0
  <2>1. \A j \in 1 .. 8 : at(j) \in Int /\ wrong[j] = pin[j] + at(j)
    BY <1>2, <1>3
  <2> HIDE DEF wrong
  <2>2. WscSum(wrong) = WscSum(pin)
          + (3 * at(1) + at(2) + 3 * at(3) + at(4) + 3 * at(5) + at(6) + 3 * at(7) + at(8))
    <3> HIDE DEF at
    <3>1. \A j \in {1, 2, 3, 4, 5, 6, 7, 8} : pin[j] \in Int /\ at(j) \in Int /\ wrong[j] = pin[j] + at(j)
      BY <1>2, <2>1
    <3> QED BY <3>1, SMTT(30) DEF WscSum
  <2>3. d - pin[i] \in Int
    BY <1>3
  <2> QED BY <2>2, <2>3
<1>5. WscSum(pin) \in Nat
  BY <1>2, SMTT(30) DEF WscSum
<1>6. ASSUME NEW w \in Nat, w % 10 = 0, NEW a \in 0 .. 9, NEW b \in 0 .. 9, a # b
      PROVE  (w + 3 * (a - b)) % 10 # 0 /\ (w + (a - b)) % 10 # 0
  <2> DEFINE q == w \div 10
  <2>1. q \in Nat /\ w = 10 * q
    BY <1>6
  <2> HIDE DEF q
  <2>2. \A x \in -27 .. 27 : (10 * q + x) % 10 = 0 => x \in {-20, -10, 0, 10, 20}
    BY <2>1
  <2>3. (a - b) \in -9 .. 9 /\ a - b # 0 /\ 3 * (a - b) \notin {-20, -10, 0, 10, 20}
    BY <1>6
  <2> QED BY <2>1, <2>2, <2>3
<1>7. WscSum(wrong) % 10 # 0
  BY <1>3, <1>4, <1>5, <1>6, ChecksumIsWsc
<1> QED
  BY <1>1, <1>7, ChecksumIsWsc
=============================================================================
