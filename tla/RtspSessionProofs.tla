-------------------------- MODULE RtspSessionProofs --------------------------
(***************************************************************************)
(* Proofs about RtspSession, for every number of messages, every way in    *)
(* which TCP cuts them, and every point where the source stops or closes.  *)
(***************************************************************************)
EXTENDS RtspSession, SequenceTheorems, TLAPS

Parts == {"line", "headers", "blank", "body"}
Piece == Nat \X Parts
Utterance == [says : {"reply", "OPTIONS", "SETUP", "PLAY"}, to : Nat]

(* The pieces castd may still get to read, those in its buffer first: what *)
(* a source that has closed had not written yet never comes.               *)
Outside == wire \o (IF conn = "open" THEN unwritten ELSE <<>>)
Coming == buf \o Outside

HasBody(s, i) == s[i].kind \in WithBody

(* The piece a source that sends s sends behind p.                         *)
After(s, p) == CASE p[2] = "line" -> <<p[1], "headers">>
                 [] p[2] = "headers" -> <<p[1], "blank">>
                 [] p[2] = "blank" /\ HasBody(s, p[1]) -> <<p[1], "body">>
                 [] OTHER -> <<p[1] + 1, "line">>

LastPiece(s, i) == <<i, IF HasBody(s, i) THEN "body" ELSE "blank">>

InOrder(s, q) == \A k \in 1 .. Len(q) - 1 : q[k + 1] = After(s, q[k])

-----------------------------------------------------------------------------
(* The inductive invariant.                                                *)

Types ==
  /\ TypeOK
  /\ unwritten \in Seq(Piece) /\ wire \in Seq(Piece) /\ buf \in Seq(Piece)
  /\ taken \in Seq(Piece) /\ last \in Seq(Piece)
  /\ said \in Seq(Utterance)
  /\ phase = "handshake" => got <= 6
  /\ phase \in {"starting", "steady"} => got = 7

(* The source follows the protocol.                                        *)
Script == \A i \in 1 .. Len(sent) :
            IF i <= 7 THEN sent[i].kind = Handshake[i] ELSE sent[i].kind \in Requests

(* What is coming are the pieces of messages in order, from the first      *)
(* piece of one to the last piece of the newest, unless the source closed. *)
Arrivals ==
  /\ \A k \in 1 .. Len(Coming) : Coming[k][1] \in 1 .. Len(sent)
  /\ InOrder(sent, Coming)
  /\ Coming # <<>> => Coming[1][2] = "line"
  /\ conn = "open" /\ Coming # <<>> => Coming[Len(Coming)] = LastPiece(sent, Len(sent))

(* negotiate() is at the message it takes the next one for, and the loop   *)
(* behind it gets nothing of the handshake.                                *)
InStep ==
  /\ phase \in {"handshake", "starting"} =>
       /\ Coming # <<>> => Coming[1][1] = got + 1
       /\ conn = "open" /\ Coming = <<>> => Len(sent) = got
  /\ phase = "steady" /\ Coming # <<>> => Coming[1][1] > 7

(* What was read belongs to earlier messages than what is coming.          *)
Behind ==
  /\ \A k \in 1 .. Len(taken) : /\ taken[k][1] \in 1 .. Len(sent)
                                /\ Coming # <<>> => taken[k][1] < Coming[1][1]
  /\ last # <<>> => last[1][1] \in 1 .. Len(sent)

(* The handshake is as far as its messages were sound.                     *)
Trusted ==
  /\ phase # "over" => \A i \in 1 .. got : i # 2 => i <= Len(sent) /\ ~sent[i].flawed
  /\ Agreement

(* castd has said all that the source waits for.                           *)
SaidEnough == phase = "handshake" => Len(said) = Awaited[got + 1]

Inv == /\ Types /\ Script /\ Arrivals /\ InStep /\ Behind /\ Trusted /\ SaidEnough
       /\ WholeMessages /\ EveryRequestAnswered

-----------------------------------------------------------------------------
(* Sequences of pieces.                                                    *)

LEMMA Regroup ==
  ASSUME NEW a \in Seq(Piece), NEW b \in Seq(Piece), NEW c \in Seq(Piece)
  PROVE  a \o (b \o c) = (a \o b) \o c
  BY ConcatAssociative, SMTT(30)

LEMMA FourInARow ==
  ASSUME NEW S, NEW w \in S, NEW x \in S, NEW y \in S, NEW z \in S
  PROVE  <<w, x, y>> \o <<z>> = <<w, x, y, z>>
<1> DEFINE a == <<w, x, y>> \o <<z>>
           b == <<w, x, y, z>>
<1>1. a \in Seq(S) /\ b \in Seq(S) /\ Len(a) = 4 /\ Len(b) = 4
  OBVIOUS
<1>2. /\ a[1] = w /\ a[2] = x /\ a[3] = y /\ a[4] = z
      /\ b[1] = w /\ b[2] = x /\ b[3] = y /\ b[4] = z
  OBVIOUS
<1>3. \A k \in 1 .. Len(a) : a[k] = b[k]
  BY <1>1, <1>2
<1> HIDE DEF a, b
<1>4. a = b
  BY <1>1, <1>3, SeqEqual
<1> QED  BY <1>4 DEF a, b

LEMMA PiecesOf ==
  ASSUME NEW i \in Nat, NEW kind
  PROVE  Pieces(i, kind) = IF kind \in WithBody
           THEN << <<i, "line">>, <<i, "headers">>, <<i, "blank">>, <<i, "body">> >>
           ELSE << <<i, "line">>, <<i, "headers">>, <<i, "blank">> >>
<1>1. /\ <<i, "line">> \in Piece /\ <<i, "headers">> \in Piece /\ <<i, "blank">> \in Piece
      /\ <<i, "body">> \in Piece
  BY DEF Piece, Parts
<1>2. << <<i, "line">>, <<i, "headers">>, <<i, "blank">> >> \o <<>>
        = << <<i, "line">>, <<i, "headers">>, <<i, "blank">> >>
  BY <1>1, ConcatEmptySeq
<1>3. << <<i, "line">>, <<i, "headers">>, <<i, "blank">> >> \o << <<i, "body">> >>
        = << <<i, "line">>, <<i, "headers">>, <<i, "blank">>, <<i, "body">> >>
  BY <1>1, FourInARow, ZenonT(60)
<1> QED  BY <1>2, <1>3 DEF Pieces

LEMMA PiecesType ==
  ASSUME NEW i \in Nat, NEW kind
  PROVE  /\ Pieces(i, kind) \in Seq(Piece)
         /\ kind \in WithBody => Len(Pieces(i, kind)) = 4
         /\ kind \notin WithBody => Len(Pieces(i, kind)) = 3
         /\ Len(Pieces(i, kind)) \in Nat /\ Len(Pieces(i, kind)) >= 3
<1> DEFINE w == <<i, "line">>  x == <<i, "headers">>  y == <<i, "blank">>  z == <<i, "body">>
<1>1. w \in Piece /\ x \in Piece /\ y \in Piece /\ z \in Piece
  BY DEF Piece, Parts
<1>2. /\ kind \in WithBody => Pieces(i, kind) = <<w, x, y, z>>
      /\ kind \notin WithBody => Pieces(i, kind) = <<w, x, y>>
  BY PiecesOf
<1> HIDE DEF w, x, y, z
<1>3. /\ <<w, x, y, z>> \in Seq(Piece) /\ Len(<<w, x, y, z>>) = 4
      /\ <<w, x, y>> \in Seq(Piece) /\ Len(<<w, x, y>>) = 3
  BY <1>1
<1>4. kind \in WithBody => Pieces(i, kind) \in Seq(Piece) /\ Len(Pieces(i, kind)) = 4
  BY <1>2, <1>3, Zenon
<1>5. kind \notin WithBody => Pieces(i, kind) \in Seq(Piece) /\ Len(Pieces(i, kind)) = 3
  BY <1>2, <1>3, Zenon
<1>6. \A l : l = 3 \/ l = 4 => l \in Nat /\ l >= 3
  OBVIOUS
<1> QED  BY <1>4, <1>5, <1>6, Zenon

LEMMA PiecesIndex ==
  ASSUME NEW i \in Nat, NEW kind
  PROVE  /\ \A k \in 1 .. Len(Pieces(i, kind)) : Pieces(i, kind)[k][1] = i
         /\ \A k \in 1 .. Len(Pieces(i, kind)) : Pieces(i, kind)[k][2] = "line" <=> k = 1
         /\ Pieces(i, kind)[1] = <<i, "line">> /\ Pieces(i, kind)[2] = <<i, "headers">>
         /\ Pieces(i, kind)[3] = <<i, "blank">>
         /\ kind \in WithBody => Pieces(i, kind)[4] = <<i, "body">>
<1>1. /\ Pieces(i, kind)[1] = <<i, "line">> /\ Pieces(i, kind)[2] = <<i, "headers">>
      /\ Pieces(i, kind)[3] = <<i, "blank">>
      /\ kind \in WithBody => Pieces(i, kind)[4] = <<i, "body">>
  BY PiecesOf
<1>2. ASSUME NEW k \in 1 .. Len(Pieces(i, kind))
      PROVE  Pieces(i, kind)[k][1] = i /\ (Pieces(i, kind)[k][2] = "line" <=> k = 1)
  <2>1. k = 1 \/ k = 2 \/ k = 3 \/ (k = 4 /\ kind \in WithBody)
    <3>1. CASE kind \in WithBody
      <4>1. Len(Pieces(i, kind)) = 4
        BY <3>1, PiecesType
      <4> QED  BY <3>1, <4>1
    <3>2. CASE kind \notin WithBody
      <4>1. Len(Pieces(i, kind)) = 3
        BY <3>2, PiecesType
      <4> QED  BY <4>1
    <3> QED  BY <3>1, <3>2
  <2> QED  BY <1>1, <2>1
<1> QED  BY <1>1, <1>2

LEMMA PiecesOfOne ==
  ASSUME NEW i \in Nat, NEW kind
  PROVE  \A k \in 1 .. Len(Pieces(i, kind)) : Pieces(i, kind)[k][1] = i
  BY PiecesIndex

LEMMA Afters ==
  ASSUME NEW s, NEW n \in Nat
  PROVE  /\ After(s, <<n, "line">>) = <<n, "headers">>
         /\ After(s, <<n, "headers">>) = <<n, "blank">>
         /\ HasBody(s, n) => After(s, <<n, "blank">>) = <<n, "body">>
         /\ ~HasBody(s, n) => After(s, <<n, "blank">>) = <<n + 1, "line">>
         /\ After(s, <<n, "body">>) = <<n + 1, "line">>
  BY DEF After

LEMMA OneMessage ==
  ASSUME NEW s, NEW i \in Nat
  PROVE  /\ InOrder(s, Pieces(i, s[i].kind))
         /\ Pieces(i, s[i].kind)[Len(Pieces(i, s[i].kind))] = LastPiece(s, i)
<1> DEFINE w == <<i, "line">>  x == <<i, "headers">>  y == <<i, "blank">>  z == <<i, "body">>
           p == Pieces(i, s[i].kind)  last_ == LastPiece(s, i)
<1>1. /\ HasBody(s, i) => p = <<w, x, y, z>> /\ last_ = z
      /\ ~HasBody(s, i) => p = <<w, x, y>> /\ last_ = y
  BY PiecesOf DEF HasBody, LastPiece
<1>2. /\ After(s, w) = x /\ After(s, x) = y
      /\ HasBody(s, i) => After(s, y) = z
  BY Afters
<1> HIDE DEF w, x, y, z, p, last_
<1>3. InOrder(s, p) /\ p[Len(p)] = last_
  <2>1. CASE HasBody(s, i)
    <3>1. Len(p) = 4 /\ p[1] = w /\ p[2] = x /\ p[3] = y /\ p[4] = z
      BY <1>1, <2>1
    <3>2. ASSUME NEW k \in 1 .. Len(p) - 1 PROVE p[k + 1] = After(s, p[k])
      <4>1. k = 1 \/ k = 2 \/ k = 3
        BY <3>1
      <4> QED  BY <1>2, <2>1, <3>1, <4>1
    <3> QED  BY <1>1, <2>1, <3>1, <3>2 DEF InOrder
  <2>2. CASE ~HasBody(s, i)
    <3>1. Len(p) = 3 /\ p[1] = w /\ p[2] = x /\ p[3] = y
      BY <1>1, <2>2
    <3>2. ASSUME NEW k \in 1 .. Len(p) - 1 PROVE p[k + 1] = After(s, p[k])
      <4>1. k = 1 \/ k = 2
        BY <3>1
      <4> QED  BY <1>2, <3>1, <4>1
    <3> QED  BY <1>1, <2>2, <3>1, <3>2 DEF InOrder
  <2> QED  BY <2>1, <2>2
<1> QED  BY <1>3 DEF p, last_

(* A sequence of pieces in order that begins with the first one of message *)
(* n goes on with the others, and then with the first one of the next.     *)
LEMMA BeginsWithMessage ==
  ASSUME NEW q \in Seq(Piece), InOrder(sent, q), NEW n \in Nat, q # <<>>, q[1] = <<n, "line">>
  PROVE  /\ \A k \in 1 .. Len(q) : k <= Len(Pieces(n, sent[n].kind)) =>
              q[k] = Pieces(n, sent[n].kind)[k]
         /\ Len(q) > Len(Pieces(n, sent[n].kind)) =>
              q[Len(Pieces(n, sent[n].kind)) + 1] = <<n + 1, "line">>
<1> DEFINE w == <<n, "line">>  x == <<n, "headers">>  y == <<n, "blank">>  z == <<n, "body">>
           next == <<n + 1, "line">>  pieces == Pieces(n, sent[n].kind)
<1>1. Len(q) \in Nat /\ Len(q) >= 1 /\ q[1] = w
  BY EmptySeq
<1>2. /\ Len(q) >= 2 => q[2] = After(sent, q[1])
      /\ Len(q) >= 3 => q[3] = After(sent, q[2])
      /\ Len(q) >= 4 => q[4] = After(sent, q[3])
      /\ Len(q) >= 5 => q[5] = After(sent, q[4])
  BY <1>1 DEF InOrder
<1>3. /\ After(sent, w) = x /\ After(sent, x) = y /\ After(sent, z) = next
      /\ After(sent, y) = IF HasBody(sent, n) THEN z ELSE next
  BY Afters
<1>4. /\ HasBody(sent, n) => pieces = <<w, x, y, z>>
      /\ ~HasBody(sent, n) => pieces = <<w, x, y>>
  BY PiecesOf DEF HasBody
<1> HIDE DEF w, x, y, z, next, pieces
<1>5. /\ \A k \in 1 .. Len(q) : k <= Len(pieces) => q[k] = pieces[k]
      /\ Len(q) > Len(pieces) => q[Len(pieces) + 1] = next
  <2>1. (Len(q) >= 2 => q[2] = x) /\ (Len(q) >= 3 => q[3] = y)
    BY <1>1, <1>2, <1>3
  <2>2. CASE HasBody(sent, n)
    <3>1. (Len(q) >= 4 => q[4] = z) /\ (Len(q) >= 5 => q[5] = next)
      BY <1>1, <1>2, <1>3, <2>1, <2>2
    <3>2. /\ Len(pieces) = 4
          /\ pieces[1] = w /\ pieces[2] = x /\ pieces[3] = y /\ pieces[4] = z
      BY <1>4, <2>2
    <3>3. ASSUME NEW k \in 1 .. Len(q), k <= 4 PROVE q[k] = pieces[k]
      <4>1. k = 1 \/ k = 2 \/ k = 3 \/ k = 4
        BY <1>1, <3>3
      <4> QED  BY <1>1, <2>1, <3>1, <3>2, <4>1
    <3> QED  BY <3>1, <3>2, <3>3
  <2>3. CASE ~HasBody(sent, n)
    <3>1. Len(q) >= 4 => q[4] = next
      BY <1>1, <1>2, <1>3, <2>1, <2>3
    <3>2. Len(pieces) = 3 /\ pieces[1] = w /\ pieces[2] = x /\ pieces[3] = y
      BY <1>4, <2>3
    <3>3. ASSUME NEW k \in 1 .. Len(q), k <= 3 PROVE q[k] = pieces[k]
      <4>1. k = 1 \/ k = 2 \/ k = 3
        BY <1>1, <3>3
      <4> QED  BY <1>1, <2>1, <3>2, <4>1
    <3> QED  BY <3>1, <3>2, <3>3
  <2> QED  BY <2>2, <2>3
<1> QED  BY <1>5 DEF pieces, next

(* What is left of a sequence in order is in order.                        *)
LEMMA RestInOrder ==
  ASSUME NEW m \in Seq(Piece), NEW r \in Seq(Piece), InOrder(sent, m \o r)
  PROVE  InOrder(sent, r)
<1> SUFFICES ASSUME NEW k \in 1 .. Len(r) - 1 PROVE r[k + 1] = After(sent, r[k])
  BY DEF InOrder
<1>1. (m \o r)[Len(m) + k] = r[k] /\ (m \o r)[Len(m) + k + 1] = r[k + 1]
  OBVIOUS
<1>2. Len(m) + k \in 1 .. Len(m \o r) - 1
  OBVIOUS
<1> QED  BY <1>1, <1>2 DEF InOrder

(* What next_message() sees of a buffer that begins with message n: it has *)
(* a message when all the pieces of n are there, and takes just those.     *)
LEMMA FirstMessage ==
  ASSUME NEW b \in Seq(Piece), InOrder(sent, b), NEW n \in Nat, b # <<>>, b[1] = <<n, "line">>
  PROVE  /\ HasMessage(b) <=> Len(b) >= Len(Pieces(n, sent[n].kind))
         /\ HasMessage(b) => /\ Total(b) = Len(Pieces(n, sent[n].kind))
                             /\ SubSeq(b, 1, Total(b)) = Pieces(n, sent[n].kind)
<1> DEFINE pieces == Pieces(n, sent[n].kind)
<1>1. Len(b) \in Nat /\ Len(b) >= 1
  BY EmptySeq
<1>2. /\ pieces \in Seq(Piece)
      /\ Len(pieces) = IF HasBody(sent, n) THEN 4 ELSE 3
      /\ pieces[2][2] = "headers" /\ pieces[3] = <<n, "blank">>
      /\ \A k \in 1 .. Len(pieces) : pieces[k][1] = n
  <2>1. pieces \in Seq(Piece) /\ Len(pieces) = IF HasBody(sent, n) THEN 4 ELSE 3
    BY PiecesType DEF HasBody
  <2>2. pieces[2] = <<n, "headers">> /\ pieces[3] = <<n, "blank">>
    BY PiecesIndex
  <2>3. \A k \in 1 .. Len(pieces) : pieces[k][1] = n
    BY PiecesIndex
  <2> QED  BY <2>1, <2>2, <2>3
<1>3. \A k \in 1 .. Len(b) : k <= Len(pieces) => b[k] = pieces[k]
  BY BeginsWithMessage
<1> HIDE DEF pieces
<1>4. /\ b[1][2] = "line"
      /\ Len(b) >= 2 => b[2][2] = "headers"
      /\ Len(b) >= 3 => b[3] = <<n, "blank">>
  BY <1>1, <1>2, <1>3
<1>5. Heads(b) # {} => Len(b) >= 3
  BY <1>1, <1>4 DEF Heads
<1>6. ASSUME Len(b) >= 3
      PROVE  /\ Heads(b) # {}
             /\ Total(b) = Len(pieces)
  <2>1. 3 \in Heads(b)
    BY <1>1, <1>4, <1>6 DEF Heads
  <2>2. \A j \in Heads(b) : j \in Nat /\ 3 <= j
    BY <1>1, <1>4 DEF Heads
  <2>3. HeadEnd(b) = 3
    BY <2>1, <2>2 DEF HeadEnd
  <2>4. b[3][1] = n
    BY <1>4, <1>6
  <2>5. BodyLength(b[3]) = IF HasBody(sent, n) THEN 1 ELSE 0
    BY <2>4 DEF BodyLength, HasBody
  <2> QED  BY <1>2, <2>1, <2>3, <2>5 DEF Total
<1>7. HasMessage(b) <=> Len(b) >= Len(pieces)
  BY <1>1, <1>2, <1>5, <1>6 DEF HasMessage
<1>8. ASSUME HasMessage(b)
      PROVE  Total(b) = Len(pieces) /\ SubSeq(b, 1, Total(b)) = pieces
  <2>1. Total(b) = Len(pieces) /\ Len(b) >= Len(pieces)
    BY <1>2, <1>5, <1>6, <1>7, <1>8 DEF HasMessage
  <2>2. \A k \in 1 .. Len(pieces) : b[k] \in Piece
    BY <1>1, <1>2, <2>1
  <2>3. /\ SubSeq(b, 1, Len(pieces)) \in Seq(Piece)
        /\ Len(SubSeq(b, 1, Len(pieces))) = Len(pieces)
        /\ \A k \in 1 .. Len(pieces) : SubSeq(b, 1, Len(pieces))[k] = b[k]
    BY <1>2, <2>2, SubSeqProperties
  <2>4. \A k \in 1 .. Len(pieces) : b[k] = pieces[k]
    BY <1>1, <1>2, <1>3, <2>1, SMTT(30)
  <2>5. SubSeq(b, 1, Len(pieces)) = pieces
    BY <1>2, <2>3, <2>4, SeqEqual, ZenonT(60)
  <2> QED  BY <2>1, <2>5
<1> QED  BY <1>7, <1>8 DEF pieces

(* A buffer without a message holds pieces of one message at most.         *)
LEMMA PartOfMessage ==
  ASSUME NEW b \in Seq(Piece), InOrder(sent, b), NEW n \in Nat, b # <<>>, b[1] = <<n, "line">>,
         ~HasMessage(b)
  PROVE  /\ Len(b) < Len(Pieces(n, sent[n].kind))
         /\ \A k \in 1 .. Len(b) : b[k][1] = n
<1> DEFINE pieces == Pieces(n, sent[n].kind)
<1>1. Len(b) \in Nat /\ Len(pieces) \in Nat
  BY PiecesType
<1>2. ~(Len(b) >= Len(pieces))
  BY FirstMessage
<1>3. \A k \in 1 .. Len(b) : k <= Len(pieces) => b[k] = pieces[k]
  BY BeginsWithMessage
<1>4. \A k \in 1 .. Len(pieces) : pieces[k][1] = n
  BY PiecesOfOne
<1> HIDE DEF pieces
<1> QED
  <2>1. Len(b) < Len(pieces) /\ \A k \in 1 .. Len(b) : b[k][1] = n
    BY <1>1, <1>2, <1>3, <1>4
  <2> QED  BY <2>1 DEF pieces

LEMMA PrefixInOrder ==
  ASSUME NEW m \in Seq(Piece), NEW r \in Seq(Piece), InOrder(sent, m \o r)
  PROVE  InOrder(sent, m)
<1> SUFFICES ASSUME NEW k \in 1 .. Len(m) - 1 PROVE m[k + 1] = After(sent, m[k])
  BY DEF InOrder
<1>1. (m \o r)[k] = m[k] /\ (m \o r)[k + 1] = m[k + 1]
  OBVIOUS
<1>2. k \in 1 .. Len(m \o r) - 1
  OBVIOUS
<1> QED  BY <1>1, <1>2 DEF InOrder

LEMMA CutAt ==
  ASSUME NEW q \in Seq(Piece), NEW k \in 0 .. Len(q)
  PROVE  /\ SubSeq(q, 1, k) \in Seq(Piece) /\ SubSeq(q, k + 1, Len(q)) \in Seq(Piece)
         /\ SubSeq(q, 1, k) \o SubSeq(q, k + 1, Len(q)) = q
<1>1. Len(q) \in Nat /\ k \in Nat /\ k <= Len(q) /\ 1 \in 1 .. Len(q) + 1
  OBVIOUS
<1>2. k \in 1 - 1 .. Len(q) /\ Len(q) \in k .. Len(q)
  BY <1>1
<1>3. SubSeq(q, 1, k) \o SubSeq(q, k + 1, Len(q)) = SubSeq(q, 1, Len(q))
  BY <1>1, <1>2, ConcatAdjacentSubSeq
<1>4. SubSeq(q, 1, Len(q)) = q
  BY SubSeqFull
<1>5. SubSeq(q, 1, k) \in Seq(Piece) /\ SubSeq(q, k + 1, Len(q)) \in Seq(Piece)
  <2>1. (\A i \in 1 .. k : q[i] \in Piece) /\ \A i \in k + 1 .. Len(q) : q[i] \in Piece
    BY <1>1
  <2> QED  BY <1>1, <2>1, SubSeqProperties
<1> QED  BY <1>3, <1>4, <1>5

LEMMA ComingType ==
  ASSUME Types
  PROVE  /\ Outside \in Seq(Piece) /\ Coming \in Seq(Piece)
         /\ Len(Coming) = Len(buf) + Len(Outside)
         /\ buf # <<>> => Coming # <<>> /\ Coming[1] = buf[1]
<1>1. wire \in Seq(Piece) /\ unwritten \in Seq(Piece) /\ buf \in Seq(Piece)
  BY DEF Types
<1>2. Outside \in Seq(Piece)
  BY <1>1 DEF Outside
<1> QED  BY <1>1, <1>2 DEF Coming

(* What next_message() returns: a whole message, the one due; or, once the *)
(* source has closed, what there is of it.                                 *)
LEMMA NextMessageReads ==
  ASSUME Types, Arrivals, NEW m, NextMessage(m), UNCHANGED source
  PROVE  /\ m \in Seq(Piece) /\ buf' \in Seq(Piece)
         /\ taken' = taken \o m /\ last' = m
         /\ buf = m \o buf' /\ Coming = m \o Coming'
         /\ m = <<>> => Coming = <<>> /\ conn # "open"
         /\ m # <<>> => /\ Coming # <<>> /\ m[1] = Coming[1] /\ m[1][2] = "line"
                        /\ \A k \in 1 .. Len(m) : m[k][1] = m[1][1]
         /\ conn = "open" => m = Pieces(m[1][1], sent[m[1][1]].kind)
         /\ Coming' # <<>> => Coming'[1] = <<m[1][1] + 1, "line">>
<1>1. /\ wire \in Seq(Piece) /\ unwritten \in Seq(Piece) /\ buf \in Seq(Piece)
      /\ Outside \in Seq(Piece) /\ Coming \in Seq(Piece)
  BY ComingType DEF Types
<1>2. Outside' = Outside /\ Coming' = buf' \o Outside
  BY DEF Outside, Coming, source
<1>3. CASE HasMessage(buf) /\ m = SubSeq(buf, 1, Total(buf))
           /\ Returns(m, SubSeq(buf, Total(buf) + 1, Len(buf)))
  <2>1. buf # <<>>
    BY <1>3 DEF HasMessage, Heads
  <2> DEFINE n == buf[1][1]
  <2>2. buf[1] \in Piece /\ Coming # <<>> /\ Coming[1] = buf[1]
    BY <1>1, <2>1, EmptySeq, ComingType
  <2>3. n \in Nat /\ buf[1] = <<n, "line">>
    BY <2>2 DEF Arrivals, Piece
  <2>4. InOrder(sent, buf)
    BY <1>1, PrefixInOrder DEF Coming, Arrivals
  <2> DEFINE pieces == Pieces(n, sent[n].kind)
  <2>5. /\ Total(buf) = Len(pieces) /\ m = pieces /\ Len(buf) >= Len(pieces)
    BY <1>1, <1>3, <2>1, <2>3, <2>4, FirstMessage
  <2>6. pieces \in Seq(Piece) /\ Len(pieces) \in Nat /\ Len(pieces) >= 3
    BY <2>3, PiecesType
  <2>7. pieces[1] = <<n, "line">> /\ \A k \in 1 .. Len(pieces) : pieces[k][1] = n
    BY <2>3, PiecesIndex, PiecesOfOne
  <2> HIDE DEF n, pieces
  <2>8. /\ Len(m) \in 0 .. Len(buf)
        /\ buf' = SubSeq(buf, Len(m) + 1, Len(buf)) /\ m = SubSeq(buf, 1, Len(m))
    <3>1. Total(buf) = Len(m) /\ m = SubSeq(buf, 1, Total(buf))
      BY <1>3, <2>5
    <3>2. buf' = SubSeq(buf, Total(buf) + 1, Len(buf))
      BY <1>3 DEF Returns
    <3>3. Len(m) \in 0 .. Len(buf)
      BY <1>1, <2>5, <2>6
    <3> QED  BY <3>1, <3>2, <3>3, Zenon
  <2>9. m \in Seq(Piece) /\ buf' \in Seq(Piece) /\ buf = m \o buf'
    BY <1>1, <2>8, CutAt
  <2>10. Coming = m \o Coming'
    <3>1. (m \o buf') \o Outside = m \o (buf' \o Outside)
      BY <1>1, <2>9, ConcatAssociative, SMTT(30)
    <3> QED  BY <1>2, <2>9, <3>1 DEF Coming
  <2>11. Coming' # <<>> => Coming'[1] = <<n + 1, "line">>
    <3>1. Coming' \in Seq(Piece)
      BY <1>1, <1>2, <2>9
    <3>2. Len(Coming) > Len(pieces) => Coming[Len(pieces) + 1] = <<n + 1, "line">>
      BY <1>1, <2>2, <2>3, BeginsWithMessage, ZenonT(60) DEF Arrivals, pieces
    <3>3. Coming' # <<>> => Len(Coming) > Len(m) /\ Coming[Len(m) + 1] = Coming'[1]
      BY <2>5, <2>6, <2>10, <3>1
    <3> QED  BY <2>5, <3>2, <3>3
  <2>12. m[1] = <<n, "line">> /\ m[1] = Coming[1] /\ m # <<>>
    BY <2>2, <2>3, <2>5, <2>6, <2>7
  <2>13. taken' = taken \o m /\ last' = m
    BY <1>3 DEF Returns
  <2>14. m = Pieces(m[1][1], sent[m[1][1]].kind)
    BY <2>5, <2>12 DEF pieces
  <2>15. m[1][1] = n /\ m[1][2] = "line"
    BY <2>12
  <2>16. \A k \in 1 .. Len(m) : m[k][1] = m[1][1]
    BY <2>5, <2>7, <2>15
  <2>17. Coming' # <<>> => Coming'[1] = <<m[1][1] + 1, "line">>
    BY <2>11, <2>15
  <2> QED
    BY <2>2, <2>9, <2>10, <2>12, <2>13, <2>14, <2>15, <2>16, <2>17, Zenon
<1>4. CASE ~HasMessage(buf) /\ conn = "fin" /\ wire = <<>> /\ m = buf /\ Returns(m, <<>>)
  <2>1. Outside = <<>> /\ Coming = buf /\ buf' = <<>> /\ Coming' = <<>>
    BY <1>1, <1>2, <1>4 DEF Outside, Coming, Returns
  <2>2. InOrder(sent, buf)
    BY <2>1 DEF Arrivals
  <2>3. ASSUME m # <<>>
        PROVE  m[1][2] = "line" /\ \A k \in 1 .. Len(m) : m[k][1] = m[1][1]
    <3>1. buf[1] \in Piece /\ buf[1][2] = "line"
      BY <1>1, <1>4, <2>1, <2>3, EmptySeq DEF Arrivals
    <3>2. buf[1][1] \in Nat /\ buf[1] = <<buf[1][1], "line">>
      BY <3>1 DEF Piece
    <3> QED  BY <1>1, <1>4, <2>2, <2>3, <3>2, PartOfMessage, SMTT(30)
  <2>4. buf = m \o <<>> /\ taken' = taken \o m /\ last' = m
    BY <1>1, <1>4 DEF Returns
  <2> QED  BY <1>1, <1>4, <2>1, <2>3, <2>4
<1> QED  BY <1>3, <1>4 DEF NextMessage

LEMMA ArrivalsRead ==
  ASSUME Types, Arrivals, NEW m, NextMessage(m), UNCHANGED source
  PROVE  /\ Arrivals'
         /\ conn = "open" /\ Coming' = <<>> => m[1][1] = Len(sent)
<1>1. /\ Coming \in Seq(Piece) /\ m \in Seq(Piece) /\ buf' \in Seq(Piece)
      /\ Coming = m \o Coming'
  BY ComingType, NextMessageReads
<1>2. Coming' \in Seq(Piece)
  <2>1. Coming' = buf' \o Outside /\ Outside \in Seq(Piece)
    BY ComingType DEF Coming, Outside, source
  <2> QED  BY <1>1, <2>1
<1>3. sent' = sent /\ conn' = conn
  BY DEF source
<1>4. /\ Len(Coming) = Len(m) + Len(Coming')
      /\ \A k \in 1 .. Len(Coming') : Coming'[k] = Coming[Len(m) + k]
      /\ \A k \in 1 .. Len(m) : m[k] = Coming[k]
  BY <1>1, <1>2
<1>5. ASSUME NEW k \in 1 .. Len(Coming')
      PROVE  Coming'[k][1] \in 1 .. Len(sent)
  <2>1. Len(m) + k \in 1 .. Len(Coming) /\ Coming'[k] = Coming[Len(m) + k]
    BY <1>1, <1>2, <1>4
  <2> QED  BY <2>1 DEF Arrivals
<1>6. InOrder(sent, Coming')
  BY <1>1, <1>2, RestInOrder DEF Arrivals
<1>7. Coming' # <<>> => Coming'[1][2] = "line"
  BY NextMessageReads
<1>8. conn = "open" /\ Coming' # <<>> => Coming'[Len(Coming')] = LastPiece(sent, Len(sent))
  <2>1. SUFFICES ASSUME conn = "open", Coming' # <<>>
                 PROVE  Coming'[Len(Coming')] = LastPiece(sent, Len(sent))
    OBVIOUS
  <2>2. Len(Coming') \in Nat /\ Len(Coming') >= 1 /\ Len(m) \in Nat
    BY <1>1, <1>2, <2>1, EmptySeq
  <2>3. Coming'[Len(Coming')] = Coming[Len(Coming)] /\ Coming # <<>>
    BY <1>1, <1>4, <2>2
  <2> QED  BY <2>1, <2>3 DEF Arrivals
<1>9. ASSUME conn = "open", Coming' = <<>>
      PROVE  m[1][1] = Len(sent)
  <2>1. m # <<>> /\ Coming # <<>> /\ \A k \in 1 .. Len(m) : m[k][1] = m[1][1]
    BY <1>9, NextMessageReads
  <2>2. Len(m) \in Nat /\ Len(m) >= 1 /\ Len(Coming) = Len(m)
    BY <1>1, <1>4, <1>9, <2>1, EmptySeq
  <2>3. Coming[Len(Coming)] = LastPiece(sent, Len(sent))
    BY <1>9, <2>1 DEF Arrivals
  <2>4. m[Len(m)] = LastPiece(sent, Len(sent)) /\ m[Len(m)][1] = m[1][1]
    BY <1>4, <2>1, <2>2, <2>3
  <2> QED  BY <2>4 DEF LastPiece
<1> QED  BY <1>3, <1>5, <1>6, <1>7, <1>8, <1>9 DEF Arrivals

LEMMA BehindRead ==
  ASSUME Types, Arrivals, Behind, NEW m, NextMessage(m), UNCHANGED source
  PROVE  Behind'
<1>1. /\ m \in Seq(Piece) /\ taken \in Seq(Piece) /\ taken' = taken \o m
      /\ Coming \in Seq(Piece) /\ sent' = sent
  BY ComingType, NextMessageReads DEF Types, source
<1>2. ASSUME m = <<>>
      PROVE  Coming' = <<>> /\ taken' = taken /\ last' = <<>>
  <2>1. Coming' = buf' \o Outside /\ Coming = m \o Coming' /\ Coming = <<>>
        /\ buf' \in Seq(Piece) /\ Outside \in Seq(Piece) /\ last' = m
    BY <1>2, NextMessageReads, ComingType DEF Coming, Outside, source
  <2> QED  BY <1>1, <1>2, <2>1
<1>3. CASE m = <<>>
  BY <1>1, <1>2, <1>3 DEF Behind
<1>4. CASE m # <<>>
  <2> DEFINE n == m[1][1]
  <2>1. /\ Coming # <<>> /\ Coming[1] = m[1] /\ \A k \in 1 .. Len(m) : m[k][1] = n
        /\ Coming' # <<>> => Coming'[1] = <<n + 1, "line">>
    BY <1>4, NextMessageReads
  <2>2. n \in 1 .. Len(sent)
    BY <1>1, <2>1, EmptySeq DEF Arrivals
  <2>3. \A k \in 1 .. Len(taken) : taken[k][1] \in 1 .. Len(sent) /\ taken[k][1] < n
    BY <2>1 DEF Behind
  <2>4. Coming' # <<>> => Coming'[1][1] = n + 1
    BY <2>1
  <2>6. last' = m /\ last'[1][1] = n
    BY NextMessageReads
  <2> HIDE DEF n
  <2>5. ASSUME NEW k \in 1 .. Len(taken')
        PROVE  taken'[k][1] \in 1 .. Len(sent) /\ taken'[k][1] < n + 1
    <3>1. CASE k <= Len(taken)
      <4>1. k \in 1 .. Len(taken) /\ taken'[k] = taken[k]
        BY <1>1, <3>1
      <4> QED  BY <2>2, <2>3, <4>1
    <3>2. CASE k > Len(taken)
      <4>1. k - Len(taken) \in 1 .. Len(m) /\ taken'[k] = m[k - Len(taken)]
        BY <1>1, <3>2
      <4> QED  BY <2>1, <2>2, <4>1
    <3> QED  BY <1>1, <3>1, <3>2
  <2> QED  BY <1>1, <2>2, <2>4, <2>5, <2>6 DEF Behind
<1> QED  BY <1>3, <1>4

(* A step that leaves alone what was sent, what is coming and what was     *)
(* read.                                                                   *)
LEMMA StreamUntouched ==
  ASSUME UNCHANGED <<sent, taken, last, conn, Coming>>
  PROVE  (Arrivals => Arrivals') /\ (Behind => Behind')
  BY DEF Arrivals, Behind

LEMMA InStepUntouched ==
  ASSUME InStep, UNCHANGED <<sent, conn, got, Coming>>,
         phase' = phase \/ phase' = "over"
  PROVE  InStep'
  BY DEF InStep
-----------------------------------------------------------------------------
(* The stream of pieces under the steps that do not take a message.        *)

(* The source begins a message: its pieces follow all that is coming.      *)
LEMMA ArrivalsBegin ==
  ASSUME Types, Arrivals, SourceBegins
  PROVE  /\ Arrivals' /\ Coming' # <<>>
         /\ Coming'[1] = IF Coming = <<>> THEN <<Len(sent) + 1, "line">> ELSE Coming[1]
<1> DEFINE i == Len(sent) + 1
<1>1. PICK kind, flawed :
        /\ sent' = Append(sent, [kind |-> kind, flawed |-> flawed])
        /\ unwritten' = Pieces(i, kind)
  BY DEF SourceBegins
<1>2. /\ sent \in Seq(Messages) /\ wire \in Seq(Piece) /\ buf \in Seq(Piece)
      /\ Coming \in Seq(Piece) /\ conn = "open" /\ conn' = "open" /\ unwritten = <<>>
      /\ wire' = wire /\ buf' = buf
  BY ComingType DEF Types, TypeOK, SourceBegins, reader
<1>3. i \in Nat /\ i >= 1 /\ Len(sent') = i /\ sent'[i].kind = kind
      /\ \A j \in 1 .. Len(sent) : sent'[j] = sent[j]
  BY <1>1, <1>2
<1> DEFINE p == Pieces(i, kind)
<1>4. /\ p \in Seq(Piece) /\ p[1] = <<i, "line">> /\ \A k \in 1 .. Len(p) : p[k][1] = i
      /\ Len(p) \in Nat /\ Len(p) >= 3
  BY <1>3, PiecesType, PiecesIndex, PiecesOfOne
<1>5. InOrder(sent', p) /\ p[Len(p)] = LastPiece(sent', i)
  BY <1>3, OneMessage DEF HasBody
<1>6. Coming' = Coming \o p
  <2>1. Outside = wire /\ Outside' = wire \o p
    BY <1>1, <1>2 DEF Outside
  <2>2. Coming = buf \o wire /\ Coming' = buf \o (wire \o p)
    BY <1>2, <2>1 DEF Coming
  <2>3. buf \in Seq(Piece) /\ wire \in Seq(Piece) /\ p \in Seq(Piece)
    BY <1>2, <1>4
  <2> HIDE DEF p
  <2>4. buf \o (wire \o p) = (buf \o wire) \o p
    BY <2>3, Regroup
  <2> QED  BY <2>2, <2>4
<1> HIDE DEF p, i
<1>7. /\ Len(Coming) \in Nat /\ Coming' \in Seq(Piece) /\ Len(Coming') = Len(Coming) + Len(p)
      /\ \A k \in 1 .. Len(Coming) : Coming'[k] = Coming[k]
      /\ \A k \in 1 .. Len(p) : Coming'[Len(Coming) + k] = p[k]
      /\ Coming' # <<>> /\ Len(Coming') >= 1
  BY <1>2, <1>4, <1>6
<1>8. Coming'[1] = IF Coming = <<>> THEN <<i, "line">> ELSE Coming[1]
  <2>1. CASE Coming = <<>>
    BY <1>4, <1>7, <2>1
  <2>2. CASE Coming # <<>>
    <3>1. 1 \in 1 .. Len(Coming)
      BY <1>2, <2>2, EmptySeq
    <3> QED  BY <1>7, <2>2, <3>1
  <2> QED  BY <2>1, <2>2
<1>9. ASSUME NEW k \in 1 .. Len(Coming')
      PROVE  Coming'[k][1] \in 1 .. Len(sent')
  <2>1. CASE k \in 1 .. Len(Coming)
    <3>1. Coming[k][1] \in 1 .. Len(sent)
      BY <2>1 DEF Arrivals
    <3> QED  BY <1>2, <1>3, <1>7, <2>1, <3>1 DEF i
  <2>2. CASE k \notin 1 .. Len(Coming)
    <3>1. k - Len(Coming) \in 1 .. Len(p) /\ k = Len(Coming) + (k - Len(Coming))
      BY <1>4, <1>7, <2>2
    <3>2. Coming'[k] = p[k - Len(Coming)]
      BY <1>7, <3>1
    <3> QED  BY <1>3, <1>4, <3>1, <3>2, SMTT(30)
  <2> QED  BY <2>1, <2>2
<1>10. ASSUME NEW k \in 1 .. Len(Coming') - 1
       PROVE  Coming'[k + 1] = After(sent', Coming'[k])
  <2>1. CASE k + 1 \in 1 .. Len(Coming)
    <3>1. k \in 1 .. Len(Coming) - 1 /\ k \in 1 .. Len(Coming)
      BY <1>7, <2>1
    <3>2. Coming[k + 1] = After(sent, Coming[k]) /\ Coming[k][1] \in 1 .. Len(sent)
      BY <3>1 DEF Arrivals, InOrder
    <3>3. After(sent', Coming[k]) = After(sent, Coming[k])
      BY <1>3, <3>2 DEF After, HasBody
    <3> QED  BY <1>7, <2>1, <3>1, <3>2, <3>3
  <2>2. CASE k = Len(Coming)
    <3>1. Coming # <<>> /\ Coming[k] = LastPiece(sent, Len(sent)) /\ Coming[k][1] \in 1 .. Len(sent)
      BY <1>2, <2>2 DEF Arrivals
    <3>2. Coming[k] = LastPiece(sent', Len(sent)) /\ Len(sent) \in Nat
      BY <1>2, <1>3, <3>1 DEF LastPiece, HasBody
    <3>3. After(sent', LastPiece(sent', Len(sent))) = <<i, "line">>
      BY <3>2, Afters DEF LastPiece, i
    <3>4. Coming'[k + 1] = p[1] /\ Coming'[k] = Coming[k]
      BY <1>4, <1>7, <2>2
    <3> QED  BY <1>4, <3>2, <3>3, <3>4
  <2>3. CASE k > Len(Coming)
    <3>1. PICK j \in Nat : k = Len(Coming) + j /\ j \in 1 .. Len(p) - 1
      <4>1. /\ k \in Nat /\ k >= 1 /\ k <= Len(Coming) + Len(p) - 1
            /\ Len(Coming) \in Nat /\ Len(p) \in Nat
        BY <1>4, <1>7
      <4>2. k - Len(Coming) \in Nat /\ k = Len(Coming) + (k - Len(Coming))
            /\ k - Len(Coming) \in 1 .. Len(p) - 1
        BY <2>3, <4>1
      <4> QED  BY <4>2
    <3>2. j \in 1 .. Len(p) /\ j + 1 \in 1 .. Len(p) /\ k + 1 = Len(Coming) + (j + 1)
      BY <1>4, <1>7, <3>1
    <3>3. Coming'[k] = p[j] /\ Coming'[k + 1] = p[j + 1]
      BY <1>7, <3>1, <3>2
    <3> QED  BY <1>5, <3>1, <3>3 DEF InOrder
  <2> QED  BY <1>7, <2>1, <2>2, <2>3
<1>11. Coming'[1][2] = "line"
  BY <1>8 DEF Arrivals
<1>12. Coming'[Len(Coming')] = LastPiece(sent', Len(sent'))
  BY <1>3, <1>4, <1>5, <1>7
<1> QED
  BY <1>7, <1>8, <1>9, <1>10, <1>11, <1>12 DEF Arrivals, InOrder, i

LEMMA MoveOne ==
  ASSUME NEW w \in Seq(Piece), NEW u \in Seq(Piece), u # <<>>
  PROVE  /\ Append(w, Head(u)) \in Seq(Piece) /\ Tail(u) \in Seq(Piece)
         /\ Append(w, Head(u)) \o Tail(u) = w \o u
<1>1. /\ Len(u) \in Nat /\ Len(u) >= 1 /\ u[1] \in Piece /\ Head(u) = u[1]
      /\ Tail(u) \in Seq(Piece)
      /\ Len(Tail(u)) = Len(u) - 1 /\ \A k \in 1 .. Len(u) - 1 : Tail(u)[k] = u[k + 1]
  BY EmptySeq, HeadTailProperties
<1>2. Append(w, Head(u)) \in Seq(Piece)
  BY <1>1
<1> DEFINE a == Append(w, Head(u)) \o Tail(u)
           b == w \o u
<1>3. a \in Seq(Piece) /\ b \in Seq(Piece) /\ Len(a) = Len(b)
  BY <1>1
<1>4. ASSUME NEW k \in 1 .. Len(a) PROVE a[k] = b[k]
  BY <1>1, <1>4
<1> HIDE DEF a, b
<1>5. a = b
  BY <1>3, <1>4, SeqEqual
<1> QED  BY <1>1, <1>2, <1>5 DEF a, b

(* Pieces on their way from the source to the reader stay where they are   *)
(* among those that are coming.                                            *)
LEMMA WriteMovesNothing ==
  ASSUME Types, SourceWrites
  PROVE  UNCHANGED Coming
<1>1. /\ wire \in Seq(Piece) /\ unwritten \in Seq(Piece) /\ unwritten # <<>>
      /\ wire' = Append(wire, Head(unwritten)) /\ unwritten' = Tail(unwritten)
      /\ conn = "open" /\ conn' = "open" /\ buf' = buf
  BY DEF Types, SourceWrites, reader
<1>2. wire' \o unwritten' = wire \o unwritten
  BY <1>1, MoveOne
<1> QED  BY <1>1, <1>2 DEF Coming, Outside

LEMMA ReceiveMovesNothing ==
  ASSUME Types, Receive
  PROVE  UNCHANGED Coming
<1> DEFINE rest == IF conn = "open" THEN unwritten ELSE <<>>
<1>1. /\ wire \in Seq(Piece) /\ buf \in Seq(Piece) /\ rest \in Seq(Piece)
      /\ Outside = wire \o rest /\ Outside' = <<>> \o rest /\ buf' = buf \o wire
  BY DEF Types, Outside, Receive
<1> HIDE DEF rest
<1>2. Outside' = rest
  BY <1>1
<1>3. buf \o (wire \o rest) = (buf \o wire) \o rest
  BY <1>1, Regroup
<1> QED  BY <1>1, <1>2, <1>3 DEF Coming

(* A source that closes keeps back what it had not written.                *)
LEMMA CloseKeepsBack ==
  ASSUME Types, SourceCloses
  PROVE  /\ Coming' \in Seq(Piece) /\ Coming = Coming' \o unwritten
<1>1. /\ wire \in Seq(Piece) /\ buf \in Seq(Piece) /\ unwritten \in Seq(Piece)
      /\ buf' = buf /\ wire' = wire /\ conn = "open" /\ conn' # "open"
  BY DEF Types, SourceCloses, reader
<1>2. Outside = wire \o unwritten /\ Outside' = wire
  BY <1>1 DEF Outside
<1>3. buf \o (wire \o unwritten) = (buf \o wire) \o unwritten
  BY <1>1, Regroup
<1> QED  BY <1>1, <1>2, <1>3 DEF Coming

LEMMA ClosingKeeps ==
  ASSUME Types, Arrivals, InStep, Behind, SourceCloses
  PROVE  Arrivals' /\ InStep' /\ Behind'
<1>1. /\ unwritten \in Seq(Piece) /\ Coming \in Seq(Piece) /\ Coming' \in Seq(Piece)
      /\ Coming = Coming' \o unwritten
  BY ComingType, CloseKeepsBack DEF Types
<1>2. /\ Len(Coming') <= Len(Coming)
      /\ \A k \in 1 .. Len(Coming') : k \in 1 .. Len(Coming) /\ Coming'[k] = Coming[k]
      /\ Coming' # <<>> => Coming # <<>> /\ Coming'[1] = Coming[1]
  <2>1. /\ Len(Coming') <= Len(Coming)
        /\ \A k \in 1 .. Len(Coming') : k \in 1 .. Len(Coming) /\ Coming'[k] = Coming[k]
    BY <1>1
  <2>2. ASSUME Coming' # <<>> PROVE Coming # <<>> /\ Coming'[1] = Coming[1]
    <3>1. 1 \in 1 .. Len(Coming')
      BY <1>1, <2>2, EmptySeq
    <3> QED  BY <2>1, <3>1
  <2> QED  BY <2>1, <2>2
<1>3. InOrder(sent, Coming')
  BY <1>1, PrefixInOrder DEF Arrivals
<1>4. UNCHANGED <<sent, taken, last, got, phase>> /\ conn' # "open"
  BY DEF SourceCloses, reader
<1>5. Arrivals'
  BY <1>2, <1>3, <1>4 DEF Arrivals
<1>6. InStep'
  BY <1>2, <1>4 DEF InStep
<1>7. Behind'
  BY <1>2, <1>4 DEF Behind
<1> QED  BY <1>5, <1>6, <1>7

LEMMA BeginningKeeps ==
  ASSUME Types, Arrivals, InStep, Behind, Trusted, SourceBegins
  PROVE  InStep' /\ Behind'
<1>1. /\ Coming' # <<>>
      /\ Coming'[1] = IF Coming = <<>> THEN <<Len(sent) + 1, "line">> ELSE Coming[1]
  BY ArrivalsBegin
<1>2. /\ UNCHANGED <<taken, last, got, phase>> /\ conn = "open" /\ conn' = "open"
      /\ Len(sent) \in Nat /\ Len(sent') = Len(sent) + 1
  BY DEF SourceBegins, reader, Types, TypeOK
<1>3. phase = "steady" => Len(sent) >= 7
  <2>1. phase = "steady" => 7 \in 1 .. got /\ 7 # 2
    BY DEF Types
  <2>2. phase = "steady" => 7 <= Len(sent)
    BY <2>1 DEF Trusted
  <2> QED  BY <1>2, <2>2
<1>4. InStep'
  <2>1. CASE Coming = <<>>
    <3>1. Coming'[1][1] = Len(sent) + 1
      BY <1>1, <2>1
    <3>2. /\ phase \in {"handshake", "starting"} => Coming'[1][1] = got + 1
          /\ phase = "steady" => Coming'[1][1] > 7
      BY <1>2, <1>3, <2>1, <3>1 DEF InStep
    <3> QED  BY <1>1, <1>2, <3>2 DEF InStep
  <2>2. CASE Coming # <<>>
    BY <1>1, <1>2, <2>2 DEF InStep
  <2> QED  BY <2>1, <2>2
<1>5. Behind'
  <2>1. ASSUME NEW k \in 1 .. Len(taken)
        PROVE  taken[k][1] \in 1 .. Len(sent') /\ taken[k][1] < Coming'[1][1]
    <3>1. taken[k][1] \in 1 .. Len(sent)
      BY <2>1 DEF Behind
    <3>2. CASE Coming = <<>>
      <4>1. Coming'[1][1] = Len(sent) + 1
        BY <1>1, <3>2
      <4> QED  BY <1>2, <3>1, <4>1
    <3>3. CASE Coming # <<>>
      <4>1. taken[k][1] < Coming[1][1] /\ Coming'[1] = Coming[1]
        BY <1>1, <2>1, <3>3 DEF Behind
      <4> QED  BY <1>2, <3>1, <4>1
    <3> QED  BY <3>2, <3>3
  <2>2. last # <<>> => last[1][1] \in 1 .. Len(sent')
    BY <1>2 DEF Behind
  <2> QED  BY <1>1, <1>2, <2>1, <2>2 DEF Behind
<1> QED  BY <1>4, <1>5-----------------------------------------------------------------------------
(* Taking a message.                                                       *)

LEMMA InStepRead ==
  ASSUME Types, Arrivals, InStep, NEW m, NextMessage(m), UNCHANGED source,
         \/ phase = "handshake" /\ got' = got + 1 /\ phase' # "steady"
         \/ phase = "steady" /\ phase' \in {"steady", "over"}
  PROVE  InStep'
<1>1. /\ m # <<>> => Coming # <<>> /\ m[1] = Coming[1]
      /\ m = <<>> => Coming = <<>> /\ conn # "open"
      /\ Coming' # <<>> => Coming'[1] = <<m[1][1] + 1, "line">>
      /\ conn = "open" /\ Coming' = <<>> => m[1][1] = Len(sent)
      /\ m \in Seq(Piece) /\ Coming = m \o Coming'
  BY NextMessageReads, ArrivalsRead
<1>2. /\ buf' \in Seq(Piece) /\ Outside \in Seq(Piece) /\ Coming' = buf' \o Outside
      /\ sent' = sent /\ conn' = conn
  BY ComingType, NextMessageReads DEF Coming, Outside, source
<1>3. m = <<>> => Coming' = <<>>
  BY <1>1, <1>2
<1>4. Coming' # <<>> => Coming'[1][1] = m[1][1] + 1
  BY <1>1
<1>5. CASE m = <<>>
  BY <1>1, <1>2, <1>3, <1>5 DEF InStep
<1>6. CASE m # <<>>
  <2>1. /\ phase = "handshake" => m[1][1] = got + 1
        /\ phase = "steady" => m[1][1] > 7 /\ m[1][1] \in Nat
    <3>1. m[1] \in Piece /\ Coming[1] = m[1] /\ Coming # <<>>
      BY <1>1, <1>6, EmptySeq
    <3>2. m[1][1] \in Nat
      BY <3>1 DEF Piece
    <3> QED  BY <3>1, <3>2 DEF InStep
  <2>2. CASE phase = "handshake" /\ got' = got + 1 /\ phase' # "steady"
    BY <1>1, <1>2, <1>4, <2>1, <2>2 DEF InStep
  <2>3. CASE phase = "steady" /\ phase' \in {"steady", "over"}
    BY <1>2, <1>4, <2>1, <2>3 DEF InStep
  <2> QED  BY <2>2, <2>3
<1> QED  BY <1>5, <1>6

(* The requests read are those read before and the message taken, if it is *)
(* one.                                                                    *)
LEMMA RequestsReadGrow ==
  ASSUME Types, Arrivals, Behind, NEW m, NextMessage(m), UNCHANGED source
  PROVE  /\ m = <<>> => RequestsRead' = RequestsRead
         /\ m # <<>> => /\ m[1][1] \in 1 .. Len(sent)
                        /\ \A i \in RequestsRead : i < m[1][1]
                        /\ RequestsRead' = RequestsRead \cup
                              {i \in {m[1][1]} : sent[i].kind \notin Responses}
<1>1. /\ m \in Seq(Piece) /\ taken \in Seq(Piece) /\ taken' = taken \o m /\ sent' = sent
  BY NextMessageReads DEF Types, source
<1>2. CASE m = <<>>
  BY <1>1, <1>2 DEF RequestsRead
<1>3. CASE m # <<>>
  <2> DEFINE n == m[1][1]
  <2>1. /\ m[1][2] = "line" /\ \A k \in 1 .. Len(m) : m[k][1] = n
        /\ Coming # <<>> /\ m[1] = Coming[1]
    BY <1>3, NextMessageReads
  <2>2. m[1] \in Piece /\ 1 \in 1 .. Len(m)
    BY <1>1, <1>3, EmptySeq
  <2>3. m[1] = <<n, "line">> /\ n \in Nat
    BY <2>1, <2>2 DEF Piece
  <2>4. n \in 1 .. Len(sent)
    BY <2>1, <1>1, ComingType, EmptySeq DEF Arrivals
  <2>5. \A k \in 1 .. Len(taken) : taken[k][1] < n
    BY <2>1 DEF Behind
  <2>6. \A i \in RequestsRead : i < n
    BY <2>5 DEF RequestsRead
  <2> HIDE DEF n
  <2>7. ASSUME NEW i \in 1 .. Len(sent)
        PROVE  (\E k \in 1 .. Len(taken') : taken'[k] = <<i, "line">>) <=>
                 (\E k \in 1 .. Len(taken) : taken[k] = <<i, "line">>) \/ i = n
    <3>1. ASSUME NEW k \in 1 .. Len(taken), taken[k] = <<i, "line">>
          PROVE  k \in 1 .. Len(taken') /\ taken'[k] = <<i, "line">>
      BY <1>1, <3>1
    <3>2. Len(taken) + 1 \in 1 .. Len(taken') /\ taken'[Len(taken) + 1] = <<n, "line">>
      BY <1>1, <2>2, <2>3
    <3>3. ASSUME NEW k \in 1 .. Len(taken'), taken'[k] = <<i, "line">>
          PROVE  (k \in 1 .. Len(taken) /\ taken[k] = <<i, "line">>) \/ i = n
      <4>1. CASE k \in 1 .. Len(taken)
        BY <1>1, <3>3, <4>1
      <4>2. CASE k \notin 1 .. Len(taken)
        <5>1. k - Len(taken) \in 1 .. Len(m) /\ taken'[k] = m[k - Len(taken)]
          BY <1>1, <4>2
        <5>2. m[k - Len(taken)][1] = n /\ taken'[k][1] = i
          BY <2>1, <3>3, <5>1
        <5> QED  BY <5>1, <5>2
      <4> QED  BY <4>1, <4>2
    <3> QED  BY <3>1, <3>2, <3>3
  <2>8. ASSUME NEW i
        PROVE  i \in RequestsRead' <=>
                 i \in RequestsRead \cup {j \in {n} : sent[j].kind \notin Responses}
    <3>1. i \in RequestsRead' <=>
            /\ i \in 1 .. Len(sent) /\ sent[i].kind \notin Responses
            /\ \E k \in 1 .. Len(taken') : taken'[k] = <<i, "line">>
      BY <1>1 DEF RequestsRead
    <3>2. i \in RequestsRead <=>
            /\ i \in 1 .. Len(sent) /\ sent[i].kind \notin Responses
            /\ \E k \in 1 .. Len(taken) : taken[k] = <<i, "line">>
      BY DEF RequestsRead
    <3>3. i \in {j \in {n} : sent[j].kind \notin Responses} <=>
            i = n /\ i \in 1 .. Len(sent) /\ sent[i].kind \notin Responses
      BY <2>4
    <3> QED  BY <2>7, <3>1, <3>2, <3>3, Zenon
  <2>9. RequestsRead' = RequestsRead \cup {j \in {n} : sent[j].kind \notin Responses}
    BY <2>8
  <2> QED  BY <1>3, <2>4, <2>6, <2>9 DEF n
<1> QED  BY <1>2, <1>3
(* What castd says about the message m: with a reply to it in front.       *)
LEMMA ReplyingKeeps ==
  ASSUME Types, Arrivals, Behind, EveryRequestAnswered,
         NEW m, NextMessage(m), UNCHANGED source, phase # "over",
         NEW A \in Seq(Utterance), said' = said \o A, A # <<>>,
         \A k \in 1 .. Len(A) : A[k].says = "reply" <=> k = 1,
         m # <<>>, A[1].to = m[1][1], sent[m[1][1]].kind \notin Responses
  PROVE  EveryRequestAnswered'
<1> DEFINE n == m[1][1]
           new == Len(said) + 1
<1>1. /\ RequestsRead' = RequestsRead \cup {n}
      /\ n \in Nat /\ \A i \in RequestsRead : i < n
  BY RequestsReadGrow
<1>2. \A i \in RequestsRead : i \in Nat
  BY DEF RequestsRead
<1>3. /\ said \in Seq(Utterance) /\ said' \in Seq(Utterance)
      /\ new \in 1 .. Len(said') /\ said'[new].says = "reply" /\ said'[new].to = n
      /\ \A k \in 1 .. Len(said) : k \in 1 .. Len(said') /\ said'[k] = said[k] /\ k < new
  <2>1. said \in Seq(Utterance) /\ 1 \in 1 .. Len(A)
    BY EmptySeq DEF Types
  <2>2. A[1].says = "reply" /\ A[1].to = n
    BY <2>1
  <2>3. said'[new] = A[1] /\ new \in 1 .. Len(said')
    BY <2>1
  <2> QED  BY <2>1, <2>2, <2>3
<1>4. ASSUME NEW k \in 1 .. Len(said'), said'[k].says = "reply"
      PROVE  k \in Replies \/ k = new
  <2>1. CASE k \in 1 .. Len(said)
    BY <1>3, <1>4, <2>1 DEF Replies, IsReply
  <2>2. CASE k \notin 1 .. Len(said)
    <3>1. k - Len(said) \in 1 .. Len(A) /\ said'[k] = A[k - Len(said)]
      BY <1>3, <2>2
    <3>2. k - Len(said) = 1
      BY <1>4, <3>1
    <3> QED  BY <1>3, <3>2
  <2> QED  BY <2>1, <2>2
<1>5. Replies' = Replies \cup {new}
  BY <1>3, <1>4 DEF Replies, IsReply
<1>6. /\ \A k \in Replies : k \in Nat /\ k < new /\ said'[k] = said[k]
      /\ new \in Nat
  BY <1>3 DEF Replies
<1>7. \A k \in Replies : said[k].to \in RequestsRead
  BY DEF EveryRequestAnswered
<1> HIDE DEF n, new
<1>8. \A k \in Replies' : said'[k].to \in RequestsRead'
  BY <1>1, <1>3, <1>5, <1>6, <1>7
<1>9. ASSUME NEW j \in Replies', NEW k \in Replies', j < k
      PROVE  said'[j].to < said'[k].to
  <2>1. j \in Replies
    BY <1>5, <1>6, <1>9
  <2>2. CASE k \in Replies
    BY <1>6, <1>9, <2>1, <2>2 DEF EveryRequestAnswered
  <2>3. CASE k = new
    BY <1>1, <1>3, <1>6, <1>7, <2>1, <2>3
  <2> QED  BY <1>5, <2>2, <2>3
<1>10. ASSUME NEW i \in RequestsRead'
       PROVE  \E k \in Replies' : said'[k].to = i
  <2>1. CASE i = n
    BY <1>3, <1>5, <2>1
  <2>2. CASE i \in RequestsRead
    <3>1. PICK k \in Replies : said[k].to = i
      BY <2>2 DEF EveryRequestAnswered
    <3> QED  BY <1>5, <1>6, <3>1
  <2> QED  BY <1>1, <2>1, <2>2
<1> QED  BY <1>8, <1>9, <1>10 DEF EveryRequestAnswered

(* ... and without one.                                                    *)
LEMMA NotReplyingKeeps ==
  ASSUME Types, Arrivals, Behind, EveryRequestAnswered,
         NEW m, NextMessage(m), UNCHANGED source, phase # "over",
         NEW A \in Seq(Utterance), said' = said \o A,
         \A k \in 1 .. Len(A) : A[k].says # "reply",
         m # <<>> /\ phase' # "over" => sent[m[1][1]].kind \in Responses
  PROVE  EveryRequestAnswered'
<1>1. said \in Seq(Utterance)
  BY DEF Types
<1>2. ASSUME NEW k \in 1 .. Len(said'), said'[k].says = "reply"
      PROVE  k \in 1 .. Len(said)
  <2>1. SUFFICES ASSUME k \notin 1 .. Len(said) PROVE FALSE
    OBVIOUS
  <2>2. k - Len(said) \in 1 .. Len(A) /\ said'[k] = A[k - Len(said)]
    BY <1>1, <2>1
  <2> QED  BY <1>2, <2>2
<1>3. \A k \in 1 .. Len(said) : k \in 1 .. Len(said') /\ said'[k] = said[k]
  BY <1>1
<1>4. Replies' = Replies
  BY <1>2, <1>3 DEF Replies, IsReply
<1>5. \A k \in Replies : said'[k] = said[k]
  BY <1>3 DEF Replies
<1>6. /\ m = <<>> => RequestsRead' = RequestsRead
      /\ m # <<>> => /\ \A i \in RequestsRead : i < m[1][1]
                     /\ m[1][1] \in Nat
                     /\ RequestsRead' = RequestsRead \cup
                           {i \in {m[1][1]} : sent[i].kind \notin Responses}
  BY RequestsReadGrow
<1>7. RequestsRead \subseteq RequestsRead'
  BY <1>6
<1>8. \A k \in Replies : said[k].to \in RequestsRead
  BY DEF EveryRequestAnswered
<1>9. ASSUME NEW i \in RequestsRead', phase' # "over" \/ \E k \in Replies' : i < said'[k].to
      PROVE  \E k \in Replies' : said'[k].to = i
  <2>1. CASE i \in RequestsRead
    <3>1. PICK k \in Replies : said[k].to = i
      BY <2>1 DEF EveryRequestAnswered
    <3> QED  BY <1>4, <1>5, <3>1
  <2>2. CASE i \notin RequestsRead
    <3>1. m # <<>> /\ i = m[1][1] /\ sent[i].kind \notin Responses
      BY <1>6, <2>2, <1>9
    <3>2. phase' = "over"
      BY <3>1
    <3>3. PICK k \in Replies : i < said[k].to
      BY <1>4, <1>5, <1>9, <3>2
    <3>4. said[k].to < i /\ said[k].to \in Nat /\ i \in Nat
      <4>1. said[k].to \in RequestsRead
        BY <1>8
      <4>2. said[k].to \in Nat
        BY <4>1, SMTT(30) DEF RequestsRead
      <4> QED  BY <1>6, <3>1, <4>1, <4>2
    <3> QED  BY <3>3, <3>4
  <2> QED  BY <2>1, <2>2
<1>10. /\ \A k \in Replies' : said'[k].to \in RequestsRead'
       /\ \A j, k \in Replies' : j < k => said'[j].to < said'[k].to
  BY <1>4, <1>5, <1>7, <1>8 DEF EveryRequestAnswered
<1> QED  BY <1>9, <1>10 DEF EveryRequestAnswered-----------------------------------------------------------------------------
(* The handshake.                                                          *)

LEMMA TheMessageDue ==
  ASSUME Types, Script, Arrivals, InStep, phase = "handshake",
         NEW m, NextMessage(m), UNCHANGED source, m # <<>>
  PROVE  /\ m[1][1] = got + 1 /\ got + 1 \in 1 .. 7
         /\ got + 1 <= Len(sent) /\ sent[got + 1].kind = Handshake[got + 1]
<1>1. Coming # <<>> /\ m[1] = Coming[1]
  BY NextMessageReads
<1>2. m[1][1] = got + 1
  BY <1>1 DEF InStep
<1>3. got + 1 \in 1 .. 7
  <2>1. got \in 0 .. 7 /\ got <= 6
    BY DEF Types, TypeOK
  <2> QED  BY <2>1
<1>4. m[1][1] \in 1 .. Len(sent)
  BY <1>1, ComingType, EmptySeq DEF Arrivals
<1>5. sent[got + 1].kind = Handshake[got + 1]
  BY <1>2, <1>3, <1>4 DEF Script
<1> QED  BY <1>2, <1>3, <1>4, <1>5

LEMMA OneToSeven ==
  ASSUME NEW i \in 1 .. 7
  PROVE  i = 1 \/ i = 2 \/ i = 3 \/ i = 4 \/ i = 5 \/ i = 6 \/ i = 7
  OBVIOUS

LEMMA AcceptedIsSound ==
  ASSUME NEW i \in 1 .. 7, NEW m, Accepted(i, m), i # 2
  PROVE  \E k \in 1 .. Len(m) : ~sent[m[k][1]].flawed
<1>1. /\ Accepted(1, m) => HasCSeq(m)
      /\ Accepted(3, m) => HasCSeq(m)
      /\ Accepted(4, m) => HasCSeq(m)
      /\ Accepted(5, m) => HasCSeq(m)
      /\ Accepted(6, m) => Sound(m, "headers")
      /\ Accepted(7, m) => Sound(m, "line")
  BY DEF Accepted
<1>2. HasCSeq(m) \/ Sound(m, "headers") \/ Sound(m, "line")
  BY <1>1, OneToSeven
<1> QED  BY <1>2 DEF HasCSeq, Sound

LEMMA AnswersOneByOne ==
  ASSUME NEW m
  PROVE  /\ Answers(1, m) = <<Reply(m), Request("OPTIONS")>>
         /\ Answers(2, m) = <<>>
         /\ Answers(3, m) = <<Reply(m)>>
         /\ Answers(4, m) = <<Reply(m)>>
         /\ Answers(5, m) = <<Reply(m), Request("SETUP")>>
         /\ Answers(6, m) = <<Request("PLAY")>>
         /\ Answers(7, m) = <<>>
  BY DEF Answers

LEMMA ReplyThen ==
  ASSUME NEW r \in Utterance, NEW q \in Utterance, r.says = "reply", q.says # "reply"
  PROVE  /\ <<r>> \in Seq(Utterance) /\ <<r, q>> \in Seq(Utterance)
         /\ Len(<<r>>) = 1 /\ Len(<<r, q>>) = 2 /\ <<r>>[1] = r /\ <<r, q>>[1] = r
         /\ \A k \in 1 .. Len(<<r>>) : <<r>>[k].says = "reply" <=> k = 1
         /\ \A k \in 1 .. Len(<<r, q>>) : <<r, q>>[k].says = "reply" <=> k = 1
<1>1. /\ <<r>> \in Seq(Utterance) /\ <<r, q>> \in Seq(Utterance)
      /\ Len(<<r>>) = 1 /\ Len(<<r, q>>) = 2 /\ <<r>>[1] = r /\ <<r, q>>[1] = r
      /\ <<r, q>>[2] = q
  OBVIOUS
<1>2. \A k \in 1 .. 1 : k = 1
  OBVIOUS
<1>3. \A k \in 1 .. 2 : k = 1 \/ k = 2
  OBVIOUS
<1>4. \A k \in 1 .. Len(<<r>>) : <<r>>[k].says = "reply" <=> k = 1
  BY <1>1, <1>2
<1>5. \A k \in 1 .. Len(<<r, q>>) : <<r, q>>[k].says = "reply" <=> k = 1
  BY <1>1, <1>3
<1> QED  BY <1>1, <1>4, <1>5, Zenon

(* The requests of the handshake are answered first of all ...             *)
LEMMA RequestsGetReplies ==
  ASSUME NEW i \in {1, 3, 4, 5}, NEW m, m[1][1] \in Nat
  PROVE  /\ Answers(i, m) \in Seq(Utterance)
         /\ Answers(i, m) # <<>> /\ Answers(i, m)[1] = Reply(m)
         /\ \A k \in 1 .. Len(Answers(i, m)) : Answers(i, m)[k].says = "reply" <=> k = 1
<1> DEFINE r == Reply(m)
           q == Request("OPTIONS")
           t == Request("SETUP")
           a == Answers(i, m)
<1>1. r \in Utterance /\ r.says = "reply"
  BY DEF Reply, Utterance
<1>2. q \in Utterance /\ t \in Utterance /\ q.says # "reply" /\ t.says # "reply"
  BY DEF Request, Utterance
<1>3. a = <<r>> \/ a = <<r, q>> \/ a = <<r, t>>
  BY AnswersOneByOne
<1> HIDE DEF r, q, t, a
<1>4. /\ a \in Seq(Utterance) /\ a # <<>> /\ a[1] = r
      /\ \A k \in 1 .. Len(a) : a[k].says = "reply" <=> k = 1
  <2>1. CASE a = <<r>>
    BY <1>1, <1>2, <2>1, ReplyThen
  <2>2. CASE a = <<r, q>>
    BY <1>1, <1>2, <2>2, ReplyThen
  <2>3. CASE a = <<r, t>>
    BY <1>1, <1>2, <2>3, ReplyThen
  <2> QED  BY <1>3, <2>1, <2>2, <2>3
<1> QED  BY <1>4 DEF r, a

(* ... and the responses are not.                                          *)
LEMMA ResponsesGetNone ==
  ASSUME NEW i \in {2, 6, 7}, NEW m
  PROVE  /\ Answers(i, m) \in Seq(Utterance)
         /\ \A k \in 1 .. Len(Answers(i, m)) : Answers(i, m)[k].says # "reply"
<1> DEFINE q == Request("PLAY")
           a == Answers(i, m)
<1>1. q \in Utterance /\ q.says # "reply"
  BY DEF Request, Utterance
<1>2. a = <<>> \/ a = <<q>>
  BY AnswersOneByOne
<1> HIDE DEF q, a
<1>3. a \in Seq(Utterance) /\ \A k \in 1 .. Len(a) : a[k].says # "reply"
  <2>1. CASE a = <<>>
    BY <2>1
  <2>2. CASE a = <<q>>
    BY <1>1, <2>2
  <2> QED  BY <1>2, <2>1, <2>2
<1> QED  BY <1>3 DEF a

(* What castd says is what the source waits for.                           *)
LEMMA SaysWhatIsAwaited ==
  ASSUME NEW i \in 1 .. 6, NEW m
  PROVE  Awaited[i] + Len(Answers(i, m)) = Awaited[i + 1]
<1> DEFINE r == Reply(m)
           q == Request("OPTIONS")
           t == Request("SETUP")
           p == Request("PLAY")
<1>1. /\ Answers(1, m) = <<r, q>> /\ Answers(2, m) = <<>> /\ Answers(3, m) = <<r>>
      /\ Answers(4, m) = <<r>> /\ Answers(5, m) = <<r, t>> /\ Answers(6, m) = <<p>>
  BY AnswersOneByOne
<1> HIDE DEF r, q, t, p
<1>2. /\ Len(Answers(1, m)) = 2 /\ Len(Answers(2, m)) = 0 /\ Len(Answers(3, m)) = 1
      /\ Len(Answers(4, m)) = 1 /\ Len(Answers(5, m)) = 2 /\ Len(Answers(6, m)) = 1
  BY <1>1
<1>3. /\ Awaited[1] = 0 /\ Awaited[2] = 2 /\ Awaited[3] = 2 /\ Awaited[4] = 3
      /\ Awaited[5] = 4 /\ Awaited[6] = 6 /\ Awaited[7] = 7
  BY DEF Awaited
<1>4. i = 1 \/ i = 2 \/ i = 3 \/ i = 4 \/ i = 5 \/ i = 6
  OBVIOUS
<1>5. /\ Awaited[1] + Len(Answers(1, m)) = Awaited[2]
      /\ Awaited[2] + Len(Answers(2, m)) = Awaited[3]
      /\ Awaited[3] + Len(Answers(3, m)) = Awaited[4]
      /\ Awaited[4] + Len(Answers(4, m)) = Awaited[5]
      /\ Awaited[5] + Len(Answers(5, m)) = Awaited[6]
      /\ Awaited[6] + Len(Answers(6, m)) = Awaited[7]
  <2>1. 0 + 2 = 2 /\ 2 + 0 = 2 /\ 2 + 1 = 3 /\ 3 + 1 = 4 /\ 4 + 2 = 6 /\ 6 + 1 = 7
    OBVIOUS
  <2> QED  BY <1>2, <1>3, <2>1, Zenon
<1>6. CASE i = 1
  <2>1. i + 1 = 2
    BY <1>6
  <2> QED  BY <1>5, <1>6, <2>1, Zenon
<1>7. CASE i = 2
  <2>1. i + 1 = 3
    BY <1>7
  <2> QED  BY <1>5, <1>7, <2>1, Zenon
<1>8. CASE i = 3
  <2>1. i + 1 = 4
    BY <1>8
  <2> QED  BY <1>5, <1>8, <2>1, Zenon
<1>9. CASE i = 4
  <2>1. i + 1 = 5
    BY <1>9
  <2> QED  BY <1>5, <1>9, <2>1, Zenon
<1>10. CASE i = 5
  <2>1. i + 1 = 6
    BY <1>10
  <2> QED  BY <1>5, <1>10, <2>1, Zenon
<1>11. CASE i = 6
  <2>1. i + 1 = 7
    BY <1>11
  <2> QED  BY <1>5, <1>11, <2>1, Zenon
<1> QED  BY <1>4, <1>6, <1>7, <1>8, <1>9, <1>10, <1>11
LEMMA HandshakeKinds ==
  /\ \A i \in {1, 3, 4, 5} : Handshake[i] \notin Responses
  /\ \A i \in {2, 6, 7} : Handshake[i] \in Responses
<1>1. /\ Handshake[1] = "OPTIONS" /\ Handshake[2] = "M2_OK" /\ Handshake[3] = "GET_PARAMETER"
      /\ Handshake[4] = "SET_PARAMETER" /\ Handshake[5] = "TRIGGER_SETUP"
      /\ Handshake[6] = "SETUP_OK" /\ Handshake[7] = "PLAY_OK"
  BY DEF Handshake
<1>2. /\ "OPTIONS" \notin Responses /\ "GET_PARAMETER" \notin Responses
      /\ "SET_PARAMETER" \notin Responses /\ "TRIGGER_SETUP" \notin Responses
      /\ "M2_OK" \in Responses /\ "SETUP_OK" \in Responses /\ "PLAY_OK" \in Responses
  BY DEF Responses
<1> QED  BY <1>1, <1>2

LEMMA WhereItGoes ==
  ASSUME NEW i \in 1 .. 7
  PROVE  Advance(i) \in NegotiatorStates /\ (i # 7 => Advance(i) # "STREAMING")
<1>1. /\ Expects[2] = "WAIT_M3" /\ Expects[3] = "WAIT_M3" /\ Expects[4] = "WAIT_M4"
      /\ Expects[5] = "WAIT_M5" /\ Expects[6] = "WAIT_M6_RESPONSE"
      /\ Expects[7] = "WAIT_M7_RESPONSE" /\ Expects[8] = "STREAMING"
  BY DEF Expects
<1>2. i + 1 = 2 \/ i + 1 = 3 \/ i + 1 = 4 \/ i + 1 = 5 \/ i + 1 = 6 \/ i + 1 = 7
        \/ (i + 1 = 8 /\ i = 7)
  BY OneToSeven
<1> QED  BY <1>1, <1>2 DEF Advance, NegotiatorStates

LEMMA NegotiateKeeps ==
  ASSUME Inv, Negotiate
  PROVE  Inv'
<1> DEFINE i == got + 1
           Accepts(m) == /\ nstate = Expects[i] /\ Accepted(i, m)
                         /\ said' = said \o Answers(i, m)
                         /\ nstate' = Advance(i)
                         /\ phase' = IF i = 7 THEN "starting" ELSE "handshake"
           CannotSend(m) == /\ Accepted(i, m) /\ Answers(i, m) # <<>>
                            /\ nstate' = Advance(i)
                            /\ phase' = "over" /\ UNCHANGED said
           Refuses == phase' = "over" /\ UNCHANGED <<said, nstate>>
<1>1. PICK m : NextMessage(m) /\ (Accepts(m) \/ CannotSend(m) \/ Refuses)
  BY DEF Negotiate, SendFails
<1>2. /\ phase = "handshake" /\ UNCHANGED source /\ sent' = sent /\ sockOpen' = sockOpen
      /\ conn' = conn /\ unwritten' = unwritten /\ wire' = wire /\ got' = i
      /\ phase' \in {"handshake", "starting", "over"}
  BY DEF Negotiate, source
<1>3. i \in 1 .. 7 /\ got \in Nat /\ got <= 6
  BY <1>2 DEF Inv, Types, TypeOK
<1>4. Arrivals' /\ InStep' /\ Behind' /\ Script'
  <2>1. Arrivals' /\ Behind'
    BY <1>1, <1>2, ArrivalsRead, BehindRead DEF Inv
  <2>2. InStep'
    BY <1>1, <1>2, InStepRead DEF Inv
  <2>3. Script'
    BY <1>2 DEF Inv, Script
  <2> QED  BY <2>1, <2>2, <2>3
<1>5. /\ m \in Seq(Piece) /\ buf' \in Seq(Piece) /\ taken' = taken \o m /\ last' = m
      /\ conn = "open" => m = Pieces(m[1][1], sent[m[1][1]].kind)
      /\ \A k \in 1 .. Len(m) : m[k][1] = m[1][1]
  BY <1>1, <1>2, NextMessageReads DEF Inv
<1>6. WholeMessages'
  BY <1>2, <1>5 DEF WholeMessages
<1>7. m # <<>> => m[1][1] = i /\ i <= Len(sent) /\ sent[i].kind = Handshake[i]
  BY <1>1, <1>2, TheMessageDue DEF Inv
<1>8. Accepted(i, m) /\ i # 2 => m # <<>> /\ i <= Len(sent) /\ ~sent[i].flawed
  <2>1. SUFFICES ASSUME Accepted(i, m), i # 2
                 PROVE  m # <<>> /\ i <= Len(sent) /\ ~sent[i].flawed
    OBVIOUS
  <2>2. PICK k \in 1 .. Len(m) : ~sent[m[k][1]].flawed
    BY <1>3, <2>1, AcceptedIsSound
  <2>3. m # <<>>
    BY <2>2
  <2> QED  BY <1>5, <1>7, <2>2, <2>3
<1> HIDE DEF i, Accepts, CannotSend, Refuses
<1>9. Answers(i, m) \in Seq(Utterance) \/ ~Accepted(i, m)
  <2>1. CASE i \in {2, 6, 7}
    BY <2>1, ResponsesGetNone
  <2>2. CASE i \in {1, 3, 4, 5} /\ Accepted(i, m)
    <3>1. m[1][1] = i /\ i \in Nat
      BY <1>3, <1>7, <1>8, <2>2
    <3>2. m[1][1] \in Nat
      BY <3>1
    <3> QED  BY <2>2, <3>2, RequestsGetReplies
  <2> QED  BY <1>3, <2>1, <2>2, OneToSeven
<1>10. taken' \in Seq(Piece) /\ last' \in Seq(Piece)
  BY <1>5 DEF Inv, Types
<1>11. CASE Accepts(m)
  <2>1. /\ Accepted(i, m) /\ said' = said \o Answers(i, m) /\ nstate' = Expects[i + 1]
        /\ nstate' = Advance(i) /\ phase' = IF i = 7 THEN "starting" ELSE "handshake"
    BY <1>11 DEF Accepts, Advance
  <2>2. said' \in Seq(Utterance)
    BY <1>9, <2>1 DEF Inv, Types
  <2>3. Types'
    <3>1. /\ got' \in 0 .. 7 /\ nstate' \in NegotiatorStates /\ phase' \in Phases
          /\ nstate' = Expects[got' + 1]
      BY <1>2, <1>3, <2>1, WhereItGoes DEF Phases
    <3>2. /\ phase' = "handshake" => got' <= 6
          /\ phase' \in {"starting", "steady"} => got' = 7
      BY <1>2, <1>3, <2>1
    <3> QED  BY <1>2, <1>5, <1>10, <2>2, <3>1, <3>2 DEF Inv, Types, TypeOK
  <2>4. Trusted'
    <3>1. \A j \in 1 .. got' : j # 2 => j <= Len(sent) /\ ~sent[j].flawed
      BY <1>2, <1>3, <1>8, <2>1 DEF Inv, Trusted, i
    <3>2. Agreement'
      <4>1. CASE i = 7
        BY <1>2, <3>1, <4>1 DEF Agreement
      <4>2. CASE i # 7
        BY <1>3, <2>1, <4>2, WhereItGoes DEF Agreement
      <4> QED  BY <4>1, <4>2
    <3> QED  BY <1>2, <3>1, <3>2 DEF Trusted
  <2>5. SaidEnough'
    <3>1. SUFFICES ASSUME i # 7 PROVE Len(said') = Awaited[i + 1]
      BY <1>2, <2>1 DEF SaidEnough
    <3>2. Len(said) = Awaited[i]
      BY <1>2 DEF Inv, SaidEnough, i
    <3>3. Awaited[i] + Len(Answers(i, m)) = Awaited[i + 1]
      BY <1>3, <3>1, SaysWhatIsAwaited
    <3>4. Len(said') = Len(said) + Len(Answers(i, m))
      BY <1>9, <2>1 DEF Inv, Types
    <3> QED  BY <3>2, <3>3, <3>4
  <2>6. EveryRequestAnswered'
    <3>1. CASE i \in {1, 3, 4, 5}
      <4>1. m # <<>> /\ m[1][1] = i /\ sent[i].kind \notin Responses /\ i \in Nat
        BY <1>3, <1>7, <1>8, <2>1, <3>1, HandshakeKinds
      <4> DEFINE A == Answers(i, m)
      <4>2. m[1][1] \in Nat /\ sent[m[1][1]].kind \notin Responses
        BY <4>1
      <4>3. /\ A \in Seq(Utterance) /\ A # <<>> /\ A[1] = Reply(m)
            /\ \A k \in 1 .. Len(A) : A[k].says = "reply" <=> k = 1
        BY <3>1, <4>2, RequestsGetReplies, SMTT(30)
      <4>4. A[1].to = m[1][1]
        <5>1. Reply(m).to = Head(m)[1] /\ Head(m) = m[1]
          BY DEF Reply
        <5> QED  BY <4>3, <5>1
      <4> HIDE DEF A
      <4>5. said' = said \o A
        BY <2>1 DEF A
      <4> QED
        BY <1>1, <1>2, <4>1, <4>2, <4>3, <4>4, <4>5, ReplyingKeeps DEF Inv
    <3>2. CASE i \in {2, 6, 7}
      <4>1. m # <<>> => sent[m[1][1]].kind \in Responses
        BY <1>7, <3>2, HandshakeKinds
      <4> DEFINE A == Answers(i, m)
      <4>2. A \in Seq(Utterance) /\ \A k \in 1 .. Len(A) : A[k].says # "reply"
        BY <3>2, ResponsesGetNone
      <4>3. said' = said \o A
        BY <2>1
      <4> HIDE DEF A
      <4> QED  BY <1>1, <1>2, <4>1, <4>2, <4>3, NotReplyingKeeps DEF Inv
    <3> QED  BY <1>3, <3>1, <3>2, OneToSeven
  <2> QED  BY <1>4, <1>6, <2>3, <2>4, <2>5, <2>6 DEF Inv
<1>12. CASE CannotSend(m) \/ Refuses
  <2>1. phase' = "over" /\ said' = said
    BY <1>12 DEF CannotSend, Refuses
  <2>2. nstate' \in NegotiatorStates /\ (nstate' = "STREAMING" => nstate = "STREAMING")
    <3>1. CASE CannotSend(m)
      <4>1. Answers(i, m) # <<>> /\ nstate' = Advance(i)
        BY <3>1 DEF CannotSend
      <4>2. i # 7
        BY <4>1, AnswersOneByOne
      <4> QED  BY <1>3, <4>1, <4>2, WhereItGoes
    <3>2. CASE Refuses
      BY <3>2 DEF Refuses, Inv, Types, TypeOK
    <3> QED  BY <1>12, <3>1, <3>2
  <2>3. Types'
    BY <1>2, <1>3, <1>5, <1>10, <2>1, <2>2 DEF Inv, Types, TypeOK, Phases
  <2>4. Trusted' /\ SaidEnough'
    BY <1>2, <2>1, <2>2 DEF Inv, Trusted, Agreement, SaidEnough
  <2>5. EveryRequestAnswered'
    <3>1. /\ <<>> \in Seq(Utterance) /\ said' = said \o <<>>
          /\ \A k \in 1 .. Len(<<>>) : <<>>[k].says # "reply"
      BY <2>1 DEF Inv, Types
    <3> QED  BY <1>1, <1>2, <2>1, <3>1, NotReplyingKeeps DEF Inv
  <2> QED  BY <1>4, <1>6, <2>3, <2>4, <2>5 DEF Inv
<1> QED  BY <1>1, <1>11, <1>12-----------------------------------------------------------------------------
(* The keep-alive loop.                                                    *)

(* What it reads is a request, and it answers that; or it is nothing.      *)
LEMMA TheLoopReads ==
  ASSUME Types, Script, Arrivals, InStep, phase = "steady",
         NEW m, NextMessage(m), UNCHANGED source
  PROVE  /\ m = <<>> => Acks(m) = <<>>
         /\ m # <<>> => /\ Acks(m) = <<Reply(m)>> /\ m[1][1] \in Nat
                        /\ sent[m[1][1]].kind \notin Responses
<1>1. CASE m = <<>>
  <2>1. ~HasKind(m, Requests)
    BY <1>1 DEF HasKind
  <2> QED  BY <1>1, <2>1 DEF Acks
<1>2. CASE m # <<>>
  <2>1. Coming # <<>> /\ m[1] = Coming[1] /\ m[1][2] = "line" /\ m \in Seq(Piece)
    BY <1>2, NextMessageReads
  <2>2. m[1][1] \in 1 .. Len(sent) /\ m[1][1] > 7 /\ 1 \in 1 .. Len(m)
    BY <1>2, <2>1, ComingType, EmptySeq DEF Arrivals, InStep
  <2>3. sent[m[1][1]].kind \in Requests
    BY <2>2 DEF Script
  <2>4. HasKind(m, Requests)
    BY <2>1, <2>2, <2>3 DEF HasKind
  <2>5. sent[m[1][1]].kind \notin Responses
    BY <2>3 DEF Requests, Responses, KeepAlive, Teardown
  <2> QED  BY <1>2, <2>2, <2>4, <2>5 DEF Acks
<1> QED  BY <1>1, <1>2

LEMMA SteadyStateKeeps ==
  ASSUME Inv, SteadyState
  PROVE  Inv'
<1>1. PICK m : /\ NextMessage(m)
               /\ \/ said' = said \o Acks(m) /\ (Over \/ UNCHANGED <<phase, nstate>>)
                  \/ Acks(m) # <<>> /\ Over /\ UNCHANGED said
  BY DEF SteadyState
<1>2. /\ phase = "steady" /\ UNCHANGED source /\ sent' = sent /\ sockOpen' = sockOpen
      /\ conn' = conn /\ unwritten' = unwritten /\ wire' = wire /\ got' = got
  BY DEF SteadyState, source
<1>3. \/ phase' = "over" /\ nstate' = "TORN_DOWN"
      \/ phase' = "steady" /\ nstate' = nstate
  BY <1>1, <1>2 DEF Over
<1>4. Arrivals' /\ InStep' /\ Behind' /\ Script'
  <2>1. Arrivals' /\ Behind'
    BY <1>1, <1>2, ArrivalsRead, BehindRead DEF Inv
  <2>2. phase' \in {"steady", "over"}
    BY <1>3
  <2>3. InStep'
    BY <1>1, <1>2, <2>2, InStepRead DEF Inv
  <2>4. Script'
    BY <1>2 DEF Inv, Script
  <2> QED  BY <2>1, <2>3, <2>4
<1>5. /\ m \in Seq(Piece) /\ buf' \in Seq(Piece) /\ taken' = taken \o m /\ last' = m
      /\ conn = "open" => m = Pieces(m[1][1], sent[m[1][1]].kind)
  BY <1>1, <1>2, NextMessageReads DEF Inv
<1>6. WholeMessages'
  BY <1>2, <1>5 DEF WholeMessages
<1>7. /\ m = <<>> => Acks(m) = <<>>
      /\ m # <<>> => /\ Acks(m) = <<Reply(m)>> /\ m[1][1] \in Nat
                     /\ sent[m[1][1]].kind \notin Responses
  BY <1>1, <1>2, TheLoopReads DEF Inv
<1>8. Trusted' /\ SaidEnough'
  BY <1>2, <1>3 DEF Inv, Trusted, Agreement, SaidEnough
<1> DEFINE r == Reply(m)
<1>9. r.says = "reply" /\ r.to = m[1][1] /\ (m # <<>> => r \in Utterance)
  BY <1>7 DEF Reply, Utterance
<1>10. m # <<>> => Acks(m) = <<r>>
  BY <1>7
<1> HIDE DEF r
<1>11. said \in Seq(Utterance) /\ taken \in Seq(Piece)
  BY DEF Inv, Types
<1>12. EveryRequestAnswered' /\ said' \in Seq(Utterance)
  <2>1. CASE m # <<>> /\ said' = said \o Acks(m)
    <3>1. said' = said \o <<r>> /\ r \in Utterance
      BY <1>9, <1>10, <2>1
    <3>2. <<r>> \in Seq(Utterance) /\ <<r>> # <<>> /\ <<r>>[1] = r /\ Len(<<r>>) = 1
      BY <3>1
    <3>3. \A k \in 1 .. Len(<<r>>) : <<r>>[k].says = "reply" <=> k = 1
      BY <1>9, <3>2
    <3>4. <<r>>[1].to = m[1][1]
      BY <1>9, <3>2
    <3>5. EveryRequestAnswered'
      BY <1>1, <1>2, <1>7, <2>1, <3>1, <3>2, <3>3, <3>4, ReplyingKeeps DEF Inv
    <3> QED  BY <1>11, <3>1, <3>2, <3>5
  <2>2. CASE m = <<>> \/ (phase' = "over" /\ UNCHANGED said)
    <3>1. said' = said
      BY <1>1, <1>7, <1>11, <2>2
    <3>2. /\ <<>> \in Seq(Utterance) /\ said' = said \o <<>>
          /\ \A k \in 1 .. Len(<<>>) : <<>>[k].says # "reply"
      BY <1>11, <3>1
    <3>3. EveryRequestAnswered'
      BY <1>1, <1>2, <2>2, <3>2, NotReplyingKeeps DEF Inv
    <3> QED  BY <1>11, <3>1, <3>3
  <2> QED  BY <1>1, <2>1, <2>2 DEF Over
<1>13. Types'
  <2>1. taken' \in Seq(Piece) /\ last' \in Seq(Piece)
    BY <1>5, <1>11
  <2> QED
    BY <1>2, <1>3, <1>5, <1>12, <2>1 DEF Inv, Types, TypeOK, Phases, NegotiatorStates
<1> QED  BY <1>4, <1>6, <1>8, <1>12, <1>13 DEF Inv
-----------------------------------------------------------------------------
(* The other steps.                                                        *)

LEMMA SourceBeginsKeeps ==
  ASSUME Inv, SourceBegins
  PROVE  Inv'
<1> DEFINE i == Len(sent) + 1
<1>1. PICK kind \in IF i <= 7 THEN {Handshake[i]} ELSE {KeepAlive, Teardown},
           flawed \in BOOLEAN :
        /\ sent' = Append(sent, [kind |-> kind, flawed |-> flawed])
        /\ unwritten' = Pieces(i, kind)
  BY DEF SourceBegins
<1>2. /\ UNCHANGED <<wire, conn, said, buf, taken, last, got, nstate, phase, sockOpen>>
      /\ i <= MaxMessages
  BY DEF SourceBegins, reader
<1>3. sent \in Seq(Messages)
  BY DEF Inv, Types, TypeOK
<1> DEFINE r == [kind |-> kind, flawed |-> flawed]
<1>4. i \in Nat /\ r \in Messages /\ r.kind = kind
  <2>1. i \in Nat /\ i >= 1
    BY <1>3
  <2>2. i <= 7 => i \in 1 .. 7
    BY <2>1
  <2> QED  BY <1>1, <2>1, <2>2 DEF Messages
<1> HIDE DEF r
<1>5. /\ sent' \in Seq(Messages) /\ Len(sent') = i /\ sent'[i] = r
      /\ \A j \in 1 .. Len(sent) : sent'[j] = sent[j] /\ j \in 1 .. Len(sent')
  BY <1>1, <1>3, <1>4 DEF r
<1>6. unwritten' \in Seq(Piece)
  BY <1>1, <1>4, PiecesType
<1>7. Types'
  BY <1>2, <1>5, <1>6 DEF Inv, Types, TypeOK
<1>8. Script'
  <2>1. ASSUME NEW j \in 1 .. Len(sent')
        PROVE  IF j <= 7 THEN sent'[j].kind = Handshake[j] ELSE sent'[j].kind \in Requests
    <3>1. CASE j = i
      <4>1. sent'[j].kind = kind
        BY <1>4, <1>5, <3>1
      <4> QED  BY <1>1, <3>1, <4>1 DEF Requests
    <3>2. CASE j # i
      <4>1. j \in 1 .. Len(sent) /\ sent'[j] = sent[j]
        BY <1>3, <1>5, <2>1, <3>2
      <4> QED  BY <4>1 DEF Inv, Script
    <3> QED  BY <3>1, <3>2
  <2> QED  BY <2>1 DEF Script
<1>9. Arrivals' /\ InStep' /\ Behind'
  BY ArrivalsBegin, BeginningKeeps DEF Inv
<1>10. Trusted'
  <2>1. ASSUME phase # "over", NEW j \in 1 .. got, j # 2
        PROVE  j <= Len(sent') /\ ~sent'[j].flawed
    <3>1. j <= Len(sent) /\ ~sent[j].flawed /\ j \in 1 .. Len(sent)
      BY <1>3, <2>1 DEF Inv, Trusted
    <3> QED  BY <1>3, <1>5, <3>1
  <2>2. ASSUME nstate = "STREAMING"
        PROVE  Len(sent') >= 7 /\ \A j \in 1 .. 7 : j # 2 => ~sent'[j].flawed
    <3>1. Len(sent) >= 7 /\ \A j \in 1 .. 7 : j # 2 => ~sent[j].flawed
      BY <2>2 DEF Inv, Trusted, Agreement
    <3> QED  BY <1>3, <1>5, <3>1, SMTT(30)
  <2> QED  BY <1>2, <2>1, <2>2 DEF Trusted, Agreement
<1>11. SaidEnough'
  BY <1>2 DEF Inv, SaidEnough
<1>12. WholeMessages'
  <2>1. last # <<>> => last[1][1] \in 1 .. Len(sent)
    BY DEF Inv, Behind
  <2> QED  BY <1>2, <1>5, <2>1 DEF Inv, WholeMessages
<1>13. EveryRequestAnswered'
  <2>1. ASSUME NEW k \in 1 .. Len(taken) PROVE taken[k][1] # i
    BY <1>3 DEF Inv, Behind
  <2>2. ASSUME NEW k \in 1 .. Len(taken) PROVE taken[k] # <<i, "line">>
    BY <2>1
  <2>3. RequestsRead' = RequestsRead
    <3>1. ASSUME NEW j PROVE j \in RequestsRead' <=> j \in RequestsRead
      <4>1. CASE j \in 1 .. Len(sent)
        BY <1>2, <1>5, <4>1 DEF RequestsRead
      <4>2. CASE j = i
        <5>1. j \notin RequestsRead'
          BY <1>2, <2>2, <4>2 DEF RequestsRead
        <5>2. j \notin RequestsRead
          BY <2>2, <4>2 DEF RequestsRead
        <5> QED  BY <5>1, <5>2
      <4>3. CASE j \notin 1 .. Len(sent) /\ j # i
        <5>1. j \notin 1 .. Len(sent')
          BY <1>3, <1>5, <4>3
        <5> QED  BY <4>3, <5>1 DEF RequestsRead
      <4> QED  BY <4>1, <4>2, <4>3
    <3> QED  BY <3>1
  <2> QED  BY <1>2, <2>3 DEF Inv, EveryRequestAnswered, Replies, IsReply
<1> QED  BY <1>7, <1>8, <1>9, <1>10, <1>11, <1>12, <1>13 DEF Inv

(* The steps that only move pieces, or end the session.                    *)
LEMMA QuietKeeps ==
  ASSUME Inv, UNCHANGED <<sent, said, taken, last, got>>,
         Types', Arrivals', InStep', Behind',
         conn' = conn \/ conn' # "open",
         phase' = phase \/ (phase = "starting" /\ phase' = "steady") \/ phase' = "over",
         nstate' = nstate \/ nstate' = "TORN_DOWN"
  PROVE  Inv'
<1>1. Script'
  BY DEF Inv, Script
<1>2. Trusted'
  BY DEF Inv, Trusted, Agreement
<1>3. SaidEnough'
  BY DEF Inv, SaidEnough
<1>4. WholeMessages'
  BY DEF Inv, WholeMessages
<1>5. RequestsRead' = RequestsRead /\ Replies' = Replies
  BY DEF RequestsRead, Replies, IsReply
<1>6. EveryRequestAnswered'
  BY <1>5 DEF Inv, EveryRequestAnswered
<1> QED  BY <1>1, <1>2, <1>3, <1>4, <1>6 DEF Inv

LEMMA QuietStepsKeep ==
  ASSUME Inv,
         \/ SourceWrites \/ SourceCloses \/ WatchdogCloses
         \/ Receive \/ StartPump \/ StartFails \/ ReceiveFails
  PROVE  Inv'
<1> USE DEF Inv
<1>1. CASE SourceWrites
  <2>1. Types'
    BY <1>1, MoveOne DEF SourceWrites, Types, TypeOK, reader
  <2>2. UNCHANGED <<sent, said, taken, last, got, conn, phase, nstate, Coming>>
    BY <1>1, WriteMovesNothing DEF SourceWrites, reader
  <2> QED  BY <2>1, <2>2, StreamUntouched, InStepUntouched, QuietKeeps
<1>2. CASE SourceCloses
  <2>1. Types' /\ UNCHANGED <<sent, said, taken, last, got, phase, nstate>> /\ conn' # "open"
    BY <1>2 DEF SourceCloses, Types, TypeOK, reader
  <2> QED  BY <1>2, <2>1, ClosingKeeps, QuietKeeps
<1>3. CASE WatchdogCloses
  <2>1. Types'
    BY <1>3 DEF WatchdogCloses, Types, TypeOK, reader, source
  <2>2. UNCHANGED <<sent, said, taken, last, got, conn, phase, nstate, Coming>>
    BY <1>3 DEF WatchdogCloses, reader, source, Coming, Outside
  <2> QED  BY <2>1, <2>2, StreamUntouched, InStepUntouched, QuietKeeps
<1>4. CASE Receive
  <2>1. Types'
    <3>1. buf' \in Seq(Piece) /\ wire' \in Seq(Piece)
      BY <1>4 DEF Receive, Types
    <3> QED  BY <1>4, <3>1 DEF Receive, Types, TypeOK
  <2>2. UNCHANGED <<sent, said, taken, last, got, conn, phase, nstate, Coming>>
    BY <1>4, ReceiveMovesNothing DEF Receive
  <2> QED  BY <2>1, <2>2, StreamUntouched, InStepUntouched, QuietKeeps
<1>5. CASE StartPump
  <2>1. phase = "starting" /\ phase' = "steady" /\ got = 7
    BY <1>5 DEF StartPump, Types
  <2>2. UNCHANGED <<sent, said, taken, last, got, conn, nstate, Coming>>
    BY <1>5 DEF StartPump, reader, source, Coming, Outside
  <2>3. Types'
    BY <1>5, <2>1 DEF StartPump, Types, TypeOK, reader, source, Phases
  <2>4. InStep'
    BY <2>1, <2>2 DEF InStep
  <2> QED  BY <2>1, <2>2, <2>3, <2>4, StreamUntouched, QuietKeeps
<1>6. CASE StartFails
  <2>1. Types' /\ phase' = "over"
    BY <1>6 DEF StartFails, Types, TypeOK, reader, source, Phases
  <2>2. UNCHANGED <<sent, said, taken, last, got, conn, nstate, Coming>>
    BY <1>6 DEF StartFails, reader, source, Coming, Outside
  <2> QED  BY <2>1, <2>2, StreamUntouched, InStepUntouched, QuietKeeps
<1>7. CASE ReceiveFails
  <2>1. phase' = "over" /\ nstate' \in {nstate, "TORN_DOWN"}
    BY <1>7 DEF ReceiveFails
  <2>2. UNCHANGED <<sent, said, taken, last, got, conn, Coming>>
    BY <1>7 DEF ReceiveFails, reader, source, Coming, Outside
  <2>3. Types'
    BY <1>7, <2>1 DEF ReceiveFails, Types, TypeOK, reader, source, Phases, NegotiatorStates
  <2> QED  BY <2>1, <2>2, <2>3, StreamUntouched, InStepUntouched, QuietKeeps
<1> QED  BY <1>1, <1>2, <1>3, <1>4, <1>5, <1>6, <1>7

-----------------------------------------------------------------------------
(* The invariant holds in every state of every behaviour.                  *)
THEOREM InvHolds == Spec => []Inv
<1>1. Init => Inv
  <2>1. SUFFICES ASSUME Init PROVE Inv
    OBVIOUS
  <2>2. /\ sent = <<>> /\ unwritten = <<>> /\ wire = <<>> /\ conn = "open" /\ said = <<>>
        /\ buf = <<>> /\ taken = <<>> /\ last = <<>> /\ got = 0
        /\ nstate = "WAIT_M1" /\ phase = "handshake" /\ sockOpen = TRUE
    BY <2>1 DEF Init
  <2>3. Coming = <<>>
    BY <2>2 DEF Coming, Outside
  <2>4. Types
    BY <2>2, MaxMessagesAssumption DEF Types, TypeOK, NegotiatorStates, Phases, Expects
  <2>5. Script /\ Arrivals /\ InStep /\ Behind
    BY <2>2, <2>3 DEF Script, Arrivals, InStep, Behind, InOrder
  <2>6. Trusted
    BY <2>2 DEF Trusted, Agreement
  <2>7. SaidEnough
    BY <2>2 DEF SaidEnough, Awaited
  <2>8. WholeMessages
    BY <2>2 DEF WholeMessages
  <2>9. Replies = {} /\ RequestsRead = {}
    BY <2>2 DEF Replies, RequestsRead
  <2>10. EveryRequestAnswered
    BY <2>9 DEF EveryRequestAnswered
  <2> QED  BY <2>4, <2>5, <2>6, <2>7, <2>8, <2>10 DEF Inv
<1>2. Inv /\ [Next]_vars => Inv'
  <2>1. SUFFICES ASSUME Inv, [Next]_vars PROVE Inv'
    OBVIOUS
  <2>2. CASE UNCHANGED vars
    <3>1. UNCHANGED <<sent, unwritten, wire, conn, said, buf, taken, last, got, nstate,
                      phase, sockOpen>>
      BY <2>2 DEF vars, source, reader
    <3>2. UNCHANGED Coming
      BY <3>1 DEF Coming, Outside
    <3>3. Types'
      BY <2>1, <3>1 DEF Inv, Types, TypeOK
    <3> QED  BY <2>1, <3>1, <3>2, <3>3, StreamUntouched, InStepUntouched, QuietKeeps DEF Inv
  <2>3. CASE Next
    BY <2>1, <2>3, SourceBeginsKeeps, QuietStepsKeep, NegotiateKeeps, SteadyStateKeeps
       DEF Next, SinkStep
  <2> QED  BY <2>1, <2>2, <2>3
<1> QED  BY <1>1, <1>2, PTL DEF Spec

(* The types, and that WfdNegotiator.state is the one negotiate() reads    *)
(* its next message in.                                                    *)
THEOREM TypeCorrect == Spec => []TypeOK
<1>1. Inv => TypeOK
  BY DEF Inv, Types
<1> QED  BY <1>1, InvHolds, PTL

(* next_message() returns one whole message at a time while the source is  *)
(* there, however TCP cuts the stream.                                     *)
THEOREM WholeMessagesHolds == Spec => []WholeMessages
<1>1. Inv => WholeMessages
  BY DEF Inv
<1> QED  BY <1>1, InvHolds, PTL

(* WfdNegotiator reaches STREAMING only behind a handshake that the source *)
(* has sent all of, none of it flawed but the response nobody looks at.    *)
THEOREM AgreementHolds == Spec => []Agreement
<1>1. Inv => Agreement
  BY DEF Inv, Trusted
<1> QED  BY <1>1, InvHolds, PTL

(* Every request is answered once, in order, and none is passed over, in   *)
(* the handshake and in the keep-alive loop.                               *)
THEOREM EveryRequestAnsweredHolds == Spec => []EveryRequestAnswered
<1>1. Inv => EveryRequestAnswered
  BY DEF Inv
<1> QED  BY <1>1, InvHolds, PTL

(* When castd waits and nothing is under way, the source is not waiting.   *)
THEOREM NoStandoffHolds == Spec => []NoStandoff
<1>1. Inv => NoStandoff
  <2>1. SUFFICES ASSUME Inv, phase = "handshake", conn = "open", unwritten = <<>>, wire = <<>>,
                        ~HasMessage(buf), Len(sent) + 1 \in 1 .. 7
                 PROVE  Len(said) >= Awaited[Len(sent) + 1]
    BY DEF NoStandoff, MayBegin
  <2>2. buf \in Seq(Piece) /\ sent \in Seq(Messages) /\ Coming \in Seq(Piece) /\ Coming = buf
    BY <2>1, ComingType DEF Inv, Types, TypeOK, Coming, Outside
  <2>3. buf = <<>>
    <3>1. SUFFICES ASSUME buf # <<>> PROVE FALSE
      OBVIOUS
    <3> DEFINE n == buf[1][1]
               p == Pieces(n, sent[n].kind)
    <3>2. buf[1][2] = "line" /\ n \in 1 .. Len(sent) /\ buf[1] \in Piece /\ InOrder(sent, buf)
      BY <2>1, <2>2, <3>1, EmptySeq DEF Inv, Arrivals
    <3>3. n \in Nat /\ buf[1] = <<n, "line">>
      BY <3>2 DEF Piece
    <3>4. /\ Len(buf) < Len(p) /\ \A k \in 1 .. Len(buf) : buf[k][1] = n
      BY <2>1, <2>2, <3>1, <3>2, <3>3, PartOfMessage
    <3>5. \A k \in 1 .. Len(buf) : k <= Len(p) => buf[k] = p[k]
      BY <2>2, <3>1, <3>2, <3>3, BeginsWithMessage
    <3>6. buf[Len(buf)] = LastPiece(sent, Len(sent))
      BY <2>1, <2>2, <3>1 DEF Inv, Arrivals
    <3>7. /\ HasBody(sent, n) => Len(p) = 4
          /\ ~HasBody(sent, n) => Len(p) = 3
          /\ p[1] = <<n, "line">> /\ p[2] = <<n, "headers">> /\ p[3] = <<n, "blank">>
      BY <3>3, PiecesType, PiecesIndex DEF HasBody
    <3>8. Len(buf) \in Nat /\ Len(buf) >= 1
      BY <2>2, <3>1, EmptySeq
    <3>9. n = Len(sent)
      <4>1. buf[Len(buf)][1] = n
        BY <3>4, <3>8
      <4> QED  BY <3>6, <4>1 DEF LastPiece
    <3> HIDE DEF p, n
    <3>10. /\ p[1][2] = "line" /\ p[2][2] = "headers" /\ p[3][2] = "blank"
      BY <3>7
    <3>11. buf[Len(buf)][2] = IF HasBody(sent, n) THEN "body" ELSE "blank"
      BY <3>6, <3>9 DEF LastPiece
    <3>12. Len(buf) = 1 \/ Len(buf) = 2 \/ (Len(buf) = 3 /\ HasBody(sent, n))
      <4>1. \A l \in Nat : l >= 1 /\ l < 3 => l = 1 \/ l = 2
        OBVIOUS
      <4>2. \A l \in Nat : l >= 1 /\ l < 4 => l = 1 \/ l = 2 \/ l = 3
        OBVIOUS
      <4> QED  BY <3>4, <3>7, <3>8, <4>1, <4>2, Zenon
    <3>13. buf[Len(buf)] = p[Len(buf)]
      BY <3>4, <3>5, <3>7, <3>8
    <3> QED  BY <3>10, <3>11, <3>12, <3>13
  <2>4. Len(sent) = got
    BY <2>1, <2>2, <2>3 DEF Inv, InStep
  <2> QED
    <3>1. Len(said) = Awaited[Len(sent) + 1]
      BY <2>1, <2>4 DEF Inv, SaidEnough
    <3>2. Len(said) \in Nat
      BY DEF Inv, Types
    <3> QED  BY <2>1, <3>1, <3>2
<1> QED  BY <1>1, InvHolds, PTL-----------------------------------------------------------------------------
(* Nothing is lost.  SentPieces is a function defined by recursion over    *)
(* the messages; that there is one, and what it is, is carried from one    *)
(* state to the next, as the source begins one message after the other.    *)

IsStream(s, f) == f = [i \in 0 .. Len(s) |->
                         IF i = 0 THEN <<>> ELSE f[i - 1] \o Pieces(i, s[i].kind)]

AllPieces == taken \o (buf \o (wire \o unwritten))

StreamInv == /\ \E f : IsStream(sent, f)
             /\ \A f : IsStream(sent, f) => f[Len(sent)] = AllPieces

LEMMA SentPiecesIsTheStream ==
  SentPieces = (CHOOSE f : IsStream(sent, f))[Len(sent)]
  BY DEF SentPieces, IsStream

LEMMA StreamInvEnough ==
  ASSUME Types, StreamInv
  PROVE  NothingLost
<1>1. IsStream(sent, CHOOSE f : IsStream(sent, f))
  BY DEF StreamInv
<1>2. (CHOOSE f : IsStream(sent, f))[Len(sent)] = AllPieces
  BY <1>1 DEF StreamInv
<1> DEFINE front == taken \o buf
           rest == wire \o unwritten
<1>3. /\ taken \in Seq(Piece) /\ buf \in Seq(Piece) /\ wire \in Seq(Piece)
      /\ unwritten \in Seq(Piece) /\ front \in Seq(Piece) /\ rest \in Seq(Piece)
  BY DEF Types
<1>4. taken \o (buf \o rest) = front \o rest
  BY <1>3, Regroup, SMTT(30)
<1> HIDE DEF front
<1>5. front \o (wire \o unwritten) = (front \o wire) \o unwritten
  BY <1>3, Regroup, SMTT(30)
<1>6. AllPieces = (front \o wire) \o unwritten
  BY <1>4, <1>5 DEF AllPieces
<1> QED  BY <1>2, <1>6, SentPiecesIsTheStream DEF NothingLost, front

(* No step but the beginning of a message changes the pieces there are, or *)
(* the order they are in.                                                  *)
LEMMA PiecesStay ==
  ASSUME Inv, Inv', Next, ~SourceBegins
  PROVE  UNCHANGED sent /\ UNCHANGED AllPieces
<1>1. /\ taken \in Seq(Piece) /\ buf \in Seq(Piece) /\ wire \in Seq(Piece)
      /\ unwritten \in Seq(Piece)
      /\ taken' \in Seq(Piece) /\ buf' \in Seq(Piece) /\ wire' \in Seq(Piece)
      /\ unwritten' \in Seq(Piece)
  BY DEF Inv, Types
<1>2. buf \o (wire \o unwritten) = (buf \o wire) \o unwritten
  <2>1. buf \in Seq(Piece) /\ wire \in Seq(Piece) /\ unwritten \in Seq(Piece)
    BY <1>1
  <2> QED  BY <2>1, Regroup, SMTT(30)
<1>3. CASE SourceWrites
  <2>1. /\ unwritten # <<>> /\ wire' = Append(wire, Head(unwritten))
        /\ unwritten' = Tail(unwritten) /\ UNCHANGED <<sent, taken, buf>>
    BY <1>3 DEF SourceWrites, reader
  <2>2. wire' \o unwritten' = wire \o unwritten
    BY <1>1, <2>1, MoveOne
  <2> QED  BY <2>1, <2>2 DEF AllPieces
<1>4. CASE Receive
  <2>1. /\ buf' = buf \o wire /\ wire' = <<>> /\ UNCHANGED <<sent, unwritten, taken>>
    BY <1>4 DEF Receive
  <2>2. wire' \o unwritten' = unwritten
    BY <1>1, <2>1
  <2> QED  BY <1>2, <2>1, <2>2 DEF AllPieces
<1>5. ASSUME NEW m, NextMessage(m), UNCHANGED source
      PROVE  UNCHANGED sent /\ UNCHANGED AllPieces
  <2>1. /\ m \in Seq(Piece) /\ taken' = taken \o m /\ buf = m \o buf'
        /\ UNCHANGED <<sent, unwritten, wire>>
    BY <1>5, NextMessageReads DEF Inv, source
  <2> DEFINE rest == wire \o unwritten
             back == buf' \o rest
  <2>2. rest \in Seq(Piece) /\ back \in Seq(Piece)
    BY <1>1, <2>1
  <2>3. AllPieces = taken \o (buf \o rest) /\ AllPieces' = taken' \o back
    BY <2>1 DEF AllPieces
  <2> HIDE DEF rest
  <2>4. m \o back = (m \o buf') \o rest
    BY <1>1, <2>1, <2>2, Regroup, SMTT(30)
  <2> HIDE DEF back
  <2>5. taken \in Seq(Piece) /\ m \in Seq(Piece) /\ back \in Seq(Piece)
    BY <1>1, <2>1, <2>2
  <2>6. taken \o (m \o back) = (taken \o m) \o back
    BY <2>5, Regroup
  <2> QED
    <3>1. buf \o rest = m \o back
      BY <2>1, <2>4
    <3> QED  BY <2>1, <2>3, <2>6, <3>1
<1>6. CASE Negotiate \/ SteadyState
  <2>1. PICK m : NextMessage(m) /\ UNCHANGED source
    BY <1>6 DEF Negotiate, SteadyState
  <2> QED  BY <1>5, <2>1
<1>7. CASE SourceCloses \/ WatchdogCloses \/ StartPump \/ StartFails \/ ReceiveFails
  BY <1>7 DEF SourceCloses, WatchdogCloses, StartPump, StartFails, ReceiveFails, source, reader,
              AllPieces
<1> QED  BY <1>3, <1>4, <1>6, <1>7 DEF Next, SinkStep

LEMMA StreamGrows ==
  ASSUME Inv, StreamInv, SourceBegins
  PROVE  StreamInv'
<1> DEFINE n == Len(sent)
<1>1. PICK kind, flawed :
        /\ sent' = Append(sent, [kind |-> kind, flawed |-> flawed])
        /\ unwritten' = Pieces(n + 1, kind)
  BY DEF SourceBegins
<1> DEFINE p == Pieces(n + 1, kind)
<1>2. /\ sent \in Seq(Messages) /\ n \in Nat /\ Len(sent') = n + 1
      /\ sent'[n + 1].kind = kind /\ \A i \in 1 .. n : sent'[i] = sent[i]
  BY <1>1 DEF Inv, Types, TypeOK
<1>3. AllPieces' = AllPieces \o p
  <2> DEFINE front == buf \o wire
  <2>1. /\ taken \in Seq(Piece) /\ buf \in Seq(Piece) /\ wire \in Seq(Piece)
        /\ front \in Seq(Piece) /\ p \in Seq(Piece)
        /\ unwritten = <<>> /\ UNCHANGED <<taken, buf, wire>>
    BY <1>2, PiecesType DEF Inv, Types, SourceBegins, reader
  <2>2. AllPieces = taken \o front
    BY <2>1 DEF AllPieces
  <2>3. AllPieces' = taken \o (buf \o (wire \o p))
    BY <1>1, <2>1 DEF AllPieces
  <2> HIDE DEF p
  <2>4. buf \o (wire \o p) = front \o p
    BY <2>1, Regroup, SMTT(30)
  <2> HIDE DEF front
  <2>5. taken \o (front \o p) = (taken \o front) \o p
    BY <2>1, Regroup, SMTT(30)
  <2> QED  BY <2>2, <2>3, <2>4, <2>5
<1> HIDE DEF n, p
<1>4. ASSUME NEW f, IsStream(sent', f)
      PROVE  f[Len(sent')] = AllPieces'
  <2> DEFINE g == [i \in 0 .. n |-> f[i]]
  <2>1. \A i \in 0 .. n + 1 :
          f[i] = IF i = 0 THEN <<>> ELSE f[i - 1] \o Pieces(i, sent'[i].kind)
    BY <1>2, <1>4 DEF IsStream
  <2>2. ASSUME NEW i \in 0 .. n
        PROVE  f[i] = IF i = 0 THEN <<>> ELSE g[i - 1] \o Pieces(i, sent[i].kind)
    <3>1. CASE i = 0
      BY <1>2, <2>1, <3>1
    <3>2. CASE i # 0
      <4>1. i \in 1 .. n /\ i - 1 \in 0 .. n /\ i \in 0 .. n + 1
        BY <1>2, <3>2
      <4>2. f[i] = f[i - 1] \o Pieces(i, sent'[i].kind)
        BY <2>1, <3>2, <4>1
      <4> QED  BY <1>2, <3>2, <4>1, <4>2
    <3> QED  BY <3>1, <3>2
  <2>3. IsStream(sent, g)
    <3>1. g = [i \in 0 .. n |-> IF i = 0 THEN <<>> ELSE g[i - 1] \o Pieces(i, sent[i].kind)]
      BY <2>2
    <3> QED  BY <3>1 DEF IsStream, n
  <2>4. g[n] = AllPieces
    BY <2>3 DEF StreamInv, n
  <2>5. f[n] = AllPieces
    BY <1>2, <2>4
  <2>6. f[n + 1] = f[n] \o p
    <3>1. n + 1 \in 0 .. n + 1 /\ n + 1 # 0 /\ (n + 1) - 1 = n
      BY <1>2
    <3>2. f[n + 1] = f[(n + 1) - 1] \o Pieces(n + 1, sent'[n + 1].kind)
      BY <2>1, <3>1
    <3> QED  BY <1>2, <3>1, <3>2 DEF p
  <2> QED  BY <1>2, <1>3, <2>5, <2>6
<1>5. \E f : IsStream(sent', f)
  <2>1. PICK f : IsStream(sent, f)
    BY DEF StreamInv
  <2> DEFINE g == [i \in 0 .. n + 1 |-> IF i <= n THEN f[i] ELSE f[n] \o p]
  <2>2. \A i \in 0 .. n :
          f[i] = IF i = 0 THEN <<>> ELSE f[i - 1] \o Pieces(i, sent[i].kind)
    BY <2>1 DEF IsStream, n
  <2>3. ASSUME NEW i \in 0 .. n + 1
        PROVE  (IF i <= n THEN f[i] ELSE f[n] \o p) =
                 IF i = 0 THEN <<>> ELSE g[i - 1] \o Pieces(i, sent'[i].kind)
    <3>1. CASE i = 0
      BY <1>2, <2>2, <3>1
    <3>2. CASE i \in 1 .. n
      <4>1. i - 1 \in 0 .. n + 1 /\ i - 1 <= n /\ i # 0 /\ i <= n /\ i \in 0 .. n
        BY <1>2, <3>2
      <4>2. g[i - 1] = f[i - 1] /\ f[i] = f[i - 1] \o Pieces(i, sent[i].kind)
        BY <2>2, <4>1
      <4> QED  BY <1>2, <3>2, <4>1, <4>2
    <3>3. CASE i = n + 1
      <4>1. i - 1 = n /\ n \in 0 .. n + 1 /\ i # 0 /\ ~(i <= n)
        BY <1>2, <3>3
      <4>2. g[i - 1] = f[n]
        BY <4>1, <1>2
      <4> QED  BY <1>2, <3>3, <4>1, <4>2 DEF p
    <3> QED  BY <1>2, <3>1, <3>2, <3>3
  <2>4. g = [i \in 0 .. n + 1 |->
              IF i = 0 THEN <<>> ELSE g[i - 1] \o Pieces(i, sent'[i].kind)]
    BY <2>3
  <2> HIDE DEF g
  <2>5. IsStream(sent', g)
    BY <1>2, <2>4 DEF IsStream
  <2> QED  BY <2>5
<1> QED  BY <1>4, <1>5 DEF StreamInv

(* Whatever the segments, what castd has been given, holds and may still   *)
(* receive is what the source has set out to send, in its order.           *)
THEOREM NothingLostHolds == Spec => []NothingLost
<1>1. Init => StreamInv
  <2>1. SUFFICES ASSUME Init PROVE StreamInv
    OBVIOUS
  <2>2. sent = <<>> /\ AllPieces = <<>> /\ Len(sent) = 0
    BY <2>1 DEF Init, AllPieces
  <2> DEFINE g == [i \in {0} |-> <<>>]
  <2>3. \A f : IsStream(sent, f) => f[0] = <<>>
    BY <2>2 DEF IsStream
  <2>4. g = [i \in 0 .. 0 |-> IF i = 0 THEN <<>> ELSE g[i - 1] \o Pieces(i, sent[i].kind)]
    <3>1. 0 .. 0 = {0}
      OBVIOUS
    <3> QED  BY <3>1
  <2> HIDE DEF g
  <2>5. IsStream(sent, g)
    BY <2>2, <2>4 DEF IsStream
  <2> QED  BY <2>2, <2>3, <2>5 DEF StreamInv
<1>2. Inv /\ Inv' /\ StreamInv /\ [Next]_vars => StreamInv'
  <2>1. SUFFICES ASSUME Inv, Inv', StreamInv, [Next]_vars PROVE StreamInv'
    OBVIOUS
  <2>2. CASE SourceBegins
    BY <2>1, <2>2, StreamGrows
  <2>3. CASE ~SourceBegins
    <3>1. UNCHANGED sent /\ UNCHANGED AllPieces
      <4>1. CASE UNCHANGED vars
        BY <4>1 DEF vars, source, reader, AllPieces
      <4> QED  BY <2>1, <2>3, <4>1, PiecesStay
    <3> QED  BY <2>1, <3>1 DEF StreamInv
  <2> QED  BY <2>2, <2>3
<1>3. Inv /\ StreamInv => NothingLost
  BY StreamInvEnough DEF Inv
<1> QED  BY <1>1, <1>2, <1>3, InvHolds, PTL DEF Spec
=============================================================================
