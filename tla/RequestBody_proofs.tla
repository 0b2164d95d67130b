--------------------------- MODULE RequestBody_proofs ---------------------------
(***************************************************************************)
(* Proofs about RequestBody, for any number of bodies, events and          *)
(* requests: PieceInv says what the buffers and the last request hold,     *)
(* HistoryInv, on top of it, what the requests before it sent.             *)
(***************************************************************************)
EXTENDS RequestBody, SequenceTheorems, TLAPS

\* The cells a + 1 to b of body n: what is in a buffer is always such a piece,
\* since a reader takes cells from its head only.
Piece(n, a, b) == [i \in 1 .. b - a |-> <<n, a + i>>]

Typed ==
  /\ format \in {"json", "json_lines"} /\ gzip \in BOOLEAN
  /\ buf \in Seq(AnyCell) /\ Len(buf) <= Size
  /\ zbuf \in Seq(AnyCell) /\ Len(zbuf) <= Size /\ zopen \in BOOLEAN
  /\ pc \in {"reset", "encode", "reader", "request", "do"}
  /\ body \in 1 .. Bodies + 1 /\ encoded \in 0 .. Items
  /\ req \in 0 .. MaxRequests /\ length \in [Requests -> 0 .. Size]
  /\ sent \in [Requests -> Seq(AnyCell)]
  /\ \A r \in Requests : Len(sent[r]) <= Size /\ (r > req => sent[r] = <<>>)
  /\ reading \subseteq 1 .. req /\ sawEnd \subseteq reading
  /\ owner \in [Requests -> 0 .. Bodies] /\ tainted \subseteq 1 .. req
  /\ shared \in BOOLEAN

\* While a body is encoded the buffers hold what was encoded of it; a reader of
\* a request before may have taken some away from the head of buf.
EncodeInv ==
  pc \in {"encode", "reader"} =>
    /\ zopen = gzip
    /\ pc = "encode" => encoded < Items
    /\ pc = "reader" => encoded = Items
    /\ gzip => buf = <<>> /\ zbuf = Piece(body, 0, encoded)
    /\ ~gzip => zbuf = <<>>
    /\ ~gzip => \E k \in 0 .. encoded : buf = Piece(body, k, encoded) /\ (~shared => k = 0)

\* From Reader on buf holds the end of the body, until the next Reset.  Of the
\* last request the transport has at most what was announced less what is left,
\* and has it in order if nothing is missing.
LastSent(k) ==
  /\ buf = Piece(owner[req], k, Size)
  /\ Len(sent[req]) + Size - k <= length[req]
  /\ Len(sent[req]) + Size - k = length[req]
       => sent[req] = Piece(owner[req], Size - length[req], k)
  /\ ~shared => length[req] = Size
SendInv ==
  /\ pc = "request" =>
       \E k \in 0 .. Size : buf = Piece(body, k, Size) /\ (~shared => k = 0)
  /\ pc \in {"do", "reset"} /\ req > 0 => \E k \in 0 .. Size : LastSent(k)

\* At "reset" the last request is still the one buf was filled for.
LastInv ==
  /\ \A r \in 1 .. req : owner[r] \in 1 .. Bodies
  /\ pc = "do" => req > 0 /\ owner[req] = body
  /\ pc = "reset" /\ req > 0 => owner[req] <= body

PieceInv ==
  /\ Typed
  /\ pc # "reset" => body <= Bodies
  /\ ~shared /\ pc \in {"encode", "reader", "request"} => reading = {}
  /\ EncodeInv
  /\ SendInv
  /\ LastInv
  /\ dropped = {}

\* A request the transport still reads has to share the buffer, but for the last
\* one until the next Reset.
ReadersInv ==
  /\ reading \subseteq tainted \cup {req}
  /\ pc \in {"encode", "reader", "request"} => reading \subseteq tainted
  /\ pc \in {"do", "reset"} /\ req > 0 /\ shared => req \in tainted

\* The body whose cells buf holds.  What was sent is of that or an earlier one.
Latest == IF pc = "reset" /\ req > 0 THEN owner[req] ELSE body
LatestInv ==
  \A r \in 1 .. req : owner[r] <= Latest
                      /\ \A i \in 1 .. Len(sent[r]) : sent[r][i][1] <= Latest

HistoryInv == ReadersInv /\ WholeUnlessShared /\ LatestInv /\ NothingStale

-----------------------------------------------------------------------------
(* Pieces                                                                  *)

\* The sizes are what they seem.
LEMMA Sizes ==
  /\ Bodies \in Nat \ {0} /\ Items \in Nat \ {0} /\ MaxRequests \in Nat \ {0}
  /\ Size \in Nat \ {0} /\ Items <= Size
  /\ gzip => Size = Items + 1
  /\ ~gzip => Size = Items
  /\ \A n, i \in Nat : 1 <= n /\ n <= Bodies /\ 1 <= i /\ i <= Size => <<n, i>> \in AnyCell
BY BodyAssumption DEF BodyAssumption, Size, AnyCell

\* A piece has the cells it says.
LEMMA PieceSeq ==
  ASSUME NEW n \in 1 .. Bodies, NEW a \in Nat, NEW b \in Nat, a <= b, b <= Size
  PROVE  /\ Piece(n, a, b) \in Seq(AnyCell)
         /\ Len(Piece(n, a, b)) = b - a
         /\ \A i \in 1 .. b - a : Piece(n, a, b)[i] = <<n, a + i>>
<1>1. \A i \in 1 .. b - a : <<n, a + i>> \in AnyCell
  BY Sizes
<1>2. b - a \in Nat /\ Piece(n, a, b) \in [1 .. b - a -> AnyCell]
  BY <1>1 DEF Piece
<1>3. Piece(n, a, b) \in Seq(AnyCell)
  BY <1>2
<1> QED BY <1>2, <1>3, LenProperties DEF Piece

\* Two that meet make one.
LEMMA PieceConcat ==
  ASSUME NEW n \in 1 .. Bodies, NEW a \in Nat, NEW b \in Nat, NEW c \in Nat,
         a <= b, b <= c, c <= Size
  PROVE  Piece(n, a, b) \o Piece(n, b, c) = Piece(n, a, c)
<1> DEFINE s == Piece(n, a, b)  t == Piece(n, b, c)  u == Piece(n, a, c)
<1>1. /\ s \in Seq(AnyCell) /\ t \in Seq(AnyCell) /\ u \in Seq(AnyCell)
      /\ Len(s) = b - a /\ Len(t) = c - b /\ Len(u) = c - a
      /\ \A i \in 1 .. b - a : s[i] = <<n, a + i>>
      /\ \A i \in 1 .. c - b : t[i] = <<n, b + i>>
      /\ \A i \in 1 .. c - a : u[i] = <<n, a + i>>
  <2>1. b <= Size /\ a <= c
    BY Sizes
  <2>2. s \in Seq(AnyCell) /\ Len(s) = b - a /\ \A i \in 1 .. b - a : s[i] = <<n, a + i>>
    BY <2>1, PieceSeq
  <2>3. t \in Seq(AnyCell) /\ Len(t) = c - b /\ \A i \in 1 .. c - b : t[i] = <<n, b + i>>
    BY <2>1, PieceSeq
  <2>4. u \in Seq(AnyCell) /\ Len(u) = c - a /\ \A i \in 1 .. c - a : u[i] = <<n, a + i>>
    BY <2>1, PieceSeq
  <2> QED BY <2>2, <2>3, <2>4
<1> HIDE DEF s, t, u
<1>2. /\ s \o t \in Seq(AnyCell) /\ Len(s \o t) = c - a
      /\ \A i \in 1 .. c - a : (s \o t)[i] = IF i <= b - a THEN s[i] ELSE t[i - (b - a)]
  <2>1. Len(s) + Len(t) = c - a
    BY <1>1
  <2>2. /\ s \o t \in Seq(AnyCell) /\ Len(s \o t) = Len(s) + Len(t)
        /\ \A i \in 1 .. Len(s) + Len(t) :
             (s \o t)[i] = IF i <= Len(s) THEN s[i] ELSE t[i - Len(s)]
    BY <1>1, ConcatProperties
  <2> QED BY <1>1, <2>1, <2>2
<1>3. ASSUME NEW i \in 1 .. c - a PROVE (s \o t)[i] = u[i]
  <2>1. CASE i <= b - a
    <3>1. i \in 1 .. b - a
      BY <2>1
    <3>2. (s \o t)[i] = s[i]
      BY <1>2, <2>1
    <3> QED BY <1>1, <3>1, <3>2
  <2>2. CASE ~(i <= b - a)
    <3>1. i - (b - a) \in 1 .. c - b /\ b + (i - (b - a)) = a + i
      BY <2>2
    <3>2. t[i - (b - a)] = <<n, a + i>>
      BY <1>1, <3>1
    <3> QED BY <1>1, <1>2, <2>2, <3>2
  <2> QED BY <2>1, <2>2
<1>4. s \o t = u
  BY <1>1, <1>2, <1>3, SeqEqual
<1> QED BY <1>4 DEF s, t, u

\* One that has no cells is empty.
LEMMA PieceEmpty ==
  ASSUME NEW n \in 1 .. Bodies, NEW a \in Nat, NEW b \in Nat, a <= b, b <= Size
  PROVE  Piece(n, a, b) = <<>> <=> a = b
<1>1. Piece(n, a, b) = <<>> => Len(Piece(n, a, b)) = 0
  BY EmptySeq
<1>2. a = b => Piece(n, a, b) = <<>>
  <2> SUFFICES ASSUME a = b PROVE Piece(n, a, b) = <<>>
    OBVIOUS
  <2>1. Piece(n, a, b) \in Seq(AnyCell) /\ Len(Piece(n, a, b)) = 0
    BY PieceSeq
  <2> QED BY <2>1, EmptySeq
<1>3. Len(Piece(n, a, b)) = b - a
  BY PieceSeq
<1> QED BY <1>1, <1>2, <1>3

\* Its tail is the piece that begins a cell later.
LEMMA PieceTail ==
  ASSUME NEW n \in 1 .. Bodies, NEW a \in Nat, NEW b \in Nat, a < b, b <= Size
  PROVE  Head(Piece(n, a, b)) = <<n, a + 1>> /\ Tail(Piece(n, a, b)) = Piece(n, a + 1, b)
<1> DEFINE s == Piece(n, a, b)  t == Piece(n, a + 1, b)
<1>1. /\ s \in Seq(AnyCell) /\ t \in Seq(AnyCell)
      /\ Len(s) = b - a /\ Len(t) = b - (a + 1)
      /\ \A i \in 1 .. b - a : s[i] = <<n, a + i>>
      /\ \A i \in 1 .. b - (a + 1) : t[i] = <<n, a + 1 + i>>
  <2>1. a <= b /\ a + 1 \in Nat /\ a + 1 <= b
    OBVIOUS
  <2>2. s \in Seq(AnyCell) /\ Len(s) = b - a /\ \A i \in 1 .. b - a : s[i] = <<n, a + i>>
    BY <2>1, PieceSeq
  <2>3. /\ t \in Seq(AnyCell) /\ Len(t) = b - (a + 1)
        /\ \A i \in 1 .. b - (a + 1) : t[i] = <<n, a + 1 + i>>
    BY <2>1, PieceSeq
  <2> QED BY <2>2, <2>3
<1> HIDE DEF s, t
<1>2. s # <<>>
  BY <1>1, EmptySeq
<1>3. /\ Tail(s) \in Seq(AnyCell) /\ Len(Tail(s)) = b - (a + 1)
      /\ \A i \in 1 .. b - (a + 1) : Tail(s)[i] = s[i + 1]
  BY <1>1, <1>2, HeadTailProperties
<1>4. \A i \in 1 .. b - (a + 1) : i + 1 \in 1 .. b - a /\ a + (i + 1) = a + 1 + i
  OBVIOUS
<1>5. \A i \in 1 .. b - (a + 1) : Tail(s)[i] = t[i]
  BY <1>1, <1>3, <1>4
<1>6. Tail(s) = t
  BY <1>1, <1>3, <1>5, SeqEqual
<1>7. Head(s) = <<n, a + 1>>
  BY <1>1, <1>2
<1> QED BY <1>6, <1>7 DEF s, t

\* And one cell more.
LEMMA PieceAppend ==
  ASSUME NEW n \in 1 .. Bodies, NEW a \in Nat, NEW b \in Nat, a <= b, b < Size
  PROVE  Append(Piece(n, a, b), <<n, b + 1>>) = Piece(n, a, b + 1)
<1> DEFINE s == Piece(n, a, b)  t == Piece(n, a, b + 1)  e == <<n, b + 1>>
<1>1. /\ s \in Seq(AnyCell) /\ t \in Seq(AnyCell) /\ e \in AnyCell
      /\ Len(s) = b - a /\ Len(t) = b - a + 1
      /\ \A i \in 1 .. b - a : s[i] = <<n, a + i>>
      /\ \A i \in 1 .. b - a + 1 : t[i] = <<n, a + i>>
      /\ t[b - a + 1] = e
  <2>1. /\ b <= Size /\ b + 1 \in Nat /\ a <= b + 1 /\ b + 1 <= Size
        /\ b + 1 - a = b - a + 1 /\ a + (b - a + 1) = b + 1 /\ b - a + 1 \in 1 .. b - a + 1
    BY Sizes
  <2>2. s \in Seq(AnyCell) /\ Len(s) = b - a /\ \A i \in 1 .. b - a : s[i] = <<n, a + i>>
    BY <2>1, PieceSeq
  <2>3. /\ t \in Seq(AnyCell) /\ Len(t) = b + 1 - a
        /\ \A i \in 1 .. b + 1 - a : t[i] = <<n, a + i>>
    <3>1. \A c \in Nat : a <= c /\ c <= Size =>
            /\ Piece(n, a, c) \in Seq(AnyCell) /\ Len(Piece(n, a, c)) = c - a
            /\ \A i \in 1 .. c - a : Piece(n, a, c)[i] = <<n, a + i>>
      BY PieceSeq
    <3>2. PICK c \in Nat : c = b + 1
      BY <2>1
    <3>3. /\ Piece(n, a, c) \in Seq(AnyCell) /\ Len(Piece(n, a, c)) = c - a
          /\ \A i \in 1 .. c - a : Piece(n, a, c)[i] = <<n, a + i>>
      BY <2>1, <3>1, <3>2
    <3> QED BY <3>2, <3>3
  <2>4. t[b - a + 1] = e
    BY <2>1, <2>3
  <2>5. e \in AnyCell
    BY <2>1, Sizes
  <2> QED BY <2>1, <2>2, <2>3, <2>4, <2>5
<1> HIDE DEF s, t, e
<1>2. /\ Append(s, e) \in Seq(AnyCell) /\ Len(Append(s, e)) = b - a + 1
      /\ \A i \in 1 .. b - a : Append(s, e)[i] = s[i]
      /\ Append(s, e)[b - a + 1] = e
  <2>1. /\ Append(s, e) \in Seq(AnyCell) /\ Len(Append(s, e)) = Len(s) + 1
        /\ \A i \in 1 .. Len(s) : Append(s, e)[i] = s[i]
        /\ Append(s, e)[Len(s) + 1] = e
    <3>1. s \in Seq(AnyCell) /\ e \in AnyCell
      BY <1>1
    <3>2. Append(s, e) \in Seq(AnyCell) /\ Len(Append(s, e)) = Len(s) + 1
      BY <3>1, AppendProperties
    <3>3. \A i \in 1 .. Len(s) : Append(s, e)[i] = s[i]
      BY <3>1, AppendProperties
    <3>4. Append(s, e)[Len(s) + 1] = e
      BY <3>1, AppendProperties
    <3> QED BY <3>2, <3>3, <3>4
  <2> QED BY <1>1, <2>1
<1>3. \A i \in 1 .. b - a + 1 : i \in 1 .. b - a \/ i = b - a + 1
  OBVIOUS
<1>4. \A i \in 1 .. b - a + 1 : Append(s, e)[i] = t[i]
  BY <1>1, <1>2, <1>3
<1>5. Append(s, e) = t
  BY <1>1, <1>2, <1>4, SeqEqual
<1> QED BY <1>5 DEF s, t, e

\* The end of a body is a suffix of it.
LEMMA PieceSuffix ==
  ASSUME NEW n \in 1 .. Bodies, NEW a \in Nat, a <= Size
  PROVE  IsSuffix(Piece(n, a, Size), Piece(n, 0, Size))
<1> DEFINE s == Piece(n, a, Size)  t == Piece(n, 0, Size)  r == Reverse(s)  q == Reverse(t)
<1>1. /\ s \in Seq(AnyCell) /\ t \in Seq(AnyCell) /\ Size \in Nat
      /\ Len(s) = Size - a /\ Len(t) = Size
      /\ \A i \in 1 .. Size - a : s[i] = <<n, a + i>>
      /\ \A i \in 1 .. Size : t[i] = <<n, i>>
  <2>1. Size \in Nat /\ 0 <= Size /\ Size <= Size /\ Size - 0 = Size
    BY Sizes
  <2>2. /\ s \in Seq(AnyCell) /\ Len(s) = Size - a
        /\ \A i \in 1 .. Size - a : s[i] = <<n, a + i>>
    BY <2>1, PieceSeq
  <2>3. t \in Seq(AnyCell) /\ Len(t) = Size - 0 /\ \A i \in 1 .. Size - 0 : t[i] = <<n, 0 + i>>
    BY <2>1, PieceSeq
  <2> QED BY <2>1, <2>2, <2>3
<1> HIDE DEF s, t
<1>2. /\ r \in Seq(AnyCell) /\ Len(r) = Size - a
      /\ \A i \in 1 .. Size - a : r[i] = <<n, Size - i + 1>>
  <2>1. r = [i \in 1 .. Size - a |-> s[Size - a - i + 1]]
    BY <1>1 DEF Reverse
  <2>2. \A i \in 1 .. Size - a : /\ Size - a - i + 1 \in 1 .. Size - a
                                 /\ a + (Size - a - i + 1) = Size - i + 1
    BY <1>1
  <2>3. \A i \in 1 .. Size - a : r[i] = <<n, Size - i + 1>> /\ r[i] \in AnyCell
    BY <1>1, <2>1, <2>2, ElementOfSeq
  <2>4. Size - a \in Nat /\ r \in [1 .. Size - a -> AnyCell]
    BY <1>1, <2>1, <2>3
  <2>5. r \in Seq(AnyCell)
    BY <2>4
  <2> QED BY <2>1, <2>3, <2>4, <2>5, LenProperties
<1>3. /\ q \in Seq(AnyCell) /\ Len(q) = Size
      /\ \A i \in 1 .. Size : q[i] = <<n, Size - i + 1>>
  <2>1. q = [i \in 1 .. Size |-> t[Size - i + 1]]
    BY <1>1 DEF Reverse
  <2>2. \A i \in 1 .. Size : Size - i + 1 \in 1 .. Size
    BY <1>1
  <2>3. \A i \in 1 .. Size : q[i] = <<n, Size - i + 1>> /\ q[i] \in AnyCell
    BY <1>1, <2>1, <2>2, ElementOfSeq
  <2>4. q \in [1 .. Size -> AnyCell]
    BY <2>1, <2>3
  <2>5. q \in Seq(AnyCell)
    BY <1>1, <2>4
  <2> QED BY <1>1, <2>1, <2>3, <2>4, <2>5, LenProperties
<1> HIDE DEF r, q
<1>4. \A i \in 1 .. Size - a : i \in 1 .. Size /\ r[i] = q[i]
  <2>1. \A i \in 1 .. Size - a : i \in 1 .. Size
    BY <1>1
  <2> QED BY <1>2, <1>3, <2>1
<1>5. SubSeq(r, 1, Size - a) = r
  BY <1>2, SubSeqFull
<1>6. /\ SubSeq(q, 1, Size - a) \in Seq(AnyCell)
      /\ Len(SubSeq(q, 1, Size - a)) = Size - a
      /\ \A i \in 1 .. Size - a : SubSeq(q, 1, Size - a)[i] = q[i]
  <2>1. \A i \in 1 .. Size - a : q[i] \in AnyCell
    BY <1>3, <1>4, ElementOfSeq
  <2>2. Size - a \in Int /\ (1 <= Size - a \/ Size - a = 0)
    BY <1>1
  <2> QED BY <2>1, <2>2, SubSeqProperties
<1>7. SubSeq(q, 1, Size - a) = r
  BY <1>2, <1>4, <1>6, SeqEqual
<1>8. IsPrefix(r, q)
  BY <1>1, <1>2, <1>3, <1>5, <1>7 DEF IsPrefix
<1> QED BY <1>8 DEF IsSuffix, r, q, s, t

-----------------------------------------------------------------------------
(* What the buffers and the last request hold                              *)

\* Cells of the body at hand, and the whole of a body, are pieces.
LEMMA CellsArePieces ==
  /\ \A a, b \in Nat : Cells(a, b) = Piece(body, a, b)
  /\ \A n \in 1 .. Bodies : Content(n) = Piece(n, 0, Size)
<1>1. Size \in Nat
  BY Sizes
<1> QED BY <1>1 DEF Cells, Content, Piece

\* The buffers are empty at first.
LEMMA PieceInit == Init => PieceInv
<1> SUFFICES ASSUME Init PROVE PieceInv
  OBVIOUS
<1>1. Len(<<>>) = 0 /\ <<>> \in Seq(AnyCell)
  BY EmptySeq
<1>2. buf \in Seq(AnyCell) /\ Len(buf) <= Size /\ zbuf \in Seq(AnyCell) /\ Len(zbuf) <= Size
  BY <1>1, Sizes DEF Init
<1>3. /\ body \in 1 .. Bodies + 1 /\ encoded \in 0 .. Items /\ req \in 0 .. MaxRequests
      /\ length \in [Requests -> 0 .. Size] /\ owner \in [Requests -> 0 .. Bodies]
  BY Sizes DEF Init
<1>4. sent \in [Requests -> Seq(AnyCell)] /\ \A r \in Requests : Len(sent[r]) <= Size /\ sent[r] = <<>>
  BY <1>1, Sizes DEF Init
<1>5. Typed
  BY <1>2, <1>3, <1>4 DEF Init, Typed
<1> QED BY <1>3, <1>5 DEF Init, PieceInv, EncodeInv, SendInv, LastInv

\* The last request is one of the requests.
LEMMA LastRequest ==
  ASSUME Typed, req > 0
  PROVE  /\ req \in Requests /\ length[req] \in 0 .. Size /\ sent[req] \in Seq(AnyCell)
         /\ Len(sent[req]) \in Nat /\ Len(sent[req]) <= Size
<1>1. req \in Requests
  BY DEF Typed, Requests
<1>2. sent[req] \in Seq(AnyCell)
  BY <1>1 DEF Typed
<1> QED BY <1>1, <1>2, LenProperties DEF Typed

\* While nothing is read the body that is encoded is all there is.
LEMMA EncodeStep == PieceInv /\ Encode => PieceInv'
<1> SUFFICES ASSUME PieceInv, Encode PROVE PieceInv'
  OBVIOUS
<1> USE Sizes
<1>1. /\ pc = "encode" /\ body \in 1 .. Bodies /\ encoded \in Nat /\ encoded < Items /\ zopen = gzip
      /\ ~(gzip /\ ~zopen) /\ Upto \in Nat /\ encoded <= Upto /\ Upto <= Items /\ Upto <= Size
      /\ format \in {"json", "json_lines"} /\ gzip \in BOOLEAN
  BY DEF Encode, PieceInv, EncodeInv, Typed, Upto
<1>2. AddItems /\ UNCHANGED <<encoder, reqVars, sent, reading, sawEnd, shared, tainted>>
  BY <1>1 DEF Encode, Unencodable
<1>3. Cells(encoded, Upto) = Piece(body, encoded, Upto)
  BY <1>1, CellsArePieces
<1>4. encoded' = Upto /\ pc' = IF Upto = Items THEN "reader" ELSE "encode"
  BY <1>2 DEF AddItems
<1>7. /\ UNCHANGED <<format, gzip, zopen, body, req, length, sent, reading, sawEnd, owner, tainted,
                    shared>>
      /\ Size' = Size
  BY <1>2 DEF AddItems, encoder, reqVars, Size
<1>5. CASE gzip
  <2>1. /\ zbuf = Piece(body, 0, encoded) /\ buf = <<>> /\ buf' = <<>>
        /\ zbuf' = zbuf \o Piece(body, encoded, Upto)
    BY <1>1, <1>2, <1>3, <1>5 DEF AddItems, PieceInv, EncodeInv
  <2>2. 0 \in Nat /\ 0 <= encoded /\ 0 <= Upto /\ Upto - 0 = Upto
    BY <1>1
  <2>3. Piece(body, 0, encoded) \o Piece(body, encoded, Upto) = Piece(body, 0, Upto)
    BY <1>1, <2>2, PieceConcat
  <2>4. zbuf' = Piece(body, 0, Upto)
    BY <2>1, <2>3
  <2>5. zbuf' \in Seq(AnyCell) /\ Len(zbuf') = Upto
    BY <1>1, <2>4, <2>2, PieceSeq
  <2>6. Typed'
    <3>1. encoded' \in 0 .. Items /\ pc' \in {"encode", "reader"} /\ Len(zbuf') <= Size
      BY <1>1, <1>4, <2>5
    <3> QED BY <1>7, <2>1, <2>5, <3>1 DEF PieceInv, Typed, Requests
  <2>7. EncodeInv'
    BY <1>1, <1>2, <1>4, <1>5, <2>1, <2>4 DEF EncodeInv, AddItems, encoder
  <2> QED BY <1>1, <1>2, <1>4, <2>6, <2>7 DEF PieceInv, AddItems, SendInv, LastInv, reqVars
<1>6. CASE ~gzip
  <2>1. PICK k \in 0 .. encoded : buf = Piece(body, k, encoded) /\ (~shared => k = 0)
    BY <1>1, <1>6 DEF PieceInv, EncodeInv
  <2>2. buf' = buf \o Piece(body, encoded, Upto) /\ zbuf' = <<>>
    BY <1>1, <1>2, <1>3, <1>6 DEF AddItems, PieceInv, EncodeInv
  <2>3. k \in Nat /\ k <= encoded /\ k <= Upto
    BY <1>1, <2>1
  <2>4. buf' = Piece(body, k, Upto) /\ zbuf' = <<>>
    <3>1. encoded \in Nat /\ Upto \in Nat /\ encoded <= Upto /\ Upto <= Size /\ body \in 1 .. Bodies
      BY <1>1
    <3>2. Piece(body, k, encoded) \o Piece(body, encoded, Upto) = Piece(body, k, Upto)
      BY <2>3, <3>1, PieceConcat
    <3> QED BY <2>1, <2>2, <3>2
  <2>5. buf' \in Seq(AnyCell) /\ Len(buf') = Upto - k /\ Len(<<>>) = 0 /\ <<>> \in Seq(AnyCell)
    BY <1>1, <2>4, <2>3, PieceSeq, EmptySeq
  <2>6. Typed'
    <3>1. encoded' \in 0 .. Items /\ pc' \in {"encode", "reader"} /\ Len(buf') <= Size /\ 0 <= Size
      BY <1>1, <1>4, <2>3, <2>5
    <3> QED BY <1>7, <2>4, <2>5, <3>1 DEF PieceInv, Typed, Requests
  <2>7. EncodeInv'
    BY <1>1, <1>2, <1>4, <1>6, <2>1, <2>4, <2>3 DEF EncodeInv, AddItems, encoder
  <2> QED BY <1>1, <1>2, <1>4, <2>6, <2>7 DEF PieceInv, AddItems, SendInv, LastInv, reqVars
<1> QED BY <1>5, <1>6

\* Reader leaves the end of the body in buf, and all of it unless some was taken.
LEMMA ReaderStep == PieceInv /\ Reader => PieceInv'
<1> SUFFICES ASSUME PieceInv, Reader PROVE PieceInv'
  OBVIOUS
<1> USE Sizes
<1>1. /\ pc = "reader" /\ pc' = "request" /\ body \in 1 .. Bodies /\ encoded = Items
      /\ gzip \in BOOLEAN /\ zbuf' = <<>>
  BY DEF Reader, PieceInv, EncodeInv, Typed
<1>2. Len(<<>>) = 0 /\ <<>> \in Seq(AnyCell)
  BY EmptySeq
<1>3. \E k \in 0 .. Size : buf' = Piece(body, k, Size) /\ (~shared => k = 0)
  <2>1. CASE gzip
    <3>1. Cells(Items, Size) = Piece(body, Items, Size)
      BY CellsArePieces
    <3>2. buf = <<>> /\ zbuf = Piece(body, 0, Items) /\ zbuf \in Seq(AnyCell)
      BY <1>1, <2>1 DEF PieceInv, EncodeInv, Typed
    <3>3. buf' = (<<>> \o zbuf) \o Piece(body, Items, Size)
      BY <2>1, <3>1, <3>2 DEF Reader
    <3>4. <<>> \o zbuf = zbuf
      BY <3>2, ConcatEmptySeq
    <3>5. buf' = Piece(body, 0, Size)
      <4>1. 0 \in Nat /\ Items \in Nat /\ Size \in Nat /\ 0 <= Items /\ Items <= Size /\ Size <= Size
        OBVIOUS
      <4>2. Piece(body, 0, Items) \o Piece(body, Items, Size) = Piece(body, 0, Size)
        BY <1>1, <4>1, PieceConcat
      <4> QED BY <3>2, <3>3, <3>4, <4>2
    <3> QED BY <3>5
  <2>2. CASE ~gzip
    BY <1>1, <2>2 DEF Reader, PieceInv, EncodeInv
  <2> QED BY <2>1, <2>2
<1>4. buf' \in Seq(AnyCell) /\ Len(buf') <= Size
  BY <1>1, <1>3, PieceSeq
<1>5. Typed'
  <2>1. Size' = Size /\ Len(zbuf') <= Size /\ zbuf' \in Seq(AnyCell)
    BY <1>1, <1>2 DEF Reader, encoder, Size
  <2> QED BY <1>1, <1>4, <2>1 DEF Reader, PieceInv, Typed, encoder, history, Requests
<1> QED BY <1>1, <1>3, <1>5 DEF Reader, PieceInv, EncodeInv, SendInv, LastInv, encoder, history, Size

\* The length that is announced is that of the piece.
LEMMA RequestStep == PieceInv /\ NewRequest => PieceInv'
<1> SUFFICES ASSUME PieceInv, NewRequest PROVE PieceInv'
  OBVIOUS
<1> USE Sizes
<1>1. PICK k \in 0 .. Size : buf = Piece(body, k, Size) /\ (~shared => k = 0)
  BY DEF NewRequest, PieceInv, SendInv
<1>2. body \in 1 .. Bodies /\ Len(buf) = Size - k
  <2>1. body \in 1 .. Bodies /\ k \in Nat /\ k <= Size /\ Size <= Size
    BY DEF NewRequest, PieceInv, Typed
  <2> QED BY <1>1, <2>1, PieceSeq
<1>3. /\ req \in Nat /\ req + 1 \in Requests /\ req' = req + 1 /\ pc' = "do"
      /\ sent[req + 1] = <<>> /\ Len(<<>>) = 0
  BY EmptySeq DEF NewRequest, PieceInv, Typed, Requests
<1>4. /\ length' = [length EXCEPT ![req + 1] = Size - k]
      /\ owner' = [owner EXCEPT ![req + 1] = body]
      /\ UNCHANGED <<format, gzip, buf, zbuf, zopen, body, encoded, sent, sawEnd, shared, dropped>>
      /\ Size' = Size
  BY <1>2 DEF NewRequest, encoder, Size
<1>5. length'[req'] = Size - k /\ owner'[req'] = body
  BY <1>3, <1>4 DEF PieceInv, Typed
<1>6. Typed'
  <2>1. length' \in [Requests -> 0 .. Size] /\ owner' \in [Requests -> 0 .. Bodies]
    BY <1>2, <1>3, <1>4 DEF PieceInv, Typed
  <2>2. req' \in 0 .. MaxRequests /\ \A r \in Requests : r > req' => sent[r] = <<>>
    BY <1>3 DEF PieceInv, Typed, Requests
  <2>3. reading' \subseteq 1 .. req' /\ sawEnd \subseteq reading' /\ tainted' \subseteq 1 .. req'
    BY <1>3 DEF NewRequest, PieceInv, Typed
  <2> QED BY <1>3, <1>4, <2>1, <2>2, <2>3 DEF PieceInv, Typed, Requests
<1>7. SendInv'
  <2>1. body \in 1 .. Bodies /\ k \in Nat /\ k <= Size /\ Piece(body, k, k) = <<>>
    BY <1>2, PieceEmpty
  <2>2. Size - (Size - k) = k
    OBVIOUS
  <2>3. LastSent(k)'
    BY <1>1, <1>3, <1>4, <1>5, <2>1, <2>2 DEF LastSent
  <2> QED BY <1>3, <1>4, <2>3 DEF SendInv
<1>8. LastInv'
  <2>1. ASSUME NEW r \in 1 .. req' PROVE owner'[r] \in 1 .. Bodies
    <3>1. r \in 1 .. req \/ r = req'
      BY <1>3
    <3>2. r \in 1 .. req => owner'[r] = owner[r]
      BY <1>3, <1>4 DEF PieceInv, Typed, Requests
    <3> QED BY <1>2, <1>5, <3>1, <3>2 DEF PieceInv, LastInv
  <2> QED BY <1>3, <1>4, <1>5, <2>1 DEF LastInv
<1> QED BY <1>2, <1>3, <1>4, <1>6, <1>7, <1>8 DEF PieceInv, EncodeInv

\* What Send does to the request it sends for.
LEMMA SendOf ==
  ASSUME NEW r \in Requests, Typed, Send(r)
  PROVE  /\ buf \in Seq(AnyCell) /\ buf # <<>> /\ buf' = Tail(buf) /\ Head(buf) \in AnyCell
         /\ buf' \in Seq(AnyCell) /\ Len(buf') = Len(buf) - 1 /\ Len(buf) \in Nat
         /\ sent' \in [Requests -> Seq(AnyCell)]
         /\ \A o \in Requests : o # r => sent'[o] = sent[o]
         /\ \/ sent' = sent
            \/ /\ Len(sent[r]) < length[r] /\ sent'[r] = Append(sent[r], Head(buf))
               /\ Len(sent'[r]) = Len(sent[r]) + 1
         /\ r \in reading /\ r <= req /\ req > 0
<1>1. /\ buf \in Seq(AnyCell) /\ buf # <<>> /\ buf' = Tail(buf) /\ Head(buf) \in AnyCell
      /\ buf' \in Seq(AnyCell) /\ Len(buf') = Len(buf) - 1 /\ Len(buf) \in Nat
  BY HeadTailProperties, LenProperties DEF Send, Typed
<1>2. sent[r] \in Seq(AnyCell)
  BY DEF Typed
<1>3. Append(sent[r], Head(buf)) \in Seq(AnyCell) /\ Len(Append(sent[r], Head(buf))) = Len(sent[r]) + 1
  BY <1>1, <1>2, AppendProperties
<1>4. \/ sent' = sent
      \/ Len(sent[r]) < length[r] /\ sent' = [sent EXCEPT ![r] = Append(sent[r], Head(buf))]
  BY DEF Send
<1>5. r \in reading /\ r \in 1 .. req /\ req \in Nat
  BY DEF Send, Typed
<1>6. sent \in [Requests -> Seq(AnyCell)] /\ req > 0 /\ r <= req
  BY <1>5 DEF Typed
<1>7. CASE sent' = sent
  BY <1>1, <1>5, <1>6, <1>7
<1>8. CASE Len(sent[r]) < length[r] /\ sent' = [sent EXCEPT ![r] = Append(sent[r], Head(buf))]
  <2>1. sent'[r] = Append(sent[r], Head(buf)) /\ \A o \in Requests : o # r => sent'[o] = sent[o]
    BY <1>6, <1>8
  <2>2. sent' \in [Requests -> Seq(AnyCell)]
    BY <1>3, <1>6, <1>8
  <2> QED BY <1>1, <1>3, <1>5, <1>6, <1>8, <2>1, <2>2
<1> QED BY <1>4, <1>7, <1>8

\* A reader takes the head of buf.
LEMMA SendStep == ASSUME NEW r \in Requests PROVE PieceInv /\ Send(r) => PieceInv'
<1> SUFFICES ASSUME PieceInv, Send(r) PROVE PieceInv'
  OBVIOUS
<1> USE Sizes
<1>1. /\ buf \in Seq(AnyCell) /\ buf # <<>> /\ buf' = Tail(buf) /\ Head(buf) \in AnyCell
      /\ buf' \in Seq(AnyCell) /\ Len(buf') = Len(buf) - 1 /\ Len(buf) \in Nat
      /\ sent' \in [Requests -> Seq(AnyCell)]
      /\ \A o \in Requests : o # r => sent'[o] = sent[o]
      /\ \/ sent' = sent
         \/ /\ Len(sent[r]) < length[r] /\ sent'[r] = Append(sent[r], Head(buf))
            /\ Len(sent'[r]) = Len(sent[r]) + 1
      /\ r \in reading /\ r <= req /\ req > 0
  BY SendOf DEF PieceInv
<1>2. /\ UNCHANGED <<format, gzip, pc, body, encoded, zbuf, zopen, req, length, owner, reading,
                    sawEnd, shared, tainted, dropped>>
      /\ Size' = Size
  BY DEF Send, encoder, history, Size
<1>3. Typed'
  <2>1. ASSUME NEW o \in Requests PROVE Len(sent'[o]) <= Size /\ (o > req => sent'[o] = <<>>)
    <3>1. Len(sent[o]) <= Size /\ (o > req => sent[o] = <<>>)
      BY DEF PieceInv, Typed
    <3>2. sent[r] \in Seq(AnyCell) /\ length[r] \in 0 .. Size /\ req \in Nat
      BY DEF PieceInv, Typed
    <3>3. Len(sent[r]) \in Nat
      BY <3>2, LenProperties
    <3>4. CASE o = r /\ Len(sent'[r]) = Len(sent[r]) + 1 /\ Len(sent[r]) < length[r]
      <4>1. r \in Nat /\ req \in Nat /\ r <= req
        BY <1>1, <3>2 DEF Requests
      <4>2. Len(sent'[r]) <= Size
        BY <3>2, <3>3, <3>4
      <4> QED BY <3>4, <4>1, <4>2
    <3>5. CASE sent'[o] = sent[o]
      BY <3>1, <3>5
    <3> QED BY <1>1, <3>4, <3>5
  <2>2. Len(buf') <= Size
    BY <1>1 DEF PieceInv, Typed
  <2> QED BY <1>1, <1>2, <2>1, <2>2 DEF PieceInv, Typed, Requests
<1>4. pc \in {"encode", "reader", "request"} => shared
  BY <1>1 DEF PieceInv, Typed
<1>5. ASSUME NEW n \in 1 .. Bodies, NEW k \in Nat, NEW e \in Nat, e <= Size, k <= e,
             buf = Piece(n, k, e)
      PROVE  k < e /\ Head(buf) = <<n, k + 1>> /\ buf' = Piece(n, k + 1, e)
  <2>1. k < e
    BY <1>1, <1>5, PieceEmpty
  <2> QED BY <1>1, <1>5, <2>1, PieceTail
<1>6. EncodeInv'
  <2> SUFFICES ASSUME pc \in {"encode", "reader"} PROVE EncodeInv'
    BY <1>2 DEF EncodeInv
  <2>1. ~gzip /\ shared /\ body \in 1 .. Bodies /\ encoded \in 0 .. Items
    BY <1>1, <1>4 DEF PieceInv, EncodeInv, Typed
  <2>2. PICK k \in 0 .. encoded : buf = Piece(body, k, encoded)
    BY <2>1 DEF PieceInv, EncodeInv
  <2>3. k < encoded /\ buf' = Piece(body, k + 1, encoded)
    BY <1>5, <2>1, <2>2
  <2>4. k + 1 \in 0 .. encoded
    BY <2>1, <2>3
  <2> QED BY <1>2, <2>1, <2>3, <2>4 DEF PieceInv, EncodeInv
<1>7. SendInv'
  <2>1. CASE pc = "request"
    <3>1. PICK k \in 0 .. Size : buf = Piece(body, k, Size)
      BY <2>1 DEF PieceInv, SendInv
    <3>2. body \in 1 .. Bodies
      BY <2>1 DEF PieceInv, Typed
    <3>3. k < Size /\ buf' = Piece(body, k + 1, Size)
      BY <1>5, <3>1, <3>2
    <3>4. k + 1 \in 0 .. Size
      BY <3>3
    <3> QED BY <1>2, <1>4, <2>1, <3>3, <3>4 DEF SendInv
  <2>2. CASE pc \in {"do", "reset"}
    <3>1. PICK k \in 0 .. Size : LastSent(k)
      BY <1>1, <2>2 DEF PieceInv, SendInv
    <3>2. /\ req \in Requests /\ length[req] \in 0 .. Size /\ Len(sent[req]) \in Nat
          /\ Len(sent[req]) <= Size
      BY <1>1, LastRequest DEF PieceInv
    <3>3. owner[req] \in 1 .. Bodies
      BY <1>1, <3>2 DEF PieceInv, LastInv, Requests
    <3>4. k < Size /\ Head(buf) = <<owner[req], k + 1>> /\ buf' = Piece(owner[req], k + 1, Size)
      BY <1>5, <3>1, <3>3 DEF LastSent
    <3>5. \/ sent'[req] = sent[req]
          \/ sent'[req] = Append(sent[req], Head(buf)) /\ Len(sent'[req]) = Len(sent[req]) + 1
      BY <1>1, <3>2
    <3>6. k + 1 \in 0 .. Size /\ Len(sent'[req]) + Size - (k + 1) <= length[req]
      BY <3>1, <3>2, <3>4, <3>5 DEF LastSent
    <3>7. ASSUME Len(sent'[req]) + Size - (k + 1) = length[req]
          PROVE  sent'[req] = Piece(owner[req], Size - length[req], k + 1)
      <4>1. /\ Len(sent'[req]) = Len(sent[req]) + 1 /\ Len(sent[req]) + Size - k = length[req]
            /\ sent'[req] = Append(sent[req], Head(buf))
        BY <3>1, <3>2, <3>4, <3>5, <3>7 DEF LastSent
      <4>2. sent'[req] = Append(Piece(owner[req], Size - length[req], k), <<owner[req], k + 1>>)
        BY <3>1, <3>4, <4>1 DEF LastSent
      <4>3. Size - length[req] \in Nat /\ Size - length[req] <= k /\ k < Size /\ k \in Nat
        <5>1. Size \in Nat /\ k < Size
          BY <3>4
        <5>2. Len(sent[req]) + Size - k = length[req]
          BY <4>1
        <5> QED BY <3>2, <5>1, <5>2
      <4> QED BY <3>3, <4>2, <4>3, PieceAppend
    <3>8. LastSent(k + 1)'
      <4>1. ~shared => length[req] = Size
        BY <3>1 DEF LastSent
      <4> QED BY <1>2, <3>4, <3>6, <3>7, <4>1 DEF LastSent
    <3> QED BY <1>2, <2>2, <3>6, <3>8 DEF SendInv
  <2> QED BY <1>2, <2>1, <2>2 DEF SendInv
<1> QED BY <1>2, <1>3, <1>4, <1>6, <1>7 DEF PieceInv, LastInv

\* A reader that saw the end resets buf, whatever has come into it since.
LEMMA EndStep == ASSUME NEW r \in Requests PROVE PieceInv /\ EndOfBody(r) => PieceInv'
<1> SUFFICES ASSUME PieceInv, EndOfBody(r) PROVE PieceInv'
  OBVIOUS
<1> USE Sizes
<1>1. Len(<<>>) = 0 /\ <<>> \in Seq(AnyCell)
  BY EmptySeq
<1>2. /\ UNCHANGED <<format, gzip, pc, body, encoded, zbuf, zopen, req, length, sent, owner,
                    shared, tainted, dropped>>
      /\ buf' = <<>> /\ Size' = Size
  BY DEF EndOfBody, encoder, history, Size
<1>3. pc \in {"encode", "reader", "request"} => shared
  BY DEF EndOfBody, PieceInv, Typed
<1>4. \A n \in 1 .. Bodies : \A e \in 0 .. Size : Piece(n, e, e) = <<>>
  BY PieceEmpty
<1>5. Typed'
  <2>1. reading' \subseteq reading /\ sawEnd' \subseteq reading' /\ Len(buf') <= Size
    BY <1>1, <1>2 DEF EndOfBody, PieceInv, Typed
  <2> QED BY <1>1, <1>2, <2>1 DEF PieceInv, Typed, Requests
<1>6. EncodeInv'
  <2> SUFFICES ASSUME pc \in {"encode", "reader"} PROVE EncodeInv'
    BY <1>2 DEF EncodeInv
  <2>1. encoded \in 0 .. encoded /\ body \in 1 .. Bodies /\ encoded \in 0 .. Size
    BY DEF PieceInv, Typed
  <2> QED BY <1>2, <1>3, <1>4, <2>1 DEF PieceInv, EncodeInv
<1>7. SendInv'
  <2>1. CASE pc = "request"
    <3>1. body \in 1 .. Bodies /\ Size \in 0 .. Size
      BY <2>1 DEF PieceInv, Typed
    <3>2. buf' = Piece(body, Size, Size)
      BY <1>2, <1>4, <3>1
    <3> QED BY <1>2, <1>3, <2>1, <3>1, <3>2 DEF SendInv
  <2>2. CASE pc \in {"do", "reset"} /\ req > 0
    <3>1. PICK k \in 0 .. Size : LastSent(k)
      BY <2>2 DEF PieceInv, SendInv
    <3>2. req \in Requests /\ length[req] \in 0 .. Size /\ Len(sent[req]) \in Nat
      BY <2>2, LastRequest DEF PieceInv
    <3>3. owner[req] \in 1 .. Bodies /\ Size \in 0 .. Size
      BY <2>2, <3>2 DEF PieceInv, LastInv, Requests
    <3>4. buf' = Piece(owner[req], Size, Size)
      BY <1>2, <1>4, <3>3
    <3>5. Len(sent[req]) + Size - Size <= length[req]
      BY <3>1, <3>2 DEF LastSent
    <3>6. Len(sent[req]) + Size - Size = length[req]
            => k = Size /\ sent[req] = Piece(owner[req], Size - length[req], Size)
      BY <3>1, <3>2 DEF LastSent
    <3>7. ~shared => length[req] = Size
      BY <3>1 DEF LastSent
    <3>8. LastSent(Size)'
      BY <1>2, <3>4, <3>5, <3>6, <3>7 DEF LastSent
    <3> QED BY <1>2, <2>2, <3>3, <3>8 DEF SendInv
  <2> QED BY <1>2, <2>1, <2>2 DEF SendInv
<1> QED BY <1>2, <1>3, <1>5, <1>6, <1>7 DEF PieceInv, LastInv

\* Every step keeps the pieces.
LEMMA PieceNext == PieceInv /\ [Next]_vars => PieceInv'
<1> SUFFICES ASSUME PieceInv, [Next]_vars PROVE PieceInv'
  OBVIOUS
<1> USE Sizes
<1>1. CASE Reset
  <2>1. Len(<<>>) = 0 /\ <<>> \in Seq(AnyCell)
    BY EmptySeq
  <2>2. body \in 1 .. Bodies /\ Piece(body, 0, 0) = <<>>
    BY <1>1, PieceEmpty DEF Reset, PieceInv, Typed
  <2>3. Typed'
    BY SMTT(30), <1>1, <2>1 DEF Reset, Shares, PieceInv, Typed, encoder, reqVars, Requests, Size
  <2>4. EncodeInv'
    BY <1>1, <2>2 DEF Reset, EncodeInv, encoder
  <2>5. SendInv' /\ LastInv'
    BY <1>1 DEF Reset, SendInv, LastInv, PieceInv, reqVars
  <2> QED BY <1>1, <2>2, <2>3, <2>4, <2>5 DEF Reset, Shares, PieceInv
<1>2. CASE DoReturns
  <2>1. body \in 1 .. Bodies /\ body' \in 1 .. Bodies + 1 /\ body' >= body
    BY <1>2 DEF DoReturns, PieceInv, Typed
  <2>2. /\ UNCHANGED <<format, gzip, buf, zbuf, zopen, encoded, req, length, sent, reading,
                      sawEnd, shared, owner, tainted, dropped>>
        /\ pc = "do" /\ pc' = "reset" /\ Size' = Size
    BY <1>2 DEF DoReturns, encoder, history, Size
  <2>3. Typed'
    BY <2>1, <2>2 DEF PieceInv, Typed, Requests
  <2>4. SendInv' /\ LastInv'
    BY <2>1, <2>2 DEF PieceInv, SendInv, LastSent, LastInv
  <2> QED BY <2>1, <2>2, <2>3, <2>4 DEF PieceInv, EncodeInv
<1>3. ASSUME NEW r \in Requests, FindEmpty(r) \/ Abandon(r) PROVE PieceInv'
  <2>1. /\ UNCHANGED <<format, gzip, buf, zbuf, zopen, pc, body, encoded, req, length, sent, owner,
                      shared, tainted, dropped>>
        /\ Size' = Size
    BY <1>3 DEF FindEmpty, Abandon, encoder, history, Size
  <2>2. reading' \subseteq reading /\ sawEnd' \subseteq reading'
    BY <1>3 DEF FindEmpty, Abandon, PieceInv, Typed
  <2>3. Typed'
    BY <2>1, <2>2 DEF PieceInv, Typed, Requests
  <2>4. EncodeInv' /\ SendInv' /\ LastInv'
    BY <2>1 DEF PieceInv, EncodeInv, SendInv, LastSent, LastInv
  <2> QED BY <2>1, <2>2, <2>3, <2>4 DEF PieceInv
<1>4. CASE UNCHANGED vars
  <2>1. /\ UNCHANGED <<format, gzip, buf, zbuf, zopen, pc, body, encoded, req, length, sent, reading,
                      sawEnd, shared, owner, tainted, dropped>>
        /\ Size' = Size
    BY <1>4 DEF vars, encoder, history, Size
  <2>2. Typed'
    BY <2>1 DEF PieceInv, Typed, Requests
  <2>3. EncodeInv' /\ SendInv' /\ LastInv'
    BY <2>1 DEF PieceInv, EncodeInv, SendInv, LastSent, LastInv
  <2> QED BY <2>1, <2>2, <2>3 DEF PieceInv
<1> QED
  BY <1>1, <1>2, <1>3, <1>4, EncodeStep, ReaderStep, RequestStep, SendStep, EndStep DEF Next

\* The pieces hold throughout.
LEMMA PieceHolds == Spec => []PieceInv
BY PieceInit, PieceNext, PTL DEF Spec

-----------------------------------------------------------------------------
(* What the requests before it sent                                        *)

\* The last request, if it never had to share, is whole when it is complete.
LastIsWhole ==
  pc \in {"do", "reset"} /\ req > 0 /\ req \notin tainted /\ Complete(req)
    => sent[req] = Content(owner[req])
LEMMA LastWhole == PieceInv /\ ReadersInv => LastIsWhole
<1> SUFFICES ASSUME PieceInv, ReadersInv, pc \in {"do", "reset"}, req > 0, req \notin tainted,
                    Complete(req)
             PROVE  sent[req] = Content(owner[req])
  BY DEF LastIsWhole
<1>1. ~shared
  BY DEF ReadersInv, PieceInv, Typed
<1>2. PICK k \in 0 .. Size : LastSent(k)
  BY DEF PieceInv, SendInv
<1>3. length[req] = Size /\ Len(sent[req]) = Size
  BY <1>1, <1>2 DEF LastSent, Complete
<1>4. k = Size /\ Size - length[req] = 0
  BY <1>2, <1>3, Sizes DEF LastSent
<1>5. sent[req] = Piece(owner[req], 0, Size)
  BY <1>2, <1>3, <1>4, Sizes DEF LastSent
<1>6. owner[req] \in 1 .. Bodies
  BY DEF PieceInv, LastInv, Typed
<1> QED BY <1>5, <1>6, CellsArePieces

\* What is read is a cell of the latest body.
LEMMA HeadIsLatest ==
  ASSUME PieceInv, buf # <<>>, reading # {}
  PROVE  Head(buf)[1] = Latest /\ Latest \in 1 .. Bodies
<1> USE Sizes
<1>1. req > 0 /\ req \in Nat
  <2>1. PICK r \in reading : r \in 1 .. req
    BY DEF PieceInv, Typed
  <2>2. req \in Nat
    BY DEF PieceInv, Typed
  <2> QED BY <2>1, <2>2
<1>2. ASSUME NEW n \in 1 .. Bodies, NEW k \in Nat, NEW e \in Nat, e <= Size, k <= e,
             buf = Piece(n, k, e)
      PROVE  Head(buf)[1] = n
  <2>1. k < e
    BY <1>2, PieceEmpty
  <2> QED BY <1>2, <2>1, PieceTail
<1>3. CASE pc \in {"encode", "reader"}
  <2>1. body \in 1 .. Bodies /\ encoded \in 0 .. Items /\ ~gzip /\ Latest = body
    BY <1>3 DEF PieceInv, EncodeInv, Typed, Latest
  <2>2. PICK k \in 0 .. encoded : buf = Piece(body, k, encoded)
    BY <1>3, <2>1 DEF PieceInv, EncodeInv
  <2> QED BY <1>2, <2>1, <2>2
<1>4. CASE pc = "request"
  <2>1. body \in 1 .. Bodies /\ Latest = body
    BY <1>4 DEF PieceInv, Typed, Latest
  <2>2. PICK k \in 0 .. Size : buf = Piece(body, k, Size)
    BY <1>4 DEF PieceInv, SendInv
  <2> QED BY <1>2, <2>1, <2>2
<1>5. CASE pc \in {"do", "reset"}
  <2>1. owner[req] \in 1 .. Bodies /\ Latest = owner[req]
    BY <1>1, <1>5 DEF PieceInv, LastInv, Latest
  <2>2. PICK k \in 0 .. Size : buf = Piece(owner[req], k, Size)
    BY <1>1, <1>5 DEF PieceInv, SendInv, LastSent
  <2> QED BY <1>2, <2>1, <2>2
<1> QED BY <1>3, <1>4, <1>5 DEF PieceInv, Typed

\* Nothing is sent at first.
LEMMA HistoryInit == Init => HistoryInv
<1> SUFFICES ASSUME Init PROVE HistoryInv
  OBVIOUS
<1>1. 1 .. req = {}
  BY DEF Init
<1> QED BY <1>1 DEF Init, HistoryInv, ReadersInv, WholeUnlessShared, LatestInv, NothingStale

\* Most steps send nothing: they only have to keep who shares, and what is latest.
LEMMA QuietStep ==
  ASSUME PieceInv, HistoryInv, UNCHANGED <<gzip, req, length, sent, owner>>,
         tainted \subseteq tainted', ReadersInv',
         req > 0 => Latest \in Nat /\ Latest' \in Nat /\ Latest <= Latest'
  PROVE  HistoryInv'
<1>1. \A r \in 1 .. req : r \in Requests /\ owner[r] \in 1 .. Bodies
  BY Sizes DEF PieceInv, LastInv, Typed, Requests
<1>2. WholeUnlessShared'
  <2>1. \A n : Content(n)' = Content(n)
    BY DEF Content, Size
  <2> QED BY <1>1, <2>1 DEF HistoryInv, WholeUnlessShared, Complete
<1>3. NothingStale'
  BY DEF HistoryInv, NothingStale
<1>4. ASSUME NEW r \in 1 .. req
      PROVE  owner[r] <= Latest' /\ \A i \in 1 .. Len(sent[r]) : sent[r][i][1] <= Latest'
  <2>1. req > 0 /\ owner[r] \in Nat
    BY <1>1 DEF PieceInv, Typed
  <2>2. \A i \in 1 .. Len(sent[r]) : sent[r][i][1] \in Nat
    <3>1. sent[r] \in Seq(AnyCell)
      BY <1>1 DEF PieceInv, Typed
    <3>2. \A i \in 1 .. Len(sent[r]) : sent[r][i] \in AnyCell
      BY <3>1, ElementOfSeq
    <3> QED BY <3>2 DEF AnyCell
  <2> QED BY <2>1, <2>2 DEF HistoryInv, LatestInv
<1>5. LatestInv'
  BY <1>4 DEF LatestInv
<1> QED BY <1>2, <1>3, <1>5 DEF HistoryInv

\* A new request has sent nothing yet.
LEMMA HistoryRequest == PieceInv /\ PieceInv' /\ HistoryInv /\ NewRequest => HistoryInv'
<1> SUFFICES ASSUME PieceInv, PieceInv', HistoryInv, NewRequest PROVE HistoryInv'
  OBVIOUS
<1>1. /\ pc = "request" /\ pc' = "do" /\ req \in Nat /\ req' = req + 1 /\ req + 1 \in Requests
      /\ tainted \subseteq tainted' /\ body' = body /\ sent' = sent /\ gzip' = gzip
      /\ sent[req + 1] = <<>> /\ shared' = shared
  BY DEF NewRequest, PieceInv, Typed, Requests, encoder
<1>2. ReadersInv'
  BY <1>1 DEF NewRequest, HistoryInv, ReadersInv
<1>3. \A r \in 1 .. req : /\ r \in Requests /\ r \in 1 .. req' /\ r # req'
                          /\ owner'[r] = owner[r] /\ length'[r] = length[r]
  <2>1. ASSUME NEW r \in 1 .. req PROVE r \in Requests /\ r \in 1 .. req' /\ r # req'
    BY <1>1, Sizes DEF PieceInv, Typed, Requests
  <2>2. /\ owner' = [owner EXCEPT ![req + 1] = body]
        /\ length' = [length EXCEPT ![req + 1] = Len(buf)]
    BY DEF NewRequest
  <2> QED BY <1>1, <2>1, <2>2 DEF PieceInv, Typed
<1>4. \A r \in 1 .. req' : r \in 1 .. req \/ r = req'
  BY <1>1
<1>5. WholeUnlessShared'
  <2>1. LastIsWhole'
    BY <1>2, LastWhole, PTL
  <2>2. ASSUME NEW r \in 1 .. req' \ tainted', Complete(r)' PROVE (sent[r] = Content(owner[r]))'
    <3>1. CASE r = req'
      BY <1>1, <2>1, <2>2, <3>1 DEF LastIsWhole
    <3>2. CASE r \in 1 .. req
      <4>1. sent[r] = Content(owner[r])
        BY <1>1, <1>3, <2>2, <3>2 DEF HistoryInv, WholeUnlessShared, Complete
      <4>2. \A n : Content(n)' = Content(n)
        BY <1>1 DEF Content, Size
      <4> QED BY <1>1, <1>3, <3>2, <4>1, <4>2
    <3> QED BY <1>4, <3>1, <3>2
  <2> QED BY <2>2 DEF WholeUnlessShared
<1>6. Latest' = body /\ Latest = body /\ owner'[req'] = body /\ body \in Nat /\ Len(<<>>) = 0
  BY <1>1, EmptySeq DEF Latest, NewRequest, PieceInv, Typed
<1>7. LatestInv'
  BY <1>1, <1>3, <1>4, <1>6 DEF HistoryInv, LatestInv
<1>8. NothingStale'
  BY <1>1, <1>3, <1>4, <1>6 DEF HistoryInv, NothingStale
<1> QED BY <1>2, <1>5, <1>7, <1>8 DEF HistoryInv

\* What is added to a request is of the latest body.
LEMMA HistorySend ==
  ASSUME NEW r \in Requests
  PROVE  PieceInv /\ PieceInv' /\ HistoryInv /\ Send(r) => HistoryInv'
<1> SUFFICES ASSUME PieceInv, PieceInv', HistoryInv, Send(r) PROVE HistoryInv'
  OBVIOUS
<1>1. /\ buf # <<>> /\ Head(buf) \in AnyCell
      /\ \A o \in Requests : o # r => sent'[o] = sent[o]
      /\ \/ sent' = sent
         \/ sent'[r] = Append(sent[r], Head(buf)) /\ Len(sent'[r]) = Len(sent[r]) + 1
      /\ r \in reading /\ r <= req /\ req > 0
  BY SendOf DEF PieceInv
<1>2. UNCHANGED <<gzip, pc, body, req, length, owner, reading, shared, tainted>>
  BY DEF Send, encoder, history
<1>3. ReadersInv'
  BY <1>2 DEF HistoryInv, ReadersInv
<1>4. \A o \in 1 .. req : o \in Requests
  BY Sizes DEF PieceInv, Typed, Requests
<1>5. WholeUnlessShared'
  <2>1. LastIsWhole'
    BY <1>3, LastWhole, PTL
  <2>2. \A n : Content(n)' = Content(n)
    BY <1>2 DEF Content, Size
  <2>3. ASSUME NEW o \in 1 .. req \ tainted, Complete(o)'
        PROVE  sent'[o] = Content(owner[o])
    <3>1. CASE o = r
      <4>1. o = req /\ pc \in {"do", "reset"}
        BY <1>1, <3>1 DEF HistoryInv, ReadersInv, PieceInv, Typed
      <4> QED BY <1>1, <1>2, <2>1, <2>2, <2>3, <4>1 DEF LastIsWhole
    <3>2. CASE o # r
      BY <1>1, <1>2, <1>4, <2>3, <3>2 DEF HistoryInv, WholeUnlessShared, Complete
    <3> QED BY <3>1, <3>2
  <2> QED BY <1>2, <2>2, <2>3 DEF WholeUnlessShared
<1>6. Head(buf)[1] = Latest /\ Latest \in Nat
  <2>1. Head(buf)[1] = Latest /\ Latest \in 1 .. Bodies
    BY <1>1, HeadIsLatest
  <2> QED BY <2>1, Sizes
<1>7. Latest' = Latest
  BY <1>2 DEF Latest
<1>8. ASSUME NEW o \in 1 .. req
      PROVE  \/ sent'[o] = sent[o]
             \/ /\ Len(sent'[o]) = Len(sent[o]) + 1 /\ Len(sent[o]) \in Nat
                /\ \A i \in 1 .. Len(sent[o]) : sent'[o][i] = sent[o][i]
                /\ sent'[o][Len(sent[o]) + 1][1] = Latest
  <2>1. CASE o = r /\ sent'[r] = Append(sent[r], Head(buf)) /\ Len(sent'[r]) = Len(sent[r]) + 1
    <3>1. sent[r] \in Seq(AnyCell)
      BY DEF PieceInv, Typed
    <3>2. Len(sent[r]) \in Nat
      BY <3>1, LenProperties
    <3>3. \A i \in 1 .. Len(sent[r]) : Append(sent[r], Head(buf))[i] = sent[r][i]
      BY <1>1, <3>1, AppendProperties
    <3>4. Append(sent[r], Head(buf))[Len(sent[r]) + 1] = Head(buf)
      BY <1>1, <3>1, AppendProperties
    <3> QED BY <1>6, <2>1, <3>2, <3>3, <3>4
  <2> QED BY <1>1, <1>4, <2>1
<1>9. ASSUME NEW o \in 1 .. req
      PROVE  /\ owner[o] <= Latest /\ owner[o] \in Nat
             /\ \A i \in 1 .. Len(sent[o]) : sent[o][i][1] \in Nat /\ sent[o][i][1] <= Latest
  <2>1. owner[o] \in Nat /\ sent[o] \in Seq(AnyCell)
    BY <1>4 DEF PieceInv, Typed
  <2>2. \A i \in 1 .. Len(sent[o]) : sent[o][i] \in AnyCell
    BY <2>1, ElementOfSeq
  <2> QED BY <2>1, <2>2 DEF HistoryInv, LatestInv, AnyCell
<1>10. LatestInv'
  <2>1. ASSUME NEW o \in 1 .. req, NEW i \in 1 .. Len(sent'[o]) PROVE sent'[o][i][1] <= Latest
    <3>1. CASE sent'[o] = sent[o]
      BY <1>9, <2>1, <3>1
    <3>2. CASE sent'[o] # sent[o]
      <4>1. i \in 1 .. Len(sent[o]) \/ i = Len(sent[o]) + 1
        BY <1>8, <2>1, <3>2
      <4>2. CASE i \in 1 .. Len(sent[o])
        BY <1>8, <1>9, <3>2, <4>2
      <4>3. CASE i = Len(sent[o]) + 1
        BY <1>6, <1>8, <3>2, <4>3
      <4> QED BY <4>1, <4>2, <4>3
    <3> QED BY <3>1, <3>2
  <2> QED BY <1>2, <1>7, <1>9, <2>1 DEF LatestInv
<1>11. NothingStale'
  <2>1. ASSUME NEW o \in 1 .. req, NEW i \in 1 .. Len(sent'[o]), NEW j \in 1 .. Len(sent'[o]), i <= j
        PROVE  owner[o] <= sent'[o][i][1] /\ sent'[o][i][1] <= sent'[o][j][1]
    <3>1. CASE sent'[o] = sent[o]
      BY <2>1, <3>1 DEF HistoryInv, NothingStale
    <3>2. CASE sent'[o] # sent[o]
      <4>1. /\ Len(sent'[o]) = Len(sent[o]) + 1 /\ Len(sent[o]) \in Nat
            /\ \A m \in 1 .. Len(sent[o]) : sent'[o][m] = sent[o][m]
            /\ sent'[o][Len(sent[o]) + 1][1] = Latest
        BY <1>8, <3>2
      <4>2. CASE j \in 1 .. Len(sent[o])
        <5>1. i \in 1 .. Len(sent[o])
          BY <2>1, <4>1, <4>2
        <5> QED BY <2>1, <4>1, <4>2, <5>1 DEF HistoryInv, NothingStale
      <4>3. CASE j = Len(sent[o]) + 1 /\ i \in 1 .. Len(sent[o])
        <5>1. owner[o] <= sent[o][i][1]
          BY <4>3 DEF HistoryInv, NothingStale
        <5> QED BY <1>9, <4>1, <4>3, <5>1
      <4>4. CASE j = Len(sent[o]) + 1 /\ i = Len(sent[o]) + 1
        BY <1>6, <1>9, <4>1, <4>4
      <4> QED BY <2>1, <4>1, <4>2, <4>3, <4>4
    <3> QED BY <3>1, <3>2
  <2> QED BY <1>2, <2>1 DEF NothingStale
<1> QED BY <1>3, <1>5, <1>10, <1>11 DEF HistoryInv

\* Every step keeps the history in order.
LEMMA HistoryNext == PieceInv /\ PieceInv' /\ HistoryInv /\ [Next]_vars => HistoryInv'
<1> SUFFICES ASSUME PieceInv, PieceInv', HistoryInv, [Next]_vars PROVE HistoryInv'
  OBVIOUS
<1>1. /\ body \in Nat /\ Bodies \in Nat /\ (req > 0 => owner[req] \in Nat)
      /\ pc \in {"reset", "encode", "reader", "request", "do"}
  BY Sizes DEF PieceInv, LastInv, Typed
<1>2. CASE Reset
  <2>1. ReadersInv'
    BY <1>2 DEF Reset, Shares, HistoryInv, ReadersInv
  <2>2. UNCHANGED <<gzip, req, length, sent, owner, body>> /\ tainted \subseteq tainted' /\ pc' = "encode"
    BY <1>2 DEF Reset, Shares, encoder, reqVars
  <2>3. req > 0 => Latest \in Nat /\ Latest' \in Nat /\ Latest <= Latest'
    BY <1>1, <1>2, <2>2 DEF Reset, PieceInv, LastInv, Latest
  <2> QED BY <2>1, <2>2, <2>3, QuietStep
<1>3. CASE Encode \/ Reader
  <2>1. /\ UNCHANGED <<gzip, req, length, sent, owner, body, reading, shared, tainted>>
        /\ pc \in {"encode", "reader"} /\ pc' \in {"encode", "reader", "request"}
    <3>1. Encode => AddItems
      BY DEF Encode, Unencodable, PieceInv, EncodeInv
    <3> QED BY <1>3, <3>1 DEF Encode, Reader, AddItems, encoder, reqVars, history
  <2>2. ReadersInv'
    BY <2>1 DEF HistoryInv, ReadersInv
  <2>3. req > 0 => Latest \in Nat /\ Latest' \in Nat /\ Latest <= Latest'
    BY <1>1, <2>1 DEF Latest
  <2> QED BY <2>1, <2>2, <2>3, QuietStep
<1>4. CASE DoReturns
  <2>1. /\ UNCHANGED <<gzip, req, length, sent, owner, reading, shared, tainted>>
        /\ pc = "do" /\ pc' = "reset"
    BY <1>4 DEF DoReturns, encoder, history
  <2>2. ReadersInv'
    BY <2>1 DEF HistoryInv, ReadersInv
  <2>3. req > 0 => Latest \in Nat /\ Latest' \in Nat /\ Latest <= Latest'
    BY <1>1, <2>1 DEF PieceInv, LastInv, Latest
  <2> QED BY <2>1, <2>2, <2>3, QuietStep
<1>5. ASSUME NEW r \in Requests, FindEmpty(r) \/ EndOfBody(r) \/ Abandon(r) PROVE HistoryInv'
  <2>1. /\ UNCHANGED <<gzip, req, length, sent, owner, body, pc, shared, tainted>>
        /\ reading' \subseteq reading
    BY <1>5 DEF FindEmpty, EndOfBody, Abandon, encoder, history
  <2>2. ReadersInv'
    BY <2>1 DEF HistoryInv, ReadersInv
  <2>3. req > 0 => Latest \in Nat /\ Latest' \in Nat /\ Latest <= Latest'
    BY <1>1, <2>1 DEF Latest
  <2> QED BY <2>1, <2>2, <2>3, QuietStep
<1>6. CASE UNCHANGED vars
  <2>1. UNCHANGED <<gzip, req, length, sent, owner, body, pc, shared, tainted, reading>>
    BY <1>6 DEF vars, encoder, reqVars, history
  <2>2. ReadersInv'
    BY <2>1 DEF HistoryInv, ReadersInv
  <2>3. req > 0 => Latest \in Nat /\ Latest' \in Nat /\ Latest <= Latest'
    BY <1>1, <2>1 DEF Latest
  <2> QED BY <2>1, <2>2, <2>3, QuietStep
<1> QED BY <1>2, <1>3, <1>4, <1>5, <1>6, HistoryRequest, HistorySend DEF Next

\* Both hold throughout.
LEMMA BodyHolds == Spec => [](PieceInv /\ HistoryInv)
BY PieceHolds, HistoryInit, HistoryNext, PTL DEF Spec

-----------------------------------------------------------------------------
(* The properties                                                          *)

\* What a sequence of cells holds are cells.
LEMMA SeqCells ==
  ASSUME NEW s \in Seq(AnyCell), Len(s) <= Size
  PROVE  IsCells(s)
BY LenProperties DEF IsCells, Range

\* Every variable has its type; above all no buffer ever holds more than one
\* body.
THEOREM BodyTypeCorrect == Spec => []TypeOK
<1>1. PieceInv => TypeOK
  BY SeqCells DEF PieceInv, Typed, TypeOK
<1> QED BY <1>1, PieceHolds, PTL

\* A request that is complete for the receiver, the last one or one whose Do has
\* returned, is the whole body it was made for, unless it shared the buffer.
THEOREM WholeCorrect == Spec => []WholeUnlessShared
<1>1. HistoryInv => WholeUnlessShared
  BY DEF HistoryInv
<1> QED BY <1>1, BodyHolds, PTL

\* The answer the client waits for is to the end of the body it sends, or to all
\* of it, even if it shared the buffer.
THEOREM SuffixCorrect == Spec => []SuffixAtWorst
<1>1. PieceInv => SuffixAtWorst
  <2> SUFFICES ASSUME PieceInv, pc = "do", Complete(req)
               PROVE  IsSuffix(sent[req], Content(body))
    BY DEF SuffixAtWorst
  <2>1. /\ req > 0 /\ owner[req] = body /\ body \in 1 .. Bodies
        /\ Len(sent[req]) = length[req] /\ length[req] \in 0 .. Size
    BY LastRequest DEF PieceInv, LastInv, Typed, Complete
  <2>2. PICK k \in 0 .. Size :
          /\ Len(sent[req]) + Size - k <= length[req]
          /\ Len(sent[req]) + Size - k = length[req]
               => sent[req] = Piece(body, Size - length[req], k)
    BY <2>1 DEF PieceInv, SendInv, LastSent
  <2>3. k = Size /\ Size - length[req] \in Nat /\ Size - length[req] <= Size
    BY <2>1, <2>2, Sizes
  <2>4. sent[req] = Piece(body, Size - length[req], Size)
    BY <2>1, <2>2, <2>3, Sizes
  <2> QED BY <2>1, <2>3, <2>4, CellsArePieces, PieceSuffix
<1> QED BY <1>1, PieceHolds, PTL

\* No request carries what was published before it, however late and with
\* whatever it has to share the buffer.
THEOREM NothingStaleCorrect == Spec => []NothingStale
<1>1. HistoryInv => NothingStale
  BY DEF HistoryInv
<1> QED BY <1>1, BodyHolds, PTL

\* No body is given up for what was encoded before it.
THEOREM NoneDroppedCorrect == Spec => []NoneDropped
<1>1. PieceInv => NoneDropped
  BY DEF PieceInv, NoneDropped
<1> QED BY <1>1, PieceHolds, PTL
=============================================================================
