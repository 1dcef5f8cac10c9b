-------------------------- MODULE Revocation_proofs --------------------------
(***************************************************************************)
(* Proofs about Revocation: what the encoders of the wallet advertiser write *)
(* is read back, by a reader of the format and, cut anywhere, by its own     *)
(* parsers.  For any width of a byte, any transactions and any requests.     *)
(*                                                                          *)
(* The argument is by place: the bytes d hold s from byte k on, so a joined   *)
(* s is held piece by piece, and each piece is read where it stands.  Lists  *)
(* need induction over their length, which is the least counterexample of a  *)
(* well-founded order.                                                      *)
(***************************************************************************)
EXTENDS Revocation, SequenceTheorems, WellFoundedInduction, TLAPS

-----------------------------------------------------------------------------
(* Numbers.                                                                 *)

\* The constants and the numbers made of them.
LEMMA Widths ==
    /\ Base \in Nat /\ Base >= 4 /\ MaxInputs \in Nat
    /\ Two \in Nat /\ Two = Base * Base /\ Two >= 16
    /\ Four \in Nat /\ Four = Two * Two /\ Four >= 256
    /\ Eight \in Nat /\ Eight = Four * Four /\ Eight >= 65536
    /\ Two <= Four /\ Four <= Eight
    /\ Byte = 0..(Base - 1)
    /\ Next2 \in Byte /\ Next4 = Next2 + 1 /\ Next8 = Next2 + 2 /\ Next8 = Base - 1
<1>1. Base \in Nat /\ Base >= 4 /\ MaxInputs \in Nat
  BY BaseOK
<1>2. Two \in Nat /\ Two = Base * Base /\ Two >= 16
  BY <1>1 DEF Two
<1>3. Four \in Nat /\ Four = Two * Two /\ Four >= 256 /\ Two <= Four
  BY <1>2 DEF Four
<1>4. Eight \in Nat /\ Eight = Four * Four /\ Eight >= 65536 /\ Four <= Eight
  BY <1>3 DEF Eight
<1> QED BY <1>1, <1>2, <1>3, <1>4 DEF Byte, Next2, Next4, Next8

\* Dividing by b leaves a digit and what is above it.
LEMMA Digits ==
    ASSUME NEW v \in Nat, NEW b \in Nat, NEW c \in Nat, b > 0, v < b * c
    PROVE  /\ v % b \in 0..(b - 1) /\ v \div b \in 0..(c - 1)
           /\ (v % b) + b * (v \div b) = v
<1>1. v % b \in 0..(b - 1) /\ v \div b \in Nat /\ (v % b) + b * (v \div b) = v
  OBVIOUS
<1>2. v \div b < c
  BY <1>1
<1> QED BY <1>1, <1>2

\* A digit and what is above it make a number of the next width.
LEMMA Composed ==
    ASSUME NEW b \in Nat, NEW c \in Nat, NEW x \in 0..(b - 1), NEW y \in 0..(c - 1)
    PROVE  x + b * y \in 0..(b * c - 1)
OBVIOUS

\* The provers rewrite Len(s) = 2 and s = x \o y to facts about domains and elements.
\* Operators of their own keep them whole.
Size(s) == Len(s)
Join(x, y) == x \o y

\* Joined bytes, and where each of them went.
LEMMA Joined ==
    ASSUME NEW x \in Bytes, NEW y \in Bytes
    PROVE  /\ Join(x, y) \in Bytes /\ Size(Join(x, y)) = Size(x) + Size(y)
           /\ Size(x) \in Nat /\ Size(y) \in Nat
           /\ \A j \in 1..Size(x) : Join(x, y)[j] = x[j]
           /\ \A j \in 1..Size(y) : Join(x, y)[Size(x) + j] = y[j]
BY DEF Bytes, Size, Join

\* The same without the places.
LEMMA JoinedSize ==
    ASSUME NEW x \in Bytes, NEW y \in Bytes
    PROVE  Join(x, y) \in Bytes /\ Size(Join(x, y)) = Size(x) + Size(y)
BY Joined

\* Bytes have a size.
LEMMA BytesSize == ASSUME NEW x \in Bytes PROVE Size(x) \in Nat
BY DEF Bytes, Size

\* Nothing is bytes too.
LEMMA EmptyBytes == <<>> \in Bytes /\ Size(<<>>) = 0
BY DEF Bytes, Size

\* Nothing before bytes changes nothing.
LEMMA EmptyJoin == ASSUME NEW x \in Bytes PROVE Join(<<>>, x) = x
BY DEF Bytes, Join

\* Two bytes stand for the number they were made of.
LEMMA PairBytes ==
    ASSUME NEW v \in 0..(Two - 1)
    PROVE  /\ Pair(v) \in Bytes /\ Size(Pair(v)) = 2
           /\ Pair(v)[1] + Base * Pair(v)[2] = v
<1>1. v % Base \in 0..(Base - 1) /\ v \div Base \in 0..(Base - 1)
      /\ (v % Base) + Base * (v \div Base) = v
  BY Digits, Widths
<1> QED BY <1>1, Widths DEF Pair, Bytes, Size

\* So do four.
LEMMA QuadBytes ==
    ASSUME NEW v \in Uint32
    PROVE  /\ Quad(v) \in Bytes /\ Size(Quad(v)) = 4
           /\ Quad(v)[1] + Base * Quad(v)[2] + Two * (Quad(v)[3] + Base * Quad(v)[4]) = v
<1>1. v % Two \in 0..(Two - 1) /\ v \div Two \in 0..(Two - 1)
      /\ (v % Two) + Two * (v \div Two) = v
  BY Digits, Widths DEF Uint32
<1> DEFINE s == Pair(v % Two)
           t == Pair(v \div Two)
<1>2. s \in Bytes /\ Size(s) = 2 /\ t \in Bytes /\ Size(t) = 2
  BY <1>1, PairBytes
<1>7. s[1] + Base * s[2] = v % Two /\ t[1] + Base * t[2] = v \div Two
  BY <1>1, PairBytes
<1>3. Quad(v) = Join(s, t)
  BY DEF Quad, Join
<1> HIDE DEF s, t
<1>4. Quad(v) \in Bytes /\ Size(Quad(v)) = 4
  BY <1>2, <1>3, Joined
<1>5. Quad(v)[1] = s[1] /\ Quad(v)[2] = s[2]
  <2>1. \A j \in 1..Size(s) : Join(s, t)[j] = s[j]
    BY <1>2, Joined
  <2> QED BY <1>2, <1>3, <2>1
<1>6. Quad(v)[3] = t[1] /\ Quad(v)[4] = t[2]
  <2>1. \A j \in 1..Size(t) : Join(s, t)[Size(s) + j] = t[j]
    BY <1>2, Joined
  <2> QED BY <1>2, <1>3, <2>1
<1> QED BY <1>1, <1>4, <1>5, <1>6, <1>7

\* So do eight.
LEMMA OctBytes ==
    ASSUME NEW v \in Uint64
    PROVE  /\ Oct(v) \in Bytes /\ Size(Oct(v)) = 8
           /\ Oct(v)[1] + Base * Oct(v)[2] + Two * (Oct(v)[3] + Base * Oct(v)[4])
               + Four * (Oct(v)[5] + Base * Oct(v)[6] + Two * (Oct(v)[7] + Base * Oct(v)[8])) = v
<1>1. v % Four \in 0..(Four - 1) /\ v \div Four \in 0..(Four - 1)
      /\ (v % Four) + Four * (v \div Four) = v
  BY Digits, Widths DEF Uint64
<1> DEFINE s == Quad(v % Four)
           t == Quad(v \div Four)
<1>2. s \in Bytes /\ Size(s) = 4 /\ t \in Bytes /\ Size(t) = 4
  BY <1>1, QuadBytes DEF Uint32
<1>7. /\ s[1] + Base * s[2] + Two * (s[3] + Base * s[4]) = v % Four
      /\ t[1] + Base * t[2] + Two * (t[3] + Base * t[4]) = v \div Four
  BY <1>1, QuadBytes DEF Uint32
<1>3. Oct(v) = Join(s, t)
  BY DEF Oct, Join
<1> HIDE DEF s, t
<1>4. Oct(v) \in Bytes /\ Size(Oct(v)) = 8
  BY <1>2, <1>3, Joined
<1>5. /\ Oct(v)[1] = s[1] /\ Oct(v)[2] = s[2] /\ Oct(v)[3] = s[3] /\ Oct(v)[4] = s[4]
  <2>1. \A j \in 1..Size(s) : Join(s, t)[j] = s[j]
    BY <1>2, Joined
  <2> QED BY <1>2, <1>3, <2>1
<1>6. /\ Oct(v)[5] = t[1] /\ Oct(v)[6] = t[2] /\ Oct(v)[7] = t[3] /\ Oct(v)[8] = t[4]
  <2>1. \A j \in 1..Size(t) : Join(s, t)[Size(s) + j] = t[j]
    BY <1>2, Joined
  <2> QED BY <1>2, <1>3, <2>1
<1> QED BY <1>1, <1>4, <1>5, <1>6, <1>7

-----------------------------------------------------------------------------
(* Where bytes stand.                                                       *)

\* The bytes s stand in d from place k on.
Holds(d, k, s) ==
    /\ k + Size(s) - 1 <= Size(d)
    /\ \A j \in 1..Size(s) : d[k + j - 1] = s[j]

\* What holds joined bytes holds the first where they begin and the second after it.
LEMMA HoldsBoth ==
    ASSUME NEW d \in Bytes, NEW k \in Nat \ {0}, NEW s \in Bytes, NEW t \in Bytes,
           Holds(d, k, Join(s, t))
    PROVE  Holds(d, k, s) /\ Holds(d, k + Size(s), t)
<1>1. /\ Size(Join(s, t)) = Size(s) + Size(t)
      /\ \A j \in 1..Size(s) : Join(s, t)[j] = s[j]
      /\ \A j \in 1..Size(t) : Join(s, t)[Size(s) + j] = t[j]
  BY Joined
<1>2. Size(s) \in Nat /\ Size(t) \in Nat /\ Size(d) \in Nat
  BY DEF Bytes, Size
<1>3. Holds(d, k, s)
  BY <1>1, <1>2 DEF Holds
<1>4. ASSUME NEW j \in 1..Size(t)
      PROVE  d[k + Size(s) + j - 1] = t[j]
  <2>1. Size(s) + j \in 1..Size(Join(s, t))
    BY <1>1, <1>2
  <2>2. d[k + (Size(s) + j) - 1] = Join(s, t)[Size(s) + j]
    BY <2>1 DEF Holds
  <2> QED BY <2>2, <1>1, <1>2
<1> QED BY <1>1, <1>2, <1>3, <1>4 DEF Holds

\* Two bytes are read back.
LEMMA PairRead ==
    ASSUME NEW d \in Bytes, NEW k \in Nat \ {0}, NEW v \in 0..(Two - 1), Holds(d, k, Pair(v))
    PROVE  FromPair(d, k) = v
<1>1. d[k] = Pair(v)[1] /\ d[k + 1] = Pair(v)[2]
  BY PairBytes DEF Holds
<1> QED BY <1>1, PairBytes DEF FromPair

\* So are four.
LEMMA QuadRead ==
    ASSUME NEW d \in Bytes, NEW k \in Nat \ {0}, NEW v \in Uint32, Holds(d, k, Quad(v))
    PROVE  FromQuad(d, k) = v
<1>1. /\ d[k] = Quad(v)[1] /\ d[k + 1] = Quad(v)[2]
      /\ d[k + 2] = Quad(v)[3] /\ d[(k + 2) + 1] = Quad(v)[4]
  BY QuadBytes DEF Holds
<1> QED BY <1>1, QuadBytes DEF FromPair, FromQuad

\* So are eight.
LEMMA OctRead ==
    ASSUME NEW d \in Bytes, NEW k \in Nat \ {0}, NEW v \in Uint64, Holds(d, k, Oct(v))
    PROVE  FromOct(d, k) = v
<1>1. /\ d[k] = Oct(v)[1] /\ d[k + 1] = Oct(v)[2]
      /\ d[k + 2] = Oct(v)[3] /\ d[(k + 2) + 1] = Oct(v)[4]
      /\ d[k + 4] = Oct(v)[5] /\ d[(k + 4) + 1] = Oct(v)[6]
      /\ d[(k + 4) + 2] = Oct(v)[7] /\ d[((k + 4) + 2) + 1] = Oct(v)[8]
  BY OctBytes DEF Holds
<1> QED BY <1>1, OctBytes DEF FromPair, FromQuad, FromOct

\* An integer of the first byte b and the bytes t.
LEMMA Announced ==
    ASSUME NEW b \in Byte, NEW t \in Bytes
    PROVE  /\ <<b>> \in Bytes /\ Size(<<b>>) = 1
           /\ Join(<<b>>, t) \in Bytes /\ Size(Join(<<b>>, t)) = 1 + Size(t)
<1>1. <<b>> \in Bytes /\ Size(<<b>>) = 1
  BY DEF Bytes, Size
<1> QED BY <1>1, Joined

\* EncodeVarInt in its four widths.
LEMMA VarIntForms ==
    ASSUME NEW v \in Uint64
    PROVE  \/ v \in 0..(Next2 - 1) /\ EncodeVarInt(v) = <<v>>
           \/ v \in 0..(Two - 1) /\ EncodeVarInt(v) = Join(<<Next2>>, Pair(v))
           \/ v \in Uint32 /\ EncodeVarInt(v) = Join(<<Next4>>, Quad(v))
           \/ EncodeVarInt(v) = Join(<<Next8>>, Oct(v))
<1>1. v \in Nat /\ Two \in Nat /\ Four \in Nat /\ Next2 \in Nat
  BY Widths DEF Uint64
<1> QED BY <1>1 DEF EncodeVarInt, Uint32, Join

\* An encoded integer is one, three, five or nine bytes.
LEMMA VarIntBytes ==
    ASSUME NEW v \in Uint64
    PROVE  EncodeVarInt(v) \in Bytes /\ Size(EncodeVarInt(v)) \in {1, 3, 5, 9}
<1>0. Next2 \in Byte /\ Next4 \in Byte /\ Next8 \in Byte
  BY Widths
<1>1. CASE v \in 0..(Next2 - 1) /\ EncodeVarInt(v) = <<v>>
  <2>1. v \in Byte
    BY <1>1, Widths
  <2> QED BY <1>1, <2>1 DEF Bytes, Size
<1>2. CASE v \in 0..(Two - 1) /\ EncodeVarInt(v) = Join(<<Next2>>, Pair(v))
  BY <1>0, <1>2, PairBytes, Announced
<1>3. CASE v \in Uint32 /\ EncodeVarInt(v) = Join(<<Next4>>, Quad(v))
  BY <1>0, <1>3, QuadBytes, Announced
<1>4. CASE EncodeVarInt(v) = Join(<<Next8>>, Oct(v))
  BY <1>0, <1>4, OctBytes, Announced
<1> QED BY <1>1, <1>2, <1>3, <1>4, VarIntForms

\* What holds an integer of several bytes holds its first byte and then the number.
LEMMA AnnouncedHeld ==
    ASSUME NEW d \in Bytes, NEW k \in Nat \ {0}, NEW b \in Byte, NEW t \in Bytes,
           Holds(d, k, Join(<<b>>, t))
    PROVE  /\ d[k] = b /\ Holds(d, k + 1, t)
           /\ k + Size(t) <= Size(d)
<1>1. <<b>> \in Bytes /\ Size(<<b>>) = 1
  BY Announced
<1>2. Holds(d, k, <<b>>) /\ Holds(d, k + Size(<<b>>), t)
  BY <1>1, HoldsBoth
<1>3. d[k] = b
  BY <1>1, <1>2 DEF Holds
<1>4. Holds(d, k + 1, t)
  BY <1>1, <1>2
<1>5. Size(t) \in Nat /\ Size(d) \in Nat
  BY DEF Size, Bytes
<1> QED BY <1>3, <1>4, <1>5 DEF Holds

\* What EncodeVarInt writes is read back, wherever it stands and whatever follows.
LEMMA VarIntRead ==
    ASSUME NEW d \in Bytes, NEW k \in Nat \ {0}, NEW v \in Uint64,
           Holds(d, k, EncodeVarInt(v))
    PROVE  ReadVarInt(d, k) = [value |-> v, next |-> k + Size(EncodeVarInt(v))]
<1>0. /\ Next2 \in Byte /\ Next4 \in Byte /\ Next8 \in Byte
      /\ Next2 # Next4 /\ Next2 # Next8 /\ Next4 # Next8
  BY Widths
<1>1. CASE v \in 0..(Next2 - 1) /\ EncodeVarInt(v) = <<v>>
  <2>1. v \in Byte /\ v # Next2 /\ v # Next4 /\ v # Next8
    BY <1>1, Widths
  <2>2. Size(<<v>>) = 1
    BY <2>1, Announced, EmptyBytes
  <2>3. d[k] = v
    BY <1>1, <2>2 DEF Holds
  <2> QED BY <1>1, <2>1, <2>2, <2>3 DEF ReadVarInt
<1>2. CASE v \in 0..(Two - 1) /\ EncodeVarInt(v) = Join(<<Next2>>, Pair(v))
  <2>1. Pair(v) \in Bytes /\ Size(Pair(v)) = 2
    BY <1>2, PairBytes
  <2>2. d[k] = Next2 /\ Holds(d, k + 1, Pair(v)) /\ Size(EncodeVarInt(v)) = 3
    BY <1>0, <1>2, <2>1, Announced, AnnouncedHeld
  <2>3. FromPair(d, k + 1) = v
    BY <1>2, <2>2, PairRead
  <2> QED BY <2>2, <2>3 DEF ReadVarInt
<1>3. CASE v \in Uint32 /\ EncodeVarInt(v) = Join(<<Next4>>, Quad(v))
  <2>1. Quad(v) \in Bytes /\ Size(Quad(v)) = 4
    BY <1>3, QuadBytes
  <2>2. d[k] = Next4 /\ Holds(d, k + 1, Quad(v)) /\ Size(EncodeVarInt(v)) = 5
    BY <1>0, <1>3, <2>1, Announced, AnnouncedHeld
  <2>3. FromQuad(d, k + 1) = v
    BY <1>3, <2>2, QuadRead
  <2> QED BY <1>0, <2>2, <2>3 DEF ReadVarInt
<1>4. CASE EncodeVarInt(v) = Join(<<Next8>>, Oct(v))
  <2>1. Oct(v) \in Bytes /\ Size(Oct(v)) = 8
    BY <1>4, OctBytes
  <2>2. d[k] = Next8 /\ Holds(d, k + 1, Oct(v)) /\ Size(EncodeVarInt(v)) = 9
    BY <1>0, <1>4, <2>1, Announced, AnnouncedHeld
  <2>3. FromOct(d, k + 1) = v
    BY <1>4, <2>2, OctRead
  <2> QED BY <1>0, <2>2, <2>3 DEF ReadVarInt
<1> QED BY <1>1, <1>2, <1>3, <1>4, VarIntForms

\* The code's own reader agrees, on bytes that begin with the integer.
LEMMA VarIntParsed ==
    ASSUME NEW d \in Bytes, NEW v \in Uint64, Holds(d, 1, EncodeVarInt(v))
    PROVE  ParseVarInt(d) = <<v, Size(EncodeVarInt(v))>>
<1>0. /\ Next2 \in Byte /\ Next4 \in Byte /\ Next8 \in Byte
      /\ ~(Next2 < Next2) /\ ~(Next4 < Next2) /\ ~(Next8 < Next2)
      /\ Next2 # Next4 /\ Next2 # Next8 /\ Next4 # Next8
  BY Widths
<1>5. Size(d) = Len(d) /\ Size(d) \in Nat /\ (d = <<>> => Size(d) = 0)
  BY DEF Size, Bytes
<1>1. CASE v \in 0..(Next2 - 1) /\ EncodeVarInt(v) = <<v>>
  <2>1. v \in Byte /\ v < Next2
    BY <1>1, Widths
  <2>2. Size(<<v>>) = 1
    BY <2>1, Announced, EmptyBytes
  <2>3. d[1] = v /\ Size(d) >= 1
    BY <1>1, <1>5, <2>2 DEF Holds
  <2> QED BY <1>1, <1>5, <2>1, <2>2, <2>3 DEF ParseVarInt
<1>2. CASE v \in 0..(Two - 1) /\ EncodeVarInt(v) = Join(<<Next2>>, Pair(v))
  <2>1. Pair(v) \in Bytes /\ Size(Pair(v)) = 2
    BY <1>2, PairBytes
  <2>2. d[1] = Next2 /\ Holds(d, 2, Pair(v)) /\ Size(d) >= 3 /\ Size(EncodeVarInt(v)) = 3
    BY <1>0, <1>2, <1>5, <2>1, Announced, AnnouncedHeld
  <2>3. FromPair(d, 2) = v
    BY <1>2, <2>2, PairRead
  <2> QED BY <1>0, <1>5, <2>2, <2>3 DEF ParseVarInt
<1>3. CASE v \in Uint32 /\ EncodeVarInt(v) = Join(<<Next4>>, Quad(v))
  <2>1. Quad(v) \in Bytes /\ Size(Quad(v)) = 4
    BY <1>3, QuadBytes
  <2>2. d[1] = Next4 /\ Holds(d, 2, Quad(v)) /\ Size(d) >= 5 /\ Size(EncodeVarInt(v)) = 5
    BY <1>0, <1>3, <1>5, <2>1, Announced, AnnouncedHeld
  <2>3. FromQuad(d, 2) = v
    BY <1>3, <2>2, QuadRead
  <2> QED BY <1>0, <1>5, <2>2, <2>3 DEF ParseVarInt
<1>4. CASE EncodeVarInt(v) = Join(<<Next8>>, Oct(v))
  <2>1. Oct(v) \in Bytes /\ Size(Oct(v)) = 8
    BY <1>4, OctBytes
  <2>2. d[1] = Next8 /\ Holds(d, 2, Oct(v)) /\ Size(d) >= 9 /\ Size(EncodeVarInt(v)) = 9
    BY <1>0, <1>4, <1>5, <2>1, Announced, AnnouncedHeld
  <2>3. FromOct(d, 2) = v
    BY <1>4, <2>2, OctRead
  <2> QED BY <1>0, <1>5, <2>2, <2>3 DEF ParseVarInt
<1> QED BY <1>1, <1>2, <1>3, <1>4, VarIntForms

-----------------------------------------------------------------------------
(* Lists.                                                                   *)

\* Induction up to n, over a set of numbers: the least number that is not in S would
\* be the successor of one that is.
LEMMA UpTo ==
    ASSUME NEW S, NEW n \in Nat, 0 \in S, \A i \in 1..n : i - 1 \in S => i \in S
    PROVE  \A i \in 0..n : i \in S
<1> DEFINE T == {i \in 0..n : i \notin S}
<1>1. SUFFICES ASSUME T # {} PROVE FALSE
  OBVIOUS
<1>2. PICK i \in T : \A j \in T : <<j, i>> \notin OpToRel(<, Nat)
  <2>1. T \subseteq Nat /\ T # {}
    BY <1>1
  <2> HIDE DEF T
  <2> QED BY <2>1, NatLessThanWellFounded, WFMin
<1>3. i \in 1..n /\ i - 1 \in 0..n
  OBVIOUS
<1>4. i - 1 \notin T
  <2>1. i - 1 \in Nat /\ i \in Nat /\ i - 1 < i
    BY <1>3
  <2> HIDE DEF T
  <2> QED BY <1>2, <2>1 DEF OpToRel
<1>5. i - 1 \in S
  BY <1>3, <1>4
<1>6. i \notin S
  BY <1>2
<1> QED BY <1>3, <1>5, <1>6

\* The bytes of the first i items.
Flat(items) ==
    CHOOSE f : f = [i \in 1..Len(items) |->
                       IF i = 1 THEN items[i] ELSE f[i - 1] \o items[i]]

\* There is such a function for the first m items.
Flattens(f, items, m) ==
    f = [i \in 1..m |-> IF i = 1 THEN items[i] ELSE f[i - 1] \o items[i]]

\* There are such bytes: by induction over the number of items.
LEMMA FlatExists ==
    ASSUME NEW items, Len(items) \in Nat
    PROVE  \E f : Flattens(f, items, Len(items))
<1> DEFINE Solvable(m) == \E f : Flattens(f, items, m)
           S == {m \in 0..Len(items) : Solvable(m)}
<1>1. 0 \in S
  <2> DEFINE f == [i \in 1..0 |-> <<>>]
  <2>1. Flattens(f, items, 0)
    BY DEF Flattens
  <2> HIDE DEF f
  <2>2. Solvable(0)
    BY <2>1
  <2> HIDE DEF Solvable
  <2> QED BY <2>2
<1>2. ASSUME NEW m \in 1..Len(items), m - 1 \in S
      PROVE  m \in S
  <2>1. PICK f : Flattens(f, items, m - 1)
    BY <1>2
  <2> DEFINE next == IF m = 1 THEN items[m] ELSE f[m - 1] \o items[m]
             g == [i \in 1..m |-> IF i < m THEN f[i] ELSE next]
  <2>2. ASSUME NEW i \in 1..m
        PROVE  g[i] = IF i = 1 THEN items[i] ELSE g[i - 1] \o items[i]
    <3>1. CASE i < m
      <4>1. i \in 1..(m - 1) /\ g[i] = f[i] /\ (i # 1 => g[i - 1] = f[i - 1])
        BY <3>1
      <4>2. f[i] = IF i = 1 THEN items[i] ELSE f[i - 1] \o items[i]
        BY <2>1, <4>1 DEF Flattens
      <4> HIDE DEF g
      <4> QED BY <4>1, <4>2
    <3>2. CASE i = m
      <4>1. g[i] = next /\ (m # 1 => g[m - 1] = f[m - 1])
        BY <3>2
      <4> HIDE DEF g
      <4> QED BY <3>2, <4>1
    <3> QED BY <3>1, <3>2
  <2>3. g = [i \in 1..m |-> g[i]]
    OBVIOUS
  <2> HIDE DEF g, next
  <2>4. Flattens(g, items, m)
    BY <2>2, <2>3 DEF Flattens
  <2>5. Solvable(m)
    BY <2>4
  <2> HIDE DEF Solvable
  <2> QED BY <2>5
<1>3. Len(items) \in S
  <2> HIDE DEF S
  <2>1. \A m \in 0..Len(items) : m \in S
    BY <1>1, <1>2, UpTo
  <2> QED BY <2>1
<1> QED BY <1>3

\* FlattenSeq joins the items one by one.
LEMMA FlattenedUpTo ==
    ASSUME NEW items \in Seq(Bytes)
    PROVE  \E f : /\ f[0] = <<>> /\ f[Len(items)] = FlattenSeq(items)
                  /\ \A i \in 0..Len(items) : f[i] \in Bytes
                  /\ \A i \in 1..Len(items) : f[i] = Join(f[i - 1], items[i])
<1> DEFINE n == Len(items)
           f == Flat(items)
           g == [i \in 0..n |-> IF i = 0 THEN <<>> ELSE f[i]]
           S == {i \in 0..n : g[i] \in Bytes}
<1>1. n \in Nat /\ \A i \in 1..n : items[i] \in Bytes
  OBVIOUS
<1>2. Flattens(f, items, n)
  <2>1. \E h : Flattens(h, items, n)
    BY <1>1, FlatExists
  <2>2. f = CHOOSE h : Flattens(h, items, n)
    BY DEF Flat, Flattens
  <2> HIDE DEF f
  <2> QED BY <2>1, <2>2
<1> HIDE DEF f
<1>3. ASSUME NEW i \in 1..n
      PROVE  f[i] = IF i = 1 THEN items[i] ELSE f[i - 1] \o items[i]
  BY <1>2 DEF Flattens
<1>4. g[0] = <<>> /\ \A i \in 1..n : g[i] = f[i]
  BY <1>1
<1> HIDE DEF g
<1>5. ASSUME NEW i \in 1..n, g[i - 1] \in Bytes
      PROVE  g[i] = Join(g[i - 1], items[i])
  <2>1. CASE i = 1
    <3>1. g[i] = items[i] /\ g[i - 1] = <<>>
      BY <1>3, <1>4, <2>1
    <3>2. Join(<<>>, items[i]) = items[i]
      BY <1>1, EmptyJoin
    <3> QED BY <3>1, <3>2
  <2>2. CASE i # 1
    <3>1. i - 1 \in 1..n /\ g[i] = f[i] /\ g[i - 1] = f[i - 1]
      BY <1>4, <2>2
    <3>2. f[i] = Join(f[i - 1], items[i])
      BY <1>3, <2>2 DEF Join
    <3> QED BY <3>1, <3>2
  <2> QED BY <2>1, <2>2
<1>6. \A i \in 0..n : i \in S
  <2>1. 0 \in S
    BY <1>1, <1>4, EmptyBytes
  <2>2. ASSUME NEW i \in 1..n, i - 1 \in S
        PROVE  i \in S
    <3>1. g[i - 1] \in Bytes /\ items[i] \in Bytes
      BY <1>1, <2>2
    <3>2. g[i] \in Bytes
      BY <1>5, <3>1, Joined
    <3> QED BY <3>2
  <2> HIDE DEF S
  <2> QED BY <1>1, <2>1, <2>2, UpTo
<1>7. \A i \in 0..n : g[i] \in Bytes
  BY <1>6
<1>8. \A i \in 1..n : g[i] = Join(g[i - 1], items[i])
  BY <1>5, <1>7
<1>9. g[n] = FlattenSeq(items)
  <2>1. CASE n = 0
    <3>1. FlattenSeq(items) = <<>>
      BY <2>1 DEF FlattenSeq
    <3> QED BY <1>4, <2>1, <3>1
  <2>2. CASE n # 0
    <3>1. FlattenSeq(items) = f[n]
      BY <2>2 DEF FlattenSeq, f, Flat
    <3> QED BY <1>1, <1>4, <2>2, <3>1
  <2> QED BY <2>1, <2>2
<1> HIDE DEF n
<1> QED BY <1>4, <1>7, <1>8, <1>9 DEF n

\* Bytes that hold a flattened list hold its items, one after the other.
LEMMA ItemsHeld ==
    ASSUME NEW d \in Bytes, NEW k \in Nat \ {0}, NEW items \in Seq(Bytes),
           Holds(d, k, FlattenSeq(items))
    PROVE  \E at : /\ at[0] = k /\ at[Len(items)] = k + Size(FlattenSeq(items))
                   /\ \A i \in 0..Len(items) : at[i] \in Nat \ {0}
                   /\ \A i \in 1..Len(items) : at[i] = at[i - 1] + Size(items[i])
                   /\ \A i \in 1..Len(items) : Holds(d, at[i - 1], items[i])
<1> DEFINE n == Len(items)
<1>1. n \in Nat /\ \A i \in 1..n : items[i] \in Bytes
  OBVIOUS
<1> HIDE DEF n
<1>2. PICK f : /\ f[0] = <<>> /\ f[n] = FlattenSeq(items)
               /\ \A i \in 0..n : f[i] \in Bytes
               /\ \A i \in 1..n : f[i] = Join(f[i - 1], items[i])
  BY FlattenedUpTo DEF n
<1> DEFINE S == {j \in 0..n : Holds(d, k, f[n - j])}
<1>3. \A j \in 0..n : j \in S
  <2>1. 0 \in S
    BY <1>1, <1>2
  <2>2. ASSUME NEW j \in 1..n, j - 1 \in S
        PROVE  j \in S
    <3>1. n - (j - 1) \in 1..n /\ n - (j - 1) - 1 = n - j /\ n - j \in 0..n
      BY <1>1
    <3>2. f[n - (j - 1)] = Join(f[n - j], items[n - (j - 1)])
      BY <1>2, <3>1
    <3>3. Holds(d, k, Join(f[n - j], items[n - (j - 1)]))
      BY <2>2, <3>2
    <3>4. f[n - j] \in Bytes /\ items[n - (j - 1)] \in Bytes
      BY <1>1, <1>2, <3>1
    <3>5. Holds(d, k, f[n - j])
      BY <3>3, <3>4, HoldsBoth
    <3> QED BY <3>5
  <2> HIDE DEF S
  <2> QED BY <1>1, <2>1, <2>2, UpTo
<1>4. ASSUME NEW i \in 0..n
      PROVE  Holds(d, k, f[i]) /\ Size(f[i]) \in Nat
  <2>1. n - i \in 0..n /\ n - (n - i) = i
    BY <1>1
  <2>2. n - i \in S
    BY <1>3, <2>1
  <2>3. Holds(d, k, f[n - (n - i)])
    BY <2>2
  <2> QED BY <1>2, <2>1, <2>3, Joined
<1> DEFINE at == [i \in 0..n |-> k + Size(f[i])]
<1>5. at[0] = k /\ at[n] = k + Size(FlattenSeq(items))
  BY <1>1, <1>2, EmptyBytes
<1>6. \A i \in 0..n : at[i] \in Nat \ {0}
  BY <1>4
<1>7. ASSUME NEW i \in 1..n
      PROVE  at[i] = at[i - 1] + Size(items[i]) /\ Holds(d, at[i - 1], items[i])
  <2>1. i \in 0..n /\ i - 1 \in 0..n
    BY <1>1
  <2>2. f[i - 1] \in Bytes /\ items[i] \in Bytes /\ f[i] = Join(f[i - 1], items[i])
    BY <1>1, <1>2, <2>1
  <2>3. Size(f[i]) = Size(f[i - 1]) + Size(items[i]) /\ Size(items[i]) \in Nat
    <3>1. Size(Join(f[i - 1], items[i])) = Size(f[i - 1]) + Size(items[i])
          /\ Size(items[i]) \in Nat
      BY <2>2, Joined
    <3> QED BY <2>2, <3>1
  <2>4. Holds(d, k + Size(f[i - 1]), items[i])
    BY <1>4, <2>1, <2>2, HoldsBoth
  <2>5. at[i] = k + Size(f[i]) /\ at[i - 1] = k + Size(f[i - 1])
    BY <2>1
  <2>6. Size(f[i - 1]) \in Nat
    BY <1>4, <2>1
  <2> QED BY <2>3, <2>4, <2>5, <2>6
<1> HIDE DEF at
<1> QED BY <1>5, <1>6, <1>7 DEF n

\* Flattened bytes are bytes.
LEMMA FlattenBytes ==
    ASSUME NEW items \in Seq(Bytes)
    PROVE  FlattenSeq(items) \in Bytes
<1>1. Len(items) \in 0..Len(items)
  OBVIOUS
<1> QED BY <1>1, FlattenedUpTo

-----------------------------------------------------------------------------
(* Scripts, inputs and outputs.                                             *)

\* What holds s has it as a part.
LEMMA PartHeld ==
    ASSUME NEW d \in Bytes, NEW k \in Nat \ {0}, NEW s \in Bytes, Holds(d, k, s)
    PROVE  SubSeq(d, k, k + Size(s) - 1) = s
<1> DEFINE last == k + Size(s) - 1
           part == SubSeq(d, k, last)
<1>1. Size(s) \in Nat /\ last \in Int /\ Size(d) \in Nat /\ last <= Size(d)
  BY DEF Bytes, Size, Holds
<1>2. ASSUME NEW j \in k..last PROVE d[j] \in Byte
  BY <1>1 DEF Bytes, Size
<1> HIDE DEF last
<1>3. /\ part \in Seq(Byte) /\ Len(part) = IF k <= last THEN last - k + 1 ELSE 0
      /\ \A j \in 1..last - k + 1 : part[j] = d[k + j - 1]
  <2>1. k \in Int /\ last \in Int /\ \A j \in k..last : d[j] \in Byte
    BY <1>1, <1>2
  <2>2. SubSeq(d, k, last) \in Seq(Byte)
    BY <2>1, SubSeqProperties, Zenon
  <2>3. Len(SubSeq(d, k, last)) = IF k <= last THEN last - k + 1 ELSE 0
    BY <2>1, SubSeqProperties, Zenon
  <2>4. \A j \in 1..last - k + 1 : SubSeq(d, k, last)[j] = d[k + j - 1]
    BY <2>1
  <2> QED BY <2>2, <2>3, <2>4
<1> HIDE DEF part
<1>4. last - k + 1 = Size(s)
  BY <1>1 DEF last
<1>5. Size(part) = Size(s)
  <2>1. Size(part) = IF k <= last THEN last - k + 1 ELSE 0
    BY <1>3 DEF Size
  <2> QED BY <1>1, <1>4, <2>1
<1>6. \A j \in 1..Size(s) : part[j] = s[j]
  <2>1. TAKE j \in 1..Size(s)
  <2>2. part[j] = d[k + j - 1]
    BY <1>3, <1>4
  <2>3. d[k + j - 1] = s[j]
    BY DEF Holds
  <2> QED BY <2>2, <2>3
<1>7. part = s
  <2>1. s \in Seq(Byte) /\ Len(part) = Len(s)
    BY <1>5 DEF Bytes, Size
  <2>2. \A j \in 1..Len(part) : part[j] = s[j]
    BY <1>6, <1>5 DEF Size
  <2> QED BY <1>3, <2>1, <2>2, SeqEqual, Zenon
<1> QED BY <1>7 DEF part, last

\* A script is encoded as its length and itself.
LEMMA ScriptBytes ==
    ASSUME NEW s \in Slice(Byte)
    PROVE  /\ s \in Bytes /\ Size(s) \in Uint64 /\ EncodeScript(s) \in Bytes
           /\ EncodeScript(s) = Join(EncodeVarInt(Size(s)), s)
<1>1. s \in Bytes /\ Size(s) \in Uint64
  BY Widths DEF Slice, Bytes, Size, Uint64
<1>2. EncodeScript(s) = Join(EncodeVarInt(Size(s)), s)
  BY DEF EncodeScript, Join, Size
<1> QED BY <1>1, <1>2, VarIntBytes, Joined

\* A script is read back.
LEMMA ScriptRead ==
    ASSUME NEW d \in Bytes, NEW k \in Nat \ {0}, NEW s \in Slice(Byte),
           Holds(d, k, EncodeScript(s))
    PROVE  ReadScript(d, k) = [value |-> s, next |-> k + Size(EncodeScript(s))]
<1> DEFINE v == Size(s)
           e == EncodeVarInt(v)
<1>1. s \in Bytes /\ v \in Uint64 /\ v \in Nat /\ EncodeScript(s) = Join(e, s)
  BY ScriptBytes, Widths DEF Uint64
<1>2. e \in Bytes /\ Size(e) \in Nat
  BY <1>1, VarIntBytes
<1> HIDE DEF e
<1>3. Holds(d, k, e) /\ Holds(d, k + Size(e), s) /\ Size(EncodeScript(s)) = Size(e) + v
  BY <1>1, <1>2, HoldsBoth, Joined
<1>4. ReadVarInt(d, k) = [value |-> v, next |-> k + Size(e)]
  BY <1>1, <1>3, VarIntRead DEF e
<1>5. SubSeq(d, k + Size(e), k + Size(e) + v - 1) = s
  BY <1>1, <1>2, <1>3, PartHeld
<1> HIDE DEF v
<1> DEFINE n == ReadVarInt(d, k)
<1>6. n.value = v /\ n.next = k + Size(e)
  BY <1>4
<1>7. ReadScript(d, k) = [value |-> SubSeq(d, n.next, n.next + n.value - 1),
                          next |-> n.next + n.value]
  BY DEF ReadScript
<1> HIDE DEF n
<1>8. n.next + n.value = k + Size(EncodeScript(s))
  BY <1>1, <1>2, <1>3, <1>6
<1>9. SubSeq(d, n.next, n.next + n.value - 1) = s
  BY <1>5, <1>6
<1> QED BY <1>7, <1>8, <1>9

\* A hash is bytes.
LEMMA HashBytes ==
    ASSUME NEW h \in Hash
    PROVE  h \in Bytes /\ Size(h) = 32
<1>1. h = [j \in 1..32 |-> h[j]] /\ \A j \in 1..32 : h[j] \in Byte
  BY DEF Hash
<1>2. [j \in 1..32 |-> h[j]] \in Seq(Byte) /\ Len([j \in 1..32 |-> h[j]]) = 32
  BY <1>1
<1> QED BY <1>1, <1>2 DEF Bytes, Size

\* An input is encoded as four pieces.
LEMMA InputBytes ==
    ASSUME NEW i \in TransactionInput
    PROVE  /\ i.hash \in Bytes /\ Size(i.hash) = 32
           /\ Quad(i.index) \in Bytes /\ Quad(i.sequence) \in Bytes
           /\ EncodeScript(i.script) \in Bytes
           /\ EncodeInput(i) = Join(Join(Join(i.hash, Quad(i.index)), EncodeScript(i.script)),
                                    Quad(i.sequence))
           /\ EncodeInput(i) \in Bytes
<1>1. i.hash \in Bytes /\ Size(i.hash) = 32
  BY HashBytes DEF TransactionInput
<1>2. Quad(i.index) \in Bytes /\ Quad(i.sequence) \in Bytes
  BY QuadBytes DEF TransactionInput
<1>3. EncodeScript(i.script) \in Bytes
  BY ScriptBytes DEF TransactionInput
<1>4. EncodeInput(i) = Join(Join(Join(i.hash, Quad(i.index)), EncodeScript(i.script)),
                            Quad(i.sequence))
  BY DEF EncodeInput, EncodeUint32, Join
<1>5. EncodeInput(i) \in Bytes
  <2>1. Join(i.hash, Quad(i.index)) \in Bytes
    BY <1>1, <1>2, JoinedSize
  <2>2. Join(Join(i.hash, Quad(i.index)), EncodeScript(i.script)) \in Bytes
    BY <1>3, <2>1, JoinedSize
  <2> QED BY <1>2, <1>4, <2>2, JoinedSize
<1> QED BY <1>1, <1>2, <1>3, <1>4, <1>5

\* An input is read back.
LEMMA InputRead ==
    ASSUME NEW d \in Bytes, NEW k \in Nat \ {0}, NEW i \in TransactionInput,
           Holds(d, k, EncodeInput(i))
    PROVE  ReadInput(d, k) = [value |-> i, next |-> k + Size(EncodeInput(i))]
<1> DEFINE h == i.hash
           x == Quad(i.index)
           s == EncodeScript(i.script)
           q == Quad(i.sequence)
<1>1. /\ h \in Bytes /\ Size(h) = 32 /\ x \in Bytes /\ Size(x) = 4
      /\ s \in Bytes /\ q \in Bytes /\ Size(q) = 4
      /\ EncodeInput(i) = Join(Join(Join(h, x), s), q)
      /\ i.index \in Uint32 /\ i.sequence \in Uint32 /\ i.script \in Slice(Byte)
      /\ i = [hash |-> i.hash, index |-> i.index, script |-> i.script, sequence |-> i.sequence]
  BY InputBytes, QuadBytes DEF TransactionInput
<1> HIDE DEF h, x, s, q
<1>2. /\ Join(h, x) \in Bytes /\ Size(Join(h, x)) = 36
      /\ Join(Join(h, x), s) \in Bytes /\ Size(Join(Join(h, x), s)) = 36 + Size(s)
      /\ Size(EncodeInput(i)) = 36 + Size(s) + 4 /\ Size(s) \in Nat
  <2>1. Join(h, x) \in Bytes /\ Size(Join(h, x)) = 36
    BY <1>1, JoinedSize
  <2>2. Join(Join(h, x), s) \in Bytes /\ Size(Join(Join(h, x), s)) = 36 + Size(s)
    BY <1>1, <2>1, JoinedSize
  <2>3. Size(EncodeInput(i)) = 36 + Size(s) + 4
    BY <1>1, <2>2, JoinedSize
  <2> QED BY <1>1, <2>1, <2>2, <2>3, BytesSize
<1>3. Holds(d, k, Join(Join(h, x), s)) /\ Holds(d, k + (36 + Size(s)), q)
  BY <1>1, <1>2, HoldsBoth
<1>4. Holds(d, k, Join(h, x)) /\ Holds(d, k + 36, s)
  BY <1>1, <1>2, <1>3, HoldsBoth
<1>5. Holds(d, k, h) /\ Holds(d, k + 32, x)
  BY <1>1, <1>2, <1>4, HoldsBoth
<1>6. SubSeq(d, k, k + 31) = i.hash
  BY <1>1, <1>5, PartHeld DEF h
<1>7. FromQuad(d, k + 32) = i.index
  BY <1>1, <1>5, QuadRead DEF x
<1>8. ReadScript(d, k + 36) = [value |-> i.script, next |-> k + 36 + Size(s)]
  BY <1>1, <1>4, ScriptRead DEF s
<1>9. FromQuad(d, k + 36 + Size(s)) = i.sequence
  <2>1. k + (36 + Size(s)) = k + 36 + Size(s) /\ k + 36 + Size(s) \in Nat \ {0}
    BY <1>2
  <2> QED BY <1>1, <1>3, <2>1, QuadRead DEF q
<1> DEFINE r == ReadScript(d, k + 36)
<1>10. r.value = i.script /\ r.next = k + 36 + Size(s)
  BY <1>8
<1>11. ReadInput(d, k) =
         [value |-> [hash |-> SubSeq(d, k, k + 31), index |-> FromQuad(d, k + 32),
                     script |-> r.value, sequence |-> FromQuad(d, r.next)],
          next |-> r.next + 4]
  BY DEF ReadInput
<1> HIDE DEF r
<1>12. r.next + 4 = k + Size(EncodeInput(i))
  BY <1>2, <1>10
<1>13. FromQuad(d, r.next) = i.sequence
  BY <1>9, <1>10
<1>14. [hash |-> SubSeq(d, k, k + 31), index |-> FromQuad(d, k + 32),
        script |-> r.value, sequence |-> FromQuad(d, r.next)] = i
  BY <1>1, <1>6, <1>7, <1>10, <1>13
<1> QED BY <1>11, <1>12, <1>14

\* An output is encoded as two pieces.
LEMMA OutputBytes ==
    ASSUME NEW o \in TransactionOutput
    PROVE  /\ Oct(o.value) \in Bytes /\ Size(Oct(o.value)) = 8
           /\ EncodeScript(o.script) \in Bytes
           /\ EncodeOutput(o) = Join(Oct(o.value), EncodeScript(o.script))
           /\ EncodeOutput(o) \in Bytes
           /\ Size(EncodeOutput(o)) = 8 + Size(EncodeScript(o.script))
<1>1. Oct(o.value) \in Bytes /\ Size(Oct(o.value)) = 8
  BY OctBytes DEF TransactionOutput
<1>2. EncodeScript(o.script) \in Bytes
  BY ScriptBytes DEF TransactionOutput
<1>3. EncodeOutput(o) = Join(Oct(o.value), EncodeScript(o.script))
  BY DEF EncodeOutput, EncodeUint64, Join
<1>4. EncodeOutput(o) \in Bytes /\ Size(EncodeOutput(o)) = 8 + Size(EncodeScript(o.script))
  BY <1>1, <1>2, <1>3, JoinedSize
<1> QED BY <1>1, <1>2, <1>3, <1>4

\* An output is read back.
LEMMA OutputRead ==
    ASSUME NEW d \in Bytes, NEW k \in Nat \ {0}, NEW o \in TransactionOutput,
           Holds(d, k, EncodeOutput(o))
    PROVE  ReadOutput(d, k) = [value |-> o, next |-> k + Size(EncodeOutput(o))]
<1> DEFINE x == Oct(o.value)
           s == EncodeScript(o.script)
           r == ReadScript(d, k + 8)
<1>1. /\ x \in Bytes /\ Size(x) = 8 /\ s \in Bytes /\ EncodeOutput(o) = Join(x, s)
      /\ Size(EncodeOutput(o)) = 8 + Size(s)
  BY OutputBytes
<1>2. /\ o.value \in Uint64 /\ o.script \in Slice(Byte)
      /\ o = [value |-> o.value, script |-> o.script]
  BY DEF TransactionOutput
<1> HIDE DEF x, s
<1>3. Holds(d, k, x) /\ Holds(d, k + 8, s) /\ Size(s) \in Nat
  BY <1>1, HoldsBoth, BytesSize
<1>4. FromOct(d, k) = o.value
  BY <1>2, <1>3, OctRead DEF x
<1>5. ReadScript(d, k + 8) = [value |-> o.script, next |-> k + 8 + Size(s)]
  BY <1>2, <1>3, ScriptRead DEF s
<1>6. r.value = o.script /\ r.next = k + 8 + Size(s)
  BY <1>5
<1>7. ReadOutput(d, k) = [value |-> [value |-> FromOct(d, k), script |-> r.value],
                          next |-> r.next]
  BY DEF ReadOutput
<1> HIDE DEF r
<1>8. r.next = k + Size(EncodeOutput(o))
  BY <1>1, <1>3, <1>6
<1>9. [value |-> FromOct(d, k), script |-> r.value] = o
  BY <1>2, <1>4, <1>6
<1> QED BY <1>7, <1>8, <1>9

-----------------------------------------------------------------------------
(* Lists.                                                                   *)

\* Where a reader of n things finds them, when the first starts at byte start.
Positions(read, start, n) ==
    CHOOSE at : at = [i \in 0..n |-> IF i = 0 THEN start ELSE read[at[i - 1]].next]

\* The reader finds them at p when each of them ends where p says the next one starts.
LEMMA PositionsFound ==
    ASSUME NEW read, NEW start, NEW n \in Nat, NEW p,
           p[0] = start, \A i \in 1..n : read[p[i - 1]].next = p[i]
    PROVE  \A i \in 0..n : Positions(read, start, n)[i] = p[i]
<1> DEFINE Step(a) == [i \in 0..n |-> IF i = 0 THEN start ELSE read[a[i - 1]].next]
           at == Positions(read, start, n)
           q == [i \in 0..n |-> p[i]]
           S == {i \in 0..n : at[i] = p[i]}
<1>1. q = Step(q)
  <2>1. ASSUME NEW i \in 0..n
        PROVE  q[i] = IF i = 0 THEN start ELSE read[q[i - 1]].next
    <3>1. CASE i = 0
      BY <3>1
    <3>2. CASE i # 0
      <4>1. i \in 1..n /\ q[i] = p[i] /\ q[i - 1] = p[i - 1]
        BY <3>2
      <4> HIDE DEF q
      <4> QED BY <3>2, <4>1
    <3> QED BY <3>1, <3>2
  <2>2. q = [i \in 0..n |-> q[i]]
    OBVIOUS
  <2> HIDE DEF q
  <2> QED BY <2>1, <2>2
<1>2. at = Step(at)
  <2>1. \E a : a = Step(a)
    BY <1>1
  <2>2. at = CHOOSE a : a = Step(a)
    BY DEF Positions
  <2> HIDE DEF at, Step
  <2> QED BY <2>1, <2>2
<1> HIDE DEF at
<1>3. ASSUME NEW i \in 0..n
      PROVE  at[i] = IF i = 0 THEN start ELSE read[at[i - 1]].next
  BY <1>2
<1>4. 0 \in S
  BY <1>3
<1>5. ASSUME NEW i \in 1..n, i - 1 \in S
      PROVE  i \in S
  <2>1. at[i - 1] = p[i - 1] /\ i \in 0..n /\ i # 0
    BY <1>5
  <2>2. at[i] = read[at[i - 1]].next
    BY <1>3, <2>1
  <2>3. at[i] = p[i]
    BY <2>1, <2>2
  <2> QED BY <2>1, <2>3
<1> HIDE DEF S
<1>6. \A i \in 0..n : i \in S
  BY <1>4, <1>5, UpTo
<1> QED BY <1>6 DEF S, at

\* A list is encoded as its length and its items.
LEMMA ListBytes ==
    ASSUME NEW items \in Slice(Bytes)
    PROVE  /\ items \in Seq(Bytes) /\ Len(items) \in Uint64 /\ FlattenSeq(items) \in Bytes
           /\ EncodeList(items) = Join(EncodeVarInt(Len(items)), FlattenSeq(items))
           /\ EncodeList(items) \in Bytes
<1>1. items \in Seq(Bytes) /\ Len(items) \in Uint64
  BY Widths DEF Slice, Uint64
<1>2. FlattenSeq(items) \in Bytes
  BY <1>1, FlattenBytes
<1>3. EncodeList(items) = Join(EncodeVarInt(Len(items)), FlattenSeq(items))
  BY DEF EncodeList, Join
<1>4. EncodeList(items) \in Bytes
  BY <1>1, <1>2, <1>3, VarIntBytes, JoinedSize
<1> QED BY <1>1, <1>2, <1>3, <1>4

\* What reads each item wherever it stands reads their list.
LEMMA ListRead ==
    ASSUME NEW d \in Bytes, NEW k \in Nat \ {0}, NEW items \in Slice(Bytes),
           Holds(d, k, EncodeList(items)), NEW values, NEW read,
           \A i \in 1..Len(items) : \A j \in Nat \ {0} : Holds(d, j, items[i]) =>
               read[j].value = values[i] /\ read[j].next = j + Size(items[i])
    PROVE  ReadList(read, d, k) = [value |-> [i \in 1..Len(items) |-> values[i]],
                                   next |-> k + Size(EncodeList(items))]
<1> DEFINE n == Len(items)
           e == EncodeVarInt(n)
           start == k + Size(e)
           at == Positions(read, start, n)
           r == ReadVarInt(d, k)
<1>1. /\ items \in Seq(Bytes) /\ n \in Uint64 /\ n \in Nat /\ FlattenSeq(items) \in Bytes
      /\ EncodeList(items) = Join(e, FlattenSeq(items)) /\ e \in Bytes
  BY ListBytes, VarIntBytes, Widths DEF Uint64
<1>2. Size(e) \in Nat /\ Size(FlattenSeq(items)) \in Nat
  BY <1>1, BytesSize
<1> HIDE DEF n, e
<1>3. Holds(d, k, e) /\ Holds(d, start, FlattenSeq(items))
  BY <1>1, HoldsBoth
<1>4. Size(EncodeList(items)) = Size(e) + Size(FlattenSeq(items))
  BY <1>1, JoinedSize
<1>5. r = [value |-> n, next |-> start]
  BY <1>1, <1>3, VarIntRead DEF e
<1>6. PICK p : /\ p[0] = start /\ p[n] = start + Size(FlattenSeq(items))
               /\ \A i \in 0..n : p[i] \in Nat \ {0}
               /\ \A i \in 1..n : p[i] = p[i - 1] + Size(items[i])
               /\ \A i \in 1..n : Holds(d, p[i - 1], items[i])
  <2>1. start \in Nat \ {0}
    BY <1>2
  <2> HIDE DEF start
  <2> QED BY <1>1, <1>3, <2>1, ItemsHeld DEF n
<1> HIDE DEF start
<1>7. ASSUME NEW i \in 1..n
      PROVE  read[p[i - 1]].value = values[i] /\ read[p[i - 1]].next = p[i]
  <2>1. i - 1 \in 0..n
    BY <1>1
  <2>2. p[i - 1] \in Nat \ {0} /\ Holds(d, p[i - 1], items[i])
        /\ p[i] = p[i - 1] + Size(items[i])
    BY <1>6, <2>1
  <2> QED BY <2>2 DEF n
<1>8. \A i \in 0..n : at[i] = p[i]
  BY <1>1, <1>6, <1>7, PositionsFound
<1>9. r.value = n /\ r.next = start
  BY <1>5
<1>10. ReadList(read, d, k) =
         [value |-> [i \in 1..n |-> read[at[i - 1]].value], next |-> at[n]]
  BY <1>9 DEF ReadList, Positions
<1> HIDE DEF at, r
<1>11. at[n] = k + Size(EncodeList(items))
  BY <1>1, <1>2, <1>4, <1>6, <1>8 DEF start
<1>12. [i \in 1..n |-> read[at[i - 1]].value] = [i \in 1..n |-> values[i]]
  <2>1. ASSUME NEW i \in 1..n
        PROVE  read[at[i - 1]].value = values[i]
    <3>1. i - 1 \in 0..n
      BY <1>1
    <3> QED BY <1>7, <1>8, <3>1
  <2> QED BY <2>1
<1> QED BY <1>10, <1>11, <1>12 DEF n

-----------------------------------------------------------------------------
(* Transactions.                                                            *)

\* Encoding the things of a slice one by one makes a slice.
LEMMA EncodedSlice ==
    ASSUME NEW S, NEW s \in Slice(S), NEW f, f = [k \in DOMAIN s |-> f[k]],
           \A k \in DOMAIN s : f[k] \in Bytes
    PROVE  f \in Slice(Bytes) /\ Len(f) = Len(s)
<1>1. s \in Seq(S) /\ Len(s) < Eight
  BY DEF Slice
<1>2. DOMAIN s = 1..Len(s) /\ Len(s) \in Nat
  BY <1>1
<1> DEFINE n == Len(s)
<1> HIDE DEF n
<1>3. f = [k \in 1..n |-> f[k]] /\ n \in Nat /\ \A k \in 1..n : f[k] \in Bytes
  BY <1>2 DEF n
<1>4. f \in Seq(Bytes) /\ Len(f) = n
  BY <1>3
<1> QED BY <1>1, <1>4 DEF n, Slice

Inputs(t)  == [k \in DOMAIN t.inputs |-> EncodeInput(t.inputs[k])]
Outputs(t) == [k \in DOMAIN t.outputs |-> EncodeOutput(t.outputs[k])]

\* The fields of a transaction.
LEMMA TransactionParts ==
    ASSUME NEW t \in Transaction
    PROVE  /\ t.version \in Uint32 /\ t.lockTime \in Uint32
           /\ t.inputs \in Slice(TransactionInput) /\ t.outputs \in Slice(TransactionOutput)
           /\ t = [version |-> t.version, inputs |-> t.inputs,
                   outputs |-> t.outputs, lockTime |-> t.lockTime]
BY DEF Transaction

\* The elements of a slice.
LEMMA SliceParts ==
    ASSUME NEW S, NEW s \in Slice(S)
    PROVE  /\ Len(s) \in Nat /\ DOMAIN s = 1..Len(s) /\ \A k \in 1..Len(s) : s[k] \in S
           /\ [k \in 1..Len(s) |-> s[k]] = s
BY DEF Slice

\* The encoded inputs of a transaction.
LEMMA InputsEncoded ==
    ASSUME NEW t \in Transaction
    PROVE  Inputs(t) \in Slice(Bytes) /\ Len(Inputs(t)) = Len(t.inputs)
<1>1. t.inputs \in Slice(TransactionInput)
  BY TransactionParts
<1>2. \A k \in DOMAIN t.inputs : t.inputs[k] \in TransactionInput
  BY <1>1, SliceParts
<1>3. \A k \in DOMAIN t.inputs : Inputs(t)[k] \in Bytes
  BY <1>2, InputBytes DEF Inputs
<1>4. Inputs(t) = [k \in DOMAIN t.inputs |-> Inputs(t)[k]]
  BY DEF Inputs
<1> QED BY <1>1, <1>3, <1>4, EncodedSlice

\* Its encoded outputs.
LEMMA OutputsEncoded ==
    ASSUME NEW t \in Transaction
    PROVE  Outputs(t) \in Slice(Bytes) /\ Len(Outputs(t)) = Len(t.outputs)
<1>1. t.outputs \in Slice(TransactionOutput)
  BY TransactionParts
<1>2. \A k \in DOMAIN t.outputs : t.outputs[k] \in TransactionOutput
  BY <1>1, SliceParts
<1>3. \A k \in DOMAIN t.outputs : Outputs(t)[k] \in Bytes
  BY <1>2, OutputBytes DEF Outputs
<1>4. Outputs(t) = [k \in DOMAIN t.outputs |-> Outputs(t)[k]]
  BY DEF Outputs
<1> QED BY <1>1, <1>3, <1>4, EncodedSlice

\* The inputs of a transaction are read back.
LEMMA InputsRead ==
    ASSUME NEW d \in Bytes, NEW k \in Nat \ {0}, NEW t \in Transaction,
           Holds(d, k, EncodeList(Inputs(t)))
    PROVE  ReadList([j \in Nat |-> ReadInput(d, j)], d, k) =
               [value |-> t.inputs, next |-> k + Size(EncodeList(Inputs(t)))]
<1> DEFINE items == Inputs(t)
           values == t.inputs
           read == [j \in Nat |-> ReadInput(d, j)]
<1>1. items \in Slice(Bytes) /\ Len(items) = Len(values)
  BY InputsEncoded
<1>2. /\ \A i \in 1..Len(values) : values[i] \in TransactionInput
      /\ DOMAIN values = 1..Len(values) /\ [i \in 1..Len(values) |-> values[i]] = values
  BY TransactionParts, SliceParts
<1>3. ASSUME NEW i \in 1..Len(items), NEW j \in Nat \ {0}, Holds(d, j, items[i])
      PROVE  read[j].value = values[i] /\ read[j].next = j + Size(items[i])
  <2>1. values[i] \in TransactionInput /\ items[i] = EncodeInput(values[i])
    BY <1>1, <1>2 DEF Inputs
  <2>2. ReadInput(d, j) = [value |-> values[i], next |-> j + Size(items[i])]
    BY <1>3, <2>1, InputRead
  <2>3. read[j] = ReadInput(d, j)
    OBVIOUS
  <2> HIDE DEF read, values
  <2> QED BY <2>2, <2>3
<1> HIDE DEF items, values, read
<1>4. ReadList(read, d, k) = [value |-> [i \in 1..Len(items) |-> values[i]],
                              next |-> k + Size(EncodeList(items))]
  <2>1. Holds(d, k, EncodeList(items))
    BY DEF items
  <2> QED BY <1>1, <1>3, <2>1, ListRead
<1> QED BY <1>1, <1>2, <1>4 DEF items, values, read

\* So are its outputs.
LEMMA OutputsRead ==
    ASSUME NEW d \in Bytes, NEW k \in Nat \ {0}, NEW t \in Transaction,
           Holds(d, k, EncodeList(Outputs(t)))
    PROVE  ReadList([j \in Nat |-> ReadOutput(d, j)], d, k) =
               [value |-> t.outputs, next |-> k + Size(EncodeList(Outputs(t)))]
<1> DEFINE items == Outputs(t)
           values == t.outputs
           read == [j \in Nat |-> ReadOutput(d, j)]
<1>1. items \in Slice(Bytes) /\ Len(items) = Len(values)
  BY OutputsEncoded
<1>2. /\ \A i \in 1..Len(values) : values[i] \in TransactionOutput
      /\ DOMAIN values = 1..Len(values) /\ [i \in 1..Len(values) |-> values[i]] = values
  BY TransactionParts, SliceParts
<1>3. ASSUME NEW i \in 1..Len(items), NEW j \in Nat \ {0}, Holds(d, j, items[i])
      PROVE  read[j].value = values[i] /\ read[j].next = j + Size(items[i])
  <2>1. values[i] \in TransactionOutput /\ items[i] = EncodeOutput(values[i])
    BY <1>1, <1>2 DEF Outputs
  <2>2. ReadOutput(d, j) = [value |-> values[i], next |-> j + Size(items[i])]
    BY <1>3, <2>1, OutputRead
  <2>3. read[j] = ReadOutput(d, j)
    OBVIOUS
  <2> HIDE DEF read, values
  <2> QED BY <2>2, <2>3
<1> HIDE DEF items, values, read
<1>4. ReadList(read, d, k) = [value |-> [i \in 1..Len(items) |-> values[i]],
                              next |-> k + Size(EncodeList(items))]
  <2>1. Holds(d, k, EncodeList(items))
    BY DEF items
  <2> QED BY <1>1, <1>3, <2>1, ListRead
<1> QED BY <1>1, <1>2, <1>4 DEF items, values, read

\* A transaction is encoded as four pieces.
LEMMA TransactionBytes ==
    ASSUME NEW t \in Transaction
    PROVE  /\ Quad(t.version) \in Bytes /\ Size(Quad(t.version)) = 4
           /\ Quad(t.lockTime) \in Bytes /\ Size(Quad(t.lockTime)) = 4
           /\ EncodeList(Inputs(t)) \in Bytes /\ EncodeList(Outputs(t)) \in Bytes
           /\ EncodeTransaction(t) = Join(Join(Join(Quad(t.version), EncodeList(Inputs(t))),
                                               EncodeList(Outputs(t))), Quad(t.lockTime))
           /\ EncodeTransaction(t) \in Bytes
<1>1. /\ Quad(t.version) \in Bytes /\ Size(Quad(t.version)) = 4
      /\ Quad(t.lockTime) \in Bytes /\ Size(Quad(t.lockTime)) = 4
  BY TransactionParts, QuadBytes
<1>2. EncodeList(Inputs(t)) \in Bytes /\ EncodeList(Outputs(t)) \in Bytes
  BY InputsEncoded, OutputsEncoded, ListBytes
<1>3. EncodeTransaction(t) = Join(Join(Join(Quad(t.version), EncodeList(Inputs(t))),
                                       EncodeList(Outputs(t))), Quad(t.lockTime))
  BY DEF EncodeTransaction, EncodeUint32, Inputs, Outputs, Join
<1>4. EncodeTransaction(t) \in Bytes
  <2>1. Join(Quad(t.version), EncodeList(Inputs(t))) \in Bytes
    BY <1>1, <1>2, JoinedSize
  <2>2. Join(Join(Quad(t.version), EncodeList(Inputs(t))), EncodeList(Outputs(t))) \in Bytes
    BY <1>2, <2>1, JoinedSize
  <2> QED BY <1>1, <1>3, <2>2, JoinedSize
<1> QED BY <1>1, <1>2, <1>3, <1>4

\* A transaction is read back.
LEMMA TransactionRead ==
    ASSUME NEW d \in Bytes, NEW k \in Nat \ {0}, NEW t \in Transaction,
           Holds(d, k, EncodeTransaction(t))
    PROVE  ReadTransaction(d, k) = [value |-> t, next |-> k + Size(EncodeTransaction(t))]
<1> DEFINE v == Quad(t.version)
           x == EncodeList(Inputs(t))
           y == EncodeList(Outputs(t))
           l == Quad(t.lockTime)
           i == ReadList([j \in Nat |-> ReadInput(d, j)], d, k + 4)
           o == ReadList([j \in Nat |-> ReadOutput(d, j)], d, i.next)
<1>1. /\ v \in Bytes /\ Size(v) = 4 /\ x \in Bytes /\ y \in Bytes /\ l \in Bytes /\ Size(l) = 4
      /\ EncodeTransaction(t) = Join(Join(Join(v, x), y), l)
  BY TransactionBytes
<1> HIDE DEF v, x, y, l
<1>2. Size(x) \in Nat /\ Size(y) \in Nat
  BY <1>1, BytesSize
<1>3. /\ Join(v, x) \in Bytes /\ Size(Join(v, x)) = 4 + Size(x)
      /\ Join(Join(v, x), y) \in Bytes /\ Size(Join(Join(v, x), y)) = 4 + Size(x) + Size(y)
      /\ Size(EncodeTransaction(t)) = 4 + Size(x) + Size(y) + 4
  <2>1. Join(v, x) \in Bytes /\ Size(Join(v, x)) = 4 + Size(x)
    BY <1>1, JoinedSize
  <2>2. Join(Join(v, x), y) \in Bytes /\ Size(Join(Join(v, x), y)) = 4 + Size(x) + Size(y)
    BY <1>1, <2>1, JoinedSize
  <2> QED BY <1>1, <2>1, <2>2, JoinedSize
<1>4. Holds(d, k, Join(Join(v, x), y)) /\ Holds(d, k + (4 + Size(x) + Size(y)), l)
  BY <1>1, <1>3, HoldsBoth
<1>5. Holds(d, k, Join(v, x)) /\ Holds(d, k + (4 + Size(x)), y)
  BY <1>1, <1>3, <1>4, HoldsBoth
<1>6. Holds(d, k, v) /\ Holds(d, k + 4, x)
  BY <1>1, <1>5, HoldsBoth
<1>7. FromQuad(d, k) = t.version
  BY <1>6, TransactionParts, QuadRead DEF v
<1>8. i.value = t.inputs /\ i.next = k + (4 + Size(x))
  <2>1. i = [value |-> t.inputs, next |-> (k + 4) + Size(x)]
    BY <1>6, InputsRead DEF x
  <2>2. (k + 4) + Size(x) = k + (4 + Size(x))
    BY <1>2
  <2> HIDE DEF i
  <2> QED BY <2>1, <2>2
<1>9. o.value = t.outputs /\ o.next = k + (4 + Size(x) + Size(y))
  <2>1. i.next \in Nat \ {0} /\ Holds(d, i.next, y)
    BY <1>2, <1>5, <1>8
  <2> HIDE DEF i
  <2>2. o = [value |-> t.outputs, next |-> i.next + Size(y)]
    BY <2>1, OutputsRead DEF y
  <2>3. i.next + Size(y) = k + (4 + Size(x) + Size(y))
    BY <1>2, <1>8
  <2> HIDE DEF o
  <2> QED BY <2>2, <2>3
<1>10. ReadTransaction(d, k) =
         [value |-> [version |-> FromQuad(d, k), inputs |-> i.value, outputs |-> o.value,
                     lockTime |-> FromQuad(d, o.next)],
          next |-> o.next + 4]
  BY DEF ReadTransaction
<1> HIDE DEF i, o
<1>11. FromQuad(d, o.next) = t.lockTime
  <2>1. o.next \in Nat \ {0} /\ Holds(d, o.next, l)
    BY <1>2, <1>4, <1>9
  <2> QED BY <2>1, TransactionParts, QuadRead DEF l
<1>12. o.next + 4 = k + Size(EncodeTransaction(t))
  BY <1>2, <1>3, <1>9
<1>13. [version |-> FromQuad(d, k), inputs |-> i.value, outputs |-> o.value,
        lockTime |-> FromQuad(d, o.next)] = t
  <2>1. t = [version |-> t.version, inputs |-> t.inputs,
             outputs |-> t.outputs, lockTime |-> t.lockTime]
    BY TransactionParts
  <2> QED BY <1>7, <1>8, <1>9, <1>11, <2>1
<1> QED BY <1>10, <1>12, <1>13

-----------------------------------------------------------------------------
(* A list of transactions under its header.                                 *)

\* The header is eight bytes.
LEMMA HeaderBytes == Header \in Bytes /\ Size(Header) = 8
<1>1. /\ 66 % Base \in Byte /\ 69 % Base \in Byte /\ 70 % Base \in Byte
      /\ 1 \in Byte /\ 0 \in Byte
  BY Widths
<1> QED BY <1>1 DEF Header, Bytes, Size

Encoded(list) == [k \in DOMAIN list |-> EncodeTransaction(list[k])]

\* What encodeTransactionsAsBEEF writes: the header and the list.
LEMMA BeefBytes ==
    ASSUME NEW list \in Slice(Transaction)
    PROVE  /\ Encoded(list) \in Slice(Bytes) /\ Len(Encoded(list)) = Len(list)
           /\ \A k \in 1..Len(list) : list[k] \in Transaction
                                      /\ Encoded(list)[k] = EncodeTransaction(list[k])
           /\ EncodeList(Encoded(list)) \in Bytes
           /\ EncodeTransactionsAsBEEF(list) = Join(Header, EncodeList(Encoded(list)))
           /\ EncodeTransactionsAsBEEF(list) \in Bytes
           /\ Size(EncodeTransactionsAsBEEF(list)) = 8 + Size(EncodeList(Encoded(list)))
<1>1. \A k \in DOMAIN list : list[k] \in Transaction
  BY SliceParts
<1>2. \A k \in DOMAIN list : Encoded(list)[k] \in Bytes
  BY <1>1, TransactionBytes DEF Encoded
<1>3. Encoded(list) = [k \in DOMAIN list |-> Encoded(list)[k]]
  BY DEF Encoded
<1>4. Encoded(list) \in Slice(Bytes) /\ Len(Encoded(list)) = Len(list)
  BY <1>2, <1>3, EncodedSlice
<1>5. \A k \in 1..Len(list) : list[k] \in Transaction
                              /\ Encoded(list)[k] = EncodeTransaction(list[k])
  BY SliceParts DEF Encoded
<1>6. EncodeList(Encoded(list)) \in Bytes
  BY <1>4, ListBytes
<1>7. EncodeTransactionsAsBEEF(list) = Join(Header, EncodeList(Encoded(list)))
  BY DEF EncodeTransactionsAsBEEF, Encoded, Join
<1>8. /\ EncodeTransactionsAsBEEF(list) \in Bytes
      /\ Size(EncodeTransactionsAsBEEF(list)) = 8 + Size(EncodeList(Encoded(list)))
  BY <1>6, <1>7, HeaderBytes, JoinedSize
<1> QED BY <1>4, <1>5, <1>6, <1>7, <1>8

\* Bytes hold themselves.
LEMMA WholeHeld == ASSUME NEW d \in Bytes PROVE Holds(d, 1, d)
BY DEF Holds, Bytes, Size

\* A reader of the format reads every list back, and reads to the end.
LEMMA BeefRead ==
    ASSUME NEW list \in Slice(Transaction), NEW d, d = EncodeTransactionsAsBEEF(list)
    PROVE  /\ ReadBEEF(d) = [value |-> list, next |-> Len(d) + 1]
           /\ SubSeq(d, 1, Len(Header)) = Header
<1> DEFINE items == Encoded(list)
           read == [j \in Nat |-> ReadTransaction(d, j)]
<1>1. /\ items \in Slice(Bytes) /\ Len(items) = Len(list) /\ EncodeList(items) \in Bytes
      /\ d = Join(Header, EncodeList(items)) /\ d \in Bytes
      /\ Size(d) = 8 + Size(EncodeList(items))
  BY BeefBytes
<1>2. \A k \in 1..Len(list) : list[k] \in Transaction /\ items[k] = EncodeTransaction(list[k])
  BY BeefBytes
<1> HIDE DEF items
<1>3. Holds(d, 1, Header) /\ Holds(d, 1 + 8, EncodeList(items))
  BY <1>1, WholeHeld, HoldsBoth, HeaderBytes
<1>4. ASSUME NEW i \in 1..Len(items), NEW j \in Nat \ {0}, Holds(d, j, items[i])
      PROVE  read[j].value = list[i] /\ read[j].next = j + Size(items[i])
  <2>1. list[i] \in Transaction /\ items[i] = EncodeTransaction(list[i])
    BY <1>1, <1>2
  <2>2. ReadTransaction(d, j) = [value |-> list[i], next |-> j + Size(items[i])]
    BY <1>1, <1>4, <2>1, TransactionRead
  <2>3. read[j] = ReadTransaction(d, j)
    OBVIOUS
  <2> HIDE DEF read
  <2> QED BY <2>2, <2>3
<1> HIDE DEF read
<1>5. ReadList(read, d, 9) = [value |-> [i \in 1..Len(items) |-> list[i]],
                              next |-> 9 + Size(EncodeList(items))]
  <2>1. 9 \in Nat \ {0} /\ Holds(d, 9, EncodeList(items))
    BY <1>3
  <2> QED BY <1>1, <1>4, <2>1, ListRead
<1>6. ReadBEEF(d) = ReadList(read, d, 9)
  <2>1. ReadBEEF(d) = ReadList(read, d, Len(Header) + 1)
    BY DEF ReadBEEF, read
  <2> DEFINE m == Len(Header)
  <2>2. ReadBEEF(d) = ReadList(read, d, m + 1) /\ m = 8
    BY <2>1, HeaderBytes DEF Size
  <2> HIDE DEF m
  <2> QED BY <2>2
<1>7. [i \in 1..Len(items) |-> list[i]] = list
  BY <1>1, SliceParts
<1>8. 9 + Size(EncodeList(items)) = Len(d) + 1
  <2>1. Len(d) = Size(d) /\ Size(EncodeList(items)) \in Nat
    BY <1>1, BytesSize DEF Size
  <2> QED BY <1>1, <2>1
<1>9. SubSeq(d, 1, Len(Header)) = Header
  <2>1. SubSeq(d, 1, 1 + Size(Header) - 1) = Header
    <3>1. 1 \in Nat \ {0} /\ d \in Bytes /\ Header \in Bytes
      BY <1>1, HeaderBytes
    <3> QED BY <1>3, <3>1, PartHeld, Zenon
  <2>2. 1 + Size(Header) - 1 = Size(Header)
    <3>1. Size(Header) = 8
      BY HeaderBytes
    <3> QED BY <3>1
  <2>3. Len(Header) = Size(Header)
    BY DEF Size
  <2> QED BY <2>1, <2>2, <2>3, Zenon
<1> QED BY <1>5, <1>6, <1>7, <1>8, <1>9

-----------------------------------------------------------------------------
(* What the code reads, whatever the bytes are.                             *)

\* What From leaves out and keeps.
LEMMA FromBytes ==
    ASSUME NEW d \in Bytes, NEW m \in Nat
    PROVE  /\ From(d, m) \in Bytes
           /\ Size(From(d, m)) = IF m <= Size(d) THEN Size(d) - m ELSE 0
           /\ \A j \in 1..Size(From(d, m)) : From(d, m)[j] = d[m + j]
<1> DEFINE last == Size(d)
           part == SubSeq(d, m + 1, last)
<1>1. last \in Nat /\ m + 1 \in Int /\ last \in Int
  BY BytesSize
<1>2. ASSUME NEW j \in (m + 1)..last PROVE d[j] \in Byte
  BY DEF Bytes, Size
<1>3. part = From(d, m)
  BY DEF From, Size
<1> HIDE DEF last
<1>4. SubSeq(d, m + 1, last) \in Seq(Byte)
  BY <1>1, <1>2, SubSeqProperties, Zenon
<1>5. Len(SubSeq(d, m + 1, last)) = IF m + 1 <= last THEN last - (m + 1) + 1 ELSE 0
  BY <1>1, <1>2, SubSeqProperties, Zenon
<1>6. \A j \in 1..last - (m + 1) + 1 : SubSeq(d, m + 1, last)[j] = d[(m + 1) + j - 1]
  BY <1>1, <1>2
<1> HIDE DEF part
<1>7. part \in Bytes
  BY <1>4 DEF part, Bytes
<1>8. Size(part) = IF m + 1 <= last THEN last - (m + 1) + 1 ELSE 0
  BY <1>5 DEF part, Size
<1>9. Size(part) = IF m <= last THEN last - m ELSE 0
  BY <1>1, <1>8
<1>10. \A j \in 1..Size(part) : part[j] = d[m + j]
  <2>1. TAKE j \in 1..Size(part)
  <2>2. j \in 1..last - (m + 1) + 1 /\ (m + 1) + j - 1 = m + j
    BY <1>1, <1>9
  <2>3. part[j] = d[(m + 1) + j - 1]
    BY <1>6, <2>2 DEF part
  <2> QED BY <2>2, <2>3
<1> QED BY <1>3, <1>7, <1>9, <1>10 DEF last

\* From keeps what stands after it.
LEMMA FromHolds ==
    ASSUME NEW d \in Bytes, NEW m \in Nat, NEW k \in Nat \ {0}, NEW s \in Bytes,
           Holds(d, m + k, s)
    PROVE  From(d, m) \in Bytes /\ Holds(From(d, m), k, s)
<1> DEFINE f == From(d, m)
<1>1. f \in Bytes /\ Size(f) = IF m <= Size(d) THEN Size(d) - m ELSE 0
  BY FromBytes
<1>2. \A j \in 1..Size(f) : f[j] = d[m + j]
  BY FromBytes
<1> HIDE DEF f
<1>3. Size(s) \in Nat /\ Size(d) \in Nat
  BY BytesSize
<1>4. (m + k) + Size(s) - 1 <= Size(d) /\ \A j \in 1..Size(s) : d[(m + k) + j - 1] = s[j]
  BY DEF Holds
<1>5. k + Size(s) - 1 <= Size(f)
  BY <1>1, <1>3, <1>4
<1>6. ASSUME NEW j \in 1..Size(s)
      PROVE  f[k + j - 1] = s[j]
  <2>1. k + j - 1 \in 1..Size(f) /\ (m + k) + j - 1 = m + (k + j - 1)
    BY <1>1, <1>3, <1>5
  <2> QED BY <1>2, <1>4, <2>1
<1> QED BY <1>1, <1>5, <1>6 DEF f, Holds

\* Any two bytes are a number of two.
LEMMA PairTyped ==
    ASSUME NEW d \in Bytes, NEW k \in Nat \ {0}, k + 1 <= Size(d)
    PROVE  FromPair(d, k) \in 0..(Two - 1)
<1>1. d[k] \in 0..(Base - 1) /\ d[k + 1] \in 0..(Base - 1)
  BY Widths DEF Bytes, Size
<1>2. Base \in Nat /\ Two = Base * Base
  BY Widths
<1> DEFINE a == d[k]
           b == d[k + 1]
<1> HIDE DEF a, b
<1>3. a + Base * b \in 0..(Base * Base - 1)
  BY <1>1, <1>2, Composed DEF a, b
<1> QED BY <1>2, <1>3 DEF a, b, FromPair

\* Any four are one of four.
LEMMA QuadTyped ==
    ASSUME NEW d \in Bytes, NEW k \in Nat \ {0}, k + 3 <= Size(d)
    PROVE  FromQuad(d, k) \in Uint32
<1>1. Two \in Nat /\ Four = Two * Two
  BY Widths
<1>2. FromPair(d, k) \in 0..(Two - 1)
  BY PairTyped, BytesSize
<1>3. FromPair(d, k + 2) \in 0..(Two - 1)
  <2>1. k + 2 \in Nat \ {0} /\ (k + 2) + 1 <= Size(d)
    BY BytesSize
  <2> QED BY <2>1, PairTyped
<1>4. FromPair(d, k) + Two * FromPair(d, k + 2) \in 0..(Two * Two - 1)
  BY <1>1, <1>2, <1>3, Composed
<1> QED BY <1>1, <1>4 DEF FromQuad, Uint32

\* Any eight are a number.
LEMMA OctTyped ==
    ASSUME NEW d \in Bytes, NEW k \in Nat \ {0}, k + 7 <= Size(d)
    PROVE  FromOct(d, k) \in Nat
<1>1. Four \in Nat
  BY Widths
<1>2. FromQuad(d, k) \in Nat
  BY QuadTyped, BytesSize, Widths DEF Uint32
<1>3. FromQuad(d, k + 4) \in Nat
  <2>1. k + 4 \in Nat \ {0} /\ (k + 4) + 3 <= Size(d)
    BY BytesSize
  <2> QED BY <2>1, QuadTyped, Widths DEF Uint32
<1>4. Four * FromQuad(d, k + 4) \in Nat
  BY <1>1, <1>3
<1> QED BY <1>2, <1>4 DEF FromOct

\* parseVarInt returns numbers, whatever it is given.
LEMMA VarIntTyped ==
    ASSUME NEW d \in Bytes
    PROVE  ParseVarInt(d)[1] \in Nat /\ ParseVarInt(d)[2] \in Nat
<1>1. Len(d) = Size(d) /\ Size(d) \in Nat
  BY BytesSize DEF Size
<1>2. d # <<>> => d[1] \in Nat
  <2>1. d # <<>> => d[1] \in Byte
    BY DEF Bytes
  <2> QED BY <2>1, Widths
<1>3. Size(d) >= 3 => FromPair(d, 2) \in Nat
  BY PairTyped, Widths
<1>4. Size(d) >= 5 => FromQuad(d, 2) \in Nat
  BY QuadTyped, Widths DEF Uint32
<1>5. Size(d) >= 9 => FromOct(d, 2) \in Nat
  BY OctTyped
<1> QED BY <1>1, <1>2, <1>3, <1>4, <1>5 DEF ParseVarInt

Errors == {"errBEEFTooShort", "errTransactionTooShort"}

\* So does parseTransaction, with one of its errors or none.
LEMMA TransactionTyped ==
    ASSUME NEW d \in Bytes
    PROVE  /\ ParseTransaction(d).error \in {"none", "panic"} \cup Errors
           /\ ParseTransaction(d).version \in Uint32 /\ ParseTransaction(d).inputs \in Nat
<1> DEFINE count == ParseVarInt(From(d, 4))[1]
<1>1. 0 \in Uint32 /\ 0 \in Nat
  BY Widths DEF Uint32
<1>2. Len(d) = Size(d) /\ Size(d) \in Nat
  BY BytesSize DEF Size
<1>3. count \in Nat
  BY FromBytes, VarIntTyped
<1>4. ParseUint32(d) \in Uint32
  <2>1. Size(d) >= 4 => FromQuad(d, 1) \in Uint32
    BY QuadTyped
  <2> QED BY <1>1, <1>2, <2>1 DEF ParseUint32
<1>5. ParseTransaction(d) \in {Failed("errTransactionTooShort"), Failed("panic"),
                               [error |-> "none", version |-> ParseUint32(d), inputs |-> count]}
  BY DEF ParseTransaction
<1> HIDE DEF count
<1> QED BY <1>1, <1>3, <1>4, <1>5 DEF Failed, Errors

\* So does parseTransactionFromBEEF.
LEMMA ParsedTyped ==
    ASSUME NEW d \in Bytes
    PROVE  /\ ParseTransactionFromBEEF(d).error \in {"none", "panic"} \cup Errors
           /\ ParseTransactionFromBEEF(d).version \in Uint32
           /\ ParseTransactionFromBEEF(d).inputs \in Nat
<1> DEFINE m == 8 + ParseVarInt(From(d, 8))[2]
<1>1. 0 \in Uint32 /\ 0 \in Nat
  BY Widths DEF Uint32
<1>2. m \in Nat
  <2>1. From(d, 8) \in Bytes
    BY FromBytes
  <2>2. ParseVarInt(From(d, 8))[2] \in Nat
    BY <2>1, VarIntTyped
  <2> QED BY <2>2
<1>3. \/ ParseTransactionFromBEEF(d) = Failed("errBEEFTooShort")
      \/ ParseTransactionFromBEEF(d) = ParseTransaction(From(d, m))
  BY DEF ParseTransactionFromBEEF
<1> HIDE DEF m
<1>4. From(d, m) \in Bytes
  BY <1>2, FromBytes
<1>5. CASE ParseTransactionFromBEEF(d) = Failed("errBEEFTooShort")
  BY <1>1, <1>5 DEF Failed, Errors
<1>6. CASE ParseTransactionFromBEEF(d) = ParseTransaction(From(d, m))
  BY <1>4, <1>6, TransactionTyped
<1> QED BY <1>3, <1>5, <1>6

-----------------------------------------------------------------------------
(* What the code reads of what was written.                                 *)

\* The start of bytes holds what they hold, as far as it goes.
LEMMA StartHolds ==
    ASSUME NEW w \in Bytes, NEW d \in Bytes, IsPrefix(d, w),
           NEW k \in Nat \ {0}, NEW s \in Bytes, Holds(w, k, s), k + Size(s) - 1 <= Size(d)
    PROVE  Holds(d, k, s)
<1>1. Size(d) \in Nat /\ Size(s) \in Nat /\ Size(w) \in Nat
  BY BytesSize
<1>2. Size(d) <= Size(w) /\ SubSeq(d, 1, Size(d)) = SubSeq(w, 1, Size(d))
  BY DEF IsPrefix, Size
<1>3. \A j \in 1..Size(d) : SubSeq(d, 1, Size(d))[j] = d[j]
  BY <1>1
<1>4. \A j \in 1..Size(d) : SubSeq(w, 1, Size(d))[j] = w[j]
  BY <1>1
<1>5. \A j \in 1..Size(d) : d[j] = w[j]
  BY <1>2, <1>3, <1>4
<1>6. ASSUME NEW j \in 1..Size(s)
      PROVE  d[k + j - 1] = s[j]
  <2>1. k + j - 1 \in 1..Size(d)
    BY <1>1
  <2>2. w[k + j - 1] = s[j]
    BY DEF Holds
  <2> QED BY <1>5, <2>1, <2>2
<1> QED BY <1>6 DEF Holds

\* What a transaction starts with.
LEMMA TransactionStart ==
    ASSUME NEW w \in Bytes, NEW k \in Nat \ {0}, NEW t \in Transaction,
           Holds(w, k, EncodeTransaction(t))
    PROVE  /\ Holds(w, k, Quad(t.version))
           /\ Len(t.inputs) \in Uint64 /\ Holds(w, k + 4, EncodeVarInt(Len(t.inputs)))
           /\ Size(EncodeTransaction(t)) >= 10
<1> DEFINE v == Quad(t.version)
           x == EncodeList(Inputs(t))
           y == EncodeList(Outputs(t))
           l == Quad(t.lockTime)
           n == Len(t.inputs)
<1>1. /\ v \in Bytes /\ Size(v) = 4 /\ x \in Bytes /\ y \in Bytes /\ l \in Bytes /\ Size(l) = 4
      /\ EncodeTransaction(t) = Join(Join(Join(v, x), y), l)
  BY TransactionBytes
<1>2. /\ n \in Uint64 /\ FlattenSeq(Inputs(t)) \in Bytes
      /\ x = Join(EncodeVarInt(n), FlattenSeq(Inputs(t)))
  BY InputsEncoded, ListBytes
<1>3. Size(y) >= 1
  <2> DEFINE m == Len(Outputs(t))
  <2>1. /\ m \in Uint64 /\ FlattenSeq(Outputs(t)) \in Bytes
        /\ y = Join(EncodeVarInt(m), FlattenSeq(Outputs(t)))
    BY OutputsEncoded, ListBytes
  <2> HIDE DEF m, y
  <2>2. EncodeVarInt(m) \in Bytes /\ Size(EncodeVarInt(m)) \in {1, 3, 5, 9}
    BY <2>1, VarIntBytes
  <2>3. Size(y) = Size(EncodeVarInt(m)) + Size(FlattenSeq(Outputs(t)))
    BY <2>1, <2>2, JoinedSize
  <2> QED BY <2>1, <2>2, <2>3, BytesSize
<1> HIDE DEF v, x, y, l, n
<1>4. EncodeVarInt(n) \in Bytes /\ Size(EncodeVarInt(n)) \in {1, 3, 5, 9}
  BY <1>2, VarIntBytes
<1>5. Size(x) >= 1 /\ Size(x) \in Nat /\ Size(y) \in Nat
  <2>1. Size(x) = Size(EncodeVarInt(n)) + Size(FlattenSeq(Inputs(t)))
    BY <1>2, <1>4, JoinedSize
  <2> QED BY <1>1, <1>2, <1>4, <2>1, BytesSize
<1>6. /\ Join(v, x) \in Bytes /\ Join(Join(v, x), y) \in Bytes
      /\ Size(EncodeTransaction(t)) = 4 + Size(x) + Size(y) + 4
  <2>1. Join(v, x) \in Bytes /\ Size(Join(v, x)) = 4 + Size(x)
    BY <1>1, JoinedSize
  <2>2. Join(Join(v, x), y) \in Bytes /\ Size(Join(Join(v, x), y)) = 4 + Size(x) + Size(y)
    BY <1>1, <2>1, JoinedSize
  <2> QED BY <1>1, <2>1, <2>2, JoinedSize
<1>7. Holds(w, k, Join(Join(v, x), y))
  BY <1>1, <1>6, HoldsBoth
<1>8. Holds(w, k, Join(v, x))
  BY <1>1, <1>6, <1>7, HoldsBoth
<1>9. Holds(w, k, v) /\ Holds(w, k + 4, x)
  BY <1>1, <1>8, HoldsBoth
<1>10. Holds(w, k + 4, EncodeVarInt(n))
  <2>1. k + 4 \in Nat \ {0}
    OBVIOUS
  <2> QED BY <1>2, <1>4, <1>9, <2>1, HoldsBoth
<1>11. Size(EncodeTransaction(t)) >= 10
  BY <1>3, <1>5, <1>6
<1> QED BY <1>2, <1>9, <1>10, <1>11 DEF v, n

\* Where the first of the transactions stands.
LEMMA FirstTransaction ==
    ASSUME NEW list \in Slice(Transaction), list # <<>>,
           NEW w, w = EncodeTransactionsAsBEEF(list), NEW e, e = EncodeVarInt(Len(list))
    PROVE  /\ Len(list) \in Uint64 /\ e \in Bytes /\ Size(e) \in {1, 3, 5, 9}
           /\ list[1] \in Transaction /\ w \in Bytes
           /\ Holds(w, 9, e) /\ Holds(w, 9 + Size(e), EncodeTransaction(list[1]))
<1> DEFINE items == Encoded(list)
           n == Len(list)
<1>1. /\ items \in Slice(Bytes) /\ Len(items) = n /\ EncodeList(items) \in Bytes
      /\ w = Join(Header, EncodeList(items)) /\ w \in Bytes
  BY BeefBytes
<1>2. \A k \in 1..n : list[k] \in Transaction /\ items[k] = EncodeTransaction(list[k])
  BY BeefBytes
<1>3. n \in Nat /\ n >= 1
  BY DEF Slice
<1>4. list[1] \in Transaction /\ items[1] = EncodeTransaction(list[1])
  BY <1>2, <1>3
<1> HIDE DEF items, n
<1>5. /\ items \in Seq(Bytes) /\ n \in Uint64 /\ FlattenSeq(items) \in Bytes
      /\ EncodeList(items) = Join(e, FlattenSeq(items))
  BY <1>1, ListBytes DEF n
<1>6. e \in Bytes /\ Size(e) \in {1, 3, 5, 9}
  BY <1>5, VarIntBytes DEF n
<1>7. Holds(w, 1, Header) /\ Holds(w, 1 + 8, EncodeList(items))
  BY <1>1, WholeHeld, HoldsBoth, HeaderBytes
<1>8. Holds(w, 9, e) /\ Holds(w, 9 + Size(e), FlattenSeq(items))
  <2>1. 9 \in Nat \ {0} /\ Holds(w, 9, Join(e, FlattenSeq(items)))
    BY <1>5, <1>7
  <2> QED BY <1>1, <1>5, <1>6, <2>1, HoldsBoth
<1>9. Holds(w, 9 + Size(e), items[1])
  <2> DEFINE k == 9 + Size(e)
  <2>1. k \in Nat \ {0}
    BY <1>6
  <2> HIDE DEF k
  <2>2. Holds(w, k, FlattenSeq(items))
    BY <1>8 DEF k
  <2>3. PICK at : at[0] = k /\ \A i \in 1..Len(items) : Holds(w, at[i - 1], items[i])
    BY <1>1, <1>5, <2>1, <2>2, ItemsHeld
  <2>4. 1 \in 1..Len(items) /\ 1 - 1 = 0
    BY <1>1, <1>3
  <2>5. Holds(w, at[1 - 1], items[1])
    BY <2>3, <2>4
  <2> QED BY <2>3, <2>4, <2>5 DEF k
<1> QED BY <1>1, <1>4, <1>5, <1>6, <1>8, <1>9 DEF n

\* A number of four bytes is encoded in five at most.
LEMMA VarIntSmall ==
    ASSUME NEW v \in Uint32
    PROVE  v \in Uint64 /\ EncodeVarInt(v) \in Bytes /\ Size(EncodeVarInt(v)) \in {1, 3, 5}
<1>1. /\ v \in Nat /\ v < Four /\ Two \in Nat /\ Four \in Nat /\ Next2 \in Nat
      /\ v \in Uint64 /\ Next2 \in Byte /\ Next4 \in Byte
  BY Widths DEF Uint32, Uint64
<1>2. CASE v < Next2
  <2>1. EncodeVarInt(v) = <<v>> /\ v \in Byte
    BY <1>1, <1>2, Widths DEF EncodeVarInt
  <2> QED BY <1>1, <2>1, Announced, EmptyBytes
<1>3. CASE ~(v < Next2) /\ v < Two
  <2>1. EncodeVarInt(v) = Join(<<Next2>>, Pair(v)) /\ v \in 0..(Two - 1)
    BY <1>1, <1>3 DEF EncodeVarInt, Join
  <2>2. Pair(v) \in Bytes /\ Size(Pair(v)) = 2
    BY <2>1, PairBytes
  <2> QED BY <1>1, <2>1, <2>2, Announced
<1>4. CASE ~(v < Next2) /\ ~(v < Two)
  <2>1. EncodeVarInt(v) = Join(<<Next4>>, Quad(v))
    BY <1>1, <1>4 DEF EncodeVarInt, Join
  <2>2. Quad(v) \in Bytes /\ Size(Quad(v)) = 4
    BY QuadBytes
  <2> QED BY <1>1, <2>1, <2>2, Announced
<1> QED BY <1>2, <1>3, <1>4

\* The code reads the first transaction of what starts, and no further, like what was
\* written, or says that it is too short.
LEMMA WrittenIsRead ==
    ASSUME NEW list \in Slice(Transaction), list # <<>>,
           Len(list[1].inputs) < Four, Len(list[1].inputs) <= MaxInputs,
           NEW w, w = EncodeTransactionsAsBEEF(list), NEW d \in Bytes, IsPrefix(d, w)
    PROVE  /\ ParseTransactionFromBEEF(d).error \in {"none"} \cup Errors
           /\ ParseTransactionFromBEEF(d).error = "none" =>
                  /\ ParseTransactionFromBEEF(d).version = list[1].version
                  /\ ParseTransactionFromBEEF(d).inputs = Len(list[1].inputs)
           /\ d = w => ParseTransactionFromBEEF(d).error = "none"
<1> DEFINE t == list[1]
           n == Len(t.inputs)
           e == EncodeVarInt(Len(list))
           x == EncodeVarInt(n)
           read == ParseVarInt(From(d, 8))[2]
           m == 8 + read
           q == From(d, m)
           p == ParseTransactionFromBEEF(d)
<1>1. /\ Len(list) \in Uint64 /\ e \in Bytes /\ Size(e) \in {1, 3, 5, 9}
      /\ t \in Transaction /\ w \in Bytes
      /\ Holds(w, 9, e) /\ Holds(w, 9 + Size(e), EncodeTransaction(t))
  BY FirstTransaction
<1>2. t.version \in Uint32 /\ n \in Nat /\ n < Four /\ n <= MaxInputs /\ n \in Uint32
  <2>1. t.version \in Uint32 /\ t.inputs \in Slice(TransactionInput)
    BY <1>1, TransactionParts
  <2>2. n \in Nat
    BY <2>1, SliceParts
  <2>3. n < Four /\ n <= MaxInputs
    OBVIOUS
  <2> HIDE DEF n, t
  <2>4. n \in 0..(Four - 1)
    BY <2>2, <2>3, Widths
  <2> QED BY <2>1, <2>2, <2>3, <2>4 DEF Uint32
<1>3. p = IF Len(d) < 8 THEN Failed("errBEEFTooShort") ELSE ParseTransaction(q)
  BY DEF ParseTransactionFromBEEF
<1>4. Len(d) = Size(d) /\ Size(d) \in Nat /\ Size(w) \in Nat
  BY <1>1, BytesSize DEF Size
<1> HIDE DEF t, n, e, x, p
<1>5. x \in Bytes /\ Size(x) \in {1, 3, 5} /\ n \in Uint64
  BY <1>2, VarIntSmall DEF x
<1>6. /\ Holds(w, 9 + Size(e), Quad(t.version))
      /\ Holds(w, (9 + Size(e)) + 4, x)
      /\ Size(EncodeTransaction(t)) >= 10 /\ Size(EncodeTransaction(t)) \in Nat
  <2> DEFINE k == 9 + Size(e)
  <2>1. k \in Nat \ {0} /\ Holds(w, k, EncodeTransaction(t))
    BY <1>1
  <2> HIDE DEF k
  <2>2. /\ Holds(w, k, Quad(t.version)) /\ Holds(w, k + 4, x)
        /\ Size(EncodeTransaction(t)) >= 10
    BY <1>1, <2>1, TransactionStart DEF x, n
  <2>3. Size(EncodeTransaction(t)) \in Nat
    BY <1>1, TransactionBytes, BytesSize
  <2> QED BY <2>2, <2>3 DEF k
<1>7. (9 + Size(e)) + Size(EncodeTransaction(t)) - 1 <= Size(w)
  BY <1>1 DEF Holds
<1>8. Size(w) >= 18 + Size(e)
  <2>1. Size(e) \in Nat /\ Size(w) \in Nat /\ Size(EncodeTransaction(t)) \in Nat
    BY <1>1, <1>4, <1>6
  <2> DEFINE b == Size(EncodeTransaction(t))
  <2>2. b >= 10 /\ (9 + Size(e)) + b - 1 <= Size(w) /\ b \in Nat
    BY <1>6, <1>7
  <2> HIDE DEF b
  <2> QED BY <2>1, <2>2
<1>9. read \in Nat /\ m \in Nat
  <2>1. From(d, 8) \in Bytes
    BY FromBytes
  <2>2. read \in Nat
    BY <2>1, VarIntTyped
  <2> HIDE DEF read
  <2> QED BY <2>2
<1> HIDE DEF read
<1>10. q \in Bytes /\ Size(q) = (IF m <= Size(d) THEN Size(d) - m ELSE 0) /\ Len(q) = Size(q)
  BY <1>9, FromBytes DEF Size
<1>11. CASE Size(d) < 8
  <2>1. p = Failed("errBEEFTooShort") /\ d # w
    BY <1>1, <1>3, <1>4, <1>8, <1>11
  <2> QED BY <2>1 DEF p, Failed, Errors
<1>12. ASSUME Size(d) >= 8, Size(q) < 10
       PROVE  p = Failed("errTransactionTooShort")
  <2>1. p = ParseTransaction(q)
    BY <1>3, <1>4, <1>12
  <2>2. Len(q) < 10
    BY <1>10, <1>12
  <2> QED BY <1>12, <2>1, <2>2 DEF ParseTransaction
<1>13. CASE Size(d) >= 8 /\ Size(d) < 8 + Size(e)
  <2>1. Size(q) < 10 /\ d # w
    BY <1>1, <1>4, <1>8, <1>9, <1>10, <1>13
  <2>2. p = Failed("errTransactionTooShort")
    BY <1>12, <1>13, <2>1
  <2> QED BY <2>1, <2>2 DEF p, Failed, Errors
<1>14. CASE Size(d) >= 8 + Size(e)
  <2>1. read = Size(e)
    <3>1. Holds(d, 9, e)
      <4>1. 9 \in Nat \ {0} /\ 9 + Size(e) - 1 <= Size(d)
        BY <1>1, <1>4, <1>14
      <4> QED BY <1>1, <4>1, StartHolds
    <3>2. From(d, 8) \in Bytes /\ Holds(From(d, 8), 1, e)
      BY <1>1, <3>1, FromHolds
    <3>3. ParseVarInt(From(d, 8)) = <<Len(list), Size(e)>>
      BY <1>1, <3>2, VarIntParsed DEF e
    <3> QED BY <3>3 DEF read
  <2>2. Size(q) = Size(d) - (8 + Size(e)) /\ Size(d) >= 8 /\ p = ParseTransaction(q)
    BY <1>1, <1>3, <1>4, <1>9, <1>10, <1>14, <2>1
  <2>3. CASE Size(q) < 10
    <3>1. d # w
      BY <1>1, <1>4, <1>8, <2>2, <2>3
    <3>2. p = Failed("errTransactionTooShort")
      BY <1>12, <2>2, <2>3
    <3> QED BY <3>1, <3>2 DEF p, Failed, Errors
  <2>4. CASE Size(q) >= 10
    <3> DEFINE count == ParseVarInt(From(q, 4))[1]
               k == m + 1
    <3>0. k = 9 + Size(e) /\ k \in Nat \ {0} /\ Size(d) >= k + 9
      BY <1>1, <1>4, <2>1, <2>2, <2>4
    <3>1. Quad(t.version) \in Bytes /\ Size(Quad(t.version)) = 4
      BY <1>2, QuadBytes
    <3> HIDE DEF k
    <3>2. Holds(d, k, Quad(t.version))
      <4>1. Holds(w, k, Quad(t.version)) /\ k + Size(Quad(t.version)) - 1 <= Size(d)
        BY <1>4, <1>6, <3>0, <3>1
      <4> QED BY <1>1, <3>0, <3>1, <4>1, StartHolds
    <3>3. Holds(d, k + 4, x)
      <4>1. Holds(w, k + 4, x) /\ k + 4 \in Nat \ {0} /\ (k + 4) + Size(x) - 1 <= Size(d)
        BY <1>4, <1>5, <1>6, <3>0
      <4> QED BY <1>1, <1>5, <4>1, StartHolds
    <3>4. Holds(q, 1, Quad(t.version))
      <4>1. Holds(d, m + 1, Quad(t.version))
        BY <3>2 DEF k
      <4> HIDE DEF m
      <4> QED BY <1>9, <3>1, <4>1, FromHolds
    <3>5. Holds(q, 5, x)
      <4>1. Holds(d, m + 5, x)
        <5>1. k + 4 = m + 5
          BY <1>9 DEF k
        <5> QED BY <3>3, <5>1
      <4> HIDE DEF m
      <4> QED BY <1>5, <1>9, <4>1, FromHolds
    <3> HIDE DEF m, q
    <3>6. ParseUint32(q) = t.version
      <4>1. FromQuad(q, 1) = t.version
        <5>1. q \in Bytes /\ t.version \in Uint32 /\ 1 \in Nat \ {0}
          BY <1>2, <1>10
        <5> QED BY <3>4, <5>1, QuadRead, Zenon
      <4>2. ~(Size(q) < 4)
        BY <1>10, <2>4, BytesSize
      <4>3. ParseUint32(q) = IF Size(q) < 4 THEN 0 ELSE FromQuad(q, 1)
        BY DEF ParseUint32, Size
      <4> QED BY <4>1, <4>2, <4>3
    <3>7. count = n
      <4>1. From(q, 4) \in Bytes /\ Holds(From(q, 4), 1, x)
        BY <1>5, <1>10, <3>5, FromHolds
      <4>2. ParseVarInt(From(q, 4)) = <<n, Size(x)>>
        BY <1>5, <4>1, VarIntParsed DEF x
      <4> QED BY <4>2
    <3>8. ParseTransaction(q) = [error |-> "none", version |-> ParseUint32(q), inputs |-> count]
      <4>1. ~(Len(q) < 10)
        BY <1>10, <2>4
      <4>2. ~(count > MaxInputs)
        BY <1>2, <3>7, Widths
      <4> QED BY <4>1, <4>2 DEF ParseTransaction
    <3> HIDE DEF count
    <3>9. p.error = "none" /\ p.version = t.version /\ p.inputs = n
      BY <2>2, <3>6, <3>7, <3>8
    <3> QED BY <3>9 DEF p, t, n, Errors
  <2> QED BY <1>10, <2>2, <2>3, <2>4, BytesSize
<1>15. Size(d) < 8 \/ (Size(d) >= 8 /\ Size(d) < 8 + Size(e)) \/ Size(d) >= 8 + Size(e)
  BY <1>1, <1>4
<1> QED BY <1>11, <1>13, <1>14, <1>15

-----------------------------------------------------------------------------
(* The transactions that are made.                                          *)

\* calculateTransactionHash makes thirty-two bytes.
LEMMA HashTyped ==
    ASSUME NEW t, t.version \in Uint32, t.inputs \in Nat
    PROVE  CalculateTransactionHash(t) \in Hash
<1> DEFINE a == <<t.inputs % Base, 0>>
           b == [k \in 1..26 |-> (k + 5) % Base]
           h == CalculateTransactionHash(t)
<1>1. Quad(t.version) \in Bytes /\ Size(Quad(t.version)) = 4
  BY QuadBytes
<1>2. a \in Bytes /\ Size(a) = 2
  <2>1. t.inputs % Base \in Byte /\ 0 \in Byte
    BY Widths
  <2> QED BY <2>1 DEF Bytes, Size
<1>3. b \in Bytes /\ Size(b) = 26
  <2>1. \A k \in 1..26 : (k + 5) % Base \in Byte
    BY Widths
  <2> QED BY <2>1 DEF Bytes, Size
<1>4. h = Join(Join(Quad(t.version), a), b)
  BY DEF CalculateTransactionHash, Join
<1> HIDE DEF a, b, h
<1>5. h \in Bytes /\ Size(h) = 32
  <2>1. Join(Quad(t.version), a) \in Bytes /\ Size(Join(Quad(t.version), a)) = 6
    BY <1>1, <1>2, JoinedSize
  <2> QED BY <1>3, <1>4, <2>1, JoinedSize
<1>6. h \in [1..Len(h) -> Byte] /\ Len(h) = 32
  BY <1>5, LenProperties DEF Bytes, Size
<1> QED BY <1>6 DEF h, Hash

\* A few bytes are a slice.
LEMMA SmallSlice ==
    ASSUME NEW s \in Bytes, Size(s) < 256
    PROVE  s \in Slice(Byte)
BY Widths DEF Bytes, Size, Slice

\* So are the two scripts.
LEMMA ScriptsTyped ==
    CreateSimpleLockingScript \in Slice(Byte) /\ CreateRevocationScriptSig \in Slice(Byte)
<1> DEFINE a == <<118 % Base, 169 % Base, 20 % Base>>
           b == [k \in 1..20 |-> (k - 1) % Base]
           c == <<136 % Base, 172 % Base>>
           s == CreateSimpleLockingScript
<1>1. a \in Bytes /\ Size(a) = 3
  <2>1. 118 % Base \in Byte /\ 169 % Base \in Byte /\ 20 % Base \in Byte
    BY Widths
  <2> QED BY <2>1 DEF Bytes, Size
<1>2. b \in Bytes /\ Size(b) = 20
  <2>1. \A k \in 1..20 : (k - 1) % Base \in Byte
    BY Widths
  <2> QED BY <2>1 DEF Bytes, Size
<1>3. c \in Bytes /\ Size(c) = 2
  <2>1. 136 % Base \in Byte /\ 172 % Base \in Byte
    BY Widths
  <2> QED BY <2>1 DEF Bytes, Size
<1>4. s = Join(Join(a, b), c)
  BY DEF CreateSimpleLockingScript, Join
<1> HIDE DEF a, b, c, s
<1>5. s \in Bytes /\ Size(s) = 25
  <2>1. Join(a, b) \in Bytes /\ Size(Join(a, b)) = 23
    BY <1>1, <1>2, JoinedSize
  <2> QED BY <1>3, <1>4, <2>1, JoinedSize
<1>6. CreateRevocationScriptSig \in Bytes /\ Size(CreateRevocationScriptSig) = 5
  <2>1. /\ 71 % Base \in Byte /\ 48 % Base \in Byte /\ 68 % Base \in Byte
        /\ 2 \in Byte /\ 32 % Base \in Byte
    BY Widths
  <2> QED BY <2>1 DEF CreateRevocationScriptSig, Bytes, Size
<1> QED BY <1>5, <1>6, SmallSlice DEF s

\* So is one thing.
LEMMA SingleSlice == ASSUME NEW S, NEW x \in S PROVE <<x>> \in Slice(S)
BY Widths DEF Slice

\* A revocation transaction is one that can be encoded.
LEMMA SpendingTyped ==
    ASSUME NEW ad, ad.index \in Uint32,
           NEW original, original.version \in Uint32, original.inputs \in Nat
    PROVE  Spending(ad, original) \in Transaction
<1> DEFINE i == [hash |-> CalculateTransactionHash(original), index |-> ad.index,
                 script |-> CreateRevocationScriptSig, sequence |-> Four - 1]
           o == [value |-> 1, script |-> CreateSimpleLockingScript]
<1>1. 0 \in Uint32 /\ 1 \in Uint32 /\ Four - 1 \in Uint32 /\ 1 \in Uint64
  BY Widths DEF Uint32, Uint64
<1>2. i \in TransactionInput
  BY <1>1, HashTyped, ScriptsTyped DEF TransactionInput
<1>3. o \in TransactionOutput
  BY <1>1, ScriptsTyped DEF TransactionOutput
<1>4. Spending(ad, original) = [version |-> 1, inputs |-> <<i>>, outputs |-> <<o>>, lockTime |-> 0]
  BY DEF Spending
<1> HIDE DEF i, o
<1>5. <<i>> \in Slice(TransactionInput) /\ <<o>> \in Slice(TransactionOutput)
  BY <1>2, <1>3, SingleSlice
<1> QED BY <1>1, <1>4, <1>5 DEF Transaction

\* Its one input spends the index of the advertisement.
LEMMA SpendingSpends ==
    ASSUME NEW ad, NEW original
    PROVE  /\ Len(Spending(ad, original).inputs) = 1
           /\ Spending(ad, original).inputs[1].index = ad.index
           /\ Spending(ad, original).inputs[1].hash = CalculateTransactionHash(original)
BY DEF Spending

\* What the assumption says of a request.
LEMMA RequestParts ==
    ASSUME NEW r \in Requests
    PROVE  /\ Len(r) \in Nat /\ Len(r) < Eight /\ DOMAIN r = 1..Len(r)
           /\ \A k \in 1..Len(r) : IsAdvertisement(r[k])
<1>1. r \in Slice(Range(r)) /\ \A k \in DOMAIN r : IsAdvertisement(r[k])
  BY RequestsOK
<1>2. Len(r) \in Nat /\ DOMAIN r = 1..Len(r)
  BY <1>1, SliceParts
<1>3. Len(r) < Eight
  BY <1>1 DEF Slice
<1> QED BY <1>1, <1>2, <1>3

-----------------------------------------------------------------------------
(* The call.                                                                *)

Parsed(k) == ParseTransactionFromBEEF(ads[k].beef)

\* What the call has made and how it ended follow from what it read.
Progress ==
    /\ pc = "called" => transactions = <<>>
    /\ pc # "returned" => result = "ok" /\ bundle = <<>>
    /\ \A k \in 1..Len(transactions) :
         Parsed(k).error = "none" /\ transactions[k] = Spending(ads[k], Parsed(k))
    /\ pc = "panicked" =>
         Len(transactions) < Len(ads) /\ Parsed(Len(transactions) + 1).error = "panic"
    /\ result \in Errors =>
         Len(transactions) < Len(ads) /\ Parsed(Len(transactions) + 1).error = result
    /\ bundle # <<>> =>
         Len(transactions) = Len(ads) /\ bundle = EncodeTransactionsAsBEEF(transactions)

Inv == TypeOK /\ Progress

\* A call begins so.
LEMMA InitInv == Init => Inv
<1> SUFFICES ASSUME Init PROVE Inv
  OBVIOUS
<1>1. Len(ads) \in Nat
  BY RequestParts DEF Init
<1>2. TypeOK
  BY <1>1 DEF Init, TypeOK, Bytes
<1>3. Progress
  BY DEF Init, Progress, Errors
<1> QED BY <1>2, <1>3 DEF Inv

\* Looking at the advertisements.
LEMMA RevokeKeeps ==
    ASSUME Inv, RevokeAdvertisements
    PROVE  Inv'
<1>1. /\ pc = "called" /\ transactions = <<>> /\ result = "ok" /\ bundle = <<>>
      /\ ads \in Requests /\ UNCHANGED <<ads, transactions>>
  BY DEF Inv, TypeOK, Progress, RevokeAdvertisements
<1>2. \/ /\ pc' = "returned" /\ bundle' = <<>>
         /\ result' \in {"errNoAdvertisements", "errMissingBeefData", "errMissingOutputIndex"}
      \/ pc' = "creating" /\ UNCHANGED <<bundle, result>>
  BY DEF RevokeAdvertisements, Returns, Unrevocable
<1>3. Len(ads) \in Nat
  BY <1>1, RequestParts
<1>4. TypeOK'
  BY <1>1, <1>2, <1>3 DEF Inv, TypeOK, Bytes
<1>5. Progress'
  BY <1>1, <1>2 DEF Progress, Errors
<1> QED BY <1>4, <1>5 DEF Inv

\* One turn of the loop: the BEEF is read, and its transaction is made.
LEMMA CreateKeeps ==
    ASSUME Inv, CreateSingleNewRevocationTransaction
    PROVE  Inv'
<1> DEFINE at == Len(transactions) + 1
           made == Spending(ads[at], Parsed(at))
<1>1. /\ pc = "creating" /\ result = "ok" /\ bundle = <<>> /\ ads' = ads /\ ads \in Requests
      /\ transactions \in Seq(Transaction) /\ Len(transactions) < Len(ads)
  BY DEF Inv, TypeOK, Progress, CreateSingleNewRevocationTransaction
<1>2. \A k \in 1..Len(transactions) :
        Parsed(k).error = "none" /\ transactions[k] = Spending(ads[k], Parsed(k))
  BY DEF Inv, Progress
<1>3. Len(ads) \in Nat /\ Len(transactions) \in Nat /\ at \in 1..Len(ads)
  BY <1>1, RequestParts
<1>4. ads[at].beef \in Bytes /\ ads[at].index \in Uint32
  BY <1>1, <1>3, RequestParts DEF IsAdvertisement
<1>5. /\ Parsed(at).error \in {"none", "panic"} \cup Errors
      /\ Parsed(at).version \in Uint32 /\ Parsed(at).inputs \in Nat
  BY <1>4, ParsedTyped DEF Parsed
<1>6. made \in Transaction
  BY <1>4, <1>5, SpendingTyped
<1>7. \/ /\ Parsed(at).error = "none" /\ transactions' = Append(transactions, made)
         /\ UNCHANGED <<pc, result, bundle>>
      \/ /\ Parsed(at).error = "panic" /\ pc' = "panicked"
         /\ UNCHANGED <<transactions, result, bundle>>
      \/ /\ Parsed(at).error \notin {"none", "panic"} /\ pc' = "returned" /\ bundle' = <<>>
         /\ result' = Parsed(at).error /\ UNCHANGED transactions
  BY DEF CreateSingleNewRevocationTransaction, Parsed, Returns
<1>8. \A k : Parsed(k)' = Parsed(k)
  BY <1>1 DEF Parsed
<1> HIDE DEF made
<1>9. CASE /\ Parsed(at).error = "none" /\ transactions' = Append(transactions, made)
           /\ UNCHANGED <<pc, result, bundle>>
  <2>1. /\ transactions' \in Seq(Transaction) /\ Len(transactions') = at
        /\ \A k \in 1..Len(transactions) : transactions'[k] = transactions[k]
        /\ transactions'[at] = made
    BY <1>1, <1>6, <1>9
  <2>2. TypeOK'
    BY <1>1, <1>3, <1>9, <2>1 DEF Inv, TypeOK
  <2>3. ASSUME NEW k \in 1..at
        PROVE  Parsed(k).error = "none" /\ transactions'[k] = Spending(ads[k], Parsed(k))
    <3>1. CASE k = at
      BY <1>9, <2>1, <3>1 DEF made
    <3>2. CASE k # at
      <4>1. k \in 1..Len(transactions)
        BY <1>3, <3>2
      <4> QED BY <1>2, <2>1, <4>1
    <3> QED BY <3>1, <3>2
  <2>4. pc' = "creating" /\ result' = "ok" /\ bundle' = <<>>
    BY <1>1, <1>9
  <2>5. Progress'
    BY <1>1, <1>8, <2>1, <2>3, <2>4 DEF Progress, Errors
  <2> QED BY <2>2, <2>5 DEF Inv
<1>10. CASE /\ Parsed(at).error = "panic" /\ pc' = "panicked"
            /\ UNCHANGED <<transactions, result, bundle>>
  <2>1. TypeOK'
    BY <1>1, <1>10 DEF Inv, TypeOK
  <2>2. result' = "ok" /\ bundle' = <<>> /\ transactions' = transactions
    BY <1>1, <1>10
  <2>3. Progress'
    BY <1>1, <1>2, <1>8, <1>10, <2>2 DEF Progress, Errors
  <2> QED BY <2>1, <2>3 DEF Inv
<1>11. CASE /\ Parsed(at).error \notin {"none", "panic"} /\ pc' = "returned" /\ bundle' = <<>>
            /\ result' = Parsed(at).error /\ UNCHANGED transactions
  <2>1. result' \in Errors
    BY <1>5, <1>11
  <2>2. TypeOK'
    BY <1>1, <1>11, <2>1 DEF Inv, TypeOK, Errors, Bytes
  <2>3. Progress'
    BY <1>1, <1>2, <1>8, <1>11, <2>1 DEF Progress
  <2> QED BY <2>2, <2>3 DEF Inv
<1> QED BY <1>7, <1>9, <1>10, <1>11

\* Encoding what was made.
LEMMA EncodeKeeps ==
    ASSUME Inv, Encode
    PROVE  Inv'
<1>1. /\ pc = "creating" /\ ads \in Requests /\ transactions \in Seq(Transaction)
      /\ Len(transactions) = Len(ads) /\ UNCHANGED <<ads, transactions>>
      /\ pc' = "returned" /\ result' = "ok" /\ bundle' = EncodeTransactionsAsBEEF(transactions)
  BY DEF Inv, TypeOK, Encode, Returns
<1>2. \A k \in 1..Len(transactions) :
        Parsed(k).error = "none" /\ transactions[k] = Spending(ads[k], Parsed(k))
  BY DEF Inv, Progress
<1>3. transactions \in Slice(Transaction)
  BY <1>1, RequestParts DEF Slice
<1>4. bundle' \in Bytes
  BY <1>1, <1>3, BeefBytes
<1>5. TypeOK'
  BY <1>1, <1>4 DEF Inv, TypeOK
<1>6. \A k : Parsed(k)' = Parsed(k)
  BY <1>1 DEF Parsed
<1>7. Progress'
  BY <1>1, <1>2, <1>6 DEF Progress, Errors
<1> QED BY <1>5, <1>7 DEF Inv

\* Every call, at every step.
LEMMA Invariance == Spec => []Inv
<1>1. Init => Inv
  BY InitInv
<1>2. Inv /\ [Next]_vars => Inv'
  <2>1. CASE UNCHANGED vars
    BY <2>1 DEF vars, Inv, TypeOK, Progress, Parsed
  <2>2. CASE Next
    BY <2>2, RevokeKeeps, CreateKeeps, EncodeKeeps DEF Next
  <2> QED BY <2>1, <2>2
<1> QED BY <1>1, <1>2, PTL DEF Spec

\* Types: the call goes through its advertisements in order, and what it makes and
\* returns are transactions and bytes, for any width of a byte and any requests.
THEOREM TypeCorrect == Spec => []TypeOK
<1>1. Inv => TypeOK
  BY DEF Inv
<1> QED BY <1>1, Invariance, PTL

\* An advertisement whose BEEF was written.
LEMMA OneWritten ==
    ASSUME NEW k \in 1..Len(ads), ads \in Requests, IsWritten(ads[k])
    PROVE  /\ Parsed(k).error \in {"none"} \cup Errors
           /\ Parsed(k).error = "none" =>
                  /\ Parsed(k).version = ads[k].source[1].version
                  /\ Parsed(k).inputs = Len(ads[k].source[1].inputs)
           /\ ads[k].beef = Written(ads[k]) => Parsed(k).error = "none"
           /\ ReadBEEF(Written(ads[k])).value = ads[k].source
<1> DEFINE ad == ads[k]
           list == ad.source
           w == Written(ad)
<1>1. IsAdvertisement(ad)
  BY RequestParts
<1>2. /\ list \in Slice(Transaction) /\ list # <<>> /\ ad.beef \in Bytes
      /\ IsPrefix(ad.beef, w) /\ w = EncodeTransactionsAsBEEF(list)
  BY <1>1 DEF IsAdvertisement, IsWritten, Written
<1>3. Len(list[1].inputs) < Four /\ Len(list[1].inputs) <= MaxInputs
  <2>1. \A j \in DOMAIN list : Len(list[j].inputs) < Four /\ Len(list[j].inputs) <= MaxInputs
    BY <1>1 DEF IsAdvertisement
  <2>2. 1 \in DOMAIN list
    BY <1>2 DEF Slice
  <2> QED BY <2>1, <2>2
<1>4. ReadBEEF(w).value = list
  BY <1>2, BeefRead
<1>5. Parsed(k) = ParseTransactionFromBEEF(ad.beef)
  BY DEF Parsed
<1> HIDE DEF ad, w
<1> QED BY <1>2, <1>3, <1>4, <1>5, WrittenIsRead DEF ad, w

\* However short the BEEF that was written for an advertisement is cut, the code refuses
\* it or takes the version and the number of inputs that a reader of the format
\* reads; it never refuses a whole one, and never panics at one.
THEOREM ReadsBack == Spec => []ReadsWhatWasWritten
<1>1. Inv => ReadsWhatWasWritten
  <2> SUFFICES ASSUME Inv PROVE ReadsWhatWasWritten
    OBVIOUS
  <2> DEFINE at == Len(transactions) + 1
  <2>1. /\ ads \in Requests /\ transactions \in Seq(Transaction)
        /\ Len(transactions) <= Len(ads) /\ Len(ads) \in Nat
    BY RequestParts DEF Inv, TypeOK
  <2>2. ASSUME NEW k \in DOMAIN transactions, IsWritten(ads[k])
        PROVE  transactions[k].inputs[1].hash =
                 CalculateTransactionHash(
                   [version |-> ReadBEEF(Written(ads[k])).value[1].version,
                    inputs |-> Len(ReadBEEF(Written(ads[k])).value[1].inputs)])
    <3>1. k \in 1..Len(transactions) /\ k \in 1..Len(ads)
      BY <2>1
    <3>2. Parsed(k).error = "none" /\ transactions[k] = Spending(ads[k], Parsed(k))
      BY <3>1 DEF Inv, Progress
    <3> DEFINE first == ReadBEEF(Written(ads[k])).value[1]
    <3>3. Parsed(k).version = first.version /\ Parsed(k).inputs = Len(first.inputs)
      BY <2>1, <2>2, <3>1, <3>2, OneWritten
    <3>4. transactions[k].inputs[1].hash = CalculateTransactionHash(Parsed(k))
      BY <3>2, SpendingSpends
    <3> DEFINE told == [version |-> first.version, inputs |-> Len(first.inputs)]
    <3>5. told.version = first.version /\ told.inputs = Len(first.inputs)
      OBVIOUS
    <3> HIDE DEF first, told
    <3>6. CalculateTransactionHash(Parsed(k)) = CalculateTransactionHash(told)
      BY <3>3, <3>5 DEF CalculateTransactionHash
    <3> QED BY <3>4, <3>6 DEF first, told
  <2>3. pc = "panicked" => ~IsWritten(ads[at])
    <3>1. SUFFICES ASSUME pc = "panicked", IsWritten(ads[at]) PROVE FALSE
      OBVIOUS
    <3>2. Len(transactions) < Len(ads) /\ Parsed(at).error = "panic"
      BY <3>1 DEF Inv, Progress
    <3>3. at \in 1..Len(ads)
      BY <2>1, <3>2
    <3> HIDE DEF at
    <3>4. Parsed(at).error \in {"none"} \cup Errors
      BY <2>1, <3>1, <3>3, OneWritten
    <3> QED BY <3>2, <3>4 DEF Errors
  <2>4. result \in Errors => ~IsWritten(ads[at]) \/ ads[at].beef # Written(ads[at])
    <3>1. SUFFICES ASSUME result \in Errors, IsWritten(ads[at]), ads[at].beef = Written(ads[at])
                   PROVE  FALSE
      OBVIOUS
    <3>2. Len(transactions) < Len(ads) /\ Parsed(at).error = result
      BY <3>1 DEF Inv, Progress
    <3>3. at \in 1..Len(ads)
      BY <2>1, <3>2
    <3> HIDE DEF at
    <3>4. Parsed(at).error = "none"
      BY <2>1, <3>1, <3>3, OneWritten
    <3> QED BY <3>1, <3>2, <3>4 DEF Errors
  <2> HIDE DEF at
  <2> QED BY <2>2, <2>3, <2>4 DEF ReadsWhatWasWritten, at, Errors
<1> QED BY <1>1, Invariance, PTL

\* The bytes RevokeAdvertisements returns are read back, to the last, as one transaction
\* for each advertisement, in their order, spending its output index: whatever the
\* number of advertisements and the numbers in them.
THEOREM BundleIsRead == Spec => []BundleSpendsEach
<1>1. Inv => BundleSpendsEach
  <2> SUFFICES ASSUME Inv, bundle # <<>> PROVE BundleSpendsEach
    BY DEF BundleSpendsEach
  <2> DEFINE read == ReadBEEF(bundle)
  <2>1. /\ ads \in Requests /\ transactions \in Seq(Transaction)
        /\ Len(transactions) = Len(ads) /\ bundle = EncodeTransactionsAsBEEF(transactions)
        /\ \A k \in 1..Len(transactions) : transactions[k] = Spending(ads[k], Parsed(k))
    BY DEF Inv, TypeOK, Progress
  <2>2. Len(ads) \in Nat /\ Len(ads) < Eight /\ DOMAIN ads = 1..Len(ads)
    BY <2>1, RequestParts
  <2>3. transactions \in Slice(Transaction)
    BY <2>1, <2>2 DEF Slice
  <2>4. /\ ReadBEEF(bundle) = [value |-> transactions, next |-> Len(bundle) + 1]
        /\ SubSeq(bundle, 1, Len(Header)) = Header
    BY <2>1, <2>3, BeefRead
  <2>5. read.value = transactions /\ read.next = Len(bundle) + 1
    BY <2>4
  <2> HIDE DEF read
  <2>6. ASSUME NEW k \in DOMAIN ads
        PROVE  /\ Len(read.value[k].inputs) = 1
               /\ read.value[k].inputs[1].index = ads[k].index
               /\ read.value[k] = transactions[k]
    <3>1. read.value[k] = Spending(ads[k], Parsed(k)) /\ read.value[k] = transactions[k]
      BY <2>1, <2>2, <2>5
    <3>2. /\ Len(Spending(ads[k], Parsed(k)).inputs) = 1
          /\ Spending(ads[k], Parsed(k)).inputs[1].index = ads[k].index
      BY SpendingSpends
    <3> QED BY <3>1, <3>2, Zenon
  <2>7. Len(read.value) = Len(ads)
    BY <2>1, <2>5
  <2> QED BY <2>4, <2>5, <2>6, <2>7 DEF BundleSpendsEach, read
<1> QED BY <1>1, Invariance, PTL
=============================================================================
