---------------------------- MODULE MCRevocation ----------------------------
(* Instances of Revocation, with bytes of four values: 0 is written in one   *)
(* byte, 1 to 15 take three, 16 to 255 five, 256 to 65535 nine.  Lists are   *)
(* too short for a count of nine bytes; the proofs cover any length.         *)
EXTENDS Revocation

Bytes32 == [k \in 1..32 |-> k % Base]

In(script)  == [hash |-> Bytes32, index |-> 2, script |-> script, sequence |-> Four - 1]
Out(value)  == [value |-> value, script |-> <<1, 2>>]
Tx(version, ins, outs) == [version |-> version, inputs |-> ins, outputs |-> outs, lockTime |-> 3]
Ins(n) == [k \in 1..n |-> In(<<>>)]

\* No inputs; one; a script with a length of five bytes and the largest value; two
\* transactions; and inputs whose number is at the edges of three and of five bytes.
Written1 ==
    {<<Tx(0, <<>>, <<>>)>>, <<Tx(1, Ins(1), <<Out(0)>>)>>,
     <<Tx(Four - 1, <<In([k \in 1..Two |-> 3])>>, <<Out(Two), Out(Eight - 1)>>)>>,
     <<Tx(2, Ins(1), <<>>), Tx(Two, Ins(2), <<Out(Four)>>)>>,
     <<Tx(7, Ins(Two - 1), <<>>)>>, <<Tx(Two, Ins(Two), <<>>)>>,
     <<Tx(Two, Ins(Two + 1), <<Out(1)>>)>>}

Ad(source, length, index) ==
    [source |-> source, beef |-> SubSeq(EncodeTransactionsAsBEEF(source), 1, length), index |-> index]
Whole(source, index) == Ad(source, Len(EncodeTransactionsAsBEEF(source)), index)
Foreign(bytes, index) == [source |-> <<>>, beef |-> bytes, index |-> index]

\* Other software's bytes: any ten after a header and a count of none, and a number of
\* inputs that nobody can allocate.
Zeros(n) == [k \in 1..n |-> 0]
OtherSoftware == {Zeros(9), Zeros(8) \o <<0>> \o Zeros(4) \o <<3>> \o [k \in 1..9 |-> 3]}

\* A cut past the first 34 bytes is like one there: nothing after them is read.
Cuts(s) == {n \in 0..34 : n < Len(EncodeTransactionsAsBEEF(s))}

One == UNION {{<<Ad(s, n, 1)>> : n \in Cuts(s)} : s \in Written1} \cup {<<Whole(s, i)>> : s \in Written1, i \in {0, 1, Four - 1}}
       \cup {<<Foreign(b, 1)>> : b \in OtherSoftware}

\* Two: a whole one before or after a cut, a foreign and another whole one.
Two1 == {Whole(s, Two) : s \in Written1} \cup {Ad(s, n, 1) : s \in Written1, n \in {0, 12, 18, 21}}
        \cup {Foreign(b, 1) : b \in OtherSoftware}

AllRequests == {<<>>} \cup One \cup {<<a, b>> : a, b \in Two1}
=============================================================================
