-------------------------------- MODULE Wire --------------------------------
(***************************************************************************)
(* The bytes the wallet advertiser writes and reads when it revokes          *)
(* advertisements (pkg/advertiser/wallet_advertiser.go): variable-length     *)
(* integers, little-endian numbers, transactions, and a list of transactions *)
(* under a simplified BEEF header.                                          *)
(*                                                                          *)
(* A byte is one of Base values: 256 in the code, any number from 4 up here. *)
(* The last three announce integers of two, four and eight bytes.           *)
(***************************************************************************)
EXTENDS Integers, SequencesExt

CONSTANTS
    Base,        (* the values of a byte                                     *)
    MaxInputs    (* the longest slice of inputs that make can allocate       *)

ASSUME BaseOK == Base \in Nat /\ Base >= 4 /\ MaxInputs \in Nat

Byte  == 0..(Base - 1)
Two   == Base * Base
Four  == Two * Two
Eight == Four * Four

Next2 == Base - 3   \* 0xfd
Next4 == Base - 2   \* 0xfe
Next8 == Base - 1   \* 0xff

-----------------------------------------------------------------------------
(* Numbers, least significant byte first.                                   *)

Pair(v) == <<v % Base, v \div Base>>
Quad(v) == Pair(v % Two) \o Pair(v \div Two)
Oct(v)  == Quad(v % Four) \o Quad(v \div Four)

FromPair(d, k) == d[k] + Base * d[k + 1]
FromQuad(d, k) == FromPair(d, k) + Two * FromPair(d, k + 2)
FromOct(d, k)  == FromQuad(d, k) + Four * FromQuad(d, k + 4)

EncodeUint32(v) == Quad(v)
EncodeUint64(v) == Oct(v)

\* Fewer than four bytes read as zero.
ParseUint32(d) == IF Len(d) < 4 THEN 0 ELSE FromQuad(d, 1)

EncodeVarInt(v) ==
    IF v < Next2 THEN <<v>>
    ELSE IF v < Two THEN <<Next2>> \o Pair(v)
    ELSE IF v < Four THEN <<Next4>> \o Quad(v)
    ELSE <<Next8>> \o Oct(v)

\* The value and the bytes it takes; an integer that is cut short is 0 and takes none.
ParseVarInt(d) ==
    IF d = <<>> THEN <<0, 0>>
    ELSE IF d[1] < Next2 THEN <<d[1], 1>>
    ELSE IF d[1] = Next2 /\ Len(d) >= 3 THEN <<FromPair(d, 2), 3>>
    ELSE IF d[1] = Next4 /\ Len(d) >= 5 THEN <<FromQuad(d, 2), 5>>
    ELSE IF d[1] = Next8 /\ Len(d) >= 9 THEN <<FromOct(d, 2), 9>>
    ELSE <<0, 0>>

-----------------------------------------------------------------------------
(* Transactions.                                                            *)

Bytes  == Seq(Byte)
Hash   == [1..32 -> Byte]
Uint32 == 0..(Four - 1)
Uint64 == 0..(Eight - 1)

\* The length of a slice is an integer of eight bytes.
Slice(S) == {s \in Seq(S) : Len(s) < Eight}

TransactionInput  == [hash : Hash, index : Uint32, script : Slice(Byte), sequence : Uint32]
TransactionOutput == [value : Uint64, script : Slice(Byte)]
Transaction == [version : Uint32, inputs : Slice(TransactionInput),
                outputs : Slice(TransactionOutput), lockTime : Uint32]

\* A script with its length before it.
EncodeScript(s) == EncodeVarInt(Len(s)) \o s

EncodeInput(i) ==
    i.hash \o EncodeUint32(i.index) \o EncodeScript(i.script) \o EncodeUint32(i.sequence)

EncodeOutput(o) == EncodeUint64(o.value) \o EncodeScript(o.script)

\* Encoded things, with their number before them.
EncodeList(items) == EncodeVarInt(Len(items)) \o FlattenSeq(items)

EncodeTransaction(t) ==
    EncodeUint32(t.version)
        \o EncodeList([k \in DOMAIN t.inputs |-> EncodeInput(t.inputs[k])])
        \o EncodeList([k \in DOMAIN t.outputs |-> EncodeOutput(t.outputs[k])])
        \o EncodeUint32(t.lockTime)

\* "BEEF" and 1 as a little-endian number.
Header == <<66 % Base, 69 % Base, 69 % Base, 70 % Base, 1, 0, 0, 0>>

EncodeTransactionsAsBEEF(list) ==
    Header \o EncodeList([k \in DOMAIN list |-> EncodeTransaction(list[k])])

-----------------------------------------------------------------------------
(* Reading back what a revocation needs: the version and the number of       *)
(* inputs of the first transaction.  The inputs themselves are not read, the *)
(* outputs are not looked for.                                              *)

From(d, offset) == SubSeq(d, offset + 1, Len(d))

Failed(e) == [error |-> e, version |-> 0, inputs |-> 0]

\* Fault: eight bytes are taken to be enough.
ParseTransactionTooShort(d) ==
    IF Len(d) < 8 THEN Failed("errTransactionTooShort")
    ELSE LET count == ParseVarInt(From(d, 4))[1] IN
         IF count > MaxInputs THEN Failed("panic")
         ELSE [error |-> "none", version |-> ParseUint32(d), inputs |-> count]

\* The number of inputs is allocated for before anything else is read.
ParseTransaction(d) ==
    IF Len(d) < 10 THEN Failed("errTransactionTooShort")
    ELSE LET count == ParseVarInt(From(d, 4))[1] IN
         IF count > MaxInputs THEN Failed("panic")
         ELSE [error |-> "none", version |-> ParseUint32(d), inputs |-> count]

\* The header is skipped unread, and so is the number of transactions.
ParseTransactionFromBEEF(d) ==
    IF Len(d) < 8 THEN Failed("errBEEFTooShort")
    ELSE ParseTransaction(From(d, 8 + ParseVarInt(From(d, 8))[2]))

\* Fault: the number of inputs is not reduced to a byte.
HashOfWholeCount(t) ==
    Quad(t.version) \o <<t.inputs, 0>> \o [k \in 1..26 |-> (k + 5) % Base]

\* Not a hash of the transaction: its version, its number of inputs, no outputs,
\* and the position of each byte from there on.
CalculateTransactionHash(t) ==
    Quad(t.version) \o <<t.inputs % Base, 0>> \o [k \in 1..26 |-> (k + 5) % Base]
=============================================================================
