----------------------------- MODULE Revocation -----------------------------
(***************************************************************************)
(* How RevokeAdvertisements makes its transactions, byte by byte             *)
(* (pkg/advertiser/wallet_advertiser.go).  The advertiser around it, with    *)
(* its topics and names, is in Advertiser.                                  *)
(*                                                                          *)
(* The BEEF of an advertisement comes from elsewhere: the start of what the  *)
(* encoder of this code writes for a list of transactions, or the bytes of   *)
(* other software, which has no such header.                                *)
(*                                                                          *)
(* A behaviour is one call: nothing is kept between two of them.             *)
(***************************************************************************)
EXTENDS Wire

CONSTANT Requests    (* the lists of advertisements that calls are made with *)

\* An advertisement whose BEEF is the start of what was written for its source, or
\* whose BEEF is foreign: then it has no source.
IsWritten(ad) == ad.source # <<>>

Written(ad) == EncodeTransactionsAsBEEF(ad.source)

IsAdvertisement(ad) ==
    /\ ad.beef \in Bytes /\ ad.index \in Uint32
    /\ ad.source \in Slice(Transaction)
    /\ \A k \in DOMAIN ad.source : Len(ad.source[k].inputs) < Four
                                 /\ Len(ad.source[k].inputs) <= MaxInputs
    /\ IsWritten(ad) => IsPrefix(ad.beef, Written(ad))

ASSUME RequestsOK ==
    \A r \in Requests : /\ r \in Slice(Range(r))
                        /\ \A k \in DOMAIN r : IsAdvertisement(r[k])

VARIABLES
    pc,             (* "called", "creating", "returned" or "panicked"        *)
    ads,            (* the argument of the call                              *)
    transactions,   (* the revocation transactions made so far               *)
    bundle,         (* the BEEF it returns, <<>> with an error               *)
    result          (* "ok", or the error                                    *)

vars == <<pc, ads, transactions, bundle, result>>

Init ==
    /\ pc = "called" /\ ads \in Requests /\ transactions = <<>>
    /\ bundle = <<>> /\ result = "ok"

Returns(r, b) ==
    /\ result' = r /\ bundle' = b
    /\ pc' = "returned"

-----------------------------------------------------------------------------
Unrevocable(ad) ==
    IF ad.beef = <<>> THEN "errMissingBeefData"
    ELSE IF ad.index = 0 THEN "errMissingOutputIndex"
    ELSE "none"

\* Every advertisement is looked at before the first transaction is made: k is the
\* first that cannot be revoked.
RevokeAdvertisements ==
    /\ pc = "called"
    /\ \/ ads = <<>> /\ Returns("errNoAdvertisements", <<>>)
       \/ \E k \in DOMAIN ads :
            /\ Unrevocable(ads[k]) # "none"
            /\ \A j \in 1..(k - 1) : Unrevocable(ads[j]) = "none"
            /\ Returns(Unrevocable(ads[k]), <<>>)
       \/ /\ ads # <<>> /\ \A k \in DOMAIN ads : Unrevocable(ads[k]) = "none"
          /\ pc' = "creating" /\ UNCHANGED <<bundle, result>>
    /\ UNCHANGED <<ads, transactions>>

\* OP_DUP OP_HASH160 <twenty bytes> OP_EQUALVERIFY OP_CHECKSIG
CreateSimpleLockingScript ==
    <<118 % Base, 169 % Base, 20 % Base>> \o [k \in 1..20 |-> (k - 1) % Base]
        \o <<136 % Base, 172 % Base>>

CreateRevocationScriptSig == <<71 % Base, 48 % Base, 68 % Base, 2, 32 % Base>>

\* Fault: the index of the first advertisement is used for all.
SpendFirst(ad, original) ==
    [version |-> 1,
     inputs |-> <<[hash |-> CalculateTransactionHash(original), index |-> ads[1].index,
                   script |-> CreateRevocationScriptSig, sequence |-> Four - 1]>>,
     outputs |-> <<[value |-> 1, script |-> CreateSimpleLockingScript]>>,
     lockTime |-> 0]

Spending(ad, original) ==
    [version |-> 1,
     inputs |-> <<[hash |-> CalculateTransactionHash(original), index |-> ad.index,
                   script |-> CreateRevocationScriptSig, sequence |-> Four - 1]>>,
     outputs |-> <<[value |-> 1, script |-> CreateSimpleLockingScript]>>,
     lockTime |-> 0]

\* One turn of the loop: an advertisement that cannot be read ends the call, and the
\* transactions made for the ones before it are dropped.
CreateSingleNewRevocationTransaction ==
    /\ pc = "creating" /\ Len(transactions) < Len(ads)
    /\ LET ad == ads[Len(transactions) + 1]
           original == ParseTransactionFromBEEF(ad.beef)
       IN  \/ /\ original.error = "none"
              /\ transactions' = Append(transactions, Spending(ad, original))
              /\ UNCHANGED <<pc, result, bundle>>
           \/ /\ original.error = "panic"
              /\ pc' = "panicked" /\ UNCHANGED <<transactions, result, bundle>>
           \/ /\ original.error \notin {"none", "panic"}
              /\ Returns(original.error, <<>>) /\ UNCHANGED transactions
    /\ UNCHANGED ads

Encode ==
    /\ pc = "creating" /\ Len(transactions) = Len(ads)
    /\ Returns("ok", EncodeTransactionsAsBEEF(transactions))
    /\ UNCHANGED <<ads, transactions>>

-----------------------------------------------------------------------------
Next ==
    \/ RevokeAdvertisements
    \/ CreateSingleNewRevocationTransaction
    \/ Encode

Spec == Init /\ [][Next]_vars
-----------------------------------------------------------------------------
(* Bitcoin's format, as a reader of it proceeds: a thing that starts at byte *)
(* k of d, and where the next one starts.                                   *)

ReadVarInt(d, k) ==
    IF d[k] = Next2 THEN [value |-> FromPair(d, k + 1), next |-> k + 3]
    ELSE IF d[k] = Next4 THEN [value |-> FromQuad(d, k + 1), next |-> k + 5]
    ELSE IF d[k] = Next8 THEN [value |-> FromOct(d, k + 1), next |-> k + 9]
    ELSE [value |-> d[k], next |-> k + 1]

ReadScript(d, k) ==
    LET n == ReadVarInt(d, k)
    IN  [value |-> SubSeq(d, n.next, n.next + n.value - 1), next |-> n.next + n.value]

ReadInput(d, k) ==
    LET s == ReadScript(d, k + 36)
    IN  [value |-> [hash |-> SubSeq(d, k, k + 31), index |-> FromQuad(d, k + 32),
                    script |-> s.value, sequence |-> FromQuad(d, s.next)],
         next |-> s.next + 4]

ReadOutput(d, k) ==
    LET s == ReadScript(d, k + 8)
    IN  [value |-> [value |-> FromOct(d, k), script |-> s.value], next |-> s.next]

\* read[j] is the thing that starts at byte j, at[i] where the one after the first i
\* starts.
ReadList(read, d, k) ==
    LET n == ReadVarInt(d, k)
        at[i \in 0..n.value] == IF i = 0 THEN n.next ELSE read[at[i - 1]].next
    IN  [value |-> [i \in 1..n.value |-> read[at[i - 1]].value], next |-> at[n.value]]

ReadTransaction(d, k) ==
    LET i == ReadList([j \in Nat |-> ReadInput(d, j)], d, k + 4)
        o == ReadList([j \in Nat |-> ReadOutput(d, j)], d, i.next)
    IN  [value |-> [version |-> FromQuad(d, k), inputs |-> i.value, outputs |-> o.value,
                    lockTime |-> FromQuad(d, o.next)],
         next |-> o.next + 4]

ReadBEEF(d) == ReadList([j \in Nat |-> ReadTransaction(d, j)], d, Len(Header) + 1)

-----------------------------------------------------------------------------
(* Properties                                                               *)

\* Types: the call goes through its advertisements in order, and what it encodes are
\* bytes.
TypeOK ==
    /\ pc \in {"called", "creating", "returned", "panicked"}
    /\ ads \in Requests
    /\ transactions \in Seq(Transaction) /\ Len(transactions) <= Len(ads)
    /\ bundle \in Bytes /\ (bundle # <<>> => result = "ok")
    /\ result \in {"ok", "errNoAdvertisements", "errMissingBeefData", "errMissingOutputIndex",
                   "errBEEFTooShort", "errTransactionTooShort"}

\* However short the written BEEF of an advertisement is cut, it is either refused or
\* understood: parseTransactionFromBEEF takes the version and the number of inputs
\* of its first transaction for what a reader of the format takes them for.  One
\* that is whole is never refused, and none makes the slice of inputs too long.
ReadsWhatWasWritten ==
    LET Reading(k) == IsWritten(ads[k])
        First(k) == ReadBEEF(Written(ads[k])).value[1]
        at == Len(transactions) + 1
    IN  /\ \A k \in DOMAIN transactions : Reading(k) =>
             transactions[k].inputs[1].hash =
                 CalculateTransactionHash([version |-> First(k).version,
                                           inputs |-> Len(First(k).inputs)])
        /\ pc = "panicked" => ~Reading(at)
        /\ result \in {"errBEEFTooShort", "errTransactionTooShort"} =>
             ~Reading(at) \/ ads[at].beef # Written(ads[at])

\* The bytes RevokeAdvertisements returns say to a reader of the format what was
\* asked for, whatever the numbers in them take: a transaction for each
\* advertisement, in their order, that spends the output index of that one, and
\* nothing after the last.
BundleSpendsEach ==
    bundle # <<>> =>
        LET read == ReadBEEF(bundle) IN
        /\ SubSeq(bundle, 1, Len(Header)) = Header
        /\ read.next = Len(bundle) + 1
        /\ Len(read.value) = Len(ads)
        /\ \A k \in DOMAIN ads :
             /\ Len(read.value[k].inputs) = 1
             /\ read.value[k].inputs[1].index = ads[k].index
             /\ read.value[k] = transactions[k]
=============================================================================
