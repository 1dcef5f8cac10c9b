----------------------------- MODULE Advertiser -----------------------------
(***************************************************************************)
(* The wallet advertiser (pkg/advertiser/wallet_advertiser.go): it makes     *)
(* advertisements of the services of its host, finds them again through the *)
(* overlay and revokes them.  One goroutine uses it.                        *)
(*                                                                          *)
(* The wallet, the engine that publishes and the resolver are outside the    *)
(* repository.  The engine admits what Admittance admits.  The bytes of a     *)
(* revocation are modelled in Revocation.                                   *)
(*                                                                          *)
(* A name is the sequence of the words its underscores separate:            *)
(* "tm_meter" is <<"tm", "meter">>, "" is <<"">>.                           *)
(***************************************************************************)
EXTENDS Admittance, SequencesExt

CONSTANTS
    WordLength,     (* the words of names, each with its length              *)
    Requests,       (* lists of [protocol, name] the host asks to advertise  *)
    Earlier,        (* transactions of other software, as lists of tokens    *)
    OwnKey, OtherKey, NoKey,
    Configurations, (* what NewWalletAdvertiser may be given                 *)
    NoURI,
    MaxIssued       (* bound on the transactions on the ledger               *)

Keys == {"good", "short", "zeros", "monotone", "text", "blank"}

\* "malformed" starts like a web address but url.Parse refuses it.
StorageURLs == {"http", "malformed", "other", "blank"}

\* The arguments of NewWalletAdvertiser; "text" is not hexadecimal.
Configuration == [chain : {"main", "test", "blank"}, privateKey : Keys,
                  storageURL : StorageURLs, advertisableURI : URI]

Words == DOMAIN WordLength
Protocols == {"SHIP", "SLAP"}

\* An entry of a request; "nil" stands for one that is nil.
AdData == [protocol : Protocols \cup {"other", "nil"}, name : Seq(Words)]

\* An output as it was locked: the number of its fields, 0 for what is no PushDrop
\* token; the first four; by whose key the last is signed and from whose key the
\* locking key is derived.
AdToken == [fields : Nat, identifier : Protocols \cup {"other"}, identityKey : {OwnKey, OtherKey},
            domain : URI, name : Seq(Words), signer : {OwnKey, OtherKey}, derived : {OwnKey, OtherKey}]

ASSUME InputsOK ==
    /\ {"tm", "ls", ""} \subseteq Words
    /\ WordLength \in [Words -> Nat]
    /\ \A w \in Words : WordLength[w] = 0 <=> w = ""
    /\ \A r \in Requests : r \in Seq(AdData)
    /\ Earlier \in Seq(Seq(AdToken))
    /\ OwnKey # OtherKey /\ NoKey \notin {OwnKey, OtherKey}
    /\ \A c \in Configurations : c \in Configuration
    /\ NoURI \notin URI
    /\ MaxIssued \in Nat

VARIABLES
    privateKey, storageURL, advertisableURI, initialized, identityKey,
    skipStorageValidation,
    pc,         (* "none" before there is an instance, "idle", or where     *)
                (* CreateAdvertisements is                                  *)
    request,    (* its argument                                             *)
    outputs,    (* the outputs locked so far                                *)
    result,     (* what the last call came to: "ok", "found", "parsed" or an error *)
    bundle,     (* the TaggedBEEF last returned: its transaction and topics *)
    found,      (* the advertisements the last call returned                *)
    ledger,     (* every transaction made: a list of outputs                *)
    asked,      (* history: the request each was made for                   *)
    spent,      (* the outputs that are spent                               *)
    index       (* what the lookup services hold                            *)

instance == <<privateKey, storageURL, advertisableURI, initialized, identityKey,
              skipStorageValidation>>
call     == <<pc, request, outputs, result, bundle, found>>
overlay  == <<spent, index>>
vars     == <<instance, call, ledger, asked, overlay>>

-----------------------------------------------------------------------------
(* Names and tokens.                                                        *)

\* The length of a name with its underscores.
Length(n) == FoldLeft(LAMBDA sum, w : sum + WordLength[w], Len(n) - 1, n)

IsValidTopicOrServiceName(n) ==
    /\ Length(n) \in 1..50
    /\ Len(n) >= 2 /\ n[1] \in {"tm", "ls"}
    /\ \A k \in 2..Len(n) : n[k] # ""

Prefix(protocol) == IF protocol = "SHIP" THEN "tm" ELSE "ls"

FullName(protocol, n) == <<Prefix(protocol)>> \o n

\* ParseAdvertisement, check by check; the name must be valid after the prefix is put
\* before it.
ParseError(t) ==
    IF t.fields = 0 THEN "errInvalidPushDropScript"
    ELSE IF t.fields < 4 THEN "errInvalidPushDropFields"
    ELSE IF t.identifier \notin Protocols THEN "errUnsupportedProtocolID"
    ELSE IF ~IsValidTopicOrServiceName(FullName(t.identifier, t.name)) THEN "errInvalidName"
    ELSE "none"

Parseable(t) == ParseError(t) = "none"

\* What validateOutput sees of it.
Script(t) ==
    [decodes |-> t.fields # 0, fields |-> t.fields, identifier |-> t.identifier, uri |-> t.domain,
     name |-> IF ~IsValidTopicOrServiceName(t.name) THEN "invalid"
              ELSE IF t.name[1] = "tm" THEN "tm_" ELSE "ls_",
     key |-> TRUE, signature |-> IF t.signer = t.identityKey THEN "right" ELSE "wrong",
     derived |-> t.derived = t.identityKey]

\* One of the two topic managers admits it.
Admissible(t) == \E s \in Services : ValidOutput(s, Script(t))

OutputsOf(t) == {[tx |-> t, index |-> k - 1] : k \in DOMAIN ledger[t]}

TokenAt(o) == ledger[o.tx][o.index + 1]

\* An oa.Advertisement; tx stands for its BEEF, 0 when there is none.
Advertisement(o) ==
    [protocol |-> TokenAt(o).identifier, identityKey |-> TokenAt(o).identityKey,
     name |-> TokenAt(o).name, tx |-> o.tx, index |-> o.index]

NoBundle == [tx |-> 0, topics |-> <<>>]

Init ==
    /\ privateKey = "blank" /\ storageURL = "blank" /\ advertisableURI = NoURI
    /\ initialized = FALSE /\ identityKey = NoKey
    /\ skipStorageValidation = FALSE
    /\ pc = "none" /\ request = <<>> /\ outputs = <<>>
    /\ result = "ok" /\ bundle = NoBundle /\ found = {}
    /\ ledger = Earlier
    /\ asked = [t \in DOMAIN Earlier |-> <<>>]
    /\ spent = {} /\ index = {}

\* A call that returns an error, or a result without advertisements.
Returns(r) ==
    /\ result' = r
    /\ bundle' = NoBundle /\ found' = {}
    /\ pc' = "idle" /\ request' = <<>> /\ outputs' = <<>>

-----------------------------------------------------------------------------
(* NewWalletAdvertiser and Init.                                             *)

\* What is wrong with the arguments, in the order in which they are looked at.
Misconfigured(c) ==
    IF c.chain = "blank" THEN "errChainRequired"
    ELSE IF c.privateKey = "blank" THEN "errPrivateKeyRequired"
    ELSE IF c.storageURL = "blank" THEN "errStorageURLRequired"
    ELSE IF c.advertisableURI.scheme = "blank" THEN "errAdvertisableURIRequired"
    ELSE IF c.privateKey = "text" THEN "errPrivateKeyNotHex"
    ELSE IF ~IsAdvertisableURI(c.advertisableURI) THEN "errAdvertisableURIInvalid"
    ELSE IF c.storageURL = "other" THEN "errStorageURLInvalid"
    ELSE "none"

\* With good arguments the database, its migration or the wallet may still fail.
NewWalletAdvertiser(c) ==
    /\ pc = "none"
    /\ result' \in IF Misconfigured(c) = "none" THEN {"ok", "errOpen"} ELSE {Misconfigured(c)}
    /\ IF result' = "ok"
       THEN /\ pc' = "idle"
            /\ privateKey' = c.privateKey
            /\ storageURL' = c.storageURL
            /\ advertisableURI' = c.advertisableURI
       ELSE UNCHANGED <<pc, privateKey, storageURL, advertisableURI>>
    /\ UNCHANGED <<initialized, identityKey, skipStorageValidation, request, outputs,
                   bundle, found, ledger, asked, overlay>>

SetSkipStorageValidation(skip) ==
    /\ pc = "idle"
    /\ skipStorageValidation' = skip
    /\ UNCHANGED <<privateKey, storageURL, advertisableURI, initialized, identityKey, call,
                   ledger, asked, overlay>>

\* validateAndInitializePrivateKey: 32 bytes, not all zero, of four values at least.
ValidKey == privateKey = "good"

\* validateStorageConnectivity: GET /health, and HEAD when that gets no response.
\* Both requests share one context of ten seconds: after a timeout HEAD fails too.
Responses == {"answer", "serverError", "refused", "timeout"}

StorageCheck(get, head) ==
    LET response == IF get \in {"refused", "timeout"} THEN head ELSE get
    IN  IF storageURL = "malformed" THEN "errStorageURLMalformed"
        ELSE IF response = "answer" THEN "ok"
        ELSE IF response = "serverError" THEN "errStorageServerError"
        ELSE "errStorageUnreachable"

\* Fault: initialized is set before the storage is checked.
InitializeEarly ==
    /\ pc = "idle"
    /\ \E get, head \in Responses :
         /\ Returns(StorageCheck(get, head))
         /\ identityKey' = IF StorageCheck(get, head) = "ok" THEN OwnKey ELSE identityKey
    /\ initialized' = TRUE
    /\ UNCHANGED <<privateKey, storageURL, advertisableURI, skipStorageValidation, ledger, asked,
                   overlay>>


\* setupCryptographicContexts asks the system for random bytes, which may fail; a key
\* that passed ValidKey always has an identity key.
Initialize ==
    /\ pc = "idle"
    /\ \/ initialized /\ Returns("errAlreadyInitialized") /\ UNCHANGED <<initialized, identityKey>>
       \/ /\ ~initialized /\ ~ValidKey
          /\ Returns("errPrivateKey") /\ UNCHANGED <<initialized, identityKey>>
       \/ /\ ~initialized /\ ValidKey
          /\ \E get, head \in Responses :
               LET check == IF skipStorageValidation THEN "ok" ELSE StorageCheck(get, head) IN
               /\ get = "timeout" => head = "timeout"
               /\ \/ /\ check # "ok"
                     /\ Returns(check) /\ UNCHANGED <<initialized, identityKey>>
                  \/ /\ check = "ok"
                     /\ Returns("errCryptographicContext") /\ UNCHANGED <<initialized, identityKey>>
                  \/ /\ check = "ok"
                     /\ Returns("ok") /\ initialized' = TRUE /\ identityKey' = OwnKey
    /\ UNCHANGED <<privateKey, storageURL, advertisableURI, skipStorageValidation, ledger, asked,
                   overlay>>

-----------------------------------------------------------------------------
(* CreateAdvertisements.                                                    *)

\* validateAdvertisementData, which panics when the entry is nil.
Invalid(ad) ==
    IF ad.protocol = "nil" THEN "panic"
    ELSE IF ad.protocol \notin Protocols THEN "errUnsupportedProtocol"
    ELSE IF ad.name = <<"">> THEN "errTopicNameEmpty"
    ELSE IF ~IsValidTopicOrServiceName(FullName(ad.protocol, ad.name)) THEN "errInvalidName"
    ELSE "none"

\* A list is refused with the error of its first faulty entry.
FirstError(errors) ==
    IF \A k \in DOMAIN errors : errors[k] = "none" THEN "none"
    ELSE errors[CHOOSE k \in DOMAIN errors :
             errors[k] # "none" /\ \A j \in 1..(k - 1) : errors[j] = "none"]

FirstFault(req) == FirstError([k \in DOMAIN req |-> Invalid(req[k])])

AllValid(req) == \A k \in DOMAIN req : Invalid(req[k]) = "none"

CreateRefused(req) ==
    /\ pc = "idle"
    /\ \/ ~initialized /\ Returns("errNotInitialized")
       \/ initialized /\ req = <<>> /\ Returns("errNoAdvertisementData")
       \/ /\ initialized /\ req # <<>> /\ ~AllValid(req)
          /\ Returns(FirstFault(req))
    /\ UNCHANGED <<instance, ledger, asked, overlay>>

CreateAdvertisements(req) ==
    /\ pc = "idle"
    /\ initialized /\ req # <<>> /\ AllValid(req)
    /\ pc' = "locking"
    /\ request' = req
    /\ outputs' = <<>>
    /\ UNCHANGED <<instance, result, bundle, found, ledger, asked, overlay>>

\* Opening the wallet, locking an output or CreateAction fails.
WalletFails ==
    /\ pc = "locking"
    /\ Returns("errWallet")
    /\ UNCHANGED <<instance, ledger, asked, overlay>>

\* Fault: no signature is asked for.
LockingUnsigned(ad) ==
    [fields |-> 4, identifier |-> ad.protocol, identityKey |-> OwnKey,
     domain |-> advertisableURI, name |-> ad.name, signer |-> OwnKey, derived |-> OwnKey]


\* pd.Lock: four fields and their signature.  The wallet and the identity key come from
\* the same private key.
Locking(ad) ==
    [fields |-> 5, identifier |-> ad.protocol, identityKey |-> OwnKey,
     domain |-> advertisableURI, name |-> ad.name, signer |-> OwnKey, derived |-> OwnKey]

\* The name is validated a second time, now without the prefix put before it.
LockRefused ==
    /\ pc = "locking" /\ Len(outputs) < Len(request)
    /\ ~IsValidTopicOrServiceName(request[Len(outputs) + 1].name)
    /\ Returns("errInvalidName")
    /\ UNCHANGED <<instance, ledger, asked, overlay>>

Lock ==
    /\ pc = "locking" /\ Len(outputs) < Len(request)
    /\ IsValidTopicOrServiceName(request[Len(outputs) + 1].name)
    /\ outputs' = Append(outputs, Locking(request[Len(outputs) + 1]))
    /\ UNCHANGED <<instance, pc, request, result, bundle, found, ledger, asked, overlay>>

\* Fault: the action is created before every entry has its output.
CreateActionEarly ==
    /\ pc = "locking" /\ outputs # <<>>
    /\ Len(ledger) < MaxIssued
    /\ ledger' = Append(ledger, outputs)
    /\ asked' = Append(asked, request)
    /\ pc' = "converting"
    /\ UNCHANGED <<instance, request, outputs, result, bundle, found, overlay>>


\* One transaction for the whole request; the wallet has made it from here on.
CreateAction ==
    /\ pc = "locking" /\ Len(outputs) = Len(request)
    /\ Len(ledger) < MaxIssued
    /\ ledger' = Append(ledger, outputs)
    /\ asked' = Append(asked, request)
    /\ pc' = "converting"
    /\ UNCHANGED <<instance, request, outputs, result, bundle, found, overlay>>

\* The transaction does not convert to BEEF: it stays made, the caller gets an error.
ConversionFails ==
    /\ pc = "converting"
    /\ Returns("errConvert")
    /\ UNCHANGED <<instance, ledger, asked, overlay>>

TopicsOf(ads) == [k \in DOMAIN ads |-> <<"tm">> \o ads[k].name]

ReturnBundle ==
    /\ pc = "converting"
    /\ bundle' = [tx |-> Len(ledger), topics |-> TopicsOf(request)]
    /\ result' = "ok" /\ found' = {}
    /\ pc' = "idle" /\ request' = <<>> /\ outputs' = <<>>
    /\ UNCHANGED <<instance, ledger, asked, overlay>>

-----------------------------------------------------------------------------
(* The overlay.                                                             *)

\* A transaction is submitted to tm_ship and tm_slap: the engine admits the outputs
\* that are tokens of the topic's protocol, and the lookup services record them.
Publish(t) ==
    /\ t \in DOMAIN ledger
    /\ pc = "idle"
    /\ index' = index \cup {o \in OutputsOf(t) \ spent : Admissible(TokenAt(o))}
    /\ UNCHANGED <<instance, call, ledger, asked, spent>>

\* An output the overlay holds is spent by a transaction that some wallet made.
Spend(o) ==
    /\ pc = "idle" /\ o \in index
    /\ spent' = spent \cup {o}
    /\ index' = index \ {o}
    /\ UNCHANGED <<instance, call, ledger, asked>>

-----------------------------------------------------------------------------
(* FindAllAdvertisements, ParseAdvertisement and RevokeAdvertisements.       *)

FindRefused(protocol) ==
    /\ pc = "idle"
    /\ \/ ~initialized /\ Returns("errNotInitialized")
       \/ initialized /\ protocol \notin Protocols /\ Returns("errUnsupportedProtocol")
    /\ UNCHANGED <<instance, ledger, asked, overlay>>

\* The resolver fails: logged, and reported as no advertisements.
ResolverFails ==
    /\ pc = "idle" /\ initialized
    /\ Returns("ok")
    /\ UNCHANGED <<instance, ledger, asked, overlay>>

\* What the protocol's lookup service answers to a query for the identity key.
Answer(protocol) ==
    {[output |-> o, beef |-> "whole"] :
        o \in {o \in index : TokenAt(o).identifier = protocol /\ TokenAt(o).identityKey = identityKey}}

\* An answer is gathered from several hosts.  One of them may add an item of its own:
\* some output, with a BEEF that holds it, or one that cannot be read or has no output
\* at the index.
Stray ==
    {{}} \cup {{[output |-> o, beef |-> b]} : o \in UNION {OutputsOf(t) : t \in DOMAIN ledger},
                                           b \in {"whole", "broken"}}

Readable(item) == item.beef = "whole" /\ Parseable(TokenAt(item.output))

\* Fault: the first item that cannot be read ends the loop.
ReadAllOrNothing(items, protocol) ==
    IF \E i \in items : ~Readable(i) THEN {}
    ELSE {Advertisement(i.output) : i \in {i \in items : TokenAt(i.output).identifier = protocol}}


\* Items that do not parse, and tokens of the other protocol, are left out.
Read(items, protocol) ==
    {Advertisement(i.output) :
        i \in {i \in items : Readable(i) /\ TokenAt(i.output).identifier = protocol}}

AnswerTypes == {"output-list", "freeform"}

\* An answer of another type than output-list is not read.
FindAllAdvertisements(protocol, type) ==
    /\ pc = "idle" /\ initialized /\ protocol \in Protocols
    /\ result' = "found" /\ bundle' = NoBundle
    /\ UNCHANGED <<instance, pc, request, outputs, ledger, asked, overlay>>
    /\ \/ type = "freeform" /\ found' = {}
       \/ /\ type = "output-list"
          /\ found' \in {Read(Answer(protocol) \cup more, protocol) : more \in Stray}

\* The script of one output, without the BEEF and the index it is found at.
ParseAdvertisement(o) ==
    /\ pc = "idle"
    /\ \/ ~initialized /\ Returns("errNotInitialized")
       \/ initialized /\ ~Parseable(TokenAt(o)) /\ Returns(ParseError(TokenAt(o)))
       \/ /\ initialized /\ Parseable(TokenAt(o))
          /\ found' = {[Advertisement(o) EXCEPT !.tx = 0, !.index = 0]}
          /\ result' = "parsed" /\ bundle' = NoBundle
          /\ UNCHANGED <<pc, request, outputs>>
    /\ UNCHANGED <<instance, ledger, asked, overlay>>

\* Index 0 counts as missing.
Unrevocable(ad) ==
    IF ad.tx = 0 THEN "errMissingBeefData"
    ELSE IF ad.index = 0 THEN "errMissingOutputIndex"
    ELSE "none"

\* The transactions it returns are made up: their inputs name no transaction's hash.
\* The BEEF of an advertisement may be too short to be read as a transaction.
RevokeAdvertisements(ads) ==
    /\ pc = "idle"
    /\ LET fault == IF ~initialized THEN "errNotInitialized"
                    ELSE IF ads = <<>> THEN "errNoAdvertisements"
                    ELSE FirstError([k \in DOMAIN ads |-> Unrevocable(ads[k])])
       IN  \/ fault # "none" /\ Returns(fault)
           \/ fault = "none" /\ Returns("errRevocation")
           \/ /\ fault = "none"
              /\ result' = "ok" /\ found' = {}
              /\ bundle' = [tx |-> 0, topics |-> TopicsOf(ads)]
              /\ UNCHANGED <<pc, request, outputs>>
    /\ UNCHANGED <<instance, ledger, asked, overlay>>

-----------------------------------------------------------------------------
Next ==
    \/ \E c \in Configurations : NewWalletAdvertiser(c)
    \/ \E skip \in BOOLEAN : SetSkipStorageValidation(skip)
    \/ Initialize
    \/ \E req \in Requests : CreateRefused(req) \/ CreateAdvertisements(req)
    \/ WalletFails \/ LockRefused \/ Lock \/ CreateAction \/ ConversionFails \/ ReturnBundle
    \/ \E t \in DOMAIN ledger : Publish(t)
    \/ \E t \in DOMAIN ledger : \E o \in OutputsOf(t) : Spend(o) \/ ParseAdvertisement(o)
    \/ \E p \in Protocols \cup {"other"} : FindRefused(p)
    \/ \E p \in Protocols, type \in AnswerTypes : FindAllAdvertisements(p, type)
    \/ ResolverFails
    \/ \E ads \in SeqOf(found, 2) : RevokeAdvertisements(ads)

Spec == Init /\ [][Next]_vars

-----------------------------------------------------------------------------
(* Properties                                                               *)

Results == {"ok", "found", "parsed", "errChainRequired", "errPrivateKeyRequired",
            "errStorageURLRequired", "errAdvertisableURIRequired", "errPrivateKeyNotHex",
            "errAdvertisableURIInvalid", "errStorageURLInvalid", "errOpen", "errRevocation",
            "errStorageURLMalformed", "errStorageServerError", "errStorageUnreachable",
            "errCryptographicContext", "errInvalidPushDropScript", "errInvalidPushDropFields",
            "errUnsupportedProtocolID", "panic",
            "errAlreadyInitialized", "errPrivateKey", "errUnsupportedProtocol",
            "errTopicNameEmpty", "errInvalidName", "errNotInitialized",
            "errNoAdvertisementData", "errWallet", "errConvert",
            "errNoAdvertisements", "errMissingBeefData", "errMissingOutputIndex"}

\* Types; there is an identity key exactly when the advertiser is initialized.
TypeOK ==
    /\ initialized \in BOOLEAN /\ skipStorageValidation \in BOOLEAN
    /\ identityKey = IF initialized THEN OwnKey ELSE NoKey
    /\ privateKey \in Keys /\ (initialized => privateKey = "good") /\ storageURL \in StorageURLs
    /\ pc \in {"none", "idle", "locking", "converting"}
    /\ advertisableURI \in IF pc = "none" THEN {NoURI} ELSE URI
    /\ request \in Seq(AdData) /\ outputs \in Seq(AdToken)
    /\ result \in Results
    /\ bundle.tx \in 0..Len(ledger) /\ bundle.topics \in Seq(Seq(Words))
    /\ \A ad \in found : ad.protocol \in Protocols /\ ad.tx \in 0..Len(ledger)
    /\ ledger \in Seq(Seq(AdToken)) /\ asked \in Seq(Seq(AdData))
    /\ Len(asked) = Len(ledger)
    /\ index \subseteq UNION {OutputsOf(t) : t \in DOMAIN ledger} /\ index \cap spent = {}

\* The transactions this advertiser made.
Own == (Len(Earlier) + 1)..Len(ledger)

\* A transaction is made for a whole request or not at all: whichever entry is
\* invalid, in whichever of the two validations, no token of the others is made, and
\* every token that is made parses back to the entry it was made for.
IssuedAsAsked ==
    /\ \A t \in Own :
         /\ Len(ledger[t]) = Len(asked[t])
         /\ \A k \in DOMAIN ledger[t] :
              /\ ledger[t][k].identifier = asked[t][k].protocol
              /\ ledger[t][k].name = asked[t][k].name
              /\ ledger[t][k].identityKey = identityKey
              /\ Parseable(ledger[t][k])
    /\ bundle.tx # 0 => Len(bundle.topics) = Len(ledger[bundle.tx])

\* Of the tokens the advertiser paid for, the topic managers admit those whose name has
\* the prefix of their protocol, and refuse the others.  The URI was checked once, when
\* the instance was made, the name twice, in two forms and never against the protocol;
\* validateOutput checks the fields, both of these and the signature of every token.
IssuedIsAdmitted ==
    \A t \in Own : \A k \in DOMAIN asked[t] :
        Admissible(ledger[t][k]) <=> asked[t][k].name[1] = Prefix(asked[t][k].protocol)

\* The advertisements of a protocol that were asked for and that the overlay holds are
\* all found, named as they were asked for and at the output where they are.
AskedAreFound(p) ==
    \A t \in Own : \A k \in DOMAIN asked[t] :
        asked[t][k].protocol = p /\ [tx |-> t, index |-> k - 1] \in index =>
            \E ad \in found' : /\ ad.tx = t /\ ad.index = k - 1
                               /\ ad.protocol = p /\ ad.name = asked[t][k].name

\* When the answer is an output-list, FindAllAdvertisements finds what was asked for, and
\* nothing but advertisements of the protocol, whatever one of the hosts puts among them.
FindsAsAsked ==
    [][\A p \in Protocols : FindAllAdvertisements(p, "output-list") =>
          /\ AskedAreFound(p)
          /\ \A ad \in found' : ad.protocol = p /\ Parseable(TokenAt(ad))]_vars

\* It finds what was asked for whatever lookup services answer with.
EveryAnswerIsRead ==
    [][\A p \in Protocols, type \in AnswerTypes :
          FindAllAdvertisements(p, type) => AskedAreFound(p)]_vars

\* Every advertisement that FindAllAdvertisements returns can be revoked.
FoundIsRevocable == result = "found" => \A ad \in found : Unrevocable(ad) = "none"
=============================================================================
