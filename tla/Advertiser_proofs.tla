-------------------------- MODULE Advertiser_proofs --------------------------
(***************************************************************************)
(* Proofs that a transaction of advertisements is made for a whole request   *)
(* or not at all, that every token made parses back to its entry, and that   *)
(* the topic managers admit it, whatever the requests, the names and the     *)
(* external failures; and that what is found is what was asked for.          *)
(***************************************************************************)
EXTENDS Advertiser, SequenceTheorems, WellFoundedInduction, TLAPS

LEMMA Constants ==
    /\ \A r \in Requests : r \in Seq(AdData)
    /\ Earlier \in Seq(Seq(AdToken))
BY InputsOK

\* The token of an entry, under a URI.
Locked(ad, uri) ==
    [fields |-> 5, identifier |-> ad.protocol, identityKey |-> OwnKey,
     domain |-> uri, name |-> ad.name, signer |-> OwnKey, derived |-> OwnKey]

\* An output made so far is the token of the entry in its place.
Matches(tokens, ads, uri) ==
    /\ Len(tokens) <= Len(ads)
    /\ \A k \in 1..Len(tokens) : /\ tokens[k] = Locked(ads[k], uri)
                                 /\ IsValidTopicOrServiceName(ads[k].name)

Whole(tokens, ads, uri) ==
    /\ tokens \in Seq(AdToken) /\ ads \in Seq(AdData)
    /\ Len(tokens) = Len(ads)
    /\ Matches(tokens, ads, uri) /\ AllValid(ads)

\* An instance has a URI that may be advertised, from the time it is made, and is
\* initialized after that.
URIInv ==
    /\ pc # "none" => advertisableURI \in URI /\ IsAdvertisableURI(advertisableURI)
    /\ initialized => pc # "none"

\* What is being made, and what was made.
MakingInv ==
    /\ pc \in {"none", "idle", "locking", "converting"}
    /\ pc \in {"locking", "converting"} => initialized
    /\ pc = "locking" => /\ request \in Seq(AdData) /\ outputs \in Seq(AdToken)
                         /\ AllValid(request) /\ Matches(outputs, request, advertisableURI)
    /\ pc = "converting" => /\ Len(ledger) >= 1 /\ request \in Seq(AdData)
                            /\ Len(request) = Len(ledger[Len(ledger)])

MadeInv ==
    /\ initialized => identityKey = OwnKey
    /\ ledger \in Seq(Seq(AdToken)) /\ asked \in Seq(Seq(AdData))
    /\ Len(asked) = Len(ledger) /\ Len(Earlier) <= Len(ledger)
    /\ ~initialized => Len(ledger) = Len(Earlier)
    /\ \A t \in Own : Whole(ledger[t], asked[t], advertisableURI)

BundleInv ==
    /\ bundle.tx \in 0..Len(ledger)
    /\ bundle.tx # 0 => Len(bundle.topics) = Len(ledger[bundle.tx])

IInv == URIInv /\ MakingInv /\ MadeInv /\ BundleInv

LEMMA InitInv == Init => IInv
<1> SUFFICES ASSUME Init PROVE IInv
  OBVIOUS
<1>1. asked \in Seq(Seq(AdData)) /\ Len(asked) = Len(Earlier)
  <2>1. Earlier \in Seq(Seq(AdToken)) /\ Len(Earlier) \in Nat /\ DOMAIN Earlier = 1..Len(Earlier)
    BY Constants
  <2>2. asked = [t \in 1..Len(Earlier) |-> <<>>]
    BY <2>1 DEF Init
  <2> HIDE DEF Init
  <2> QED
    BY <2>1, <2>2
<1> QED
  BY <1>1, Constants DEF Init, IInv, URIInv, MakingInv, MadeInv, BundleInv, NoBundle, Own

LEMMA URIKept ==
    ASSUME URIInv, advertisableURI' = advertisableURI,
           pc = "none" => pc' = "none" /\ initialized' = initialized,
           pc # "none" => pc' # "none"
    PROVE  URIInv'
<1>1. CASE pc = "none"
  BY <1>1 DEF URIInv
<1>2. CASE pc # "none"
  <2>1. IsAdvertisableURI(advertisableURI)
    BY <1>2 DEF URIInv
  <2>2. IsAdvertisableURI(advertisableURI)'
    BY <2>1 DEF IsAdvertisableURI, ValidateCustomHTTPSURI, ValidateWSSURI,
                ValidateJS8CallURI, ValidCoordinate, ValidQuantity
  <2> QED
    BY <1>2, <2>2 DEF URIInv
<1> QED
  BY <1>1, <1>2

\* A call that fails or returns nothing leaves no trace of a request.
LEMMA ReturnsKeeps ==
    ASSUME IInv, NEW r, Returns(r), UNCHANGED <<ledger, asked, advertisableURI>>, pc # "none",
           initialized' = initialized \/ (initialized' = TRUE /\ ~initialized),
           identityKey' = IF initialized' /\ ~initialized THEN OwnKey ELSE identityKey
    PROVE  IInv'
<1>1. URIInv'
  BY URIKept DEF IInv, Returns
<1> QED
  BY <1>1 DEF IInv, MakingInv, MadeInv, BundleInv, Returns, NoBundle, Own

\* Nor does a step that changes neither the call nor the ledger.
LEMMA OtherKeeps ==
    ASSUME IInv, UNCHANGED <<advertisableURI, initialized, identityKey, pc, request, outputs,
                             bundle, ledger, asked>>
    PROVE  IInv'
<1>1. URIInv'
  BY URIKept DEF IInv
<1> QED
  BY <1>1 DEF IInv, MakingInv, MadeInv, BundleInv, Own

\* Nor does an answer.
LEMMA AnswerKeeps ==
    ASSUME IInv, UNCHANGED <<advertisableURI, initialized, identityKey, pc, request, outputs,
                             ledger, asked>>, bundle'.tx = 0
    PROVE  IInv'
<1>1. URIInv'
  BY URIKept DEF IInv
<1> QED
  BY <1>1 DEF IInv, MakingInv, MadeInv, BundleInv, Own

LEMMA ValidEntry ==
    ASSUME NEW ad \in AdData, Invalid(ad) = "none", NEW uri \in URI
    PROVE  Locked(ad, uri) \in AdToken /\ Parseable(Locked(ad, uri))
<1>1. ad.protocol \in Protocols
  BY DEF Invalid
<1>2. IsValidTopicOrServiceName(FullName(ad.protocol, ad.name))
  BY <1>1 DEF Invalid, Protocols
<1>3. /\ Locked(ad, uri).identifier = ad.protocol /\ Locked(ad, uri).name = ad.name
      /\ Locked(ad, uri).fields = 5
      /\ Locked(ad, uri) \in AdToken
  BY <1>1 DEF Locked, AdToken, AdData
<1> QED
  BY <1>1, <1>2, <1>3 DEF Parseable, ParseError

LEMMA CreateKeeps ==
    ASSUME IInv, NEW req \in Requests, CreateAdvertisements(req)
    PROVE  IInv'
<1>1. req \in Seq(AdData)
  BY Constants
<1>2. URIInv'
  BY URIKept DEF IInv, CreateAdvertisements, instance
<1> QED
  BY <1>1, <1>2 DEF CreateAdvertisements, IInv, MakingInv, MadeInv, BundleInv, Matches, Own, instance

LEMMA LockKeeps ==
    ASSUME IInv, Lock
    PROVE  IInv'
<1> DEFINE k == Len(outputs) + 1
<1>1. /\ pc = "locking" /\ Len(outputs) < Len(request)
      /\ IsValidTopicOrServiceName(request[k].name)
      /\ outputs' = Append(outputs, Locked(request[k], advertisableURI))
      /\ UNCHANGED <<advertisableURI, initialized, identityKey, pc, request, bundle, ledger, asked>>
  BY DEF Lock, instance, Locking, Locked
<1>2. /\ request \in Seq(AdData) /\ outputs \in Seq(AdToken) /\ AllValid(request)
      /\ Matches(outputs, request, advertisableURI) /\ advertisableURI \in URI
  BY <1>1 DEF IInv, MakingInv, URIInv
<1>3. k \in 1..Len(request) /\ request[k] \in AdData /\ Invalid(request[k]) = "none"
  BY <1>1, <1>2 DEF AllValid
<1>4. Locked(request[k], advertisableURI) \in AdToken
  BY <1>2, <1>3, ValidEntry
<1>5. outputs' \in Seq(AdToken) /\ Matches(outputs', request, advertisableURI)
  BY <1>1, <1>2, <1>4 DEF Matches
<1>6. URIInv'
  BY <1>1, URIKept DEF IInv
<1> QED
  BY <1>1, <1>2, <1>5, <1>6 DEF IInv, MakingInv, MadeInv, BundleInv, Own

LEMMA CreateActionKeeps ==
    ASSUME IInv, CreateAction
    PROVE  IInv'
<1>1. /\ pc = "locking" /\ Len(outputs) = Len(request)
      /\ ledger' = Append(ledger, outputs) /\ asked' = Append(asked, request)
      /\ pc' = "converting"
      /\ UNCHANGED <<advertisableURI, initialized, identityKey, request, outputs, bundle>>
  BY DEF CreateAction, instance
<1>2. /\ initialized /\ request \in Seq(AdData) /\ outputs \in Seq(AdToken)
      /\ AllValid(request) /\ Matches(outputs, request, advertisableURI)
      /\ ledger \in Seq(Seq(AdToken)) /\ asked \in Seq(Seq(AdData))
      /\ Len(asked) = Len(ledger) /\ Len(Earlier) <= Len(ledger) /\ Len(Earlier) \in Nat
  BY <1>1, Constants DEF IInv, MakingInv, MadeInv
<1>3. Whole(outputs, request, advertisableURI)
  BY <1>1, <1>2 DEF Whole
<1>4. /\ ledger' \in Seq(Seq(AdToken)) /\ asked' \in Seq(Seq(AdData))
      /\ Len(ledger') = Len(ledger) + 1 /\ Len(asked') = Len(asked) + 1
      /\ ledger'[Len(ledger) + 1] = outputs /\ asked'[Len(ledger) + 1] = request
      /\ \A t \in 1..Len(ledger) : ledger'[t] = ledger[t] /\ asked'[t] = asked[t]
  BY <1>1, <1>2
<1>5. ASSUME NEW t \in Own'
      PROVE  Whole(ledger'[t], asked'[t], advertisableURI)
  <2>1. t \in Own \/ t = Len(ledger) + 1
    BY <1>2, <1>4 DEF Own
  <2>2. CASE t \in Own
    <3>1. Whole(ledger[t], asked[t], advertisableURI)
      BY <2>2 DEF IInv, MadeInv
    <3>2. t \in 1..Len(ledger)
      <4>1. Len(ledger) \in Nat /\ Len(Earlier) \in Nat
        BY <1>2
      <4> QED
        BY <4>1, <2>2 DEF Own
    <3>3. ledger'[t] = ledger[t] /\ asked'[t] = asked[t]
      BY <1>4, <3>2
    <3> QED
      BY <3>1, <3>3
  <2>3. CASE t = Len(ledger) + 1
    BY <2>3, <1>3, <1>4
  <2> QED
    BY <2>1, <2>2, <2>3
<1>6. MadeInv'
  <2>1. identityKey = OwnKey
    BY <1>2 DEF IInv, MadeInv
  <2>2. (\A t \in Own : Whole(ledger[t], asked[t], advertisableURI))'
    BY <1>1, <1>5
  <2>3. initialized' /\ identityKey' = OwnKey
    BY <1>1, <1>2, <2>1
  <2>4. Len(asked') = Len(ledger') /\ Len(Earlier) <= Len(ledger')
    BY <1>2, <1>4
  <2> QED
    BY <1>4, <2>2, <2>3, <2>4 DEF MadeInv
<1>7. BundleInv'
  <2>1. bundle.tx \in 0..Len(ledger) /\ (bundle.tx # 0 => Len(bundle.topics) = Len(ledger[bundle.tx]))
    BY DEF IInv, BundleInv
  <2> QED
    BY <1>1, <1>2, <1>4, <2>1 DEF BundleInv
<1>8. MakingInv'
  BY <1>1, <1>2, <1>4 DEF MakingInv
<1>9. URIInv'
  BY <1>1, URIKept DEF IInv
<1> QED
  BY <1>6, <1>7, <1>8, <1>9 DEF IInv

LEMMA ReturnBundleKeeps ==
    ASSUME IInv, ReturnBundle
    PROVE  IInv'
<1>1. /\ pc = "converting" /\ pc' = "idle"
      /\ bundle' = [tx |-> Len(ledger), topics |-> TopicsOf(request)]
      /\ UNCHANGED <<advertisableURI, initialized, identityKey, ledger, asked>>
  BY DEF ReturnBundle, instance
<1>2. /\ request \in Seq(AdData) /\ Len(request) = Len(ledger[Len(ledger)]) /\ Len(ledger) \in Nat
  BY <1>1 DEF IInv, MakingInv, MadeInv
<1>3. Len(TopicsOf(request)) = Len(request)
  BY <1>2 DEF TopicsOf
<1>4. URIInv'
  BY <1>1, URIKept DEF IInv
<1> QED
  BY <1>1, <1>2, <1>3, <1>4 DEF IInv, MakingInv, MadeInv, BundleInv, Own

LEMMA ConstructorKeeps ==
    ASSUME IInv, NEW c \in Configurations, NewWalletAdvertiser(c)
    PROVE  IInv'
<1>1. /\ pc = "none" /\ UNCHANGED <<initialized, identityKey, bundle, ledger, asked>>
      /\ \/ Misconfigured(c) = "none" /\ pc' = "idle" /\ advertisableURI' = c.advertisableURI
         \/ UNCHANGED <<pc, advertisableURI>>
  BY DEF NewWalletAdvertiser, Misconfigured
<1>2. ~initialized /\ Own = {} /\ Own' = {}
  <2>1. ~initialized /\ Len(ledger) = Len(Earlier) /\ Len(Earlier) \in Nat
    BY <1>1, Constants DEF IInv, URIInv, MadeInv
  <2> QED
    BY <1>1, <2>1 DEF Own
<1>3. URIInv'
  <2>1. CASE UNCHANGED <<pc, advertisableURI>>
    BY <1>1, <2>1, URIKept DEF IInv
  <2>2. CASE Misconfigured(c) = "none" /\ pc' = "idle" /\ advertisableURI' = c.advertisableURI
    <3>1. IsAdvertisableURI(c.advertisableURI)
      BY <2>2 DEF Misconfigured
    <3>2. c.advertisableURI \in URI
      BY InputsOK DEF Configuration
    <3>3. IsAdvertisableURI(advertisableURI)'
      BY <2>2, <3>1 DEF IsAdvertisableURI, ValidateCustomHTTPSURI, ValidateWSSURI,
                        ValidateJS8CallURI, ValidCoordinate, ValidQuantity
    <3> QED
      BY <2>2, <3>2, <3>3 DEF URIInv
  <2> QED
    BY <1>1, <2>1, <2>2
<1>4. MadeInv'
  BY <1>1, <1>2 DEF IInv, MadeInv
<1> QED
  BY <1>1, <1>2, <1>3, <1>4 DEF IInv, MakingInv, BundleInv

LEMMA StepKeeps ==
    ASSUME IInv, [Next]_vars
    PROVE  IInv'
<1>0. ASSUME NEW c \in Configurations, NewWalletAdvertiser(c)
      PROVE  IInv'
  BY <1>0, ConstructorKeeps
<1>1. ASSUME NEW skip \in BOOLEAN, SetSkipStorageValidation(skip)
      PROVE  IInv'
  BY <1>1, OtherKeeps DEF SetSkipStorageValidation, call
<1>2. CASE Initialize
  <2>1. UNCHANGED <<ledger, asked, advertisableURI>> /\ pc # "none"
    BY <1>2 DEF Initialize
  <2>2. PICK r : /\ Returns(r)
                 /\ \/ UNCHANGED <<initialized, identityKey>>
                    \/ ~initialized /\ initialized' = TRUE /\ identityKey' = OwnKey
    BY <1>2 DEF Initialize
  <2>3. CASE UNCHANGED <<initialized, identityKey>>
    <3>1. identityKey' = IF initialized' /\ ~initialized THEN OwnKey ELSE identityKey
      BY <2>3
    <3>2. initialized' = initialized
      BY <2>3
    <3> QED
      BY <2>1, <2>2, <3>1, <3>2, ReturnsKeeps
  <2>4. CASE ~initialized /\ initialized' = TRUE /\ identityKey' = OwnKey
    <3>1. identityKey' = IF initialized' /\ ~initialized THEN OwnKey ELSE identityKey
      BY <2>4
    <3> QED
      BY <2>1, <2>2, <2>4, <3>1, ReturnsKeeps
  <2> QED
    BY <2>2, <2>3, <2>4
<1>3. ASSUME NEW req \in Requests, CreateRefused(req)
      PROVE  IInv'
  <2>1. initialized' = initialized /\ identityKey' = identityKey /\ UNCHANGED <<ledger, asked, advertisableURI>> /\ pc # "none"
    BY <1>3 DEF CreateRefused, instance
  <2>2. \/ Returns("errNotInitialized") \/ Returns("errNoAdvertisementData")
        \/ Returns(FirstFault(req))
    BY <1>3 DEF CreateRefused
  <2> QED
    BY <2>1, <2>2, ReturnsKeeps
<1>4. ASSUME NEW req \in Requests, CreateAdvertisements(req)
      PROVE  IInv'
  BY <1>4, CreateKeeps
<1>5. CASE WalletFails \/ LockRefused \/ ConversionFails
  <2>1. initialized' = initialized /\ identityKey' = identityKey /\ UNCHANGED <<ledger, asked, advertisableURI>> /\ pc # "none"
    BY <1>5 DEF WalletFails, LockRefused, ConversionFails, instance
  <2>2. Returns("errWallet") \/ Returns("errInvalidName") \/ Returns("errConvert")
    BY <1>5 DEF WalletFails, LockRefused, ConversionFails
  <2> QED
    BY <2>1, <2>2, ReturnsKeeps
<1>6. CASE Lock
  BY <1>6, LockKeeps
<1>7. CASE CreateAction
  BY <1>7, CreateActionKeeps
<1>8. CASE ReturnBundle
  BY <1>8, ReturnBundleKeeps
<1>9. ASSUME NEW t \in DOMAIN ledger, Publish(t)
      PROVE  IInv'
  BY <1>9, OtherKeeps DEF Publish, instance, call
<1>10. ASSUME NEW t \in DOMAIN ledger, NEW o \in OutputsOf(t), Spend(o)
       PROVE  IInv'
  BY <1>10, OtherKeeps DEF Spend, instance, call
<1>11. ASSUME NEW t \in DOMAIN ledger, NEW o \in OutputsOf(t), ParseAdvertisement(o)
       PROVE  IInv'
  <2>1. initialized' = initialized /\ identityKey' = identityKey /\ UNCHANGED <<ledger, asked, advertisableURI>> /\ pc # "none"
    BY <1>11 DEF ParseAdvertisement, instance
  <2>2. CASE Returns("errNotInitialized") \/ Returns(ParseError(TokenAt(o)))
    BY <2>1, <2>2, ReturnsKeeps
  <2>3. CASE bundle' = NoBundle /\ UNCHANGED <<pc, request, outputs>>
    BY <2>1, <2>3, AnswerKeeps DEF NoBundle
  <2> QED
    BY <1>11, <2>2, <2>3 DEF ParseAdvertisement
<1>12. ASSUME NEW p, FindRefused(p)
       PROVE  IInv'
  <2>1. initialized' = initialized /\ identityKey' = identityKey /\ UNCHANGED <<ledger, asked, advertisableURI>> /\ pc # "none"
    BY <1>12 DEF FindRefused, instance
  <2>2. Returns("errNotInitialized") \/ Returns("errUnsupportedProtocol")
    BY <1>12 DEF FindRefused
  <2> QED
    BY <2>1, <2>2, ReturnsKeeps
<1>13. ASSUME NEW p, NEW type, FindAllAdvertisements(p, type)
       PROVE  IInv'
  BY <1>13, AnswerKeeps DEF FindAllAdvertisements, instance, NoBundle
<1>14. CASE ResolverFails
  BY <1>14, ReturnsKeeps DEF ResolverFails, instance
<1>15. ASSUME NEW ads, RevokeAdvertisements(ads)
       PROVE  IInv'
  <2>1. initialized' = initialized /\ identityKey' = identityKey /\ UNCHANGED <<ledger, asked, advertisableURI>> /\ pc # "none"
    BY <1>15 DEF RevokeAdvertisements, instance
  <2>2. CASE \E r : Returns(r)
    BY <2>1, <2>2, ReturnsKeeps
  <2>3. CASE bundle'.tx = 0 /\ UNCHANGED <<pc, request, outputs>>
    BY <2>1, <2>3, AnswerKeeps
  <2> QED
    BY <1>15, <2>2, <2>3 DEF RevokeAdvertisements
<1>16. CASE UNCHANGED vars
  BY <1>16, OtherKeeps DEF vars, instance, call
<1> QED
  BY <1>0, <1>1, <1>2, <1>3, <1>4, <1>5, <1>6, <1>7, <1>8, <1>9, <1>10, <1>11, <1>12, <1>13, <1>14, <1>15, <1>16
     DEF Next

LEMMA WholeIsAsAsked ==
    ASSUME NEW uri \in URI, NEW tokens, NEW ads, Whole(tokens, ads, uri), NEW k \in DOMAIN tokens
    PROVE  /\ tokens[k] = Locked(ads[k], uri)
           /\ tokens[k].identifier = ads[k].protocol /\ tokens[k].name = ads[k].name
           /\ tokens[k].identityKey = OwnKey /\ Parseable(tokens[k])
<1>1. /\ k \in 1..Len(ads) /\ tokens[k] = Locked(ads[k], uri) /\ ads[k] \in AdData
      /\ Invalid(ads[k]) = "none"
  BY DEF Whole, Matches, AllValid
<1>2. Parseable(tokens[k])
  BY <1>1, ValidEntry
<1> QED
  BY <1>1, <1>2 DEF Locked

\* For any requests, names and lengths: a transaction is made for a whole request or
\* not at all, under the advertiser's own key, every token of it parses back to its
\* entry, and a bundle has one topic for each.
THEOREM MadeAsAsked == Spec => []IssuedAsAsked
<1>1. IInv => IssuedAsAsked
  <2> SUFFICES ASSUME IInv PROVE IssuedAsAsked
    OBVIOUS
  <2>1. ASSUME NEW t \in Own
        PROVE  /\ Len(ledger[t]) = Len(asked[t]) /\ initialized /\ advertisableURI \in URI
               /\ Whole(ledger[t], asked[t], advertisableURI)
    <3>1. Whole(ledger[t], asked[t], advertisableURI)
      BY DEF IInv, MadeInv
    <3>2. Len(Earlier) \in Nat /\ Len(ledger) \in Nat
      BY Constants DEF IInv, MadeInv
    <3>3. initialized
      BY <3>2 DEF IInv, MadeInv, Own
    <3>4. advertisableURI \in URI
      BY <3>3 DEF IInv, URIInv
    <3> QED
      BY <3>1, <3>3, <3>4 DEF Whole
  <2>2. \A t \in Own : identityKey = OwnKey
    BY <2>1 DEF IInv, MadeInv
  <2> QED
    BY <2>1, <2>2, WholeIsAsAsked DEF IssuedAsAsked, IInv, BundleInv
<1> QED
  BY <1>1, InitInv, StepKeeps, PTL DEF Spec

-----------------------------------------------------------------------------
\* A token that was locked for a valid entry, under a URI that may be advertised, fails
\* at most one check of validateOutput: that of the prefix.
LEMMA LockedIsAdmitted ==
    ASSUME NEW ad \in AdData, NEW uri \in URI, IsAdvertisableURI(uri),
           ad.protocol \in Protocols, IsValidTopicOrServiceName(ad.name)
    PROVE  Admissible(Locked(ad, uri)) <=> ad.name[1] = Prefix(ad.protocol)
<1> DEFINE k == Script(Locked(ad, uri))
<1>1. /\ k.decodes /\ k.fields = 5 /\ k.identifier = ad.protocol /\ k.uri = uri
      /\ k.key /\ k.signature = "right" /\ k.derived
      /\ k.name = IF ad.name[1] = "tm" THEN "tm_" ELSE "ls_"
  <2>1. /\ (k.decodes <=> Locked(ad, uri).fields # 0) /\ k.fields = Locked(ad, uri).fields
        /\ k.identifier = Locked(ad, uri).identifier /\ k.uri = Locked(ad, uri).domain
        /\ k.key
        /\ k.signature = IF Locked(ad, uri).signer = Locked(ad, uri).identityKey
                         THEN "right" ELSE "wrong"
        /\ (k.derived <=> Locked(ad, uri).derived = Locked(ad, uri).identityKey)
        /\ k.name = IF ~IsValidTopicOrServiceName(Locked(ad, uri).name) THEN "invalid"
                    ELSE IF Locked(ad, uri).name[1] = "tm" THEN "tm_" ELSE "ls_"
    BY DEF Script
  <2>2. /\ Locked(ad, uri).fields = 5 /\ Locked(ad, uri).identifier = ad.protocol
        /\ Locked(ad, uri).domain = uri /\ Locked(ad, uri).name = ad.name
        /\ Locked(ad, uri).identityKey = OwnKey /\ Locked(ad, uri).signer = OwnKey
        /\ Locked(ad, uri).derived = OwnKey
    BY DEF Locked
  <2> HIDE DEF k
  <2>3. IsValidTopicOrServiceName(Locked(ad, uri).name)
    BY <2>2
  <2>4. k.name = IF Locked(ad, uri).name[1] = "tm" THEN "tm_" ELSE "ls_"
    BY <2>1, <2>3
  <2>5. k.name = IF ad.name[1] = "tm" THEN "tm_" ELSE "ls_"
    BY <2>2, <2>4
  <2>6. k.signature = "right" /\ k.fields = 5 /\ k.identifier = ad.protocol /\ k.uri = uri
    BY <2>1, <2>2
  <2>7. k.decodes /\ k.key /\ k.derived
    BY <2>1, <2>2
  <2> QED
    BY <2>5, <2>6, <2>7
<1> HIDE DEF k
<1>2. IsTokenSignatureCorrectlyLinked(k) = "valid"
  BY <1>1 DEF IsTokenSignatureCorrectlyLinked, Protocols
<1>3. ad.name[1] \in {"tm", "ls"}
  BY DEF IsValidTopicOrServiceName
<1>4. ASSUME NEW s \in Services
      PROVE  ValidOutput(s, k) <=> ad.protocol = Identifier[s] /\ k.name = NamePrefix[s]
  BY <1>1, <1>2 DEF ValidOutput
<1>5. Admissible(Locked(ad, uri)) <=> \E s \in Services : ValidOutput(s, k)
  BY DEF Admissible, k
<1> QED
  BY <1>1, <1>3, <1>4, <1>5 DEF Services, Identifier, NamePrefix, Prefix, Protocols

LEMMA MadeIsAdmitted ==
    ASSUME IInv
    PROVE  IssuedIsAdmitted
<1> SUFFICES ASSUME NEW t \in Own, NEW k \in DOMAIN asked[t]
             PROVE  Admissible(ledger[t][k]) <=> asked[t][k].name[1] = Prefix(asked[t][k].protocol)
  BY DEF IssuedIsAdmitted
<1>1. Whole(ledger[t], asked[t], advertisableURI)
  BY DEF IInv, MadeInv
<1>2. /\ ledger[t][k] = Locked(asked[t][k], advertisableURI)
      /\ asked[t][k] \in AdData /\ Invalid(asked[t][k]) = "none"
      /\ IsValidTopicOrServiceName(asked[t][k].name)
  BY <1>1 DEF Whole, Matches, AllValid
<1>3. asked[t][k].protocol \in Protocols
  BY <1>2 DEF Invalid
<1>4. initialized
  <2>1. Len(Earlier) \in Nat /\ Len(ledger) \in Nat
    BY Constants DEF IInv, MadeInv
  <2> QED
    BY <2>1 DEF IInv, MadeInv, Own
<1>5. advertisableURI \in URI /\ IsAdvertisableURI(advertisableURI)
  BY <1>4 DEF IInv, URIInv
<1> QED
  BY <1>2, <1>3, <1>5, LockedIsAdmitted

\* For any configuration, requests and names: every check of validateOutput, of the
\* fields, the URI, the name and the signature, passes for every token the advertiser
\* made whose name has the prefix of its protocol, and the others are admitted nowhere.
THEOREM WhatIsIssuedIsAdmitted == Spec => []IssuedIsAdmitted
BY InitInv, StepKeeps, MadeIsAdmitted, PTL DEF Spec

-----------------------------------------------------------------------------
(* Types.  Part of them is the invariant above; the rest is that of the     *)
(* instance, of what a call leaves behind and of the overlay.               *)

InstanceOK ==
    /\ initialized \in BOOLEAN /\ skipStorageValidation \in BOOLEAN
    /\ identityKey = IF initialized THEN OwnKey ELSE NoKey
    /\ privateKey \in Keys /\ (initialized => privateKey = "good") /\ storageURL \in StorageURLs
    /\ initialized => pc # "none"
    /\ advertisableURI \in IF pc = "none" THEN {NoURI} ELSE URI

FoundOK ==
    \A ad \in found : /\ ad.protocol \in Protocols /\ ad.tx \in 0..Len(ledger)
                      /\ ad.name \in Seq(Words)

CallOK ==
    /\ request \in Seq(AdData) /\ outputs \in Seq(AdToken)
    /\ result \in Results
    /\ bundle.topics \in Seq(Seq(Words))
    /\ FoundOK

OverlayOK ==
    /\ index \subseteq UNION {OutputsOf(t) : t \in DOMAIN ledger}
    /\ index \cap spent = {}

\* A list is refused just when it has a faulty entry, with the error of one of these.
LEMMA FirstErrorIsOne ==
    ASSUME NEW errors, \E n \in Nat : DOMAIN errors = 1..n
    PROVE  \/ /\ FirstError(errors) = "none"
              /\ \A k \in DOMAIN errors : errors[k] = "none"
           \/ \E k \in DOMAIN errors : FirstError(errors) = errors[k] /\ errors[k] # "none"
<1>0. PICK n \in Nat : DOMAIN errors = 1..n
  OBVIOUS
<1> USE <1>0
<1>1. CASE \A k \in DOMAIN errors : errors[k] = "none"
  BY <1>1 DEF FirstError
<1>2. CASE ~\A k \in DOMAIN errors : errors[k] = "none"
  <2> DEFINE T == {k \in 1..n : errors[k] # "none"}
  <2>1. T \subseteq Nat /\ T # {}
    BY <1>2
  <2>2. PICK k \in T : \A j \in T : <<j, k>> \notin OpToRel(<, Nat)
    <3> HIDE DEF T
    <3> QED BY <2>1, NatLessThanWellFounded, WFMin
  <2>3. \A j \in 1..(k - 1) : errors[j] = "none"
    <3> SUFFICES ASSUME NEW j \in 1..(k - 1), errors[j] # "none" PROVE FALSE
      OBVIOUS
    <3>1. j \in T /\ j \in Nat /\ k \in Nat /\ j < k
      OBVIOUS
    <3> HIDE DEF T
    <3> QED BY <2>2, <3>1 DEF OpToRel
  <2>4. \E i \in DOMAIN errors : errors[i] # "none" /\ \A j \in 1..(i - 1) : errors[j] = "none"
    BY <2>3
  <2> DEFINE i == CHOOSE i \in DOMAIN errors :
                      errors[i] # "none" /\ \A j \in 1..(i - 1) : errors[j] = "none"
  <2>5. i \in DOMAIN errors /\ errors[i] # "none"
    BY <2>4
  <2>6. FirstError(errors) = errors[i]
    BY <1>2 DEF FirstError
  <2> HIDE DEF i
  <2> QED BY <2>5, <2>6
<1> QED BY <1>1, <1>2

LEMMA FaultIsAResult ==
    ASSUME NEW req \in Seq(AdData)
    PROVE  /\ FirstFault(req) \in Results \cup {"none"}
           /\ FirstFault(req) = "none" => AllValid(req)
<1> DEFINE errors == [k \in DOMAIN req |-> Invalid(req[k])]
<1>1. Len(req) \in Nat /\ DOMAIN errors = 1..Len(req)
  OBVIOUS
<1>2. ASSUME NEW ad PROVE Invalid(ad) \in Results \cup {"none"}
  <2>1. Invalid(ad) \in {"panic", "errUnsupportedProtocol", "errTopicNameEmpty", "errInvalidName",
                         "none"}
    BY DEF Invalid
  <2> QED BY <2>1 DEF Results
<1>3. \A k \in 1..Len(req) : errors[k] \in Results \cup {"none"}
  BY <1>1, <1>2
<1>4. FirstFault(req) = FirstError(errors)
  BY DEF FirstFault
<1>5. \E n \in Nat : DOMAIN errors = 1..n
  BY <1>1
<1> HIDE DEF errors
<1>6. \/ /\ FirstError(errors) = "none"
         /\ \A k \in DOMAIN errors : errors[k] = "none"
      \/ \E k \in DOMAIN errors : FirstError(errors) = errors[k] /\ errors[k] # "none"
  BY <1>5, FirstErrorIsOne
<1>7. AllValid(req) <=> \A k \in DOMAIN errors : errors[k] = "none"
  BY DEF AllValid, errors
<1> QED BY <1>1, <1>3, <1>4, <1>6, <1>7

LEMMA TopicsTyped ==
    ASSUME NEW n \in Nat, NEW ads, DOMAIN ads = 1..n, \A k \in 1..n : ads[k].name \in Seq(Words)
    PROVE  TopicsOf(ads) \in Seq(Seq(Words))
<1>0. "tm" \in Words
  BY InputsOK
<1>1. <<"tm">> \in Seq(Words)
  BY <1>0
<1>2. \A k \in 1..n : <<"tm">> \o ads[k].name \in Seq(Words)
  BY <1>1, ConcatProperties
<1> QED BY <1>2 DEF TopicsOf

\* An output of a transaction on the ledger is a token.
LEMMA OutputIsToken ==
    ASSUME ledger \in Seq(Seq(AdToken)), NEW t \in DOMAIN ledger, NEW o \in OutputsOf(t)
    PROVE  /\ o.tx = t /\ t \in 1..Len(ledger)
           /\ TokenAt(o) \in AdToken
<1>1. PICK k \in DOMAIN ledger[t] : o = [tx |-> t, index |-> k - 1]
  BY DEF OutputsOf
<1>2. t \in 1..Len(ledger) /\ ledger[t] \in Seq(AdToken) /\ k \in 1..Len(ledger[t])
  OBVIOUS
<1>3. o.tx = t /\ o.index + 1 = k
  BY <1>1, <1>2
<1> QED BY <1>2, <1>3 DEF TokenAt

TypeInv == IInv /\ InstanceOK /\ CallOK /\ OverlayOK

LEMMA ReturnsTyped ==
    ASSUME CallOK, NEW r \in Results, Returns(r)
    PROVE  CallOK'
<1>1. request' = <<>> /\ outputs' = <<>> /\ found' = {} /\ result' = r /\ bundle' = NoBundle
  BY DEF Returns
<1>2. FoundOK'
  BY <1>1 DEF FoundOK
<1> QED BY <1>1, <1>2 DEF CallOK, NoBundle

\* What the last call found stays typed while the ledger grows.
LEMMA FoundStays ==
    ASSUME IInv, IInv', FoundOK, found' = found, Len(ledger) <= Len(ledger')
    PROVE  FoundOK'
<1>1. Len(ledger) \in Nat /\ Len(ledger') \in Nat
  BY DEF IInv, MadeInv
<1> QED BY <1>1 DEF FoundOK

LEMMA CallQuiet ==
    ASSUME CallOK, UNCHANGED <<request, outputs, result, bundle, found, ledger>>
    PROVE  CallOK'
BY DEF CallOK, FoundOK

LEMMA OverlayQuiet ==
    ASSUME OverlayOK, UNCHANGED <<ledger, overlay>>
    PROVE  OverlayOK'
BY DEF OverlayOK, overlay, OutputsOf

LEMMA InstanceQuiet ==
    ASSUME InstanceOK, UNCHANGED instance, pc # "none", pc' # "none"
    PROVE  InstanceOK'
BY DEF InstanceOK, instance

\* A step that returns an error, or nothing found, and leaves everything else alone.
LEMMA ReturnsTypes ==
    ASSUME TypeInv, IInv', NEW r \in Results, Returns(r), pc # "none",
           UNCHANGED <<instance, ledger, overlay>>
    PROVE  TypeInv'
<1>1. CallOK'
  BY ReturnsTyped DEF TypeInv
<1>2. InstanceOK' /\ OverlayOK'
  BY InstanceQuiet, OverlayQuiet DEF TypeInv, Returns
<1> QED BY <1>1, <1>2 DEF TypeInv

LEMMA ConstructorTypes ==
    ASSUME TypeInv, IInv', NEW c \in Configurations, NewWalletAdvertiser(c)
    PROVE  TypeInv'
<1>1. c \in Configuration /\ NoURI \notin URI
  BY InputsOK
<1>2. /\ UNCHANGED <<initialized, identityKey, skipStorageValidation, request, outputs,
                      bundle, found, ledger, overlay>>
      /\ pc = "none"
      /\ \/ /\ pc' = "idle" /\ privateKey' = c.privateKey /\ storageURL' = c.storageURL
            /\ advertisableURI' = c.advertisableURI
         \/ UNCHANGED <<pc, privateKey, storageURL, advertisableURI>>
  BY DEF NewWalletAdvertiser
<1>3. result' \in Results
  <2>1. result' \in {"ok", "errOpen"} \/ (result' = Misconfigured(c) /\ Misconfigured(c) # "none")
    BY DEF NewWalletAdvertiser
  <2>2. Misconfigured(c) \in Results \cup {"none"}
    BY DEF Misconfigured, Results
  <2> QED BY <2>1, <2>2 DEF Results
<1>4. InstanceOK'
  BY <1>1, <1>2 DEF TypeInv, InstanceOK, Configuration
<1>5. CallOK'
  BY <1>2, <1>3 DEF TypeInv, CallOK, FoundOK
<1> QED BY <1>2, <1>4, <1>5, OverlayQuiet DEF TypeInv

LEMMA InitializeTypes ==
    ASSUME TypeInv, IInv', Initialize
    PROVE  TypeInv'
<1>1. /\ pc = "idle"
      /\ UNCHANGED <<privateKey, storageURL, advertisableURI, skipStorageValidation, ledger, overlay>>
  BY DEF Initialize
<1>2. PICK r \in Results :
        /\ Returns(r)
        /\ \/ UNCHANGED <<initialized, identityKey>>
           \/ ~initialized /\ ValidKey /\ initialized' = TRUE /\ identityKey' = OwnKey
  <2>1. \/ \E r \in {"errAlreadyInitialized", "errPrivateKey", "errCryptographicContext"} :
             Returns(r) /\ UNCHANGED <<initialized, identityKey>>
        \/ \E get, head \in Responses :
             Returns(StorageCheck(get, head)) /\ UNCHANGED <<initialized, identityKey>>
        \/ \E check \in {"ok"} :
             /\ Returns(check)
             /\ ~initialized /\ ValidKey /\ initialized' = TRUE /\ identityKey' = OwnKey
    BY DEF Initialize
  <2>2. \A get, head \in Responses : StorageCheck(get, head) \in Results
    BY DEF StorageCheck, Results
  <2> QED BY <2>1, <2>2 DEF Results
<1>3. InstanceOK'
  <2>0. pc' = "idle"
    BY <1>2 DEF Returns
  <2>1. CASE UNCHANGED <<initialized, identityKey>>
    BY <1>1, <2>0, <2>1 DEF TypeInv, InstanceOK
  <2>2. CASE ~initialized /\ ValidKey /\ initialized' = TRUE /\ identityKey' = OwnKey
    BY <1>1, <2>0, <2>2 DEF TypeInv, InstanceOK, ValidKey
  <2> QED BY <1>2, <2>1, <2>2
<1>4. CallOK'
  BY <1>2, ReturnsTyped DEF TypeInv
<1> QED BY <1>1, <1>3, <1>4, OverlayQuiet DEF TypeInv

LEMMA MakingTypes ==
    ASSUME TypeInv, IInv',
           \/ \E req \in Requests : CreateAdvertisements(req)
           \/ Lock \/ CreateAction \/ ReturnBundle
    PROVE  TypeInv'
<1>1. UNCHANGED <<instance, overlay>> /\ pc # "none" /\ pc' # "none"
  BY DEF CreateAdvertisements, Lock, CreateAction, ReturnBundle
<1>2. InstanceOK'
  BY <1>1, InstanceQuiet DEF TypeInv
<1>3. CASE \E req \in Requests : CreateAdvertisements(req)
  <2>1. /\ request' \in Seq(AdData) /\ outputs' = <<>>
        /\ UNCHANGED <<result, bundle, found, ledger>>
    BY <1>3, Constants DEF CreateAdvertisements
  <2>2. CallOK'
    BY <2>1 DEF TypeInv, CallOK, FoundOK
  <2> QED BY <1>1, <1>2, <2>1, <2>2, OverlayQuiet DEF TypeInv
<1>4. CASE Lock
  <2>1. /\ outputs' = Append(outputs, Locking(request[Len(outputs) + 1]))
        /\ UNCHANGED <<pc, request, result, bundle, found, ledger>>
        /\ pc = "locking" /\ Len(outputs) < Len(request)
    BY <1>4 DEF Lock
  <2>2. outputs' \in Seq(AdToken)
    <3>1. pc' = "locking"
      BY <2>1
    <3> QED BY <3>1 DEF IInv, MakingInv
  <2>3. CallOK'
    BY <2>1, <2>2 DEF TypeInv, CallOK, FoundOK
  <2> QED BY <1>1, <1>2, <2>1, <2>3, OverlayQuiet DEF TypeInv
<1>5. CASE CreateAction
  <2>1. /\ ledger' = Append(ledger, outputs)
        /\ UNCHANGED <<request, outputs, result, bundle, found>>
    BY <1>5 DEF CreateAction
  <2>2. /\ ledger \in Seq(Seq(AdToken)) /\ Len(ledger') = Len(ledger) + 1
        /\ \A t \in DOMAIN ledger : t \in DOMAIN ledger' /\ ledger'[t] = ledger[t]
    BY <2>1 DEF TypeInv, IInv, MadeInv, CallOK
  <2>3. CallOK'
    <3>1. FoundOK'
      BY <2>1, <2>2, FoundStays DEF TypeInv, CallOK
    <3> QED BY <2>1, <3>1 DEF TypeInv, CallOK
  <2>4. OverlayOK'
    <3>1. \A t \in DOMAIN ledger : t \in DOMAIN ledger' /\ OutputsOf(t)' = OutputsOf(t)
      BY <2>2 DEF OutputsOf
    <3>2. index' = index /\ spent' = spent
      BY <1>1 DEF overlay
    <3>3. UNION {OutputsOf(t) : t \in DOMAIN ledger}
            \subseteq UNION {OutputsOf(t) : t \in DOMAIN ledger}'
      BY <3>1
    <3> QED BY <3>2, <3>3 DEF TypeInv, OverlayOK
  <2> QED BY <1>2, <2>3, <2>4 DEF TypeInv
<1>6. CASE ReturnBundle
  <2>1. /\ bundle' = [tx |-> Len(ledger), topics |-> TopicsOf(request)]
        /\ result' = "ok" /\ found' = {} /\ request' = <<>> /\ outputs' = <<>>
        /\ ledger' = ledger
    BY <1>6 DEF ReturnBundle
  <2>2. TopicsOf(request) \in Seq(Seq(Words))
    <3>1. request \in Seq(AdData) /\ Len(request) \in Nat /\ DOMAIN request = 1..Len(request)
      BY DEF TypeInv, CallOK
    <3>2. \A k \in 1..Len(request) : request[k] \in AdData
      BY <3>1, ElementOfSeq
    <3>3. \A k \in 1..Len(request) : request[k].name \in Seq(Words)
      BY <3>2 DEF AdData
    <3> QED BY <3>1, <3>3, TopicsTyped
  <2>3. FoundOK'
    BY <2>1 DEF FoundOK
  <2>4. CallOK'
    BY <2>1, <2>2, <2>3 DEF CallOK, Results
  <2> QED BY <1>1, <1>2, <2>1, <2>4, OverlayQuiet DEF TypeInv
<1> QED BY <1>3, <1>4, <1>5, <1>6

LEMMA OverlayTypes ==
    ASSUME TypeInv, IInv', NEW t \in DOMAIN ledger,
           \/ Publish(t)
           \/ \E o \in OutputsOf(t) : Spend(o)
    PROVE  TypeInv'
<1>1. UNCHANGED <<instance, call, ledger>> /\ pc # "none" /\ pc' # "none"
  BY DEF Publish, Spend, call
<1>2. InstanceOK' /\ CallOK'
  BY <1>1, InstanceQuiet, CallQuiet DEF TypeInv, call
<1>3. OverlayOK'
  <2>1. UNION {OutputsOf(u) : u \in DOMAIN ledger}' = UNION {OutputsOf(u) : u \in DOMAIN ledger}
    BY <1>1 DEF OutputsOf
  <2>2. OutputsOf(t) \subseteq UNION {OutputsOf(u) : u \in DOMAIN ledger}
    OBVIOUS
  <2>3. CASE Publish(t)
    <3>1. /\ index' = index \cup {o \in OutputsOf(t) \ spent : Admissible(TokenAt(o))}
          /\ spent' = spent
      BY <2>3 DEF Publish
    <3> QED BY <2>1, <2>2, <3>1 DEF TypeInv, OverlayOK
  <2>4. CASE \E o \in OutputsOf(t) : Spend(o)
    <3>1. PICK o \in OutputsOf(t) : spent' = spent \cup {o} /\ index' = index \ {o}
      BY <2>4 DEF Spend
    <3> QED BY <2>1, <3>1 DEF TypeInv, OverlayOK
  <2> QED BY <2>3, <2>4
<1> QED BY <1>2, <1>3 DEF TypeInv

LEMMA AnswerTypesHold ==
    ASSUME TypeInv, IInv', pc # "none", UNCHANGED <<instance, pc, request, outputs, ledger, overlay>>,
           result' \in Results, bundle'.topics \in Seq(Seq(Words)), FoundOK'
    PROVE  TypeInv'
<1>1. CallOK'
  BY DEF TypeInv, CallOK
<1> QED BY <1>1, InstanceQuiet, OverlayQuiet DEF TypeInv

\* What is read is the advertisement of an output on the ledger whose token parses.
LEMMA ReadTypes ==
    ASSUME TypeInv, NEW p \in Protocols, NEW more \in Stray, NEW ad \in Read(Answer(p) \cup more, p)
    PROVE  /\ ad.protocol = p /\ ad.tx \in 0..Len(ledger) /\ ad.name \in Seq(Words)
           /\ Parseable(TokenAt(ad))
<1>1. PICK i \in Answer(p) \cup more :
        /\ Readable(i) /\ TokenAt(i.output).identifier = p /\ ad = Advertisement(i.output)
  BY DEF Read
<1>2. i.output \in UNION {OutputsOf(t) : t \in DOMAIN ledger}
  <2>1. CASE i \in Answer(p)
    BY <2>1 DEF Answer, TypeInv, OverlayOK
  <2>2. CASE i \in more
    BY <2>2 DEF Stray
  <2> QED BY <1>1, <2>1, <2>2
<1>3. PICK t \in DOMAIN ledger : i.output \in OutputsOf(t)
  BY <1>2
<1>4. i.output.tx \in 1..Len(ledger) /\ TokenAt(i.output) \in AdToken /\ Len(ledger) \in Nat
  BY <1>3, OutputIsToken DEF TypeInv, IInv, MadeInv
<1>5. ad.tx = i.output.tx /\ ad.index = i.output.index /\ ad.protocol = TokenAt(i.output).identifier
      /\ ad.name = TokenAt(i.output).name
  BY <1>1 DEF Advertisement
<1>6. TokenAt(ad) = TokenAt(i.output)
  BY <1>5 DEF TokenAt
<1>7. Parseable(TokenAt(ad))
  BY <1>1, <1>6 DEF Readable
<1>8. TokenAt(i.output).name \in Seq(Words)
  BY <1>4 DEF AdToken
<1> QED BY <1>1, <1>4, <1>5, <1>7, <1>8

LEMMA FindTypes ==
    ASSUME TypeInv, IInv', NEW p \in Protocols, NEW type, FindAllAdvertisements(p, type)
    PROVE  TypeInv'
<1>1. /\ pc = "idle" /\ UNCHANGED <<instance, pc, request, outputs, ledger, overlay>>
      /\ result' = "found" /\ bundle' = NoBundle
      /\ found' = {} \/ \E more \in Stray : found' = Read(Answer(p) \cup more, p)
  BY DEF FindAllAdvertisements
<1>2. ASSUME NEW ad \in found'
      PROVE  ad.protocol \in Protocols /\ ad.tx \in 0..Len(ledger) /\ ad.name \in Seq(Words)
  <2>1. PICK more \in Stray : ad \in Read(Answer(p) \cup more, p)
    BY <1>1
  <2> QED BY <2>1, ReadTypes
<1>3. FoundOK'
  BY <1>1, <1>2 DEF FoundOK
<1> QED BY <1>1, <1>3, AnswerTypesHold DEF NoBundle, Results

LEMMA ParseTypes ==
    ASSUME TypeInv, IInv', NEW t \in DOMAIN ledger, NEW o \in OutputsOf(t), ParseAdvertisement(o)
    PROVE  TypeInv'
<1>1. pc = "idle" /\ UNCHANGED <<instance, ledger, overlay>>
  BY DEF ParseAdvertisement
<1>2. CASE Returns("errNotInitialized")
  BY <1>1, <1>2, ReturnsTypes DEF Results
<1>3. CASE ~Parseable(TokenAt(o)) /\ Returns(ParseError(TokenAt(o)))
  <2>1. ParseError(TokenAt(o)) \in Results
    BY <1>3 DEF Parseable, ParseError, Results
  <2> QED BY <1>1, <1>3, <2>1, ReturnsTypes
<1>4. CASE /\ Parseable(TokenAt(o))
           /\ found' = {[Advertisement(o) EXCEPT !.tx = 0, !.index = 0]}
           /\ result' = "parsed" /\ bundle' = NoBundle
           /\ UNCHANGED <<pc, request, outputs>>
  <2>1. TokenAt(o) \in AdToken /\ Len(ledger) \in Nat
    BY OutputIsToken DEF TypeInv, IInv, MadeInv
  <2> DEFINE ad == [Advertisement(o) EXCEPT !.tx = 0, !.index = 0]
  <2>2. TokenAt(o).identifier \in Protocols
    BY <1>4 DEF Parseable, ParseError
  <2>3. TokenAt(o).name \in Seq(Words)
    BY <2>1 DEF AdToken
  <2>4. ad.protocol \in Protocols /\ ad.tx = 0 /\ ad.name \in Seq(Words)
    BY <2>2, <2>3 DEF Advertisement
  <2>5. found' = {ad}
    BY <1>4
  <2> HIDE DEF ad
  <2>6. FoundOK'
    BY <1>1, <2>1, <2>4, <2>5 DEF FoundOK
  <2> QED BY <1>1, <1>4, <2>6, AnswerTypesHold DEF NoBundle, Results
<1> QED BY <1>2, <1>3, <1>4 DEF ParseAdvertisement

LEMMA RevokeTypes ==
    ASSUME TypeInv, IInv', NEW ads \in SeqOf(found, 2), RevokeAdvertisements(ads)
    PROVE  TypeInv'
<1>1. PICK n \in 0..2 : ads \in [1..n -> found]
  BY DEF SeqOf
<1> DEFINE fault == IF ~initialized THEN "errNotInitialized"
                    ELSE IF ads = <<>> THEN "errNoAdvertisements"
                    ELSE FirstError([k \in DOMAIN ads |-> Unrevocable(ads[k])])
<1>2. /\ pc = "idle" /\ UNCHANGED <<instance, ledger, overlay>>
      /\ \/ fault # "none" /\ Returns(fault)
         \/ Returns("errRevocation")
         \/ /\ result' = "ok" /\ found' = {}
            /\ bundle' = [tx |-> 0, topics |-> TopicsOf(ads)]
            /\ UNCHANGED <<pc, request, outputs>>
  BY DEF RevokeAdvertisements
<1>3. fault \in Results \cup {"none"}
  <2> DEFINE errors == [k \in DOMAIN ads |-> Unrevocable(ads[k])]
  <2>1. \A k \in DOMAIN errors : errors[k] \in {"errMissingBeefData", "errMissingOutputIndex", "none"}
    BY DEF Unrevocable
  <2>2. \E m \in Nat : DOMAIN errors = 1..m
    BY <1>1
  <2>3. fault \in {"errNotInitialized", "errNoAdvertisements", FirstError(errors)}
    OBVIOUS
  <2> HIDE DEF errors, fault
  <2>4. FirstError(errors) = "none" \/ \E k \in DOMAIN errors : FirstError(errors) = errors[k]
    BY <2>2, FirstErrorIsOne
  <2>5. FirstError(errors) \in Results \cup {"none"}
    BY <2>1, <2>4 DEF Results
  <2> QED BY <2>3, <2>5 DEF Results
<1> HIDE DEF fault
<1>4. CASE fault # "none" /\ Returns(fault)
  BY <1>2, <1>3, <1>4, ReturnsTypes
<1>5. CASE Returns("errRevocation")
  BY <1>2, <1>5, ReturnsTypes DEF Results
<1>6. CASE /\ result' = "ok" /\ found' = {}
           /\ bundle' = [tx |-> 0, topics |-> TopicsOf(ads)]
           /\ UNCHANGED <<pc, request, outputs>>
  <2>1. TopicsOf(ads) \in Seq(Seq(Words))
    <3>1. DOMAIN ads = 1..n /\ n \in Nat /\ \A k \in 1..n : ads[k] \in found
      BY <1>1
    <3>2. \A k \in 1..n : ads[k].name \in Seq(Words)
      BY <3>1 DEF TypeInv, CallOK, FoundOK
    <3> QED BY <3>1, <3>2, TopicsTyped
  <2>2. FoundOK'
    BY <1>6 DEF FoundOK
  <2> QED BY <1>2, <1>6, <2>1, <2>2, AnswerTypesHold DEF Results
<1> QED BY <1>2, <1>4, <1>5, <1>6

LEMMA TypeKept ==
    ASSUME TypeInv, IInv', [Next]_vars
    PROVE  TypeInv'
<1>1. CASE UNCHANGED vars
  <2>1. CallOK' /\ OverlayOK'
    BY <1>1, CallQuiet, OverlayQuiet DEF TypeInv, vars, call
  <2>2. InstanceOK'
    BY <1>1 DEF TypeInv, vars, instance, call, InstanceOK
  <2> QED BY <2>1, <2>2 DEF TypeInv
<1>2. ASSUME NEW skip \in BOOLEAN, SetSkipStorageValidation(skip)
      PROVE  TypeInv'
  <2>1. CallOK' /\ OverlayOK'
    BY <1>2, CallQuiet, OverlayQuiet DEF TypeInv, SetSkipStorageValidation, call
  <2>2. InstanceOK'
    BY <1>2 DEF TypeInv, SetSkipStorageValidation, call, InstanceOK
  <2> QED BY <2>1, <2>2 DEF TypeInv
<1>3. ASSUME NEW req \in Requests, CreateRefused(req)
      PROVE  TypeInv'
  <2>1. pc = "idle" /\ UNCHANGED <<instance, ledger, overlay>>
    BY <1>3 DEF CreateRefused
  <2>2. CASE Returns("errNotInitialized") \/ Returns("errNoAdvertisementData")
    BY <2>1, <2>2, ReturnsTypes DEF Results
  <2>3. CASE ~AllValid(req) /\ Returns(FirstFault(req))
    <3>1. req \in Seq(AdData)
      BY Constants
    <3>2. FirstFault(req) \in Results
      BY <2>3, <3>1, FaultIsAResult
    <3> QED BY <2>1, <2>3, <3>2, ReturnsTypes
  <2> QED BY <1>3, <2>2, <2>3 DEF CreateRefused
<1>4. CASE WalletFails \/ LockRefused \/ ConversionFails \/ ResolverFails
  <2>1. pc # "none" /\ UNCHANGED <<instance, ledger, overlay>>
    BY <1>4 DEF WalletFails, LockRefused, ConversionFails, ResolverFails
  <2>2. \E r \in Results : Returns(r)
    BY <1>4 DEF WalletFails, LockRefused, ConversionFails, ResolverFails, Results
  <2> QED BY <2>1, <2>2, ReturnsTypes
<1>5. ASSUME NEW p, FindRefused(p)
      PROVE  TypeInv'
  <2>1. pc # "none" /\ UNCHANGED <<instance, ledger, overlay>>
    BY <1>5 DEF FindRefused
  <2>2. \E r \in Results : Returns(r)
    BY <1>5 DEF FindRefused, Results
  <2> QED BY <2>1, <2>2, ReturnsTypes
<1>6. CASE \/ \E req \in Requests : CreateAdvertisements(req)
           \/ Lock \/ CreateAction \/ ReturnBundle
  BY <1>6, MakingTypes
<1>7. CASE \/ \E c \in Configurations : NewWalletAdvertiser(c)
           \/ Initialize
  BY <1>7, ConstructorTypes, InitializeTypes
<1>8. ASSUME NEW t \in DOMAIN ledger, Publish(t) \/ \E o \in OutputsOf(t) : Spend(o)
      PROVE  TypeInv'
  BY <1>8, OverlayTypes
<1>9. ASSUME NEW t \in DOMAIN ledger, NEW o \in OutputsOf(t), ParseAdvertisement(o)
      PROVE  TypeInv'
  BY <1>9, ParseTypes
<1>10. ASSUME NEW p \in Protocols, NEW type, FindAllAdvertisements(p, type)
       PROVE  TypeInv'
  BY <1>10, FindTypes
<1>11. ASSUME NEW ads \in SeqOf(found, 2), RevokeAdvertisements(ads)
       PROVE  TypeInv'
  BY <1>11, RevokeTypes
<1> QED BY <1>1, <1>2, <1>3, <1>4, <1>5, <1>6, <1>7, <1>8, <1>9, <1>10, <1>11 DEF Next

LEMMA TypeInvHolds == Spec => []TypeInv
<1>1. Init => TypeInv
  <2> SUFFICES ASSUME Init PROVE TypeInv
    OBVIOUS
  <2>1. InstanceOK
    BY DEF Init, InstanceOK, Keys, StorageURLs
  <2>2. CallOK
    BY DEF Init, CallOK, FoundOK, NoBundle, Results
  <2>3. OverlayOK
    BY DEF Init, OverlayOK
  <2> QED BY <2>1, <2>2, <2>3, InitInv DEF TypeInv
<1>2. TypeInv /\ [Next]_vars => TypeInv'
  BY TypeKept, StepKeeps DEF TypeInv
<1> QED BY <1>1, <1>2, PTL DEF Spec

\* Every variable of the advertiser keeps its type, it has an identity key exactly
\* when it is initialized, and the overlay only holds unspent outputs of transactions
\* on the ledger, whatever the arguments, the requests and the failures.
THEOREM TypeCorrect == Spec => []TypeOK
<1>1. TypeInv => TypeOK
  BY DEF TypeInv, TypeOK, IInv, URIInv, MakingInv, MadeInv, BundleInv, InstanceOK, CallOK, FoundOK, OverlayOK
<1> QED BY <1>1, TypeInvHolds, PTL

-----------------------------------------------------------------------------
\* An advertisement that was asked for and is in the index is in the answer, and
\* parses: its token is the one that was locked for the entry, under the own key.
LEMMA AskedIsAnswered ==
    ASSUME TypeInv, initialized, NEW t \in Own, NEW k \in DOMAIN asked[t],
           [tx |-> t, index |-> k - 1] \in index
    PROVE  LET o == [tx |-> t, index |-> k - 1] IN
           /\ [output |-> o, beef |-> "whole"] \in Answer(asked[t][k].protocol)
           /\ Parseable(TokenAt(o)) /\ TokenAt(o).identifier = asked[t][k].protocol
           /\ Advertisement(o).tx = t /\ Advertisement(o).index = k - 1
           /\ Advertisement(o).protocol = asked[t][k].protocol
           /\ Advertisement(o).name = asked[t][k].name
<1> DEFINE o == [tx |-> t, index |-> k - 1]
<1>1. Whole(ledger[t], asked[t], advertisableURI) /\ advertisableURI \in URI
  BY DEF TypeInv, IInv, MadeInv, URIInv
<1>2. k \in DOMAIN ledger[t] /\ k \in Nat
  BY <1>1 DEF Whole
<1>3. /\ ledger[t][k].identifier = asked[t][k].protocol /\ ledger[t][k].name = asked[t][k].name
      /\ ledger[t][k].identityKey = OwnKey /\ Parseable(ledger[t][k])
  BY <1>1, <1>2, WholeIsAsAsked
<1>4. TokenAt(o) = ledger[t][k]
  BY <1>2 DEF TokenAt
<1>5. identityKey = OwnKey
  BY DEF TypeInv, InstanceOK
<1>6. [output |-> o, beef |-> "whole"] \in Answer(asked[t][k].protocol)
  BY <1>3, <1>4, <1>5 DEF Answer
<1>7. /\ Advertisement(o).tx = t /\ Advertisement(o).index = k - 1
      /\ Advertisement(o).protocol = asked[t][k].protocol
      /\ Advertisement(o).name = asked[t][k].name
  BY <1>3, <1>4 DEF Advertisement
<1> QED BY <1>3, <1>4, <1>6, <1>7

\* For any requests and names, whatever was spent and whatever one host puts into the
\* answer: of an output-list, FindAllAdvertisements returns every advertisement of the
\* protocol that was asked for and that the overlay holds, and nothing but
\* advertisements of the protocol.
THEOREM WhatIsAskedIsFound == Spec => FindsAsAsked
<1>1. ASSUME TypeInv, NEW p \in Protocols, FindAllAdvertisements(p, "output-list")
      PROVE  /\ AskedAreFound(p)
             /\ \A ad \in found' : ad.protocol = p /\ Parseable(TokenAt(ad))
  <2>1. PICK more \in Stray : initialized /\ found' = Read(Answer(p) \cup more, p)
    BY <1>1 DEF FindAllAdvertisements
  <2>2. ASSUME NEW t \in Own, NEW k \in DOMAIN asked[t], asked[t][k].protocol = p,
               [tx |-> t, index |-> k - 1] \in index
        PROVE  \E ad \in found' : /\ ad.tx = t /\ ad.index = k - 1
                                  /\ ad.protocol = p /\ ad.name = asked[t][k].name
    <3> DEFINE o == [tx |-> t, index |-> k - 1]
    <3> DEFINE i == [output |-> o, beef |-> "whole"]
    <3>1. /\ i \in Answer(p) /\ Parseable(TokenAt(o)) /\ TokenAt(o).identifier = p
          /\ Advertisement(o).tx = t /\ Advertisement(o).index = k - 1
          /\ Advertisement(o).protocol = p /\ Advertisement(o).name = asked[t][k].name
      BY <1>1, <2>1, <2>2, AskedIsAnswered
    <3>2. i.output = o /\ i.beef = "whole"
      OBVIOUS
    <3> HIDE DEF o, i
    <3>3. Readable(i)
      BY <3>1, <3>2 DEF Readable
    <3>4. Advertisement(o) \in found'
      BY <2>1, <3>1, <3>2, <3>3 DEF Read
    <3> QED BY <3>1, <3>4
  <2>3. ASSUME NEW ad \in found'
        PROVE  ad.protocol = p /\ Parseable(TokenAt(ad))
    BY <1>1, <2>1, ReadTypes
  <2> QED BY <2>2, <2>3 DEF AskedAreFound
<1>2. TypeInv /\ [Next]_vars =>
        [\A p \in Protocols : FindAllAdvertisements(p, "output-list") =>
          /\ AskedAreFound(p)
          /\ \A ad \in found' : ad.protocol = p /\ Parseable(TokenAt(ad))]_vars
  BY <1>1
<1>3. Spec => []TypeInv
  BY TypeInvHolds
<1> QED BY <1>2, <1>3, PTL DEF Spec, FindsAsAsked
=============================================================================
