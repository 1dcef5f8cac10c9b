---------------------------- MODULE Lookup_proofs ----------------------------
(***************************************************************************)
(* Proofs about Lookup: types and the wholeness of answers for any          *)
(* behaviour of the collection, and that paging misses nothing unless a     *)
(* record is deleted meanwhile or two records have the same createdAt, and   *)
(* that pages come in order.                                                *)
(***************************************************************************)
EXTENDS Lookup, FiniteSetTheorems, TLAPS

LEMMA Constants ==
    /\ \A q \in Questions : q \in Question
    /\ Times \subseteq Nat \ {0}
BY InputsOK

\* What reaches the storage: ValidatePagination leaves no negative number.
Sound(q) ==
    /\ q \in Question
    /\ q.limit \in Nat \cup {NotGiven}
    /\ q.skip \in Nat \cup {NotGiven}
    /\ q.sortOrder \in {"asc", "desc", NotGiven}

ServiceOK == service \in {"ls_ship", "ls_slap"}

LEMMA BlankSound ==
    ASSUME ServiceOK
    PROVE  Sound(Blank)
BY DEF ServiceOK, Sound, Blank, BlankFor, Question, Kinds

LEMMA AskSound ==
    ASSUME ServiceOK, NEW q \in Question, Sound(question), error = "none", Ask(q)
    PROVE  /\ Sound(question')
           /\ pc' \in {"finding", "answered"}
           /\ error' \in Errors
           /\ pc' = "answered" => error' # "none"
           /\ pc' = "finding" => error' = "none"
<1>1. CASE Refusal(q) = "none"
  <2>1. Sound(Parsed(q))
    <3>1. CASE q.kind = "object"
      <4>1. q.limit \in Int \cup {NotGiven} /\ q.skip \in Int \cup {NotGiven}
            /\ q.sortOrder \in {"asc", "desc", "other", NotGiven}
        BY DEF Question
      <4>2. ~Negative(q.limit) /\ ~Negative(q.skip) /\ q.sortOrder # "other"
        BY <1>1, <3>1 DEF Refusal, InvalidPagination
      <4> QED
        BY <3>1, <4>1, <4>2 DEF Sound, Parsed, Negative
    <3>2. CASE q.kind # "object"
      BY <3>2, BlankSound DEF Parsed
    <3> QED
      BY <3>1, <3>2
  <2> QED
    BY <1>1, <2>1 DEF Ask, Errors
<1>2. CASE Refusal(q) # "none"
  <2>1. Refusal(q) \in Errors
    BY DEF Refusal, InvalidPagination, Errors
  <2> QED
    BY <1>2, <2>1 DEF Ask
<1> QED
  BY <1>1, <1>2

\* Types, and what an answer holds: the invariant both theorems below need.
WholeInv ==
    /\ TypeOK
    /\ AnswerIsWhole
    /\ pc # "answered" => error = "none"
    /\ pc \in {"idle", "finding", "reading"} => answer = {}

LEMMA PageInIds ==
    ASSUME NEW w \in Windows(Matching(question), question), stored \in SUBSET Ids
    PROVE  w[2] \ w[1] \in SUBSET Ids /\ Matching(question) \ w[1] \in SUBSET Ids
BY DEF Windows, First, Matching

LEMMA WholeInductive ==
    ASSUME WholeInv, [Next]_vars
    PROVE  WholeInv'
<1> USE DEF WholeInv
<1>1. Sound(question) /\ ServiceOK
  BY DEF TypeOK, Sound, ServiceOK
<1>2. ASSUME NEW i \in Ids, Store(i)
      PROVE  WholeInv'
  <2>1. at' \in [Ids -> Nat] /\ late' \in BOOLEAN
    BY <1>2, Constants DEF Store, TypeOK
  <2> QED
    BY <1>2, <2>1 DEF Store, TypeOK, AnswerIsWhole
<1>3. ASSUME NEW i \in Ids, Delete(i)
      PROVE  WholeInv'
  BY <1>3 DEF Delete, TypeOK, AnswerIsWhole
<1>4. ASSUME NEW q \in Questions, Start(q)
      PROVE  WholeInv'
  <2>1. pc = "idle" /\ Ask(q) /\ UNCHANGED <<collection, page, got, answer, collected, begun, owed, late>>
    BY <1>4 DEF Start
  <2>2. q \in Question
    BY Constants
  <2>3. /\ Sound(question') /\ pc' \in {"finding", "answered"} /\ error' \in Errors
        /\ pc' = "answered" => error' # "none"
        /\ pc' = "finding" => error' = "none"
    BY <1>1, <2>1, <2>2, AskSound
  <2> QED
    BY <1>1, <2>1, <2>3 DEF TypeOK, AnswerIsWhole, Sound, ServiceOK, collection
<1>5. CASE Find
  <2>1. PICK w \in Windows(Matching(question), question) :
          /\ page' = w[2] \ w[1]
          /\ owed' = IF begun THEN owed ELSE Matching(question) \ w[1]
    BY <1>5 DEF Find
  <2>2. page' \in SUBSET Ids /\ owed' \in SUBSET Ids
    BY <2>1, PageInIds DEF TypeOK
  <2> QED
    BY <1>5, <2>2 DEF Find, TypeOK, AnswerIsWhole, collection
<1>6. CASE FindFails
  BY <1>6 DEF FindFails, TypeOK, AnswerIsWhole, collection, Errors
<1>7. CASE CursorNext
  BY <1>7 DEF CursorNext, TypeOK, AnswerIsWhole, collection
<1>8. CASE CursorEnd
  BY <1>8 DEF CursorEnd, TypeOK, AnswerIsWhole, collection
<1>9. CASE CursorFails
  BY <1>9 DEF CursorFails, TypeOK, AnswerIsWhole, collection, Errors
<1>10. CASE NextPage
  <2> DEFINE q == [question EXCEPT !.skip = Skip(question) + question.limit]
  <2>1. /\ pc = "answered" /\ error = "none" /\ collected' = collected \cup answer
        /\ answer' = {} /\ Ask(q) /\ UNCHANGED <<collection, page, got, begun, owed, late>>
    BY <1>10 DEF NextPage
  <2>2. q \in Question
    <3>1. question.limit \in Nat
      BY <1>10, <1>1 DEF NextPage, FullPage, Limited, Sound
    <3>2. Skip(question) \in Nat
      BY <1>1 DEF Skip, Sound
    <3> QED
      BY <1>1, <3>1, <3>2 DEF Sound, Question
  <2> HIDE DEF q
  <2>3. /\ Sound(question') /\ pc' \in {"finding", "answered"} /\ error' \in Errors
        /\ pc' = "answered" => error' # "none"
        /\ pc' = "finding" => error' = "none"
    BY <1>1, <2>1, <2>2, AskSound
  <2> QED
    BY <1>1, <2>1, <2>3 DEF TypeOK, AnswerIsWhole, Sound, ServiceOK, collection
<1>11. CASE LastPage
  BY <1>11 DEF LastPage, TypeOK, AnswerIsWhole, collection
<1>12. CASE Retry
  BY <1>12 DEF Retry, TypeOK, AnswerIsWhole, collection, Errors
<1>13. CASE Stop
  BY <1>1, <1>13, BlankSound DEF Stop, TypeOK, AnswerIsWhole, collection, Errors, Sound
<1>14. CASE UNCHANGED vars
  BY <1>14 DEF vars, collection, client, TypeOK, AnswerIsWhole
<1> QED
  BY <1>2, <1>3, <1>4, <1>5, <1>6, <1>7, <1>8, <1>9, <1>10, <1>11, <1>12, <1>13, <1>14 DEF Next

LEMMA InitWhole == Init => WholeInv
<1>1. Init => Sound(question) /\ service \in {"ls_ship", "ls_slap"}
  BY BlankSound DEF Init, ServiceOK
<1>2. Init => stored \in SUBSET Ids /\ at \in [Ids -> Nat]
  BY DEF Init
<1>3. Init => /\ pc = "idle" /\ error = "none" /\ begun = FALSE
              /\ page = {} /\ got = {} /\ answer = {} /\ collected = {} /\ owed = {} /\ late = FALSE
  BY DEF Init
<1>4. "none" \in Errors
  BY DEF Errors
<1> QED
  BY <1>1, <1>2, <1>3, <1>4 DEF WholeInv, TypeOK, AnswerIsWhole, Sound

LEMMA WholeHolds == Spec => []WholeInv
BY InitWhole, WholeInductive, PTL DEF Spec

\* Every variable keeps its type, and no query that reaches the storage has a
\* negative limit or skip or an unknown sort order.
THEOREM TypeCorrect == Spec => []TypeOK
<1>1. WholeInv => TypeOK
  BY DEF WholeInv
<1> QED
  BY <1>1, WholeHolds, PTL

\* A lookup that is answered without an error holds the whole page the query selected,
\* whatever is stored or deleted while the cursor is read and wherever it fails.
THEOREM AnswersAreWhole == Spec => []AnswerIsWhole
<1>1. WholeInv => AnswerIsWhole
  BY DEF WholeInv
<1> QED
  BY <1>1, WholeHolds, PTL

-----------------------------------------------------------------------------
(* Paging.  Without ties, the records that come before r in the order of the *)
(* query decide which page r is in; without deletions they never get fewer.  *)

Ahead(r, q) == {j \in Matching(q) : Before(j, r, q)}

\* No two records have the same createdAt.
Distinct(M) == \A i, j \in M : at[i] = at[j] => i = j

LEMMA AheadFinite ==
    ASSUME TypeOK, NEW q, NEW r
    PROVE  /\ IsFiniteSet(Matching(q)) /\ IsFiniteSet(Ahead(r, q))
           /\ Cardinality(Matching(q)) \in Nat /\ Cardinality(Ahead(r, q)) \in Nat
<1>1. Matching(q) \subseteq Ids /\ Ahead(r, q) \subseteq Ids
  BY DEF Matching, Ahead, TypeOK
<1>2. IsFiniteSet(Matching(q)) /\ IsFiniteSet(Ahead(r, q))
  BY <1>1, Finite, FS_Subset
<1> QED
  BY <1>2, FS_CardinalityType

\* A record among the first n has fewer than n before it.
LEMMA InFirst ==
    ASSUME TypeOK, NEW q, NEW n \in Nat, NEW F \in First(n, Matching(q), q), NEW r \in F
    PROVE  Cardinality(Ahead(r, q)) < n
<1>1. /\ F \subseteq Matching(q)
      /\ Cardinality(F) = IF n < Cardinality(Matching(q)) THEN n ELSE Cardinality(Matching(q))
      /\ \A j \in Matching(q) \ F : ~Before(j, r, q)
  BY DEF First
<1>2. IsFiniteSet(F) /\ Cardinality(F) \in Nat /\ Cardinality(F) <= n
  BY <1>1, AheadFinite, FS_Subset, FS_CardinalityType
<1>3. at[r] \in Nat
  BY <1>1 DEF Matching, TypeOK
<1>4. Ahead(r, q) \subseteq F \ {r}
  BY <1>1, <1>3 DEF Ahead, Before
<1>5. IsFiniteSet(F \ {r}) /\ Cardinality(F \ {r}) = Cardinality(F) - 1
  BY <1>2, FS_RemoveElement
<1>6. Cardinality(Ahead(r, q)) <= Cardinality(F \ {r})
  BY <1>4, <1>5, FS_Subset
<1> QED
  BY <1>2, <1>5, <1>6, AheadFinite

\* A record that matches and is not among the first n has at least n before it.
LEMMA NotInFirst ==
    ASSUME TypeOK, NEW q, Distinct(Matching(q)), NEW n \in Nat,
           NEW F \in First(n, Matching(q), q), NEW r \in Matching(q) \ F
    PROVE  Cardinality(F) = n /\ n <= Cardinality(Ahead(r, q))
<1>1. /\ F \subseteq Matching(q)
      /\ Cardinality(F) = IF n < Cardinality(Matching(q)) THEN n ELSE Cardinality(Matching(q))
      /\ \A i \in F : ~Before(r, i, q)
  BY DEF First
<1>2. IsFiniteSet(Matching(q)) /\ Cardinality(Matching(q)) \in Nat
  BY AheadFinite
<1>3. Cardinality(F) = n
  <2>1. Cardinality(F) < Cardinality(Matching(q))
    BY <1>1, <1>2, FS_Subset
  <2> QED
    BY <1>1, <1>2, <2>1
<1>4. \A i \in Matching(q) : at[i] \in Nat
  BY DEF Matching, TypeOK
<1>5. F \subseteq Ahead(r, q)
  BY <1>1, <1>4 DEF Ahead, Before, Distinct
<1>6. Cardinality(F) <= Cardinality(Ahead(r, q))
  BY <1>5, AheadFinite, FS_Subset
<1> QED
  BY <1>3, <1>6

\* The client's call is still about the page it asked for.
Asking == \/ pc \in {"finding", "reading"}
          \/ pc = "answered" /\ error \in {"none", "errFind", "errCursor"}

\* Every record has its createdAt, and no two have the same.
Stamped ==
    /\ \A i \in stored : at[i] > 0
    /\ DistinctTimes

\* A record that is owed and not collected lies on the page asked for or after it.
Kept == Asking => \A r \in owed \ collected : Skip(question) <= Cardinality(Ahead(r, question))

\* Once the page is known, such a record that is not on it lies after a full page.
Paged ==
    pc = "reading" \/ (pc = "answered" /\ error = "none") =>
        \A r \in owed \ (collected \cup page) :
            /\ Limited(question) /\ Cardinality(page) = question.limit
            /\ Skip(question) + question.limit <= Cardinality(Ahead(r, question))

PagingInv ==
    /\ WholeInv
    /\ Stamped
    /\ question.kind = "object"
    /\ owed \subseteq Matching(question)
    /\ pc = "idle" => owed = {}
    /\ Kept
    /\ Paged
    /\ NothingMissed

\* Inserting a record takes none away from those before r.
LEMMA StoreKeepsAhead ==
    ASSUME PagingInv, DistinctTimes', NEW i \in Ids, Store(i), WholeInv'
    PROVE  /\ Stamped'
           /\ Matching(question) \subseteq Matching(question)'
           /\ \A r \in owed : Cardinality(Ahead(r, question)) <= Cardinality(Ahead(r, question))'
<1>1. PICK t \in Times :
         /\ at[i] = 0 /\ at' = [at EXCEPT ![i] = t]
         /\ stored' = stored \cup {i} /\ question' = question /\ owed' = owed
         /\ service' = service
  BY DEF Store
<1>2. at \in [Ids -> Nat] /\ t \in Nat \ {0} /\ stored \in SUBSET Ids
  BY Constants DEF PagingInv, WholeInv, TypeOK
<1>3. Stamped'
  BY <1>1, <1>2 DEF PagingInv, Stamped
<1>4. question' = question /\ owed' = owed
  BY <1>1
<1>5. Matching(question) \subseteq Matching(question)'
  BY <1>1, <1>4 DEF Matching, Matches, NameMatches
<1>6. ASSUME NEW r \in owed
      PROVE  Cardinality(Ahead(r, question)) <= Cardinality(Ahead(r, question))'
  <2>1. \A j \in stored : at'[j] = at[j]
    BY <1>1, <1>2 DEF PagingInv, Stamped
  <2>2. r \in stored
    BY <1>6 DEF PagingInv, Matching
  <2>3. Ahead(r, question) \subseteq Ahead(r, question)'
    <3> SUFFICES ASSUME NEW j \in Ahead(r, question) PROVE j \in Ahead(r, question)'
      OBVIOUS
    <3>1. j \in Matching(question) /\ j \in stored /\ Before(j, r, question)
      BY DEF Ahead, Matching
    <3>2. j \in Matching(question)'
      BY <3>1, <1>5
    <3>3. Before(j, r, question)'
      BY <3>1, <2>1, <2>2, <1>4 DEF Before
    <3> QED
      BY <3>2, <3>3 DEF Ahead
  <2>4. TypeOK'
    BY DEF WholeInv
  <2>5. Ahead(r, question)' \subseteq Ids'
    BY <2>4 DEF Ahead, Matching, TypeOK
  <2>6. IsFiniteSet(Ahead(r, question)')
    BY <2>5, Finite, FS_Subset
  <2> QED
    BY <2>3, <2>6, FS_Subset
<1> QED
  BY <1>3, <1>5, <1>6

\* The page a query selects leaves out only what lies before or after it.
LEMMA FindKeepsOwed ==
    ASSUME PagingInv, Find, WholeInv'
    PROVE  PagingInv'
<1> DEFINE q == question
           M == Matching(question)
           A(r) == Cardinality(Ahead(r, question))
<1>1. /\ pc = "finding" /\ pc' = "reading" /\ UNCHANGED <<collection, question, answer, error, collected>>
  BY DEF Find
<1>2. PICK w \in Windows(M, q) :
        /\ page' = w[2] \ w[1]
        /\ owed' = IF begun THEN owed ELSE M \ w[1]
  BY DEF Find
<1>3. /\ TypeOK /\ Stamped /\ q.kind = "object" /\ owed \subseteq M /\ Kept
      /\ Skip(q) \in Nat /\ (Limited(q) => q.limit \in Nat)
  BY DEF PagingInv, WholeInv, TypeOK, Skip, Limited
<1>4. service' = service /\ stored' = stored /\ at' = at /\ question' = question /\ collected' = collected
  BY <1>1 DEF collection
<1>5. Matching(question)' = M /\ \A r : Cardinality(Ahead(r, question))' = A(r)
  BY <1>4 DEF Matching, Ahead, Before, Matches, NameMatches
<1>6. /\ w[1] \in First(Skip(q), M, q)
      /\ w[2] \in IF Limited(q) THEN First(Skip(q) + q.limit, M, q) ELSE {M}
      /\ w[1] \subseteq w[2]
  BY DEF Windows
<1>7. Distinct(M)
  BY <1>3 DEF Stamped, DistinctTimes, Distinct, Matching, TypeOK
<1>8. \A r \in w[1] : A(r) < Skip(q)
  BY <1>3, <1>6, InFirst
<1>9. \A r \in M \ w[1] : Cardinality(w[1]) = Skip(q) /\ Skip(q) <= A(r)
  BY <1>3, <1>6, <1>7, NotInFirst
<1>10. owed' \subseteq M
  BY <1>2, <1>3
<1>11. \A r \in owed' \ collected : r \notin w[1]
  <2>1. \A r : A(r) \in Nat
    BY <1>3, AheadFinite
  <2>2. CASE begun
    BY <2>1, <2>2, <1>1, <1>2, <1>3, <1>8 DEF Kept, Asking
  <2>3. CASE ~begun
    BY <2>3, <1>2
  <2> QED
    BY <2>2, <2>3
<1>12. \A r \in owed' \ collected : Skip(q) <= A(r)
  BY <1>9, <1>10, <1>11
<1>13. ASSUME NEW r \in owed' \ (collected \cup page')
       PROVE  /\ Limited(q) /\ Cardinality(page') = q.limit
              /\ Skip(q) + q.limit <= A(r)
  <2>1. r \in M \ w[2]
    BY <1>2, <1>10, <1>11, <1>13
  <2>2. Limited(q) /\ w[2] \in First(Skip(q) + q.limit, M, q)
    BY <1>6, <2>1
  <2>3. Cardinality(w[2]) = Skip(q) + q.limit /\ Skip(q) + q.limit <= A(r)
    BY <1>3, <1>7, <2>1, <2>2, NotInFirst
  <2>4. Cardinality(w[1]) = Skip(q)
    BY <1>6, <1>9, <2>1
  <2>5. IsFiniteSet(w[2])
    <3>1. w[2] \subseteq M
      BY <2>2 DEF First
    <3> QED
      BY <3>1, <1>3, AheadFinite, FS_Subset
  <2>6. w[2] \cap w[1] = w[1]
    BY <1>6
  <2>7. Cardinality(page') = Cardinality(w[2]) - Cardinality(w[1])
    BY <1>2, <2>5, <2>6, FS_Difference
  <2> QED
    BY <1>3, <2>2, <2>3, <2>4, <2>7
<1>14. Stamped' /\ question'.kind = "object" /\ owed' \subseteq Matching(question)'
  BY <1>3, <1>4, <1>5, <1>10 DEF Stamped, DistinctTimes
<1>15. Kept'
  BY <1>4, <1>5, <1>12 DEF Kept
<1>16. Paged'
  BY <1>4, <1>5, <1>13 DEF Paged
<1> QED
  BY <1>1, <1>14, <1>15, <1>16 DEF PagingInv, NothingMissed

\* Asking for the next page moves the window by exactly the page that was read.
LEMMA NextPageKeepsOwed ==
    ASSUME PagingInv, NextPage, WholeInv'
    PROVE  PagingInv'
<1> DEFINE q == [question EXCEPT !.skip = Skip(question) + question.limit]
           A(r) == Cardinality(Ahead(r, question))
<1>1. /\ pc = "answered" /\ error = "none" /\ FullPage
      /\ collected' = collected \cup answer /\ Ask(q)
      /\ UNCHANGED <<collection, page, got, begun, owed, late>>
  BY DEF NextPage
<1>2. /\ TypeOK /\ Stamped /\ question.kind = "object" /\ owed \subseteq Matching(question) /\ Paged
      /\ answer = page
      /\ question \in Question /\ question.limit \in Nat /\ Skip(question) \in Nat
  BY <1>1 DEF PagingInv, WholeInv, TypeOK, AnswerIsWhole, Skip, FullPage, Limited
<1>3. service' = service /\ stored' = stored /\ at' = at /\ owed' = owed /\ page' = page
  BY <1>1 DEF collection
<1>4. \A r \in owed' \ collected' : Skip(question) + question.limit <= A(r)
  BY <1>1, <1>2, <1>3 DEF Paged
<1>5. CASE Refusal(q) = "none"
  <2>1. question' = q /\ pc' = "finding" /\ error' = error
    BY <1>1, <1>2, <1>5 DEF Ask, Parsed, Question
  <2>2. /\ Skip(question') = Skip(question) + question.limit
        /\ question'.kind = "object" /\ question'.findAll = question.findAll
        /\ question'.domain = question.domain /\ question'.names = question.names
        /\ question'.name = question.name /\ question'.identityKey = question.identityKey
        /\ question'.sortOrder = question.sortOrder
    <3>1. NotGiven \notin Int
      BY InputsOK
    <3> QED
      BY <2>1, <1>2, <3>1 DEF Question, Skip
  <2>3. Matching(question)' = Matching(question)
    BY <2>2, <1>3 DEF Matching, Matches, NameMatches
  <2>4. \A r : Cardinality(Ahead(r, question))' = A(r)
    BY <2>2, <2>3, <1>3 DEF Ahead, Before
  <2>5. Kept'
    BY <1>4, <2>2, <2>4 DEF Kept
  <2>6. Stamped'
    BY <1>2, <1>3 DEF Stamped, DistinctTimes
  <2> QED
    BY <1>2, <1>3, <2>1, <2>2, <2>3, <2>5, <2>6 DEF PagingInv, Paged, NothingMissed
<1>6. CASE Refusal(q) # "none"
  <2>1. question' = question /\ pc' = "answered" /\ error' = Refusal(q)
    BY <1>1, <1>6 DEF Ask
  <2>2. error' \notin {"none", "errFind", "errCursor"}
    BY <2>1, <1>6 DEF Refusal, InvalidPagination
  <2>3. Stamped' /\ Matching(question)' = Matching(question)
    BY <1>2, <1>3, <2>1 DEF Stamped, DistinctTimes, Matching, Matches, NameMatches
  <2> QED
    BY <1>2, <1>3, <2>1, <2>2, <2>3 DEF PagingInv, Paged, Kept, Asking, NothingMissed
<1> QED
  BY <1>5, <1>6

\* The remaining actions leave the collection and the question alone, or reset.
LEMMA OthersKeepOwed ==
    ASSUME PagingInv, WholeInv', UNCHANGED <<collection, question>>,
           FindFails \/ CursorNext \/ CursorEnd \/ CursorFails \/ LastPage \/ Retry
    PROVE  PagingInv'
<1>1. /\ service' = service /\ stored' = stored /\ at' = at /\ question' = question
  BY DEF collection
<1>2. /\ Stamped' /\ question'.kind = "object"
      /\ Matching(question)' = Matching(question)
      /\ \A r : Cardinality(Ahead(r, question))' = Cardinality(Ahead(r, question))
  BY <1>1 DEF PagingInv, Stamped, DistinctTimes, Matching, Ahead, Before, Matches, NameMatches
<1>3. /\ owed \subseteq Matching(question) /\ Kept /\ Paged /\ NothingMissed /\ TypeOK /\ AnswerIsWhole
  BY DEF PagingInv, WholeInv
<1>4. CASE FindFails
  BY <1>1, <1>2, <1>3, <1>4 DEF FindFails, PagingInv, Kept, Asking, Paged, NothingMissed
<1>5. CASE CursorNext
  BY <1>1, <1>2, <1>3, <1>5 DEF CursorNext, PagingInv, Kept, Asking, Paged, NothingMissed
<1>6. CASE CursorEnd
  BY <1>1, <1>2, <1>3, <1>6 DEF CursorEnd, PagingInv, WholeInv, Kept, Asking, Paged, NothingMissed
<1>7. CASE CursorFails
  BY <1>1, <1>2, <1>3, <1>7 DEF CursorFails, PagingInv, Kept, Asking, Paged, NothingMissed
<1>8. CASE LastPage
  <2>1. /\ pc = "answered" /\ error = "none" /\ ~FullPage /\ collected' = collected \cup answer
        /\ pc' = "done" /\ owed' = owed /\ page' = page
    BY <1>8 DEF LastPage
  <2>2. answer = page
    BY <2>1, <1>3 DEF AnswerIsWhole
  <2>3. owed \subseteq collected'
    BY <2>1, <2>2, <1>3 DEF Paged, FullPage
  <2> QED
    BY <1>1, <1>2, <1>3, <2>1, <2>3 DEF PagingInv, Kept, Asking, Paged, NothingMissed
<1>9. CASE Retry
  BY <1>1, <1>2, <1>3, <1>9 DEF Retry, PagingInv, Kept, Asking, Paged, NothingMissed
<1> QED
  BY <1>4, <1>5, <1>6, <1>7, <1>8, <1>9

\* A createdAt is given once: what is told apart afterwards was so before.
LEMMA TimesStay ==
    ASSUME TypeOK, [Next]_vars, DistinctTimes'
    PROVE  DistinctTimes
<1>1. \A i \in Ids : at[i] # 0 => at'[i] = at[i]
  <2>1. CASE \E i \in Ids : Store(i)
    BY <2>1 DEF Store, TypeOK
  <2>2. CASE ~\E i \in Ids : Store(i)
    <3>1. at' = at
      BY <2>2 DEF Next, vars, collection, Delete, Start, Find, FindFails, CursorNext, CursorEnd,
                  CursorFails, NextPage, LastPage, Retry, Stop
    <3> QED
      BY <3>1
  <2> QED
    BY <2>1, <2>2
<1> QED
  BY <1>1 DEF DistinctTimes

LEMMA PagingInductive ==
    ASSUME PagingInv, DistinctTimes', [Next]_vars
    PROVE  PagingInv'
<1>1. WholeInv'
  BY WholeInductive DEF PagingInv
<1>2. ASSUME NEW i \in Ids, Store(i)
      PROVE  PagingInv'
  <2>1. /\ Stamped' /\ Matching(question) \subseteq Matching(question)'
        /\ \A r \in owed : Cardinality(Ahead(r, question)) <= Cardinality(Ahead(r, question))'
    BY <1>1, <1>2, StoreKeepsAhead
  <2>3. /\ pc' = pc /\ question' = question /\ page' = page /\ error' = error
        /\ collected' = collected /\ owed' = owed
    BY <1>2 DEF Store
  <2>4. /\ question.kind = "object" /\ owed \subseteq Matching(question)
        /\ pc = "idle" => owed = {}
        /\ Kept /\ Paged /\ NothingMissed
    BY DEF PagingInv
  <2>5. /\ Skip(question) \in Nat
        /\ Limited(question) => question.limit \in Nat
        /\ \A r : Cardinality(Ahead(r, question)) \in Nat /\ Cardinality(Ahead(r, question))' \in Nat
    <3>1. TypeOK /\ TypeOK'
      BY <1>1 DEF PagingInv, WholeInv
    <3>2. \A r : Cardinality(Ahead(r, question)) \in Nat
      BY <3>1, AheadFinite
    <3>3. \A r : Cardinality(Ahead(r, question))' \in Nat
      <4> TAKE r
      <4>1. Ahead(r, question)' \subseteq Ids
        BY <3>1 DEF Ahead, Matching, TypeOK
      <4> QED
        BY <4>1, Finite, FS_Subset, FS_CardinalityType
    <3> QED
      BY <3>1, <3>2, <3>3 DEF TypeOK, Skip, Limited
  <2>6. Kept'
    BY <2>1, <2>3, <2>4, <2>5 DEF Kept, Asking
  <2>7. Paged'
    BY <2>1, <2>3, <2>4, <2>5 DEF Paged
  <2>8. NothingMissed'
    <3>1. DistinctTimes
      BY DEF PagingInv, Stamped
    <3> QED
      BY <2>3, <2>4, <3>1 DEF NothingMissed
  <2> QED
    BY <1>1, <2>1, <2>3, <2>4, <2>6, <2>7, <2>8 DEF PagingInv
<1>3. ASSUME NEW i \in Ids, Delete(i)
      PROVE  PagingInv'
  <2>1. /\ owed' = {} /\ stored' = stored \ {i} /\ at' = at
        /\ question' = question /\ pc' = pc
    BY <1>3 DEF Delete
  <2>2. Stamped' /\ question'.kind = "object"
    BY <2>1 DEF PagingInv, Stamped
  <2> QED
    BY <1>1, <2>1, <2>2 DEF PagingInv, Kept, Paged, NothingMissed
<1>4. ASSUME NEW q \in Questions, Start(q)
      PROVE  PagingInv'
  <2>1. /\ pc = "idle" /\ Ask(q)
        /\ UNCHANGED <<collection, page, got, answer, collected, begun, owed, late>>
    BY <1>4 DEF Start
  <2>2. owed' = {} /\ Stamped'
    BY <2>1 DEF PagingInv, collection, Stamped, DistinctTimes
  <2>3. question'.kind = "object" /\ pc' \in {"finding", "answered"}
    BY <2>1 DEF Ask, Parsed, Blank, BlankFor, PagingInv
  <2> QED
    BY <1>1, <2>2, <2>3 DEF PagingInv, Kept, Paged, NothingMissed
<1>5. CASE Find
  BY <1>1, <1>5, FindKeepsOwed
<1>6. CASE NextPage
  BY <1>1, <1>6, NextPageKeepsOwed
<1>7. CASE FindFails \/ CursorNext \/ CursorEnd \/ CursorFails \/ LastPage \/ Retry
  <2>1. UNCHANGED <<collection, question>>
    BY <1>7 DEF FindFails, CursorNext, CursorEnd, CursorFails, LastPage, Retry
  <2> QED
    BY <1>1, <1>7, <2>1, OthersKeepOwed
<1>8. CASE Stop
  <2>1. owed' = {} /\ pc' = "idle" /\ question' = Blank /\ UNCHANGED collection
    BY <1>8 DEF Stop
  <2>2. Stamped'
    BY <2>1 DEF PagingInv, collection, Stamped, DistinctTimes
  <2>3. Blank.kind = "object"
    BY DEF Blank, BlankFor
  <2> QED
    BY <1>1, <2>1, <2>2, <2>3 DEF PagingInv, Kept, Paged, NothingMissed
<1>9. CASE UNCHANGED vars
  <2>1. /\ service' = service /\ stored' = stored /\ at' = at /\ question' = question /\ pc' = pc
        /\ page' = page /\ error' = error /\ collected' = collected /\ owed' = owed
    BY <1>9 DEF vars, collection, client
  <2>2. /\ Matching(question)' = Matching(question)
        /\ \A r : Cardinality(Ahead(r, question))' = Cardinality(Ahead(r, question))
    BY <2>1 DEF Matching, Ahead, Before, Matches, NameMatches
  <2> QED
    BY <1>1, <2>1, <2>2 DEF PagingInv, Stamped, DistinctTimes, Kept, Asking, Paged, NothingMissed
<1> QED
  BY <1>2, <1>3, <1>4, <1>5, <1>6, <1>7, <1>8, <1>9 DEF Next

\* Paging misses no record that matched when the first page was read, whatever is
\* inserted meanwhile and however often a page fails, for any limit, skip and filter,
\* in either sort order, unless a record is deleted or a createdAt is repeated.
THEOREM PagingMissesNothing == Spec => []NothingMissed
<1> DEFINE Inv == WholeInv /\ (DistinctTimes => PagingInv)
<1>1. Init => Inv
  <2>1. Init => WholeInv
    BY InitWhole
  <2>2. Init => stored = {} /\ owed = {} /\ pc = "idle" /\ at = [i \in Ids |-> 0]
    BY DEF Init
  <2>3. Init => question.kind = "object"
    BY DEF Init, Blank, BlankFor
  <2> QED
    BY <2>1, <2>2, <2>3 DEF PagingInv, Stamped, Kept, Paged, NothingMissed
<1>2. Inv /\ [Next]_vars => Inv'
  <2>1. WholeInv /\ [Next]_vars => WholeInv'
    BY WholeInductive
  <2>2. WholeInv => TypeOK
    BY DEF WholeInv
  <2> QED
    BY <2>1, <2>2, TimesStay, PagingInductive
<1>3. Inv => NothingMissed
  BY DEF PagingInv, NothingMissed
<1> QED
  BY <1>1, <1>2, <1>3, PTL DEF Spec

-----------------------------------------------------------------------------
(* The order of pages.  Oldest first, the records that match and are no newer *)
(* than a collected one are never more than the query skips, so that the next *)
(* page only holds newer ones; deletions take records away from them, and a   *)
(* record that is stored with the latest createdAt is not one of them.        *)

\* The matching records that are no newer than one of C.
Reached(C) == {j \in Matching(question) : \E i \in C : at[j] <= at[i]}

PageKnown == pc = "reading" \/ (pc = "answered" /\ error = "none")

Ordered ==
    question.sortOrder = "asc" =>
        /\ Asking => Cardinality(Reached(collected)) <= Skip(question)
        /\ PageKnown =>
             /\ \A i \in collected, j \in page : at[i] < at[j]
             /\ Cardinality(Reached(collected \cup page)) <= Skip(question) + Cardinality(page)

OrderBase ==
    /\ WholeInv
    /\ \A i \in stored \cup collected \cup page : at[i] > 0
    /\ question.kind = "object"
    /\ pc = "idle" => collected = {}
    /\ collected \cup page # {} => begun

OrderInv == OrderBase /\ (DistinctTimes /\ ~late => Ordered)

LEMMA ReachedFinite ==
    ASSUME WholeInv, NEW C, NEW S, S \subseteq Reached(C)
    PROVE  /\ IsFiniteSet(S) /\ IsFiniteSet(Reached(C))
           /\ Cardinality(S) \in Nat /\ Cardinality(Reached(C)) \in Nat
           /\ Cardinality(S) <= Cardinality(Reached(C))
<1>1. Reached(C) \subseteq Ids
  BY DEF Reached, Matching, WholeInv, TypeOK
<1>2. IsFiniteSet(Reached(C))
  BY <1>1, Finite, FS_Subset
<1> QED
  BY <1>2, FS_Subset, FS_CardinalityType

LEMMA NothingReached == Reached({}) = {} /\ Cardinality(Reached({})) = 0
BY FS_EmptySet DEF Reached

\* A step that reaches no further, for the same question and pages, keeps the order.
LEMMA OrderKept ==
    ASSUME WholeInv, WholeInv', Ordered,
           UNCHANGED <<question, collected, page>>,
           Asking' => Asking, PageKnown' => PageKnown,
           \A i \in collected, j \in page : at'[i] = at[i] /\ at'[j] = at[j],
           Reached(collected)' \subseteq Reached(collected),
           Reached(collected \cup page)' \subseteq Reached(collected \cup page)
    PROVE  Ordered'
<1>1. /\ Cardinality(Reached(collected)') \in Nat
      /\ Cardinality(Reached(collected)') <= Cardinality(Reached(collected))
      /\ Cardinality(Reached(collected)) \in Nat
  BY ReachedFinite
<1>2. /\ Cardinality(Reached(collected \cup page)') \in Nat
      /\ Cardinality(Reached(collected \cup page)') <= Cardinality(Reached(collected \cup page))
      /\ Cardinality(Reached(collected \cup page)) \in Nat
  BY ReachedFinite
<1>3. Skip(question) \in Nat /\ Cardinality(page) \in Nat
  <2>1. page \subseteq Ids /\ (question.skip \in Nat \cup {NotGiven})
    BY DEF WholeInv, TypeOK
  <2> QED
    BY <2>1, Finite, FS_Subset, FS_CardinalityType DEF Skip
<1>4. question' = question /\ collected' = collected /\ page' = page
  OBVIOUS
<1> QED
  BY <1>1, <1>2, <1>3, <1>4 DEF Ordered

\* A record that is stored now is newer than all others, and reached by none.
LEMMA StoreKeepsOrder ==
    ASSUME OrderInv, WholeInv', DistinctTimes, DistinctTimes', ~late', NEW i \in Ids, Store(i)
    PROVE  Ordered'
<1>1. PICK t \in Times :
         /\ at[i] = 0 /\ at' = [at EXCEPT ![i] = t] /\ stored' = stored \cup {i}
         /\ late' = (late \/ (begun /\ \E j \in Ids : t < at[j]))
  BY DEF Store
<1>2. /\ at \in [Ids -> Nat] /\ t \in Nat \ {0} /\ stored \subseteq Ids
      /\ collected \cup page \subseteq Ids
  BY Constants DEF OrderInv, OrderBase, WholeInv, TypeOK
<1>3. UNCHANGED <<service, pc, question, page, error, collected>>
  BY DEF Store
<1>4. \A j \in Ids : j # i => at'[j] = at[j]
  BY <1>1, <1>2
<1>5. \A j \in collected \cup page : j # i
  BY <1>1 DEF OrderInv, OrderBase
<1>6. ASSUME NEW C \in SUBSET (collected \cup page)
      PROVE  Reached(C)' \subseteq Reached(C)
  <2>1. ASSUME NEW k \in C
        PROVE  at[k] < t /\ at'[k] = at[k]
    <3>1. begun /\ k \in Ids /\ k # i
      BY <1>2, <1>5 DEF OrderInv, OrderBase
    <3>2. ~(t < at[k])
      BY <1>1, <3>1
    <3>3. at'[i] = t /\ at'[i] # 0 /\ at'[k] = at[k]
      BY <1>1, <1>2, <3>1
    <3>4. at[k] # t
      BY <3>1, <3>3 DEF DistinctTimes
    <3> QED
      BY <1>2, <3>1, <3>2, <3>3, <3>4
  <2>2. ASSUME NEW j \in Matching(question)', NEW k \in C, at'[j] <= at'[k]
        PROVE  j \in Matching(question) /\ at[j] <= at[k]
    <3>1. at[k] < t /\ at'[k] = at[k] /\ at[k] \in Nat
      BY <1>2, <2>1
    <3>2. j \in stored \cup {i} /\ Matches(j, question)
      BY <1>1, <1>3, <2>2 DEF Matching, Matches, NameMatches
    <3>3. j # i
      BY <1>1, <1>2, <2>2, <3>1
    <3>4. at'[j] = at[j] /\ j \in stored
      BY <1>2, <1>4, <3>2, <3>3
    <3> QED
      BY <2>2, <3>1, <3>2, <3>4 DEF Matching
  <2> QED
    BY <2>2 DEF Reached
<1>7. /\ Reached(collected)' \subseteq Reached(collected)
      /\ Reached(collected \cup page)' \subseteq Reached(collected \cup page)
  <2>1. /\ \A j \in Reached(collected)' : j \in Reached(collected)
        /\ \A j \in Reached(collected \cup page)' : j \in Reached(collected \cup page)
    BY <1>3, <1>6 DEF Reached
  <2> QED
    BY <2>1
<1>8. ~late /\ Ordered
  BY <1>1 DEF OrderInv
<1> QED
  BY <1>2, <1>3, <1>4, <1>5, <1>7, <1>8, OrderKept DEF OrderInv, OrderBase, Asking, PageKnown

\* The page the query selects lies behind all that was reached before it.
LEMMA FindKeepsOrder ==
    ASSUME OrderInv, WholeInv', DistinctTimes, ~late, Find
    PROVE  Ordered'
<1> DEFINE q == question
           M == Matching(question)
<1>1. PICK w \in Windows(M, q) : page' = w[2] \ w[1]
  BY DEF Find
<1>2. /\ pc = "finding" /\ pc' = "reading"
      /\ service' = service /\ stored' = stored /\ at' = at /\ question' = question /\ collected' = collected
  BY DEF Find, collection
<1>3. /\ TypeOK /\ WholeInv /\ Ordered
      /\ Skip(q) \in Nat /\ (Limited(q) => q.limit \in Nat)
  BY DEF OrderInv, OrderBase, WholeInv, TypeOK, Skip, Limited
<1>4. /\ w[1] \in First(Skip(q), M, q)
      /\ w[2] \in IF Limited(q) THEN First(Skip(q) + q.limit, M, q) ELSE {M}
      /\ w[1] \subseteq w[2]
  BY DEF Windows
<1>5. /\ \A i \in stored \cup collected : at[i] \in Nat \ {0}
      /\ \A i, j \in stored \cup collected : at[i] = at[j] => i = j
  BY <1>3 DEF OrderInv, OrderBase, DistinctTimes, TypeOK
<1>6. M \subseteq stored /\ IsFiniteSet(M) /\ Distinct(M)
  BY <1>3, <1>5, AheadFinite DEF Matching, Distinct
<1> SUFFICES ASSUME q.sortOrder = "asc"
             PROVE  Ordered'
  BY <1>2 DEF Ordered
<1>7. Cardinality(Reached(collected)) <= Skip(q)
  BY <1>2, <1>3 DEF Ordered, Asking
<1>8. /\ Reached(collected)' = Reached(collected)
      /\ Reached(collected \cup page)' = Reached(collected \cup page')
  BY <1>2 DEF Reached, Matching, Matches, NameMatches
<1>9. ASSUME NEW j \in page', NEW i \in collected
      PROVE  at[i] < at[j]
  <2>1. j \in M \ w[1] /\ w[2] \subseteq M
    BY <1>1, <1>4, <1>9 DEF First
  <2>2. Skip(q) <= Cardinality(Ahead(j, q))
    BY <1>3, <1>4, <1>6, <2>1, NotInFirst
  <2>3. CASE at[j] <= at[i]
    <3>1. Ahead(j, q) \cup {j} \subseteq Reached(collected)
      BY <1>5, <1>6, <2>1, <2>3 DEF Ahead, Before, Reached
    <3>2. j \notin Ahead(j, q)
      BY <1>5, <1>6, <2>1 DEF Ahead, Before
    <3>3. Cardinality(Ahead(j, q) \cup {j}) = Cardinality(Ahead(j, q)) + 1
      BY <1>3, <3>2, AheadFinite, FS_AddElement
    <3>4. /\ Cardinality(Ahead(j, q) \cup {j}) <= Cardinality(Reached(collected))
          /\ Cardinality(Reached(collected)) \in Nat
      BY <1>3, <3>1, ReachedFinite
    <3>5. Cardinality(Ahead(j, q)) \in Nat
      BY <1>3, AheadFinite
    <3> QED
      BY <1>3, <1>7, <2>2, <3>3, <3>4, <3>5
  <2> QED
    BY <1>5, <1>6, <2>1, <2>3
<1>10. /\ w[1] \subseteq M /\ w[2] \subseteq M /\ IsFiniteSet(w[1]) /\ IsFiniteSet(w[2])
       /\ Cardinality(w[1]) \in Nat /\ Cardinality(w[1]) <= Skip(q)
  <2>1. /\ w[1] \subseteq M /\ w[2] \subseteq M
        /\ Cardinality(w[1]) = IF Skip(q) < Cardinality(M) THEN Skip(q) ELSE Cardinality(M)
    BY <1>4 DEF First
  <2>2. IsFiniteSet(w[1]) /\ IsFiniteSet(w[2]) /\ Cardinality(w[1]) \in Nat /\ Cardinality(M) \in Nat
    BY <1>6, <2>1, FS_Subset, FS_CardinalityType
  <2> QED
    BY <1>3, <2>1, <2>2
<1>11. Cardinality(page') = Cardinality(w[2]) - Cardinality(w[1]) /\ Cardinality(page') \in Nat
  <2>1. w[2] \cap w[1] = w[1]
    BY <1>4
  <2>2. /\ IsFiniteSet(w[2] \ w[1])
        /\ Cardinality(w[2] \ w[1]) = Cardinality(w[2]) - Cardinality(w[2] \cap w[1])
    BY <1>10, FS_Difference
  <2>3. Cardinality(w[2] \ w[1]) \in Nat
    BY <2>2, FS_CardinalityType
  <2> QED
    BY <1>1, <2>1, <2>2, <2>3
<1>12. Cardinality(Reached(collected \cup page')) <= Skip(q) + Cardinality(page')
  <2>1. CASE page' = {}
    BY <1>3, <1>7, <1>11, <2>1, FS_EmptySet
  <2>2. CASE page' # {}
    <3>1. PICK k : k \in page'
      BY <2>2
    <3>2. \A j \in M, i \in w[2] : at[j] <= at[i] => j \in w[2]
      BY <1>4, <1>5, <1>6, <1>10 DEF First, Before
    <3>3. \A i \in collected : at[i] < at[k]
      BY <1>9, <3>1
    <3>4. k \in w[2]
      BY <1>1, <3>1
    <3>5. ASSUME NEW j \in Reached(collected \cup page')
          PROVE  j \in w[2]
      <4>1. PICK i \in collected \cup page' : at[j] <= at[i]
        BY <3>5 DEF Reached
      <4>2. j \in M /\ at[j] \in Nat /\ at[k] \in Nat
        BY <1>5, <1>6, <1>10, <3>4, <3>5 DEF Reached
      <4>3. CASE i \in page'
        BY <1>1, <3>2, <4>1, <4>2, <4>3
      <4>4. CASE i \in collected
        <5>1. at[j] <= at[k]
          BY <1>5, <3>3, <4>1, <4>2, <4>4
        <5> QED
          BY <3>2, <3>4, <4>2, <5>1
      <4> QED
        BY <4>3, <4>4
    <3>6. /\ Cardinality(Reached(collected \cup page')) <= Cardinality(w[2])
          /\ Cardinality(Reached(collected \cup page')) \in Nat /\ Cardinality(w[2]) \in Nat
      BY <1>10, <3>5, FS_Subset, FS_CardinalityType
    <3> QED
      BY <1>3, <1>10, <1>11, <3>6
  <2> QED
    BY <2>1, <2>2
<1> QED
  BY <1>2, <1>7, <1>8, <1>9, <1>12 DEF Ordered, Skip

\* The next page skips what was read, and no more.
LEMMA NextPageKeepsOrder ==
    ASSUME OrderInv, WholeInv', DistinctTimes, ~late, NextPage
    PROVE  Ordered'
<1> DEFINE q == [question EXCEPT !.skip = Skip(question) + question.limit]
<1>1. /\ pc = "answered" /\ error = "none" /\ FullPage
      /\ collected' = collected \cup answer /\ Ask(q)
      /\ UNCHANGED <<collection, page, got, begun, owed, late>>
  BY DEF NextPage
<1>2. /\ WholeInv /\ Ordered /\ question.kind = "object" /\ answer = page
      /\ question \in Question /\ question.limit \in Nat /\ Skip(question) \in Nat
      /\ Cardinality(page) = question.limit
  BY <1>1 DEF OrderInv, OrderBase, WholeInv, TypeOK, AnswerIsWhole, Skip, FullPage, Limited
<1>3. service' = service /\ stored' = stored /\ at' = at /\ page' = page
  BY <1>1 DEF collection
<1>4. CASE Refusal(q) = "none"
  <2>1. question' = q /\ pc' = "finding"
    BY <1>1, <1>2, <1>4 DEF Ask, Parsed, Question
  <2>2. /\ Skip(question') = Skip(question) + question.limit
        /\ question'.findAll = question.findAll
        /\ question'.domain = question.domain /\ question'.names = question.names
        /\ question'.name = question.name /\ question'.identityKey = question.identityKey
        /\ question'.sortOrder = question.sortOrder
    <3>1. NotGiven \notin Int
      BY InputsOK
    <3> QED
      BY <2>1, <1>2, <3>1 DEF Question, Skip
  <2>3. Matching(question)' = Matching(question)
    BY <2>2, <1>3 DEF Matching, Matches, NameMatches
  <2>4. Reached(collected)' = Reached(collected \cup page)
    BY <1>1, <1>2, <1>3, <2>3 DEF Reached
  <2>5. question.sortOrder = "asc" =>
           Cardinality(Reached(collected \cup page)) <= Skip(question) + question.limit
    BY <1>1, <1>2 DEF Ordered, PageKnown
  <2> QED
    BY <2>1, <2>2, <2>4, <2>5 DEF Ordered, PageKnown
<1>5. CASE Refusal(q) # "none"
  <2>1. pc' = "answered" /\ error' = Refusal(q)
    BY <1>1, <1>5 DEF Ask
  <2>2. error' \notin {"none", "errFind", "errCursor"}
    BY <2>1, <1>5 DEF Refusal, InvalidPagination
  <2> QED
    BY <2>1, <2>2 DEF Ordered, Asking, PageKnown
<1> QED
  BY <1>4, <1>5

LEMMA BaseInductive ==
    ASSUME OrderBase, [Next]_vars
    PROVE  OrderBase'
<1>1. WholeInv'
  BY WholeInductive DEF OrderBase
<1> USE DEF OrderBase
<1>2. ASSUME NEW i \in Ids, Store(i)
      PROVE  OrderBase'
  <2>1. PICK t \in Times : at' = [at EXCEPT ![i] = t] /\ stored' = stored \cup {i}
    BY <1>2 DEF Store
  <2>2. \A j \in stored' \cup collected \cup page : at'[j] > 0
    BY <2>1, Constants DEF WholeInv, TypeOK
  <2> QED
    BY <1>1, <1>2, <2>2 DEF Store
<1>3. ASSUME NEW i \in Ids, Delete(i)
      PROVE  OrderBase'
  BY <1>1, <1>3 DEF Delete
<1>4. ASSUME NEW q \in Questions, Start(q)
      PROVE  OrderBase'
  BY <1>1, <1>4 DEF Start, Ask, Parsed, Blank, BlankFor, collection
<1>5. CASE Find
  <2>1. page' \subseteq stored
    BY <1>5 DEF Find, Windows, First, Matching
  <2> QED
    BY <1>1, <1>5, <2>1 DEF Find, collection
<1>6. CASE FindFails \/ CursorNext \/ CursorEnd \/ CursorFails \/ Retry
  BY <1>1, <1>6 DEF FindFails, CursorNext, CursorEnd, CursorFails, Retry, collection
<1>7. CASE NextPage
  <2>1. answer = page
    BY <1>7 DEF NextPage, WholeInv, AnswerIsWhole
  <2>2. question'.kind = "object" /\ pc' # "idle"
    <3>1. question \in Question
      BY DEF WholeInv, TypeOK
    <3> QED
      BY <1>7, <3>1 DEF NextPage, Ask, Parsed, Blank, BlankFor, Question
  <2> QED
    BY <1>1, <1>7, <2>1, <2>2 DEF NextPage, collection
<1>8. CASE LastPage
  <2>1. answer = page
    BY <1>8 DEF LastPage, WholeInv, AnswerIsWhole
  <2> QED
    BY <1>1, <1>8, <2>1 DEF LastPage, collection
<1>9. CASE Stop
  BY <1>1, <1>9 DEF Stop, collection, Blank, BlankFor
<1>10. CASE UNCHANGED vars
  BY <1>1, <1>10 DEF vars, collection, client
<1> QED
  BY <1>2, <1>3, <1>4, <1>5, <1>6, <1>7, <1>8, <1>9, <1>10 DEF Next

LEMMA OrderInductive ==
    ASSUME OrderInv, [Next]_vars
    PROVE  OrderInv'
<1>1. OrderBase' /\ WholeInv' /\ OrderBase /\ WholeInv
  BY BaseInductive DEF OrderInv, OrderBase
<1> SUFFICES ASSUME DistinctTimes', ~late'
             PROVE  Ordered'
  BY <1>1 DEF OrderInv
<1>2. DistinctTimes
  BY <1>1, TimesStay DEF WholeInv
<1>3. Skip(question') \in Nat
  BY <1>1 DEF WholeInv, TypeOK, Skip
<1>4. CASE \E i \in Ids : Store(i)
  BY <1>1, <1>2, <1>4, StoreKeepsOrder
<1>5. CASE \E i \in Ids : Delete(i)
  <2>1. /\ stored' \subseteq stored /\ at' = at /\ late' = late
        /\ UNCHANGED <<service, pc, question, page, error, collected>>
    BY <1>5 DEF Delete
  <2>2. /\ Reached(collected)' \subseteq Reached(collected)
        /\ Reached(collected \cup page)' \subseteq Reached(collected \cup page)
    BY <2>1 DEF Reached, Matching, Matches, NameMatches
  <2> QED
    BY <1>1, <1>2, <2>1, <2>2, OrderKept DEF OrderInv, Asking, PageKnown
<1>6. CASE Stop \/ \E q \in Questions : Start(q)
  <2>1. collected' = {} /\ ~PageKnown'
    <3>1. CASE Stop
      BY <3>1 DEF Stop, PageKnown
    <3>2. CASE \E q \in Questions : Start(q)
      BY <1>1, <3>2 DEF Start, Ask, PageKnown, OrderBase
    <3> QED
      BY <1>6, <3>1, <3>2
  <2>2. Reached(collected)' = {} /\ Cardinality(Reached(collected)') = 0
    BY <2>1, FS_EmptySet DEF Reached
  <2> QED
    BY <1>3, <2>1, <2>2 DEF Ordered
<1>7. CASE Find
  BY <1>1, <1>2, <1>7, FindKeepsOrder DEF Find
<1>8. CASE NextPage
  BY <1>1, <1>2, <1>8, NextPageKeepsOrder DEF NextPage
<1>9. CASE LastPage
  BY <1>9 DEF LastPage, Ordered, Asking, PageKnown
<1>10. CASE FindFails \/ CursorNext \/ CursorEnd \/ CursorFails \/ Retry \/ UNCHANGED vars
  <2>1. /\ UNCHANGED <<collection, question, page, collected, late>>
        /\ Asking' => Asking
        /\ PageKnown' => PageKnown
    BY <1>1, <1>10 DEF FindFails, CursorNext, CursorEnd, CursorFails, Retry, vars, client,
                       Asking, PageKnown, OrderBase, WholeInv
  <2>2. /\ Reached(collected)' = Reached(collected)
        /\ Reached(collected \cup page)' = Reached(collected \cup page)
    BY <2>1 DEF collection, Reached, Matching, Matches, NameMatches
  <2> QED
    BY <1>1, <1>2, <2>1, <2>2, OrderKept DEF OrderInv, collection
<1> QED
  BY <1>4, <1>5, <1>6, <1>7, <1>8, <1>9, <1>10 DEF Next

\* For any limit, skip and filter, oldest first: no record is in two pages, and a later
\* page holds later records, whatever is deleted meanwhile and however often a page
\* fails, as long as createdAt is unique and no clock lags.
THEOREM PagesAreInOrder == Spec => []PagesInOrder
<1>1. Init => OrderInv
  <2>1. Init => WholeInv
    BY InitWhole
  <2>2. Init => /\ stored = {} /\ collected = {} /\ page = {} /\ pc = "idle"
                /\ question.kind = "object"
    BY DEF Init, Blank, BlankFor
  <2> QED
    BY <2>1, <2>2 DEF OrderInv, OrderBase, Ordered, Asking, PageKnown
<1>2. OrderInv /\ [Next]_vars => OrderInv'
  BY OrderInductive
<1>3. OrderInv => PagesInOrder
  BY DEF OrderInv, Ordered, PageKnown, PagesInOrder
<1> QED
  BY <1>1, <1>2, <1>3, PTL DEF Spec
=============================================================================
