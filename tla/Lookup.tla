------------------------------- MODULE Lookup -------------------------------
(***************************************************************************)
(* Answering a lookup question (pkg/shared/lookup_executor.go, lookup.go,   *)
(* storage.go and the FindRecord of pkg/ship and pkg/slap) while records    *)
(* come and go, and a client that reads a long answer page by page with     *)
(* limit and skip.                                                          *)
(*                                                                          *)
(* MongoDB sorts, skips and limits when the query is made; the cursor then  *)
(* hands out that page record by record and may fail at any of them.        *)
(***************************************************************************)
EXTENDS Integers, FiniteSets

CONSTANTS
    Ids,        (* outputs that may be recorded                             *)
    Domains, Names, Keys,   (* the contents of token fields                 *)
    FieldsOf,   (* the domain, name and identityKey in each output's token  *)
    Questions,  (* the questions the client starts with                     *)
    Times,      (* what a clock may show when a record is stored            *)
    NotGiven    (* the nil of an optional query field                       *)

(***************************************************************************)
(* What question.Query is as JSON.  "mistyped" is a JSON value that does    *)
(* not unmarshal into the query type: a number, an array, or an object with *)
(* a field of a wrong type.                                                 *)
(***************************************************************************)
Kinds == {"empty", "malformed", "findAll", "otherString", "null", "mistyped", "object"}

\* asks is question.Service; names is SHIPQuery.Topics, name is SLAPQuery.Service.
Question == [kind : Kinds, asks : {"ls_ship", "ls_slap", "ls_other"}, findAll : BOOLEAN \cup {NotGiven},
             domain : Domains \cup {NotGiven}, names : SUBSET Names,
             name : Names \cup {NotGiven}, identityKey : Keys \cup {NotGiven},
             limit : Int \cup {NotGiven}, skip : Int \cup {NotGiven},
             sortOrder : {"asc", "desc", "other", NotGiven}]

BlankFor(s) == [kind |-> "object", asks |-> s, findAll |-> NotGiven, domain |-> NotGiven,
                names |-> {}, name |-> NotGiven, identityKey |-> NotGiven,
                limit |-> NotGiven, skip |-> NotGiven, sortOrder |-> NotGiven]

ASSUME InputsOK ==
    /\ FieldsOf \in [Ids -> [domain : Domains, name : Names, identityKey : Keys]]
    /\ \A q \in Questions : q \in Question
    /\ Times \subseteq Nat \ {0}
    /\ NotGiven \notin Int /\ NotGiven \notin BOOLEAN

ASSUME Finite == IsFiniteSet(Ids)

VARIABLES
    service,    (* which of the two lookup services this is                 *)
    stored,     (* the records in the collection                            *)
    at,         (* createdAt of every record ever stored, 0 before          *)
    late,       (* history: was a record stored, while the client pages,    *)
                (* with a createdAt below that of an earlier one?           *)
    pc,         (* where the client's call is                               *)
    question,   (* the question being answered                              *)
    page,       (* the records the query selected                           *)
    got,        (* those the cursor has handed out                          *)
    answer,     (* the references returned to the client                    *)
    error,      (* or the error                                             *)
    collected,  (* the references of all pages so far                       *)
    begun,      (* was the query for the first page made?                   *)
    owed        (* history: what it would have returned without a limit;    *)
                (* nothing, once a record is deleted while the client pages *)

collection == <<service, stored, at>>
client     == <<pc, question, page, got, answer, error, collected, begun, owed, late>>
vars       == <<collection, client>>

\* A query without fields.
Blank == BlankFor(service)

Init ==
    /\ service \in {"ls_ship", "ls_slap"}
    /\ stored = {}
    /\ at = [i \in Ids |-> 0]
    /\ pc = "idle"
    /\ question = Blank
    /\ page = {} /\ got = {} /\ answer = {}
    /\ error = "none"
    /\ collected = {}
    /\ begun = FALSE /\ owed = {} /\ late = FALSE

-----------------------------------------------------------------------------
(* The collection.                                                          *)

\* StoreSHIPRecord: createdAt is what the clock of the storing process shows, to the
\* millisecond.  Two records may get the same, and when several processes store, or a
\* clock is set back, a later record may get a smaller one.
Store(i) ==
    /\ at[i] = 0
    /\ \E t \in Times :
         /\ at' = [at EXCEPT ![i] = t]
         /\ late' = (late \/ (begun /\ \E j \in Ids : t < at[j]))
    /\ stored' = stored \cup {i}
    /\ UNCHANGED <<service, pc, question, page, got, answer, error, collected, begun, owed>>

Delete(i) ==
    /\ i \in stored
    /\ stored' = stored \ {i}
    /\ owed' = {}
    /\ UNCHANGED <<service, at, pc, question, page, got, answer, error, collected, begun, late>>

-----------------------------------------------------------------------------
(* ExecuteLookup up to the query: what is refused, in the order of the code. *)

Negative(n) == n # NotGiven /\ n < 0

\* Fault: a negative skip is not refused.
InvalidPaginationNoSkip(q) ==
    IF Negative(q.limit) THEN "errQueryLimitInvalid"
    ELSE IF q.sortOrder = "other" THEN "errQuerySortOrderInvalid"
    ELSE "none"


\* ValidatePagination
InvalidPagination(q) ==
    IF Negative(q.limit) THEN "errQueryLimitInvalid"
    ELSE IF Negative(q.skip) THEN "errQuerySkipInvalid"
    ELSE IF q.sortOrder = "other" THEN "errQuerySortOrderInvalid"
    ELSE "none"

Refusal(q) ==
    IF q.kind = "empty" THEN "errValidQueryMustBeProvided"
    ELSE IF q.asks # service THEN "errLookupServiceNotSupported"
    ELSE IF q.kind = "malformed" THEN "errParseQuery"
    ELSE IF q.kind = "otherString" THEN "errInvalidStringQuery"
    ELSE IF q.kind = "mistyped" THEN "errUnmarshalQuery"
    ELSE IF q.kind = "object" THEN InvalidPagination(q)
    ELSE "none"

\* "findAll" asks for all records, and null unmarshals into a query without fields.
Parsed(q) == IF q.kind = "object" THEN q ELSE Blank

-----------------------------------------------------------------------------
(* The query: FindAll, or FindRecord with its filters.                      *)

\* Each protocol has its own field for the fourth token field and ignores the other's.
NameMatches(n, q) ==
    IF service = "ls_ship" THEN q.names # {} => n \in q.names
    ELSE q.name # NotGiven => n = q.name

Matches(i, q) ==
    \/ q.findAll = TRUE
    \/ /\ q.domain # NotGiven => FieldsOf[i].domain = q.domain
       /\ NameMatches(FieldsOf[i].name, q)
       /\ q.identityKey # NotGiven => FieldsOf[i].identityKey = q.identityKey

Matching(q) == {i \in stored : Matches(i, q)}

\* Fault: the sort order of the query is not passed on.
AlwaysNewestFirst(i, j, q) == at[i] > at[j]


\* The sort: descending by createdAt unless ascending is asked for.
Before(i, j, q) == IF q.sortOrder = "asc" THEN at[i] < at[j] ELSE at[i] > at[j]

\* The first n of M in that order; records with the same createdAt in any order.
First(n, M, q) ==
    {F \in SUBSET M :
        /\ Cardinality(F) = IF n < Cardinality(M) THEN n ELSE Cardinality(M)
        /\ \A i \in F, j \in M \ F : ~Before(j, i, q)}

\* ApplyPaginationOpts: only a positive skip or limit is set.
Skip(q) == IF q.skip # NotGiven /\ q.skip > 0 THEN q.skip ELSE 0

Limited(q) == q.limit # NotGiven /\ q.limit > 0

\* Fault: the limit counts the skipped records too.
LimitBeforeSkip(M, q) ==
    {w \in First(Skip(q), M, q) \X (IF Limited(q) THEN First(q.limit, M, q) ELSE {M}) :
        w[1] \subseteq w[2]}


\* The skipped records and those up to the end of the page.
Windows(M, q) ==
    {w \in First(Skip(q), M, q)
           \X (IF Limited(q) THEN First(Skip(q) + q.limit, M, q) ELSE {M}) :
        w[1] \subseteq w[2]}

-----------------------------------------------------------------------------
(* A call of Lookup.                                                        *)

Ask(q) ==
    IF Refusal(q) = "none"
    THEN /\ question' = Parsed(q)
         /\ pc' = "finding"
         /\ UNCHANGED error
    ELSE /\ error' = Refusal(q)
         /\ pc' = "answered"
         /\ UNCHANGED question

Find ==
    /\ pc = "finding"
    /\ \E w \in Windows(Matching(question), question) :
         /\ page' = w[2] \ w[1]
         /\ owed' = IF begun THEN owed ELSE Matching(question) \ w[1]
    /\ begun' = TRUE
    /\ got' = {}
    /\ pc' = "reading"
    /\ UNCHANGED <<collection, question, answer, error, collected, late>>

FindFails ==
    /\ pc = "finding"
    /\ error' = "errFind"
    /\ pc' = "answered"
    /\ UNCHANGED <<collection, question, page, got, answer, collected, begun, owed, late>>

CursorNext ==
    /\ pc = "reading"
    /\ \E i \in page \ got : got' = got \cup {i}
    /\ UNCHANGED <<collection, pc, question, page, answer, error, collected, begun, owed, late>>

CursorEnd ==
    /\ pc = "reading"
    /\ got = page
    /\ answer' = got
    /\ pc' = "answered"
    /\ UNCHANGED <<collection, question, page, got, error, collected, begun, owed, late>>

\* Fault: cursor.Err is not asked for, so a broken cursor looks like the end.
CursorFailsUnseen ==
    /\ pc = "reading"
    /\ answer' = got
    /\ pc' = "answered"
    /\ UNCHANGED <<collection, question, page, got, error, collected, begun, owed, late>>


\* A record does not decode, or the cursor breaks: what was read is dropped.
CursorFails ==
    /\ pc = "reading"
    /\ error' = "errCursor"
    /\ pc' = "answered"
    /\ UNCHANGED <<collection, question, page, got, answer, collected, begun, owed, late>>

-----------------------------------------------------------------------------
(* The client: it asks for page after page until one is short, asks again   *)
(* when an answer failed, and may give up.                                  *)

Start(q) ==
    /\ pc = "idle"
    /\ Ask(q)
    /\ UNCHANGED <<collection, page, got, answer, collected, begun, owed, late>>

FullPage == Limited(question) /\ Cardinality(answer) = question.limit

NextPage ==
    /\ pc = "answered" /\ error = "none"
    /\ FullPage
    /\ collected' = collected \cup answer
    /\ answer' = {}
    /\ Ask([question EXCEPT !.skip = Skip(question) + question.limit])
    /\ UNCHANGED <<collection, page, got, begun, owed, late>>

LastPage ==
    /\ pc = "answered" /\ error = "none"
    /\ ~FullPage
    /\ collected' = collected \cup answer
    /\ pc' = "done"
    /\ UNCHANGED <<collection, question, page, got, answer, error, begun, owed, late>>

Retry ==
    /\ pc = "answered" /\ error \in {"errFind", "errCursor"}
    /\ error' = "none"
    /\ pc' = "finding"
    /\ UNCHANGED <<collection, question, page, got, answer, collected, begun, owed, late>>

Stop ==
    /\ pc = "done" \/ error # "none"
    /\ pc' = "idle"
    /\ question' = Blank
    /\ page' = {} /\ got' = {} /\ answer' = {}
    /\ error' = "none"
    /\ collected' = {}
    /\ begun' = FALSE /\ owed' = {} /\ late' = FALSE
    /\ UNCHANGED collection

-----------------------------------------------------------------------------
Next ==
    \/ \E i \in Ids : Store(i) \/ Delete(i)
    \/ \E q \in Questions : Start(q)
    \/ Find \/ FindFails \/ CursorNext \/ CursorEnd \/ CursorFails
    \/ NextPage \/ LastPage \/ Retry \/ Stop

Spec == Init /\ [][Next]_vars

-----------------------------------------------------------------------------
(* Properties                                                               *)

Errors == {"none", "errValidQueryMustBeProvided", "errLookupServiceNotSupported",
           "errParseQuery", "errInvalidStringQuery", "errUnmarshalQuery",
           "errQueryLimitInvalid", "errQuerySkipInvalid", "errQuerySortOrderInvalid",
           "errFind", "errCursor"}

\* Types; no query reaches the storage with a negative number or an unknown sort order.
TypeOK ==
    /\ service \in {"ls_ship", "ls_slap"}
    /\ stored \in SUBSET Ids
    /\ at \in [Ids -> Nat]
    /\ pc \in {"idle", "finding", "reading", "answered", "done"}
    /\ question \in Question
    /\ question.limit \in Nat \cup {NotGiven}
    /\ question.skip \in Nat \cup {NotGiven}
    /\ question.sortOrder \in {"asc", "desc", NotGiven}
    /\ page \in SUBSET Ids /\ got \in SUBSET page
    /\ answer \in SUBSET Ids /\ collected \in SUBSET Ids
    /\ error \in Errors
    /\ begun \in BOOLEAN /\ owed \in SUBSET Ids /\ late \in BOOLEAN

\* An answer is the whole page the query selected: a cursor that fails midway
\* yields an error and no references, never a short page that the client would
\* take for the last one.
AnswerIsWhole ==
    pc = "answered" => answer = IF error = "none" THEN page ELSE {}

DistinctTimes == \A i, j \in Ids : at[i] # 0 /\ at[i] = at[j] => i = j

\* Reading page by page misses nothing: every record that matched when the first
\* page was read, and was not skipped, is in some page, although records are
\* inserted between the pages, with any createdAt, and failed pages are asked for
\* again.  It takes that nothing is deleted meanwhile and that no two records have the
\* same createdAt.
NothingMissed == pc = "done" /\ DistinctTimes => owed \subseteq collected

\* Oldest first, no record is in two pages and a later page holds later records,
\* deletions or not.  It takes that createdAt is unique and that no clock lags: a record
\* stored with an earlier createdAt pushes one already read onto the next page.
PagesInOrder ==
    question.sortOrder = "asc" /\ pc \in {"reading", "answered"} /\ error = "none"
      /\ DistinctTimes /\ ~late =>
        \A i \in collected, j \in page : at[i] < at[j]
=============================================================================
