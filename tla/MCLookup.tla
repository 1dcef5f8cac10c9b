------------------------------ MODULE MCLookup ------------------------------
(* Instances of Lookup.                                                     *)
EXTENDS Lookup, TLC

CONSTANTS i1, i2, i3

\* The third record differs from the others in every field.
Fields ==
    [i \in Ids |-> IF i = i3 THEN [domain |-> "d2", name |-> "n2", identityKey |-> "k2"]
                             ELSE [domain |-> "d1", name |-> "n1", identityKey |-> "k1"]]

\* Every kind of question, each filter, each refusal; pages of one and of two, in both
\* orders, one that skips and one that filters.
QuestionsFor(s) ==
    LET B == BlankFor(s) IN
    {[B EXCEPT !.kind = k] : k \in Kinds}
    \cup {[B EXCEPT !.domain = "d1", !.limit = 1],
          [B EXCEPT !.names = {"n1"}], [B EXCEPT !.name = "n1"],
          [B EXCEPT !.names = {"n1", "n2"}, !.name = "n2"],
          [B EXCEPT !.identityKey = "k2", !.sortOrder = "desc"],
          [B EXCEPT !.findAll = TRUE, !.domain = "d2", !.skip = 1],
          [B EXCEPT !.limit = -1], [B EXCEPT !.skip = -1],
          [B EXCEPT !.sortOrder = "other"], [B EXCEPT !.limit = 0]}
    \cup {[B EXCEPT !.limit = n, !.sortOrder = o] : n \in {1, 2}, o \in {"asc", "desc"}}
    \cup {[B EXCEPT !.limit = 1, !.skip = 1], [B EXCEPT !.limit = 2, !.names = {"n1"}, !.name = "n2"]}

\* A question for one service is also put to the other.
AllQuestions == QuestionsFor("ls_ship") \cup QuestionsFor("ls_slap") \cup {BlankFor("ls_other")}
=============================================================================
