----------------------------- MODULE SqlStatement -----------------------------
(***************************************************************************)
(* What POST /api/sql (validateReadOnlySQL of handlers/sql.go) makes of    *)
(* the text of a query, which it scans and does not parse. The text is a   *)
(* sequence of tokens: a word (a run of ASCII letters, digits and          *)
(* underscores, in lower case: the code looks at it lower-cased), one mark *)
(* such as "'", "-" or "[", or one white-space character, where "return"   *)
(* stands for any other than a space, a newline or a tab. A word that a    *)
(* literal cuts in two is two words here. For this scanner the brackets    *)
(* and double quotes of T-SQL are marks like any other: a quote inside of  *)
(* them opens a literal, and a word inside of them may be a keyword.       *)
(***************************************************************************)
EXTENDS Integers, Sequences, FiniteSets, FiniteSetsExt, SequencesExt

WhiteSpace == {"space", "newline", "tab", "return"}
Marks == {"'", "doublequote", ";", "-", "*", "/", "(", ")", "[", "]", ",", ".", "=",
  "<", ">", "+", "%", "!", "@", "#", "$", ":", "&", "|", "^", "~", "?", "{", "}"}
CommentMarks == {<<"-", "-">>, <<"/", "*">>, <<"*", "/">>}

disallowedKeywords == {
  "insert", "update", "delete", "merge", "truncate", "drop", "alter", "create",
  "exec", "execute", "grant", "revoke"}

IsWord(tok) == tok \notin WhiteSpace \cup Marks

TrimSpace(s) ==
  LET solid == {k \in DOMAIN s : s[k] \notin WhiteSpace}
  IN  IF solid = {} THEN <<>> ELSE SubSeq(s, Min(solid), Max(solid))

-----------------------------------------------------------------------------
(* stripStringLiterals: one round of its loop. In a literal a doubled      *)
(* quote is looked ahead for and skipped, a single one ends the literal.   *)

Doubled(q, k) == k < Len(q) /\ q[k + 1] = "'"

Scanned(st, q, k) ==
  CASE st.skip -> [st EXCEPT !.skip = FALSE]
    [] ~st.skip /\ st.inString /\ q[k] # "'" -> st
    [] ~st.skip /\ st.inString /\ q[k] = "'" ->
         [st EXCEPT !.skip = Doubled(q, k), !.inString = Doubled(q, k)]
    [] ~st.skip /\ ~st.inString /\ q[k] = "'" -> [st EXCEPT !.inString = TRUE]
    [] ~st.skip /\ ~st.inString /\ q[k] # "'" -> [st EXCEPT !.out = Append(@, q[k])]

stripStringLiterals(q) ==
  LET scan[n \in 0..Len(q)] ==
        IF n = 0 THEN [inString |-> FALSE, skip |-> FALSE, out |-> <<>>]
        ELSE Scanned(scan[n - 1], q, n)
  IN  scan[Len(q)].out

-----------------------------------------------------------------------------
(* The checks on what is left.                                             *)

\* The word is the whole text, or a space, newline or tab follows it.
startsWithSelectOrWith(s) ==
  LET t == TrimSpace(s)
  IN  /\ t # <<>>
      /\ t[1] \in {"select", "with"}
      /\ Len(t) = 1 \/ t[2] \in {"space", "newline", "tab"}

\* \bword\b for one of the keywords.
HasDisallowedKeyword(s) ==
  \E k \in DOMAIN s :
    /\ s[k] \in disallowedKeywords
    /\ \A j \in {k - 1, k + 1} \cap DOMAIN s : ~IsWord(s[j])

HasComment(s) ==
  \E k \in DOMAIN s : k < Len(s) /\ <<s[k], s[k + 1]>> \in CommentMarks

\* In the order they are made, each with the code it answers.
Checks(query) ==
  LET q        == TrimSpace(query)
      stripped == stripStringLiterals(q)
  IN  << <<q = <<>>, "SQL_QUERY_REQUIRED">>,
         <<Contains(q, ";"), "SQL_MULTI_STATEMENT">>,
         <<HasComment(stripped), "SQL_COMMENTS_NOT_ALLOWED">>,
         <<~startsWithSelectOrWith(stripped), "SQL_NOT_READ_ONLY">>,
         <<HasDisallowedKeyword(stripped), "SQL_NOT_READ_ONLY">>,
         <<TRUE, "OK">> >>

validateReadOnlySQL(query) ==
  LET checks == Checks(query)
  IN  checks[Min({k \in DOMAIN checks : checks[k][1]})][2]

-----------------------------------------------------------------------------
(* Said without the scan, from where each token stands.                    *)

\* An odd number of quotes stands before the k-th token.
InLiteral(q, k) ==
  Cardinality({j \in 1..(k - 1) : q[j] = "'"}) % 2 = 1

\* s is the tokens of q outside its literals, in their order.
IsOutside(s, q) ==
  \E at \in [DOMAIN s -> DOMAIN q] :
    /\ Range(at) = {k \in DOMAIN q : q[k] # "'" /\ ~InLiteral(q, k)}
    /\ \A i, j \in DOMAIN s : i < j => at[i] < at[j]
    /\ \A i \in DOMAIN s : s[i] = q[at[i]]
=============================================================================
