------------------------------- MODULE MCChat -------------------------------
(* Instances of Chat for TLC. *)
EXTENDS Chat, TLC

OneOwner == [i \in Items |-> "a"]

\* All mail is the company's.
Companies == [e \in Mail |-> "asked"]

Plain == [quantitative |-> FALSE, content |-> TRUE, insight |-> FALSE,
          explicit |-> FALSE, sourced |-> FALSE, template |-> "metric"]

\* "What did they say, with sources?" and "How many, and what did they say?"
Sourced == [Plain EXCEPT !.sourced = TRUE]
Wordings == {Sourced, [Plain EXCEPT !.quantitative = TRUE]}

Posted == {r \in Requests : requests[r] # Unsent}

\* Answered from more than the mail, or to be.
Rich(r) ==
  CASE requests[r].state \in {"unsent", "waiting", "planning"} -> FALSE
    [] requests[r].state = "over" ->
         requests[r].response # None /\ requests[r].response.route # "content"
    [] OTHER -> requests[r].plan.tools # {"R"}

MailMoves == eligible # {} \/ index # {}
InsightsMove == insightVars # <<[a \in Applications |-> Absent], [i \in Items |-> Absent],
                                 {}, type, Absent, [g \in Generators |-> Ready]>>

\* The request is the first of its conversation, with the first wording.
Opening(r) == requests[r].given = None /\ requests[r].question = Sourced

AsksInsight(r) ==
  /\ requests[r].state \in {"waiting", "planning", "browsing", "answering"}
  /\ requests[r].state \in {"browsing", "answering"} => "I" \in requests[r].plan.tools

\* Two requests meet while the mail and the insights have not changed, and are
\* answered from the mail only.  The mail and the insights change in different
\* behaviours, with one request, and the insights between generations.
Bounded ==
  /\ MailMoves \/ InsightsMove \/ (\E r \in Requests : Rich(r)) =>
       /\ Cardinality(Posted) <= 1
       /\ MailMoves \/ InsightsMove => \A r \in Posted : Opening(r)
  /\ InsightsMove =>
       /\ ~MailMoves
       /\ Posted # {} => bodies = {} /\ \A g \in Generators : generating[g] = Ready
       /\ \A r \in Posted : AsksInsight(r)

RequestSymmetry == Permutations(Requests) \cup Permutations(Turns)
=============================================================================
