---------------------------- MODULE MCEmailSync ----------------------------
(* Instances of EmailSync for TLC. *)
EXTENDS EmailSync, TLC

Unlimited == [windowed |-> FALSE, scope |-> Messages, maxMessages |-> 0, maxPages |-> 0]

(* A trial run of a given number of pages *)
Trial(pages) == [Unlimited EXCEPT !.maxPages = pages]

(* The newest n messages *)
Newest(n) == [Unlimited EXCEPT !.windowed = TRUE, !.maxMessages = n]

(* since_date / before_date: only some messages are listed *)
Dated(scope) == [Unlimited EXCEPT !.windowed = TRUE, !.scope = scope]

UndatedOptions == {Unlimited, Trial(1), Trial(2), Newest(2)}

DatedOptions == {Unlimited, Trial(1), Dated({1, 2}), Dated({3})}

LiveOptions == {Unlimited, Trial(1), Newest(2)}
=============================================================================
