---- MODULE MCApplicationTimeline ----
EXTENDS Metrics

CONSTANTS acme, t

R(mail, type, at, identity) == [mail |-> mail, type |-> type, at |-> at, identity |-> identity]

MCThread == [m \in Mail |-> t]
MCBatches == {{R(1, "applied", 1, acme)},
              {R(1, "applied", 1, acme), R(2, "interview_scheduled", 2, acme)},
              {R(2, "response", 2, Nobody)},
              {R(1, "other", 1, Nobody), R(2, "offer", 2, acme)}}
MCEdits == {[type |-> "response", at |-> 2, email |-> 2]}
MCSkills == [i \in Anyone |-> IF i = Nobody THEN {} ELSE {"rust", i}]
MCFilters == {[statuses |-> Statuses, identities |-> Anyone, from |-> 0, to |-> 9],
              [statuses |-> {"in_review", "interview", "ghosted"}, identities |-> {acme},
               from |-> 1, to |-> 1]}
====
