----------------------- MODULE MCCandidateRetention -----------------------
(* Instances of CandidateRetention for TLC. *)
EXTENDS CandidateRetention

(* Messages of a thread, with a signal or without and with a body or without; a    *)
(* signal outside the thread; and an excluded message although both speak for it    *)
MCKinds ==
    {k \in Mail : IF k.thread = NoThread THEN k.direct /\ k.available /\ ~k.excluded
                                         ELSE k.excluded => k.direct /\ k.available}
===========================================================================
