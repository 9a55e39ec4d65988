--------------------------- MODULE MailboxMirror ---------------------------
(***************************************************************************)
(* What metadata synchronisation promises: a local mirror of a mailbox and *)
(* a watermark.  The watermark is the point from which the next            *)
(* incremental sync asks for changes, so it may only move to a point up to *)
(* which the mirror is complete; whatever it passes is never asked for     *)
(* again.                                                                  *)
(***************************************************************************)
EXTENDS Integers

CONSTANT NoWatermark   \* no number: nothing is known to be complete

VARIABLES
    mailbox,    \* messages 1..mailbox have arrived
    mirror,     \* the messages stored locally
    watermark   \* NoWatermark, or where the next incremental sync starts

mirrorVars == <<mailbox, mirror, watermark>>

Init ==
    /\ mailbox \in Nat
    /\ mirror = {}
    /\ watermark = NoWatermark

Arrive == mailbox' = mailbox + 1 /\ UNCHANGED <<mirror, watermark>>

Copy ==
    /\ mirror' \in SUBSET (1 .. mailbox)
    /\ mirror \subseteq mirror'
    /\ UNCHANGED <<mailbox, watermark>>

Mark ==
    /\ watermark' \in 0 .. mailbox
    /\ 1 .. watermark' \subseteq mirror
    /\ UNCHANGED <<mailbox, mirror>>

(* Progress of the listing is lost and has to be made again. *)
Unmark ==
    /\ watermark' = NoWatermark
    /\ UNCHANGED <<mailbox, mirror>>

Next == Arrive \/ Copy \/ Mark \/ Unmark

Spec == Init /\ [][Next]_mirrorVars
=============================================================================
