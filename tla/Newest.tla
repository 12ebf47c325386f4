-------------------------------- MODULE Newest --------------------------------
(***************************************************************************)
(* What everything that asks again before it was answered promises: asked    *)
(* counts the requests made, shown is the request whose answer is shown, 0    *)
(* for none.  Answers may come in any order or never; what comes to be shown *)
(* is the answer of the newest request, and nothing once it is closed.  The  *)
(* first request may be made in creating it.                                *)
(***************************************************************************)
EXTENDS Naturals

VARIABLES asked, shown, closed

NewestInit == asked \in {0, 1} /\ shown = 0 /\ closed = FALSE

\* Asking may clear what is shown, and may be answered at once.
Ask == ~closed /\ asked' = asked + 1 /\ shown' \in {0, shown, asked'} /\ UNCHANGED closed

Show == ~closed /\ shown' = asked /\ UNCHANGED <<asked, closed>>

Close == closed' = TRUE /\ UNCHANGED <<asked, shown>>

NewestNext == Ask \/ Show \/ Close

NewestSpec == NewestInit /\ [][NewestNext]_<<asked, shown, closed>>
=============================================================================
