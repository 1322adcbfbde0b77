------------------------------ MODULE Session ------------------------------
(***************************************************************************)
(* A session of a user: Session (LTE/session.py), or Ebs (LTE/ebs.py),     *)
(* which only counts.  An event is a record with evt, its id, rc, the      *)
(* value of its result parameter ("none" if it has none), and t, its time. *)
(* Session.toString and the statistics of times are left out.              *)
(***************************************************************************)
EXTENDS InterestingEvents, Integers, Sequences

\* The number 0, which is no string.
IntZero == "int 0"

NewSession ==
    [evts |-> <<>>, lastEvt |-> 0, opener |-> -1, closer |-> -1,
     ended |-> FALSE, suspect |-> TRUE, failed |-> FALSE, ho |-> FALSE,
     errorCode |-> IntZero]

\* rcInfo's parameter is in vals, and is not noerror.
InError(e) == e.evt \in isCloser /\ e.rc \notin {"none", noerror}

\* Mutant of AddEvt: an ender always becomes the closer.
AddEvtEnder(s, e) ==
    LET ender == e.evt \in isEnder
    IN  [evts |-> Append(s.evts, e),
         lastEvt |-> e.t,
         opener |-> IF e.evt \in isStarter THEN e.evt ELSE s.opener,
         closer |-> IF InError(e) \/ ender THEN e.evt ELSE s.closer,
         ended |-> s.ended \/ ender \/ InError(e),
         suspect |-> s.suspect /\ ~ender /\ ~InError(e),
         failed |-> s.failed \/ InError(e),
         ho |-> s.ho \/ e.evt \in isHo,
         errorCode |-> IF InError(e) /\ s.errorCode = noerror THEN e.rc ELSE s.errorCode]

\* Session.addEvt.  errorCode starts as a number, which is not the string
\* noerror, so no error is ever captured in it.
AddEvt(s, e) ==
    LET ender == e.evt \in isEnder
    IN  [evts |-> Append(s.evts, e),
         lastEvt |-> e.t,
         opener |-> IF e.evt \in isStarter THEN e.evt ELSE s.opener,
         closer |-> IF InError(e) \/ (ender /\ ~s.ended) THEN e.evt ELSE s.closer,
         ended |-> s.ended \/ ender \/ InError(e),
         suspect |-> s.suspect /\ ~ender /\ ~InError(e),
         failed |-> s.failed \/ InError(e),
         ho |-> s.ho \/ e.evt \in isHo,
         errorCode |-> IF InError(e) /\ s.errorCode = noerror THEN e.rc ELSE s.errorCode]

\* Ebs: always ended, never failed, a count per event.
NewEbs == [NewSession EXCEPT !.ended = TRUE, !.suspect = FALSE]

EbsAddEvt(s, e) == [s EXCEPT !.evts = Append(@, e)]
=============================================================================
