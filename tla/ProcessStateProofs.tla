------------------------- MODULE ProcessStateProofs -------------------------
(***************************************************************************)
(* What the functions of ProcessState make of a record: the lemmas the     *)
(* proofs about Supervisor and Program share.                              *)
(***************************************************************************)
EXTENDS ProcessState, TLAPS

(* pn_proc_move_state assigns the state it is given and keeps the pid; what *)
(* it does to the flap count leaves a natural number.                       *)
LEMMA MoveState ==
  ASSUME NEW p \in Process, NEW to \in ProcessStates
  PROVE  /\ pn_proc_move_state(p, to) \in Process
         /\ pn_proc_move_state(p, to).state = to
         /\ pn_proc_move_state(p, to).pid = p.pid
         /\ pn_proc_move_state(p, to).flap_count = FlapCount(p, to)
<1>1. FlapCount(p, to) \in Nat
  BY DEF FlapCount, Process
<1> DEFINE counted == [p EXCEPT !.flap_count = FlapCount(p, to)]
           nested  == IF Flapping(p, to) THEN [counted EXCEPT !.state = "backoff"]
                                         ELSE counted
<1>2. /\ nested \in Process /\ nested.pid = p.pid
      /\ nested.flap_count = FlapCount(p, to)
  BY <1>1 DEF Process, ProcessStates
<1>3. pn_proc_move_state(p, to) = [nested EXCEPT !.state = to]
  BY DEF pn_proc_move_state
<1> HIDE DEF nested
<1> QED
  BY <1>2, <1>3 DEF Process

(* pn_proc_exited stores how the child ended and moves to "exited".         *)
LEMMA Exited ==
  ASSUME NEW p \in Process, NEW status \in WaitStatus
  PROVE  /\ pn_proc_exited(p, status) \in Process
         /\ pn_proc_exited(p, status).state = "exited"
         /\ pn_proc_exited(p, status).pid = p.pid
         /\ pn_proc_exited(p, status).flap_count = FlapCount(p, "exited")
<1> DEFINE code == IF status.signaled THEN -1 ELSE status.value
           sig  == IF status.signaled THEN status.value ELSE 0
           q    == [p EXCEPT !.exit_status = code, !.exit_signal = sig]
<1>0. code \in Int /\ sig \in Int
  BY DEF WaitStatus
<1>1. /\ q \in Process /\ q.pid = p.pid
      /\ q.state = p.state /\ q.flap_count = p.flap_count
  <2> HIDE DEF code, sig
  <2> QED
    BY <1>0 DEF Process
<1>2. FlapCount(q, "exited") = FlapCount(p, "exited")
  BY <1>1 DEF FlapCount
<1>3. pn_proc_exited(p, status) = pn_proc_move_state(q, "exited")
  BY DEF pn_proc_exited
<1>4. "exited" \in ProcessStates
  BY DEF ProcessStates
<1> HIDE DEF q
<1> QED
  BY <1>1, <1>2, <1>3, <1>4, MoveState
=============================================================================
