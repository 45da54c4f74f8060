----------------------------- MODULE MCProgram -----------------------------
(* Databases, options and statuses for checking Program with TLC.          *)
EXTENDS Program, TLC

CONSTANTS p1, p2, c1, jls, ghost

MCDaemons == {[uid |-> 0, gid |-> 0], [uid |-> 1, gid |-> 2]}

MCUsers == jls :> 1
MCGroups == jls :> 1

Offer(option, value) == [option |-> option, value |-> value, sized |-> TRUE]

(* One value for an option the others do not touch; what may be found and   *)
(* what is not for the ids; every way nice() may go; a size that is wrong.  *)
MCOffers ==
  {Offer("COMMAND", c1), Offer("NUMPROCS", 0), Offer("NUMPROCS", 2), Offer("UID", 1),
   Offer("USER", jls), Offer("USER", ghost), Offer("GID", 1), Offer("GROUP", jls),
   Offer("NICE", -1), Offer("NICE", 5), Offer("IONICE", -5), Offer("LIMIT_FILES", 1),
   [option |-> "NUMPROCS", value |-> 1, sized |-> FALSE]}

OneStatus == {[signaled |-> FALSE, value |-> 1]}
=============================================================================
