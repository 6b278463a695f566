------------------------------ MODULE SpendLife ------------------------------
(***************************************************************************)
(* What the wallet promises about one spend, whoever works on it and        *)
(* wherever a process dies:                                                 *)
(*                                                                         *)
(*   free -> review -> signed -> sent -> included                          *)
(*                                                                         *)
(* with a way back only before the signature, and a journal that never      *)
(* says more than is true: it calls a spend cancelled only while nothing is *)
(* signed, signed only over a signature, concluded only once a block has it;*)
(* nothing is signed without a waiting row, nothing sent before the row     *)
(* knows the signature, and what the journal said of a signature or of a    *)
(* block it never takes back.                                               *)
(***************************************************************************)
CONSTANT Ids
VARIABLES life, says

Lives == {"free", "review", "signed", "sent", "included"}
Words == {"nothing", "waiting", "cancelled", "signed", "concluded"}

LifeTypeOK == life \in [Ids -> Lives] /\ says \in [Ids -> Words]

Init == life = [i \in Ids |-> "free"] /\ says = [i \in Ids |-> "nothing"]

Becomes(i, l) == life' = [life EXCEPT ![i] = l] /\ UNCHANGED says
Says(i, w)    == says' = [says EXCEPT ![i] = w] /\ UNCHANGED life

Claim(i)   == life[i] = "free" /\ Becomes(i, "review")
Release(i) == life[i] = "review" /\ Becomes(i, "free")
Sign(i)    == life[i] = "review" /\ says[i] = "waiting" /\ Becomes(i, "signed")
Send(i)    == life[i] = "signed" /\ says[i] = "signed" /\ Becomes(i, "sent")
Include(i) == life[i] = "sent" /\ Becomes(i, "included")

Unsaid == {"nothing", "waiting", "cancelled"}
Journal(i)  == life[i] = "review" /\ says[i] \in Unsaid /\ Says(i, "waiting")
Erase(i)    == life[i] = "review" /\ says[i] \in Unsaid /\ Says(i, "nothing")
Cancel(i)   == life[i] \in {"free", "review"} /\ says[i] \in Unsaid /\ Says(i, "cancelled")
Notice(i)   == life[i] \in {"signed", "sent", "included"} /\ says[i] = "waiting" /\ Says(i, "signed")
Conclude(i) == life[i] = "included" /\ says[i] = "signed" /\ Says(i, "concluded")

Next == \E i \in Ids : \/ Claim(i) \/ Release(i) \/ Sign(i) \/ Send(i) \/ Include(i)
                       \/ Journal(i) \/ Erase(i) \/ Cancel(i) \/ Notice(i) \/ Conclude(i)

Spec == Init /\ [][Next]_<<life, says>>
=============================================================================
