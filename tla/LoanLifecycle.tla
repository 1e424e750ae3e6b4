--------------------------- MODULE LoanLifecycle ---------------------------
(***************************************************************************)
(* What the loan book promises of the gold it keeps, without requests,     *)
(* instances or statuses: a pledge secures at most one running loan; no    *)
(* loan receives more principal than was lent on it (a rounding slack      *)
(* apart); and a loan stops running in one step, because its principal is  *)
(* paid, because it is given up, or because another loan takes over the    *)
(* pledge and at least the principal still owed.                           *)
(*                                                                         *)
(* A pledge is named after the loan it was first taken for.                *)
(***************************************************************************)
EXTENDS Integers

CONSTANTS Loans, None, Cap, Slack

VARIABLES
  booked,      \* loans booked so far
  holder,      \* per pledge: the loan running on it, or None
  lent,        \* per loan: the principal
  received     \* per loan: the principal received

vars == <<booked, holder, lent, received>>

Owed(l) == lent[l] - received[l]

Init ==
  /\ booked = {}
  /\ holder = [g \in Loans |-> None]
  /\ lent = [l \in Loans |-> 0]
  /\ received = [l \in Loans |-> 0]

\* A customer brings gold: loan l starts on a pledge of its own.
Book(l) ==
  /\ l \notin booked /\ holder[l] = None
  /\ booked' = booked \cup {l}
  /\ lent' = [lent EXCEPT ![l] = lent'[l]] /\ lent'[l] > 0
  /\ holder' = [holder EXCEPT ![l] = l]
  /\ UNCHANGED received

\* A loan of the past is entered: its pledge has been returned or sold.
Enter(l) ==
  /\ l \notin booked
  /\ booked' = booked \cup {l}
  /\ lent' = [lent EXCEPT ![l] = lent'[l]] /\ lent'[l] > 0
  /\ UNCHANGED <<holder, received>>

\* A repayment on l is recorded, corrected or taken back; the loan may end with
\* it, but only when its principal is paid.
Receive(l) ==
  /\ l \in booked
  /\ received' = [received EXCEPT ![l] = received'[l]]
  /\ received'[l] <= lent[l] + Slack
  /\ \/ holder' = holder
     \/ \E g \in Loans :
          /\ holder[g] = l /\ received'[l] >= lent[l]
          /\ holder' = [holder EXCEPT ![g] = None]
  /\ UNCHANGED <<booked, lent>>

\* The loan on pledge g is closed by decision of the staff.
GiveUp(g) ==
  /\ holder[g] # None
  /\ holder' = [holder EXCEPT ![g] = None]
  /\ UNCHANGED <<booked, lent, received>>

\* Loan n takes pledge g over from the loan that runs on it.
TakeOver(g, n) ==
  /\ holder[g] # None /\ n \notin booked
  /\ booked' = booked \cup {n}
  /\ holder' = [holder EXCEPT ![g] = n]
  /\ lent' = [lent EXCEPT ![n] = lent'[n]]
  /\ lent'[n] <= Cap /\ lent'[n] >= Owed(holder[g])
  /\ UNCHANGED received

Next ==
  \/ \E l \in Loans : Book(l) \/ Enter(l) \/ Receive(l) \/ GiveUp(l)
  \/ \E g, n \in Loans : TakeOver(g, n)

Spec == Init /\ [][Next]_vars
=============================================================================
