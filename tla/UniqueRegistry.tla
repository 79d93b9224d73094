--------------------------- MODULE UniqueRegistry ---------------------------
(***************************************************************************)
(* What blind verifications promise an app.  In every period a user is     *)
(* granted at most one uid.  A request to register a uid is let in only if *)
(* the uid was granted for its period and has no account yet, and a request *)
(* that was let in enters one account, once.  Requests for one uid that are *)
(* let in together may so enter an account each.                            *)
(***************************************************************************)
CONSTANTS User, Account, Uid, Period, Request

VARIABLES
  seat,     \* seat[u][t]: the uid granted to a user in a period, if any
  open,     \* open[r]: the uid and period a request was let in with, if any
  taken,    \* the uids registered
  members   \* members[t]: the accounts the app lists as unique in a period

vars == <<seat, open, taken, members>>

Init ==
  /\ seat = [u \in User |-> [t \in Period |-> {}]]
  /\ open = [r \in Request |-> {}]
  /\ taken = {}
  /\ members = [t \in Period |-> {}]

Grant(u, t, x) ==
  /\ seat[u][t] = {}
  /\ seat' = [seat EXCEPT ![u][t] = {x}]
  /\ UNCHANGED <<open, taken, members>>

Admit(r, u, t, x) ==
  /\ open[r] = {}
  /\ x \in seat[u][t] \ taken
  /\ open' = [open EXCEPT ![r] = {<<x, t>>}]
  /\ UNCHANGED <<seat, taken, members>>

Register(r, t, x, a) ==
  /\ open[r] = {<<x, t>>}
  /\ open' = [open EXCEPT ![r] = {}]
  /\ taken' = taken \cup {x}
  /\ members' = [members EXCEPT ![t] = @ \cup {a}]
  /\ UNCHANGED seat

Next ==
  \E t \in Period, x \in Uid :
    \/ \E u \in User : Grant(u, t, x) \/ \E r \in Request : Admit(r, u, t, x)
    \/ \E r \in Request, a \in Account : Register(r, t, x, a)

Spec == Init /\ [][Next]_vars
=============================================================================
