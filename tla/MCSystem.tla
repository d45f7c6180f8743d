------------------------------ MODULE MCSystem ------------------------------
(* Small instances of System for TLC. *)
EXTENDS System, SequencesExt

Symmetry == Permutations(User) \cup Permutations(Conn)

\* A database that earlier lives of the process left: everybody is registered
\* and befriended, with one chat of all.  One of them asked the other; it does
\* not matter which.
Befriended ==
  /\ registered = User
  /\ LET order == CHOOSE s \in SetToSeqs(User) : TRUE IN
       /\ friends = {[uid |-> order[1], fid |-> order[2], accepted |-> TRUE]}
       /\ chatlist = <<order>>
  /\ online = [u \in User |-> FALSE]
  /\ sessionid = [u \in User |-> NoSession]
  /\ messages = <<>>

ResumedInit ==
  /\ Befriended
  /\ up = FALSE
  /\ cstate = [c \in Conn |-> "absent"]
  /\ m_connections = [c \in Conn |-> 0]
  /\ m_next_sessionid = 1
  /\ task = Idle
  /\ authed = [c \in Conn |-> {}]
  /\ seen = [c \in Conn |-> {}]
  /\ listed = [c \in Conn |-> NoUser]
  /\ ClientInit

ResumedFair == ResumedInit /\ [][SystemNext]_sysVars /\ SystemFairness
=============================================================================
