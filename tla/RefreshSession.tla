--------------------------- MODULE RefreshSession ---------------------------
(***************************************************************************)
(* What refresh tokens promise a user (docs/API_CONTRACT.md:121): a login  *)
(* starts a session, an open session has exactly one token that is worth   *)
(* anything, exchanging it replaces it by a newer one, and a session that  *)
(* was logged out never comes back.  A session is named by its first token.*)
(***************************************************************************)
EXTENDS Naturals

CONSTANT MaxTokens
VARIABLES
  current,      \* the good token of each open session, 0 for the others
  over          \* the sessions that were logged out

Sessions == 1 .. MaxTokens

Init == current = [s \in Sessions |-> 0] /\ over = {}

Login(s) ==
  /\ current[s] = 0 /\ s \notin over
  /\ current' = [current EXCEPT ![s] = s] /\ UNCHANGED over

Exchange(s) ==
  /\ current[s] # 0
  /\ UNCHANGED over
  /\ \E j \in Sessions : j > current[s] /\ current' = [current EXCEPT ![s] = j]

Logout(s) ==
  /\ current[s] # 0
  /\ over' = over \cup {s} /\ current' = [current EXCEPT ![s] = 0]

\* Every step gives some session another token, its first, or none.
Next == current' # current /\ \E s \in Sessions : Login(s) \/ Exchange(s) \/ Logout(s)

Spec == Init /\ [][Next]_<<current, over>>
=============================================================================
