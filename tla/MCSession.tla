----------------------------- MODULE MCSession -----------------------------
(* Instances of Session for TLC.                                           *)
EXTENDS Session, TLC

\* Requests and clients are interchangeable, session IDs and roles too.
Symmetry == Permutations(Request) \cup Permutations(Client)
              \cup Permutations(SessionID) \cup Permutations(Role)
============================================================================
