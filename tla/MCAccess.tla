------------------------------ MODULE MCAccess ------------------------------
(***************************************************************************)
(* Access with two administrators of the default tenant, the administrator *)
(* of another one, and somebody who has not registered yet.  Each kind of  *)
(* request is made by somebody who may and by somebody who may not, and    *)
(* twice where two of them can meet.                                       *)
(***************************************************************************)
EXTENDS Access

MCHome == [a1 |-> "main", a2 |-> "main", o1 |-> "acme", n1 |-> "none"]

Ask(op, u, on, to) == [op |-> op, user |-> u, on |-> on, to |-> to]

MCRequests ==
  {Ask("register", "n1", "n1", "none")}
  \cup {Ask("create", u, "new", "none") : u \in {"a1", "a2"}}
  \cup {Ask("status", u, "acme", to) : u \in {"a1", "o1"}, to \in {"active", "suspended", "deleted"}}
  \cup {Ask("update", "a2", s, "none") : s \in {"acme", "new"}}
  \cup {Ask("replace", "a1", u, {"member"}) : u \in {"a1", "a2", "o1"}}
  \cup {Ask("replace", "a2", "a1", {}), Ask("replace", "n1", "a1", {"member"}),
        Ask("replace", "a1", "n1", {"admin"}), Ask("replace", "a2", "n1", {"admin", "member"}),
        Ask("replace", "a2", "n1", {})}
  \cup {Ask(op, u, "none", "none") : op \in {"users", "matrix"}, u \in {"n1", "o1"}}
=============================================================================
