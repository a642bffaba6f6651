------------------------------ MODULE MockResolve ------------------------------
(***************************************************************************)
(* The resolver of the Resolve page (mockResolve.ts).  A query is known by *)
(* what it starts with and contains; lower case throughout.                *)
(***************************************************************************)

\* address: forty or sixty-four hexadecimal digits; modulr: the name itself or
\* followed by a dot; at: an @ in front; dot: a dot anywhere; rest: empty but for
\* the @.
Query(text, address, modulr, at, dot, rest) ==
  [text |-> text, address |-> address, modulr |-> modulr, at |-> at, dot |-> dot, rest |-> rest]

EmptyQuery == Query("", FALSE, FALSE, FALSE, FALSE, FALSE)

\* kind of mockResolve(query).
ResolvedKind(q) ==
  CASE q = EmptyQuery  -> "empty"
    [] q.address       -> "reverse"
    [] q.modulr        -> "forward_modulr"
    [] q.at /\ ~ q.rest -> "empty"
    [] q.at            -> "forward_name"
    [] q.dot           -> "forward_org"
    [] OTHER           -> "forward_name"
================================================================================
