------------------------------ MODULE AuthGate ------------------------------
(***************************************************************************)
(* What an executor buys when it calls verifyInvocation: a gate that, in   *)
(* one atomic step, lets a genuine, authorised and unrevoked invocation    *)
(* through, and lets each invocation through once.                         *)
(*                                                                         *)
(* The gate owes an answer as of some moment of the call: the instant the  *)
(* time bounds are judged at lies within the call, and every revocation    *)
(* known when the call began is honoured; a revocation that arrives while  *)
(* the call runs may or may not be.                                        *)
(***************************************************************************)
EXTENDS Evidence

CONSTANTS
  Call,       \* calls to the gate
  Request,    \* the parameters a call may have
  NoNow,      \* options.now left undefined: the gate reads the clock
  Unasked     \* the request of a call not made yet

VARIABLES
  known,      \* the revocations published so far
  executed,   \* the invocations that will not be let through again
  clock,
  request,    \* the parameters of each call
  began,      \* known and clock as each call found them
  answer      \* of each call: "none", "accepted", "rejected"

vars == <<known, executed, clock, request, began, answer>>

Init ==
  /\ known = {} /\ executed = {} /\ clock = 0
  /\ request = [c \in Call |-> Unasked]
  /\ began = [c \in Call |-> [known |-> {}, clock |-> 0]]
  /\ answer = [c \in Call |-> "none"]

\* The instants a call may judge time bounds at.
Instants(q, start, end) == IF q.now = NoNow THEN start..end ELSE {q.now}

Ask(c) ==
  /\ request[c] = Unasked
  /\ \E q \in Request : request' = [request EXCEPT ![c] = q]
  /\ began' = [began EXCEPT ![c] = [known |-> known, clock |-> clock]]
  /\ UNCHANGED <<known, executed, clock, answer>>

\* A call that is refused without waiting for anything.
Refuse(c) ==
  /\ request[c] = Unasked
  /\ \E q \in Request : request' = [request EXCEPT ![c] = q]
  /\ began' = [began EXCEPT ![c] = [known |-> known, clock |-> clock]]
  /\ answer' = [answer EXCEPT ![c] = "rejected"]
  /\ UNCHANGED <<known, executed, clock>>

Deserved(q, b, end) ==
  /\ Genuine(q.inv, q.executor)
  /\ \E t \in Instants(q, b.clock, end) : AuthorizedAt(q.inv, t, q.leeway)
  /\ q.revoking => ~RevokedBy(q.inv, b.known)

Accept(c) ==
  /\ request[c] # Unasked /\ answer[c] = "none"
  /\ request[c].inv \notin executed
  /\ Deserved(request[c], began[c], clock)
  /\ executed' = executed \cup {request[c].inv}
  /\ answer' = [answer EXCEPT ![c] = "accepted"]
  /\ UNCHANGED <<known, clock, request, began>>

\* A rejection burns nothing ...
Reject(c) ==
  /\ request[c] # Unasked /\ answer[c] = "none"
  /\ answer' = [answer EXCEPT ![c] = "rejected"]
  /\ executed' = executed
  /\ UNCHANGED <<known, clock, request, began>>

\* ... unless the replay store fails after it has recorded a claim, which is
\* made for an invocation that deserves to be let through only.
Lose(c) ==
  /\ request[c] # Unasked /\ answer[c] = "none"
  /\ answer' = [answer EXCEPT ![c] = "rejected"]
  /\ Deserved(request[c], began[c], clock)
  /\ executed' = executed \cup {request[c].inv}
  /\ UNCHANGED <<known, clock, request, began>>

Publish(r) ==
  /\ known' = known \cup {r}
  /\ UNCHANGED <<executed, clock, request, began, answer>>

Tick == clock' = clock + 1 /\ UNCHANGED <<known, executed, request, began, answer>>

Next ==
  \/ \E c \in Call : Ask(c) \/ Refuse(c) \/ Accept(c) \/ Reject(c) \/ Lose(c)
  \/ \E r \in RevCid : Publish(r)
  \/ Tick

Spec == Init /\ [][Next]_vars
=============================================================================
