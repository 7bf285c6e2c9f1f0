---------------------------- MODULE SessionContract ----------------------------
(***************************************************************************)
(* What the session table promises, without tasks, locks or clocks.        *)
(*                                                                         *)
(* A client's session is absent, live (a connection serves it) or detached *)
(* (it waits for its client).  A session carries at most one will, that of *)
(* the connection attached last.  Only a detached session can lose         *)
(* anything to the timer: first its will, which is then published, and     *)
(* later itself.                                                           *)
(***************************************************************************)
EXTENDS Naturals

CONSTANTS Clients, Conns, Null

VARIABLES
  session,  \* session[c]: "absent", "live" or "detached"
  will,     \* will[c]: the connection whose will the session holds, or Null
  sent      \* connections whose will has been published

vars == <<session, will, sent>>

TypeOK ==
  /\ session \in [Clients -> {"absent", "live", "detached"}]
  /\ will \in [Clients -> Conns \union {Null}]
  /\ sent \subseteq Conns

Init ==
  /\ session = [c \in Clients |-> "absent"]
  /\ will = [c \in Clients |-> Null]
  /\ sent = {}

\* Connection k attaches to the session of c, new or resumed.  The will that
\* was there is replaced, published or not.
Attach(k, c) ==
  /\ k \notin sent
  /\ \A d \in Clients : will[d] # k
  /\ session' = [session EXCEPT ![c] = "live"]
  /\ \E w \in {k, Null} : will' = [will EXCEPT ![c] = w]
  /\ UNCHANGED sent

Detach(c) ==
  /\ session[c] = "live"
  /\ session' = [session EXCEPT ![c] = "detached"]
  /\ UNCHANGED <<will, sent>>

\* The timer publishes the wills of W and ends the sessions of E.
Sweep(W, E) ==
  /\ \A c \in W : session[c] = "detached" /\ will[c] # Null
  /\ \A c \in E : session[c] = "detached" /\ (will[c] # Null => c \in W)
  /\ sent' = sent \union {will[c] : c \in W}
  /\ will' = [c \in Clients |-> IF c \in W THEN Null ELSE will[c]]
  /\ session' = [c \in Clients |-> IF c \in E THEN "absent" ELSE session[c]]

Next ==
  \/ \E k \in Conns, c \in Clients : Attach(k, c)
  \/ \E c \in Clients : Detach(c)
  \/ \E W, E \in SUBSET Clients : Sweep(W, E)

Spec == Init /\ [][Next]_vars
=============================================================================
