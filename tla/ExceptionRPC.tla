----------------------------- MODULE ExceptionRPC -----------------------------
(***************************************************************************)
(* What the mach_exc exception RPC promises a faulting thread, without the *)
(* port queue, the pool of server threads or the reply message: the        *)
(* thread is suspended with its request, the request is answered exactly  *)
(* once (calling the catch_... routine exactly when the request is one     *)
(* mach_exc_server accepts), and only an answered thread is resumed.  It   *)
(* resumes with a thread state a catch_... routine supplied exactly when   *)
(* a state routine handled the request successfully.  MachExcServer        *)
(* implements it; see RefinesExceptionRPC there.                          *)
(***************************************************************************)
CONSTANTS
  Threads,         \* threads that may take exceptions
  Requests,        \* the requests they may send
  ValidRequests,   \* those a catch_... routine is called for
  StateRequests    \* those for a routine that returns a new thread state

VARIABLES
  tstate,     \* tstate[t]: "Running" or "Waiting"
  request,    \* request[t]: the request of t's last exception
  outcome,    \* outcome[t]: "None" until answered, then how it was answered
  called,     \* called[t]: catch_... calls made for it
  newState    \* newState[t]: t resumes with a state a catch_... routine set

vars == <<tstate, request, outcome, called, newState>>

\* How a request is answered: handled (KERN_SUCCESS), failed by the
\* routine, or rejected by the server without a call.
OutcomeValues == {"None", "Handled", "Failed", "Rejected"}

Init ==
  /\ tstate   = [t \in Threads |-> "Running"]
  /\ request  \in [Threads -> Requests]
  /\ outcome  = [t \in Threads |-> "None"]
  /\ called   = [t \in Threads |-> 0]
  /\ newState = [t \in Threads |-> FALSE]

Raise(t, r) ==
  /\ tstate[t] = "Running"
  /\ tstate'   = [tstate EXCEPT ![t] = "Waiting"]
  /\ request'  = [request EXCEPT ![t] = r]
  /\ called'   = [called EXCEPT ![t] = 0]
  /\ newState' = [newState EXCEPT ![t] = FALSE]
  /\ UNCHANGED outcome

Answer(t) ==
  /\ tstate[t] = "Waiting" /\ outcome[t] = "None"
  /\ \E o \in IF request[t] \in ValidRequests THEN {"Handled", "Failed"}
                                              ELSE {"Rejected"} :
       /\ outcome'  = [outcome EXCEPT ![t] = o]
       /\ newState' = [newState EXCEPT ![t] = o = "Handled" /\ request[t] \in StateRequests]
  /\ called' = [called EXCEPT ![t] = IF request[t] \in ValidRequests THEN 1 ELSE 0]
  /\ UNCHANGED <<tstate, request>>

Resume(t) ==
  /\ tstate[t] = "Waiting" /\ outcome[t] # "None"
  /\ tstate'  = [tstate EXCEPT ![t] = "Running"]
  /\ outcome' = [outcome EXCEPT ![t] = "None"]
  /\ UNCHANGED <<request, called, newState>>

Next ==
  \E t \in Threads : Answer(t) \/ Resume(t) \/ \E r \in Requests : Raise(t, r)

Spec == Init /\ [][Next]_vars /\ \A t \in Threads : WF_vars(Answer(t)) /\ WF_vars(Resume(t))
=============================================================================
