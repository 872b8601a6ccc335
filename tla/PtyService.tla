----------------------------- MODULE PtyService -----------------------------
(***************************************************************************)
(* What libptytty promises its callers, without helper, socket or token    *)
(* (src/src/libptytty.h, struct ptytty): each client has at most one       *)
(* pseudo terminal at a time and that one is its own; its requests are     *)
(* performed in the order it made them, each once and at one instant,      *)
(* possibly after the call returned; a session, where it can be recorded,  *)
(* lasts from login until the pty is destroyed, or until all clients are   *)
(* gone.                                                                   *)
(***************************************************************************)
EXTENDS Sequences

CONSTANTS
  Clients,
  Lines,     \* pseudo terminals
  Nil        \* no pseudo terminal

VARIABLES
  pending,   \* each client's requests that are not performed yet
  have,      \* the line the service keeps for each client
  told,      \* the line a client was told is its own
  sessions,  \* the lines with a session record
  gone,      \* the clients that have ended
  places     \* the lines that have a place for such a record

workVars    == <<pending, have, told, sessions, gone>> \* what requests change
serviceVars == <<workVars, places>>

Requests == {"get", "login", "destroy"}

Init ==
  /\ pending  = [c \in Clients |-> <<>>]
  /\ have     = [c \in Clients |-> Nil]
  /\ told     = [c \in Clients |-> Nil]
  /\ sessions = {}
  /\ gone     = {}
  /\ places   \subseteq Lines

(* A client that asks for the destruction of its pty gives it up at once.  *)
Request(c, r) ==
  /\ c \notin gone
  /\ pending' = [pending EXCEPT ![c] = Append(@, r)]
  /\ told'    = IF r = "login" THEN told ELSE [told EXCEPT ![c] = Nil]
  /\ UNCHANGED <<have, sessions, gone>>

First(c, r) ==
  /\ pending[c] # <<>>
  /\ Head(pending[c]) = r
  /\ pending' = [pending EXCEPT ![c] = Tail(@)]
  /\ UNCHANGED <<told, gone>>

Release(c) ==
  /\ have'     = [have EXCEPT ![c] = Nil]
  /\ sessions' = sessions \ {have[c]}

(* get finds a line nobody else has, or fails.                             *)
PerformGet(c) ==
  /\ First(c, "get")
  /\ have[c] = Nil
  /\ \/ UNCHANGED have
     \/ \E l \in Lines \ {have[d] : d \in Clients} :
          have' = [have EXCEPT ![c] = l]
  /\ UNCHANGED sessions

PerformLogin(c) ==
  /\ First(c, "login")
  /\ sessions' = sessions \cup ({have[c]} \cap places)
  /\ UNCHANGED have

PerformDestroy(c) == First(c, "destroy") /\ Release(c)

Perform(c) == PerformGet(c) \/ PerformLogin(c) \/ PerformDestroy(c)

(* get returns true.                                                       *)
Tell(c) ==
  /\ c \notin gone
  /\ pending[c] = <<>>
  /\ told' = [told EXCEPT ![c] = have[c]]
  /\ UNCHANGED <<pending, have, sessions, gone>>

Leave(c) ==
  /\ gone' = gone \cup {c}
  /\ told' = [told EXCEPT ![c] = Nil]
  /\ UNCHANGED <<pending, have, sessions>>

(* The last client gone, what clients left behind is released.             *)
Reclaim(c) ==
  /\ gone = Clients
  /\ pending[c] = <<>>
  /\ Release(c)
  /\ UNCHANGED <<pending, told, gone>>

Next ==
  /\ \E c \in Clients :
       \/ \E r \in Requests : Request(c, r)
       \/ Perform(c) \/ Tell(c) \/ Leave(c) \/ Reclaim(c)
  /\ UNCHANGED places

Spec == Init /\ [][Next]_serviceVars

(* Every request is performed.                                             *)
FairSpec == Spec /\ \A c \in Clients : WF_workVars(Perform(c))

=============================================================================
